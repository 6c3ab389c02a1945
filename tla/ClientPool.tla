----------------------------- MODULE ClientPool -----------------------------
(***************************************************************************)
(* lab4/kv/clientpool.go: GrpcClientPool.GetClient, called by the client   *)
(* and by the servers from many threads.  It looks the node up under the   *)
(* read lock and, failing that, again under the write lock before it       *)
(* connects.  A client is the number of the connection it was made with.   *)
(***************************************************************************)
EXTENDS Integers, FiniteSets

CONSTANTS Threads,   \* threads that call GetClient
          Nodes,     \* node names
          Nobody,    \* no thread
          MaxConns   \* bound on the connections made

ASSUME ThreadsAssumption == Nobody \notin Threads
ASSUME ConnsAssumption == MaxConns \in Nat
ASSUME NodesAssumption == IsFiniteSet(Nodes)

Absent == 0

VARIABLES
    known,    \* keys of shardMap.Nodes()
    mutex,    \* pool.mutex
    clients,  \* pool.clients
    conns,    \* connections made so far
    pc, node, \* each thread: control point and argument of GetClient
    result    \* the client it got last; Absent: an error, or none yet

vars == <<known, mutex, clients, conns, pc, node, result>>

RW == INSTANCE RWMutex

TypeOK ==
    /\ known \in SUBSET Nodes
    /\ mutex \in RW!RWMutexType
    /\ clients \in [Nodes -> 0 .. MaxConns]
    /\ conns \in 0 .. MaxConns
    /\ pc \in [Threads -> {"idle", "rlock", "queued", "read", "lock", "announced", "dial"}]
    /\ node \in [Threads -> Nodes]
    /\ result \in [Threads -> 0 .. MaxConns]

Init ==
    /\ known \in SUBSET Nodes
    /\ mutex = RW!Unlocked
    /\ clients = [n \in Nodes |-> Absent]
    /\ conns = 0
    /\ pc = [t \in Threads |-> "idle"]
    /\ node \in [Threads -> Nodes]
    /\ result = [t \in Threads |-> Absent]

\* Another thread updates the shard map.
NodesChange ==
    /\ known' \in SUBSET Nodes
    /\ UNCHANGED <<mutex, clients, conns, pc, node, result>>

-----------------------------------------------------------------------------
Goto(t, label) == pc' = [pc EXCEPT ![t] = label]
Return(t, client) == Goto(t, "idle") /\ result' = [result EXCEPT ![t] = client]

Call(t) ==
    /\ pc[t] = "idle"
    /\ \E n \in Nodes : node' = [node EXCEPT ![t] = n]
    /\ Goto(t, "rlock")
    /\ UNCHANGED <<known, mutex, clients, conns, result>>

\* Mutant of RLock: the optimistic read takes no lock.
RLockSkipped(t) ==
    /\ pc[t] = "rlock"
    /\ Goto(t, "read")
    /\ UNCHANGED <<known, mutex, clients, conns, node, result>>

\* pool.mutex.RLock()
RLock(t) ==
    /\ pc[t] = "rlock"
    /\ RW!CanRLock(mutex)
    /\ mutex' = RW!RLock(mutex, t)
    /\ Goto(t, "read")
    /\ UNCHANGED <<known, clients, conns, node, result>>

RLockWait(t) ==
    /\ pc[t] = "rlock"
    /\ ~RW!CanRLock(mutex)
    /\ mutex' = RW!RLockQueue(mutex, t)
    /\ Goto(t, "queued")
    /\ UNCHANGED <<known, clients, conns, node, result>>

RLockWake(t) ==
    /\ pc[t] = "queued"
    /\ t \in mutex.readers
    /\ Goto(t, "read")
    /\ UNCHANGED <<known, mutex, clients, conns, node, result>>

\* The lookup, RUnlock(), and the return if the client is cached.
Lookup(t) ==
    /\ pc[t] = "read"
    /\ mutex' = RW!RUnlock(mutex, t)
    /\ \/ /\ clients[node[t]] = Absent
          /\ Goto(t, "lock")
          /\ UNCHANGED result
       \/ /\ clients[node[t]] # Absent
          /\ Return(t, clients[node[t]])
    /\ UNCHANGED <<known, clients, conns, node>>

\* pool.mutex.Lock()
LockAnnounce(t) ==
    /\ pc[t] = "lock"
    /\ RW!CanAnnounce(mutex)
    /\ mutex' = RW!Announce(mutex, t)
    /\ Goto(t, "announced")
    /\ UNCHANGED <<known, clients, conns, node, result>>

\* Mutant of Recheck: no second look at the cache.
RecheckSkipped(t) ==
    /\ pc[t] = "announced"
    /\ RW!HasLock(mutex, t)
    /\ \/ /\ node[t] \in known
          /\ Goto(t, "dial")
          /\ UNCHANGED <<mutex, result>>
       \/ /\ node[t] \notin known
          /\ Return(t, Absent)
          /\ mutex' = RW!Unlock(mutex)
    /\ UNCHANGED <<known, clients, conns, node>>

\* The second look at the cache, and at the shard map's nodes.
Recheck(t) ==
    /\ pc[t] = "announced"
    /\ RW!HasLock(mutex, t)
    /\ \/ /\ clients[node[t]] = Absent /\ node[t] \in known
          /\ Goto(t, "dial")
          /\ UNCHANGED <<mutex, result>>
       \/ /\ clients[node[t]] # Absent \/ node[t] \notin known
          /\ Return(t, clients[node[t]])
          /\ mutex' = RW!Unlock(mutex)
    /\ UNCHANGED <<known, clients, conns, node>>

\* Mutant of Connect: the new client is not stored.
ConnectUncached(t) ==
    /\ pc[t] = "dial"
    /\ conns < MaxConns
    /\ conns' = conns + 1
    /\ Return(t, conns + 1)
    /\ mutex' = RW!Unlock(mutex)
    /\ UNCHANGED <<known, clients, node>>

\* makeConnection succeeds.
Connect(t) ==
    /\ pc[t] = "dial"
    /\ conns < MaxConns
    /\ conns' = conns + 1
    /\ clients' = [clients EXCEPT ![node[t]] = conns + 1]
    /\ Return(t, conns + 1)
    /\ mutex' = RW!Unlock(mutex)
    /\ UNCHANGED <<known, node>>

\* Mutant of ConnectFails: the error path leaves the lock held.
ConnectFailsLocked(t) ==
    /\ pc[t] = "dial"
    /\ Return(t, Absent)
    /\ UNCHANGED <<known, mutex, clients, conns, node>>

ConnectFails(t) ==
    /\ pc[t] = "dial"
    /\ Return(t, Absent)
    /\ mutex' = RW!Unlock(mutex)
    /\ UNCHANGED <<known, clients, conns, node>>

-----------------------------------------------------------------------------
GetClient(t) ==
    \/ RLock(t) \/ RLockWait(t) \/ RLockWake(t) \/ Lookup(t)
    \/ LockAnnounce(t) \/ Recheck(t) \/ Connect(t) \/ ConnectFails(t)

Next == NodesChange \/ \E t \in Threads : Call(t) \/ GetClient(t)

Spec == Init /\ [][Next]_vars

\* A thread in GetClient runs on; threads that wait for the lock get it in
\* their order.
FairSpec ==
    Spec /\ \A t \in Threads : WF_vars(GetClient(t)) /\ SF_vars(LockAnnounce(t))

-----------------------------------------------------------------------------
(* Properties                                                              *)

\* "We may have lost a race and someone already created a client": of all the
\* threads that find no client for a node only one connects.  Every connection
\* ever made is the cached client of its node; none is made twice or leaked.
OneConnection ==
    /\ conns = Cardinality({n \in Nodes : clients[n] # Absent})
    /\ \A m, n \in Nodes : m # n /\ clients[m] # Absent => clients[m] # clients[n]

\* The cache is a plain Go map: nobody reads it while the thread that may write
\* it is past Lock().
NoMapRace ==
    \A t, u \in Threads :
        (pc[t] = "dial" \/ (pc[t] = "announced" /\ RW!HasLock(mutex, t))) =>
            pc[u] \notin {"read", "dial"} \/ u = t

\* Clients are cached by nodeName: every call that succeeded returned the client
\* that is cached now, so all callers share one client per node.
SameClient ==
    \A t \in Threads :
        pc[t] = "idle" /\ result[t] # Absent => result[t] = clients[node[t]]

Cache == INSTANCE ClientCache WITH called <- {t \in Threads : pc[t] # "idle"}

\* For its callers the pool with its two locks, two lookups and failing
\* connections is an atomic cache: each call takes effect at one moment, an error
\* means that there was no client then, and is forgotten.
ImplementsCache == Cache!Spec

\* GetClient returns, with a client or an error, whatever the other threads do.
CallReturns == \A t \in Threads : (pc[t] = "rlock") ~> (pc[t] = "idle")
=============================================================================

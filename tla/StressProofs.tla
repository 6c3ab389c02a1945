---------------------------- MODULE StressProofs ----------------------------
(***************************************************************************)
(* The stress tester's process and the checker it consults.  For any       *)
(* number of threads and nodes: GetClient makes one connection per node,   *)
(* nobody reads the map while it may be written, and for its callers the   *)
(* pool is an atomic cache.  For any number of requests: the tester's      *)
(* report is complete.  For any number of writers and readers, any TTL and *)
(* any buffer: what the checker concludes from version and rc is true of   *)
(* the actual history.                                                     *)
(***************************************************************************)
EXTENDS StressProcess, ConsistencyChecker, FiniteSetTheorems, TLAPS

-----------------------------------------------------------------------------
(* The client pool and the tester                                          *)

\* Who is inside the mutex, and as what.
MutexInv ==
    /\ \A t \in Threads :
        /\ pc[t] = "read" => t \in mutex.readers
        /\ pc[t] = "queued" => t \in mutex.queued \cup mutex.readers
        /\ t \in mutex.queued => pc[t] = "queued"
        /\ t \in mutex.readers => pc[t] \in {"read", "queued"}
        /\ pc[t] \in {"announced", "dial"} <=> mutex.writer = t
        /\ pc[t] = "dial" => mutex.readers = {}
    /\ mutex.queued \cap mutex.readers = {}

\* A thread connects only for a node without a client, and connections are
\* numbered in their order.
CacheInv ==
    /\ \A t \in Threads : pc[t] = "dial" => clients[node[t]] = Absent
    /\ \A n \in Nodes : clients[n] <= conns

Inv == TypeOK /\ MutexInv /\ CacheInv /\ OneConnection /\ SameClient

-----------------------------------------------------------------------------
(* Every step keeps the variables in their types. *)
LEMMA TypeStep == Inv /\ [Next]_vars => TypeOK'
<1> SUFFICES ASSUME Inv, [Next]_vars PROVE TypeOK'
  OBVIOUS
<1>0. TypeOK
  BY DEF Inv
<1> USE <1>0, ConnsAssumption, ThreadsAssumption
    DEF TypeOK, RW!RWMutexType, Absent
<1>1. CASE NodesChange
  BY <1>1 DEF NodesChange
<1>2. ASSUME NEW t \in Threads, Call(t) PROVE TypeOK'
  BY <1>2 DEF Call, Goto
<1>3. ASSUME NEW t \in Threads, RLock(t) PROVE TypeOK'
  BY <1>3 DEF RLock, Goto, RW!CanRLock, RW!RLock
<1>4. ASSUME NEW t \in Threads, RLockWait(t) PROVE TypeOK'
  BY <1>4 DEF RLockWait, Goto, RW!CanRLock, RW!RLockQueue
<1>5. ASSUME NEW t \in Threads, RLockWake(t) PROVE TypeOK'
  BY <1>5 DEF RLockWake, Goto
<1>6. ASSUME NEW t \in Threads, Lookup(t) PROVE TypeOK'
  BY <1>6 DEF Lookup, Goto, Return, RW!RUnlock
<1>7. ASSUME NEW t \in Threads, LockAnnounce(t) PROVE TypeOK'
  BY <1>7 DEF LockAnnounce, Goto, RW!CanAnnounce, RW!Announce
<1>8. ASSUME NEW t \in Threads, Recheck(t) PROVE TypeOK'
  BY <1>8 DEF Recheck, Goto, Return, RW!HasLock, RW!Unlock
<1>9. ASSUME NEW t \in Threads, Connect(t) PROVE TypeOK'
  BY <1>9 DEF Connect, Goto, Return, RW!Unlock
<1>10. ASSUME NEW t \in Threads, ConnectFails(t) PROVE TypeOK'
  BY <1>10 DEF ConnectFails, Goto, Return, RW!Unlock
<1>11. CASE UNCHANGED vars
  BY <1>11 DEF vars
<1>12. QED
  BY <1>1, <1>2, <1>3, <1>4, <1>5, <1>6, <1>7, <1>8, <1>9, <1>10, <1>11
  DEF Next, GetClient

(* GetClient pairs Lock with Unlock and RLock with RUnlock on every path. *)
LEMMA MutexStep == Inv /\ [Next]_vars => MutexInv'
<1> SUFFICES ASSUME Inv, [Next]_vars PROVE MutexInv'
  OBVIOUS
<1>0. TypeOK /\ MutexInv
  BY DEF Inv
<1> USE <1>0, ConnsAssumption, ThreadsAssumption
    DEF TypeOK, RW!RWMutexType, Absent, MutexInv
<1>1. CASE NodesChange
  BY <1>1 DEF NodesChange
<1>2. ASSUME NEW t \in Threads, Call(t) PROVE MutexInv'
  BY <1>2 DEF Call, Goto
<1>3. ASSUME NEW t \in Threads, RLock(t) PROVE MutexInv'
  BY <1>3 DEF RLock, Goto, RW!CanRLock, RW!RLock
<1>4. ASSUME NEW t \in Threads, RLockWait(t) PROVE MutexInv'
  BY <1>4 DEF RLockWait, Goto, RW!CanRLock, RW!RLockQueue
<1>5. ASSUME NEW t \in Threads, RLockWake(t) PROVE MutexInv'
  BY <1>5 DEF RLockWake, Goto
<1>6. ASSUME NEW t \in Threads, Lookup(t) PROVE MutexInv'
  BY <1>6 DEF Lookup, Goto, Return, RW!RUnlock
<1>7. ASSUME NEW t \in Threads, LockAnnounce(t) PROVE MutexInv'
  BY <1>7 DEF LockAnnounce, Goto, RW!CanAnnounce, RW!Announce
<1>8. ASSUME NEW t \in Threads, Recheck(t) PROVE MutexInv'
  BY <1>8 DEF Recheck, Goto, Return, RW!HasLock, RW!Unlock
<1>9. ASSUME NEW t \in Threads, Connect(t) PROVE MutexInv'
  BY <1>9 DEF Connect, Goto, Return, RW!Unlock
<1>10. ASSUME NEW t \in Threads, ConnectFails(t) PROVE MutexInv'
  BY <1>10 DEF ConnectFails, Goto, Return, RW!Unlock
<1>11. CASE UNCHANGED vars
  BY <1>11 DEF vars
<1>12. QED
  BY <1>1, <1>2, <1>3, <1>4, <1>5, <1>6, <1>7, <1>8, <1>9, <1>10, <1>11
  DEF Next, GetClient

(* Between the second look and the insertion nobody else inserts. *)
LEMMA CacheStep == Inv /\ [Next]_vars => CacheInv'
<1> SUFFICES ASSUME Inv, [Next]_vars PROVE CacheInv'
  OBVIOUS
<1>0. TypeOK /\ MutexInv /\ CacheInv
  BY DEF Inv
<1> USE <1>0, ConnsAssumption, ThreadsAssumption
    DEF TypeOK, RW!RWMutexType, Absent, MutexInv, CacheInv
<1>1. CASE NodesChange
  BY <1>1 DEF NodesChange
<1>2. ASSUME NEW t \in Threads, Call(t) PROVE CacheInv'
  BY <1>2 DEF Call, Goto
<1>3. ASSUME NEW t \in Threads, RLock(t) PROVE CacheInv'
  BY <1>3 DEF RLock, Goto, RW!CanRLock, RW!RLock
<1>4. ASSUME NEW t \in Threads, RLockWait(t) PROVE CacheInv'
  BY <1>4 DEF RLockWait, Goto, RW!CanRLock, RW!RLockQueue
<1>5. ASSUME NEW t \in Threads, RLockWake(t) PROVE CacheInv'
  BY <1>5 DEF RLockWake, Goto
<1>6. ASSUME NEW t \in Threads, Lookup(t) PROVE CacheInv'
  BY <1>6 DEF Lookup, Goto, Return, RW!RUnlock
<1>7. ASSUME NEW t \in Threads, LockAnnounce(t) PROVE CacheInv'
  BY <1>7 DEF LockAnnounce, Goto, RW!CanAnnounce, RW!Announce
<1>8. ASSUME NEW t \in Threads, Recheck(t) PROVE CacheInv'
  BY <1>8 DEF Recheck, Goto, Return, RW!HasLock, RW!Unlock
<1>9. ASSUME NEW t \in Threads, Connect(t) PROVE CacheInv'
  BY <1>9 DEF Connect, Goto, Return, RW!Unlock
<1>10. ASSUME NEW t \in Threads, ConnectFails(t) PROVE CacheInv'
  BY <1>10 DEF ConnectFails, Goto, Return, RW!Unlock
<1>11. CASE UNCHANGED vars
  BY <1>11 DEF vars
<1>12. QED
  BY <1>1, <1>2, <1>3, <1>4, <1>5, <1>6, <1>7, <1>8, <1>9, <1>10, <1>11
  DEF Next, GetClient

(* Every connection gets into the cache, for a node that had none. *)
LEMMA OneStep == Inv /\ [Next]_vars => OneConnection'
<1> SUFFICES ASSUME Inv, [Next]_vars PROVE OneConnection'
  OBVIOUS
<1>0. TypeOK /\ CacheInv /\ OneConnection
  BY DEF Inv
<1> USE <1>0, ConnsAssumption, ThreadsAssumption
    DEF TypeOK, RW!RWMutexType, Absent, OneConnection
<1>1. CASE NodesChange
  <2>1. UNCHANGED <<clients, conns>>
    BY <1>1 DEF NodesChange
  <2> QED
    BY <2>1
<1>2. ASSUME NEW t \in Threads, Call(t) PROVE OneConnection'
  <2>1. UNCHANGED <<clients, conns>>
    BY <1>2 DEF Call, Goto
  <2> QED
    BY <2>1
<1>3. ASSUME NEW t \in Threads, RLock(t) PROVE OneConnection'
  <2>1. UNCHANGED <<clients, conns>>
    BY <1>3 DEF RLock, Goto, RW!CanRLock, RW!RLock
  <2> QED
    BY <2>1
<1>4. ASSUME NEW t \in Threads, RLockWait(t) PROVE OneConnection'
  <2>1. UNCHANGED <<clients, conns>>
    BY <1>4 DEF RLockWait, Goto, RW!CanRLock, RW!RLockQueue
  <2> QED
    BY <2>1
<1>5. ASSUME NEW t \in Threads, RLockWake(t) PROVE OneConnection'
  <2>1. UNCHANGED <<clients, conns>>
    BY <1>5 DEF RLockWake, Goto
  <2> QED
    BY <2>1
<1>6. ASSUME NEW t \in Threads, Lookup(t) PROVE OneConnection'
  <2>1. UNCHANGED <<clients, conns>>
    BY <1>6 DEF Lookup, Goto, Return, RW!RUnlock
  <2> QED
    BY <2>1
<1>7. ASSUME NEW t \in Threads, LockAnnounce(t) PROVE OneConnection'
  <2>1. UNCHANGED <<clients, conns>>
    BY <1>7 DEF LockAnnounce, Goto, RW!CanAnnounce, RW!Announce
  <2> QED
    BY <2>1
<1>8. ASSUME NEW t \in Threads, Recheck(t) PROVE OneConnection'
  <2>1. UNCHANGED <<clients, conns>>
    BY <1>8 DEF Recheck, Goto, Return, RW!HasLock, RW!Unlock
  <2> QED
    BY <2>1
<1>9. ASSUME NEW t \in Threads, Connect(t) PROVE OneConnection'
  <2> DEFINE cached == {n \in Nodes : clients[n] # Absent}
  <2>1. node[t] \in Nodes /\ node[t] \notin cached
    BY <1>9 DEF Connect, CacheInv
  <2>2. IsFiniteSet(cached) /\ conns = Cardinality(cached)
    BY NodesAssumption, FS_Subset
  <2>3. cached' = cached \cup {node[t]}
    <3>1. clients' = [clients EXCEPT ![node[t]] = conns + 1] /\ conns + 1 # Absent
      BY <1>9 DEF Connect, Goto, Return, RW!Unlock
    <3>2. \A n \in Nodes : clients'[n] # Absent <=> n = node[t] \/ clients[n] # Absent
      BY <2>1, <3>1
    <3> QED
      BY <2>1, <3>2
  <2>4. Cardinality(cached') = Cardinality(cached) + 1
    BY <2>1, <2>2, <2>3, FS_AddElement
  <2> HIDE DEF cached
  <2>5. conns' = conns + 1
    BY <1>9 DEF Connect
  <2>6. conns' = Cardinality(cached')
    BY <2>2, <2>4, <2>5
  <2>7. \A m, n \in Nodes : m # n /\ clients'[m] # Absent => clients'[m] # clients'[n]
    BY <1>9 DEF Connect, Goto, Return, RW!Unlock, CacheInv
  <2> QED
    BY <2>6, <2>7 DEF cached
<1>10. ASSUME NEW t \in Threads, ConnectFails(t) PROVE OneConnection'
  <2>1. UNCHANGED <<clients, conns>>
    BY <1>10 DEF ConnectFails, Goto, Return, RW!Unlock
  <2> QED
    BY <2>1
<1>11. CASE UNCHANGED vars
  <2>1. UNCHANGED <<clients, conns>>
    BY <1>11 DEF vars
  <2> QED
    BY <2>1
<1>12. QED
  BY <1>1, <1>2, <1>3, <1>4, <1>5, <1>6, <1>7, <1>8, <1>9, <1>10, <1>11
  DEF Next, GetClient

(* A cached client is never replaced. *)
LEMMA SameStep == Inv /\ [Next]_vars => SameClient'
<1> SUFFICES ASSUME Inv, [Next]_vars PROVE SameClient'
  OBVIOUS
<1>0. TypeOK /\ CacheInv /\ SameClient
  BY DEF Inv
<1> USE <1>0, ConnsAssumption, ThreadsAssumption
    DEF TypeOK, RW!RWMutexType, Absent, CacheInv, SameClient
<1>1. CASE NodesChange
  BY <1>1 DEF NodesChange
<1>2. ASSUME NEW t \in Threads, Call(t) PROVE SameClient'
  BY <1>2 DEF Call, Goto
<1>3. ASSUME NEW t \in Threads, RLock(t) PROVE SameClient'
  BY <1>3 DEF RLock, Goto, RW!CanRLock, RW!RLock
<1>4. ASSUME NEW t \in Threads, RLockWait(t) PROVE SameClient'
  BY <1>4 DEF RLockWait, Goto, RW!CanRLock, RW!RLockQueue
<1>5. ASSUME NEW t \in Threads, RLockWake(t) PROVE SameClient'
  BY <1>5 DEF RLockWake, Goto
<1>6. ASSUME NEW t \in Threads, Lookup(t) PROVE SameClient'
  BY <1>6 DEF Lookup, Goto, Return, RW!RUnlock
<1>7. ASSUME NEW t \in Threads, LockAnnounce(t) PROVE SameClient'
  BY <1>7 DEF LockAnnounce, Goto, RW!CanAnnounce, RW!Announce
<1>8. ASSUME NEW t \in Threads, Recheck(t) PROVE SameClient'
  BY <1>8 DEF Recheck, Goto, Return, RW!HasLock, RW!Unlock
<1>9. ASSUME NEW t \in Threads, Connect(t) PROVE SameClient'
  BY <1>9 DEF Connect, Goto, Return, RW!Unlock
<1>10. ASSUME NEW t \in Threads, ConnectFails(t) PROVE SameClient'
  BY <1>10 DEF ConnectFails, Goto, Return, RW!Unlock
<1>11. CASE UNCHANGED vars
  BY <1>11 DEF vars
<1>12. QED
  BY <1>1, <1>2, <1>3, <1>4, <1>5, <1>6, <1>7, <1>8, <1>9, <1>10, <1>11
  DEF Next, GetClient

-----------------------------------------------------------------------------
(* The pool starts empty and unlocked. *)
LEMMA InitInv == Init => Inv
<1> SUFFICES ASSUME Init PROVE Inv
  OBVIOUS
<1> USE ConnsAssumption, ThreadsAssumption DEF Init, RW!Unlocked, Absent
<1>1. TypeOK
  BY DEF TypeOK, RW!RWMutexType
<1>2. MutexInv
  BY DEF MutexInv
<1>3. CacheInv /\ SameClient
  BY DEF CacheInv, SameClient
<1>4. OneConnection
  <2>1. {n \in Nodes : clients[n] # Absent} = {}
    OBVIOUS
  <2> QED
    BY <2>1, FS_EmptySet DEF OneConnection
<1> QED
  BY <1>1, <1>2, <1>3, <1>4 DEF Inv

(* Inv is an inductive invariant of the pool and its callers. *)
THEOREM Invariance == Spec => []Inv
<1>1. Inv /\ [Next]_vars => Inv'
  BY TypeStep, MutexStep, CacheStep, OneStep, SameStep DEF Inv
<1>2. QED
  BY <1>1, InitInv, PTL DEF Spec

-----------------------------------------------------------------------------
(* An empty pool is an empty cache. *)
LEMMA CacheInit == Init => Cache!Init
  BY DEF Init, Cache!Init, Absent, Cache!Absent

(* A call of GetClient takes effect in the step that returns from it: a hit at *)
(* either look, the connection, or an error for a node without a client.       *)
LEMMA CacheNext == Inv /\ [Next]_vars => [Cache!Next]_Cache!vars
<1> SUFFICES ASSUME Inv, [Next]_vars PROVE [Cache!Next]_Cache!vars
  OBVIOUS
<1>0. TypeOK /\ CacheInv
  BY DEF Inv
<1> DEFINE called == {t \in Threads : pc[t] # "idle"}
<1> USE <1>0 DEF TypeOK, Absent, Cache!Absent
<1>a. ASSUME NEW t \in Threads, NEW l, l # "idle", pc[t] # "idle", Goto(t, l)
      PROVE called' = called
  BY <1>a DEF Goto
<1>b. ASSUME NEW t \in Threads, NEW client, pc[t] # "idle", Return(t, client)
      PROVE t \in called /\ called' = called \ {t}
  BY <1>b DEF Return, Goto
<1>1. CASE NodesChange
  BY <1>1 DEF NodesChange, Cache!vars
<1>2. ASSUME NEW t \in Threads, Call(t) PROVE Cache!Call(t)
  <2>1. t \notin called /\ called' = called \cup {t}
    BY <1>2 DEF Call, Goto
  <2> QED
    BY <1>2, <2>1 DEF Call, Cache!Call
<1>3. ASSUME NEW t \in Threads, RLock(t) \/ RLockWait(t) \/ RLockWake(t) \/ LockAnnounce(t)
      PROVE UNCHANGED Cache!vars
  <2>1. called' = called
    BY <1>3, <1>a DEF RLock, RLockWait, RLockWake, LockAnnounce
  <2> QED
    BY <1>3, <2>1 DEF RLock, RLockWait, RLockWake, LockAnnounce, Cache!vars
<1>4. ASSUME NEW t \in Threads, Lookup(t) PROVE Cache!Hit(t) \/ UNCHANGED Cache!vars
  <2>1. CASE clients[node[t]] = Absent
    <3>1. called' = called
      BY <1>4, <2>1, <1>a DEF Lookup
    <3> QED
      BY <1>4, <2>1, <3>1 DEF Lookup, Cache!vars
  <2>2. CASE clients[node[t]] # Absent
    <3>1. t \in called /\ called' = called \ {t}
      BY <1>4, <2>2, <1>b DEF Lookup
    <3> QED
      BY <1>4, <2>2, <3>1 DEF Lookup, Return, Cache!Hit, Cache!Return
  <2> QED
    BY <2>1, <2>2
<1>5. ASSUME NEW t \in Threads, Recheck(t)
      PROVE Cache!Hit(t) \/ Cache!Fail(t) \/ UNCHANGED Cache!vars
  <2>1. CASE clients[node[t]] = Absent /\ node[t] \in known
    <3>1. called' = called
      BY <1>5, <2>1, <1>a DEF Recheck
    <3> QED
      BY <1>5, <2>1, <3>1 DEF Recheck, Cache!vars
  <2>2. CASE clients[node[t]] # Absent \/ node[t] \notin known
    <3>1. t \in called /\ called' = called \ {t}
      BY <1>5, <2>2, <1>b DEF Recheck
    <3> QED
      BY <1>5, <2>2, <3>1 DEF Recheck, Return, Cache!Hit, Cache!Fail, Cache!Return
  <2> QED
    BY <2>1, <2>2
<1>6. ASSUME NEW t \in Threads, Connect(t) PROVE Cache!Create(t)
  <2>1. t \in called /\ called' = called \ {t}
    BY <1>6, <1>b DEF Connect
  <2>2. clients[node[t]] = Absent
    BY <1>6 DEF Connect, CacheInv
  <2> QED
    BY <1>6, <2>1, <2>2 DEF Connect, Return, Cache!Create, Cache!Return
<1>7. ASSUME NEW t \in Threads, ConnectFails(t) PROVE Cache!Fail(t)
  <2>1. t \in called /\ called' = called \ {t}
    BY <1>7, <1>b DEF ConnectFails
  <2>2. clients[node[t]] = Absent
    BY <1>7 DEF ConnectFails, CacheInv
  <2> QED
    BY <1>7, <2>1, <2>2 DEF ConnectFails, Return, Cache!Fail, Cache!Return
<1>8. CASE UNCHANGED vars
  BY <1>8 DEF vars, Cache!vars
<1>9. QED
  BY <1>1, <1>2, <1>3, <1>4, <1>5, <1>6, <1>7, <1>8 DEF Next, GetClient, Cache!Next

-----------------------------------------------------------------------------
(* The stress tester                                                       *)

\* Goroutines that hold a place of the semaphore, and those main() waits for.
Running == {j \in Jobs : jobPc[j] \in {"begin", "returned", "failed", "judged", "release"}}
Unfinished == {j \in Jobs : jobPc[j] \notin {"none", "over"}}
LoopsOn == {l \in Loops : loopPc[l] \in {"check", "acquire"}}

\* Goroutines that each counter of the tester has seen.
Returned(l) == {j \in Jobs : jobPc[j] \notin {"none", "begin"} /\ kind[j] = l}
Errors == {j \in Jobs : outcome[j] = "error" /\ jobPc[j] # "failed"}
Checked == {j \in Jobs : /\ kind[j] = "Get" /\ outcome[j] \in {"ok", "wrong"}
                         /\ jobPc[j] # "returned"}
Wrong == {j \in Jobs : outcome[j] = "wrong" /\ jobPc[j] # "judged"}

TesterShape ==
    /\ main \in {"start", "waiting", "reported"}
    /\ loopPc \in [Loops -> {"none", "check", "acquire", "ended"}]
    /\ sem \in Nat
    /\ jobPc \in [Jobs -> {"none", "begin", "returned", "failed", "judged", "release", "done", "over"}]
    /\ kind \in [Jobs -> Loops]
    /\ outcome \in [Jobs -> {"none", "error", "ok", "skipped", "wrong"}]
    /\ tally \in [Counters -> Nat] /\ printed \in [Counters -> Nat]
    /\ tokens \in 0 .. Burst /\ asked \in Nat

\* A place of the semaphore for each request under way; a count of the wait
\* group for each loop and for each goroutine.
ResourceInv ==
    /\ sem + Cardinality(Running) = MaxPending
    /\ wg = Cardinality(LoopsOn) + Cardinality(Unfinished)

\* What a goroutine knows at each point.
OutcomeInv ==
    \A j \in Jobs :
        /\ jobPc[j] \in {"none", "begin"} <=> outcome[j] = "none"
        /\ jobPc[j] = "returned" => outcome[j] = "ok"
        /\ jobPc[j] = "failed" => outcome[j] = "error"
        /\ jobPc[j] = "judged" => outcome[j] = "wrong" /\ kind[j] = "Get"

\* The counters in terms of what the goroutines have done.  Allow() has a token
\* as long as it was asked less often than the burst.
TallyInv ==
    /\ \A l \in Loops : tally[l] = Cardinality(Returned(l))
    /\ tally["GetErr"] + tally["SetErr"] = Cardinality(Errors)
    /\ tally["checks"] = Cardinality(Checked)
    /\ tally["inconsistencies"] <= Cardinality(Wrong)
    /\ asked <= Burst => tally["inconsistencies"] = Cardinality(Wrong)
    /\ tokens >= Burst - asked

\* main() prints when the wait group is at zero, and nothing runs from then on.
MainInv ==
    /\ main = "start" => loopPc = [l \in Loops |-> "none"]
    /\ main = "reported" => wg = 0 /\ printed = tally

TesterInv == TesterShape /\ ResourceInv /\ OutcomeInv /\ TallyInv /\ MainInv

(* What one goroutine more or less does to a set of goroutines. *)
LEMMA JobsCount ==
  ASSUME NEW S \in SUBSET Jobs
  PROVE  /\ Cardinality(S) \in 0 .. MaxJobs
         /\ \A j \in Jobs \ S : Cardinality(S \cup {j}) = Cardinality(S) + 1
         /\ \A j \in S : Cardinality(S \ {j}) = Cardinality(S) - 1
         /\ Cardinality(S) = 0 => S = {}
<1>1. IsFiniteSet(Jobs) /\ Cardinality(Jobs) = MaxJobs
  BY FS_Interval, TesterAssumption DEF Jobs
<1>2. IsFiniteSet(S) /\ Cardinality(S) \in 0 .. MaxJobs
  BY <1>1, FS_Subset, FS_CardinalityType, TesterAssumption
<1>3. \A j \in Jobs \ S : Cardinality(S \cup {j}) = Cardinality(S) + 1
  BY <1>2, FS_AddElement
<1>4. \A j \in S : Cardinality(S \ {j}) = Cardinality(S) - 1
  BY <1>2, FS_RemoveElement
<1>5. Cardinality(S) = 0 => S = {}
  BY <1>2, FS_EmptySet
<1> QED
  BY <1>2, <1>3, <1>4, <1>5

(* The same for the two loops. *)
LEMMA LoopsCount ==
  ASSUME NEW S \in SUBSET Loops
  PROVE  /\ Cardinality(S) \in 0 .. 2
         /\ \A l \in S : Cardinality(S \ {l}) = Cardinality(S) - 1
         /\ Cardinality(S) = 0 => S = {}
         /\ Cardinality({}) = 0 /\ Cardinality(Loops) = 2
<1>1. IsFiniteSet({}) /\ Cardinality({}) = 0
  BY FS_EmptySet
<1>2. IsFiniteSet({"Get"}) /\ Cardinality({"Get"}) = 1
  BY FS_Singleton
<1>3. Loops = {"Get"} \cup {"Set"} /\ "Set" \notin {"Get"}
  BY DEF Loops
<1>4. IsFiniteSet(Loops) /\ Cardinality(Loops) = 2
  BY <1>2, <1>3, FS_AddElement
<1>5. IsFiniteSet(S) /\ Cardinality(S) \in 0 .. 2
  BY <1>4, FS_Subset, FS_CardinalityType
<1>6. \A l \in S : Cardinality(S \ {l}) = Cardinality(S) - 1
  BY <1>5, FS_RemoveElement
<1>7. Cardinality(S) = 0 => S = {}
  BY <1>5, FS_EmptySet
<1> QED
  BY <1>1, <1>4, <1>5, <1>6, <1>7

(* The sets the counters are compared with. *)
LEMMA SetsTypes ==
  /\ Running \in SUBSET Jobs /\ Unfinished \in SUBSET Jobs
  /\ LoopsOn \in SUBSET Loops /\ \A l \in Loops : Returned(l) \in SUBSET Jobs
  /\ Errors \in SUBSET Jobs /\ Checked \in SUBSET Jobs /\ Wrong \in SUBSET Jobs
  BY DEF Running, Unfinished, LoopsOn, Returned, Errors, Checked, Wrong

(* The semaphore and the wait group stay in their range. *)
LEMMA TesterTypes == TesterInv => StTypeOK
<1> SUFFICES ASSUME TesterInv PROVE StTypeOK
  OBVIOUS
<1>1. /\ Cardinality(Running) \in 0 .. MaxJobs /\ Cardinality(Unfinished) \in 0 .. MaxJobs
      /\ Cardinality(LoopsOn) \in 0 .. 2
  BY JobsCount, LoopsCount, SetsTypes
<1>2. sem \in 0 .. MaxPending /\ wg \in 0 .. MaxJobs + 2
  BY <1>1, TesterAssumption DEF TesterInv, TesterShape, ResourceInv
<1> QED
  BY <1>2 DEF TesterInv, TesterShape, StTypeOK

(* Nothing runs at first. *)
LEMMA TesterInit == StInit => TesterInv
<1> SUFFICES ASSUME StInit PROVE TesterInv
  OBVIOUS
<1> USE DEF StInit
<1>1. /\ Running = {} /\ Unfinished = {} /\ LoopsOn = {} /\ \A l \in Loops : Returned(l) = {}
      /\ Errors = {} /\ Checked = {} /\ Wrong = {}
  BY DEF Running, Unfinished, LoopsOn, Returned, Errors, Checked, Wrong
<1>2. Cardinality({}) = 0
  BY FS_EmptySet
<1>3. TesterShape
  BY TesterAssumption DEF TesterShape, Zero, Loops
<1>4. ResourceInv
  BY <1>1, <1>2, TesterAssumption DEF ResourceInv
<1>5. OutcomeInv
  BY DEF OutcomeInv
<1>6. TallyInv
  BY <1>1, <1>2, TesterAssumption DEF TallyInv, Zero, Counters, Loops
<1>7. MainInv
  BY DEF MainInv
<1> QED
  BY <1>3, <1>4, <1>5, <1>6, <1>7 DEF TesterInv

(* A step of main() or of a loop. *)
LEMMA LoopKeeps ==
  ASSUME TesterInv, \/ StartLoops \/ Report \/ Refill
                    \/ \E l \in Loops : LoopOn(l) \/ StartJob(l) \/ LoopEnds(l)
  PROVE  TesterInv'
<1>0. TesterShape /\ ResourceInv /\ OutcomeInv /\ TallyInv /\ MainInv
  BY DEF TesterInv
<1> USE <1>0, TesterAssumption
<1>n. /\ Cardinality(LoopsOn) \in 0 .. 2 /\ Cardinality(Unfinished) \in 0 .. MaxJobs
      /\ Cardinality(Running) \in 0 .. MaxJobs
  BY JobsCount, LoopsCount, SetsTypes
<1>c. ASSUME UNCHANGED <<jobPc, kind, outcome>>
      PROVE  /\ Running' = Running /\ Unfinished' = Unfinished
             /\ \A l \in Loops : Returned(l)' = Returned(l)
             /\ Errors' = Errors /\ Checked' = Checked /\ Wrong' = Wrong
  BY <1>c DEF Running, Unfinished, Returned, Errors, Checked, Wrong
<1>1. CASE StartLoops
  <2> USE <1>1 DEF StartLoops
  <2>1. LoopsOn = {} /\ LoopsOn' = Loops
    BY DEF MainInv, LoopsOn
  <2>2. Cardinality(LoopsOn) = 0 /\ Cardinality(LoopsOn') = 2
    BY <2>1, LoopsCount
  <2>3. TesterShape'
    BY DEF TesterShape
  <2>4. ResourceInv' /\ TallyInv'
    BY <1>c, <1>n, <2>2 DEF ResourceInv, TallyInv, TesterShape
  <2>5. OutcomeInv'
    BY DEF OutcomeInv
  <2>6. MainInv'
    BY DEF MainInv
  <2> QED
    BY <2>3, <2>4, <2>5, <2>6 DEF TesterInv
<1>2. CASE Report
  <2> USE <1>2 DEF Report
  <2>1. LoopsOn' = LoopsOn
    BY DEF LoopsOn
  <2>3. TesterShape'
    BY DEF TesterShape
  <2>4. ResourceInv' /\ TallyInv'
    BY <1>c, <2>1 DEF ResourceInv, TallyInv
  <2>5. OutcomeInv'
    BY DEF OutcomeInv
  <2>6. MainInv'
    BY DEF MainInv
  <2> QED
    BY <2>3, <2>4, <2>5, <2>6 DEF TesterInv
<1>3. CASE Refill
  <2> USE <1>3 DEF Refill
  <2>1. LoopsOn' = LoopsOn
    BY DEF LoopsOn
  <2>3. TesterShape'
    BY DEF TesterShape
  <2>4. ResourceInv' /\ TallyInv'
    BY <1>c, <2>1 DEF ResourceInv, TallyInv, TesterShape
  <2>5. OutcomeInv'
    BY DEF OutcomeInv
  <2>6. MainInv'
    BY DEF MainInv
  <2> QED
    BY <2>3, <2>4, <2>5, <2>6 DEF TesterInv
<1>4. ASSUME NEW l \in Loops, LoopOn(l) PROVE TesterInv'
  <2> USE <1>4 DEF LoopOn
  <2>1. LoopsOn' = LoopsOn
    BY DEF LoopsOn, TesterShape
  <2>3. TesterShape'
    BY DEF TesterShape
  <2>4. ResourceInv' /\ TallyInv'
    BY <1>c, <2>1 DEF ResourceInv, TallyInv
  <2>5. OutcomeInv'
    BY DEF OutcomeInv
  <2>6. MainInv'
    BY DEF MainInv
  <2> QED
    BY <2>3, <2>4, <2>5, <2>6 DEF TesterInv
<1>5. ASSUME NEW l \in Loops, StartJob(l) PROVE TesterInv'
  <2> USE <1>5 DEF StartJob
  <2>0. PICK j \in Jobs : /\ jobPc[j] = "none" /\ jobPc' = [jobPc EXCEPT ![j] = "begin"]
                          /\ kind' = [kind EXCEPT ![j] = l]
    OBVIOUS
  <2>1. LoopsOn' = LoopsOn /\ l \in LoopsOn
    BY DEF LoopsOn, TesterShape
  <2>2. /\ j \notin Running /\ Running' = Running \cup {j}
        /\ j \notin Unfinished /\ Unfinished' = Unfinished \cup {j}
    BY <2>0 DEF Running, Unfinished, TesterShape
  <2>a. outcome[j] = "none"
    BY <2>0 DEF OutcomeInv
  <2>3. /\ \A k \in Loops : Returned(k)' = Returned(k)
        /\ Errors' = Errors /\ Checked' = Checked /\ Wrong' = Wrong
    BY <2>0, <2>a DEF Returned, Errors, Checked, Wrong, TesterShape
  <2>4. /\ Cardinality(Running') = Cardinality(Running) + 1
        /\ Cardinality(Unfinished') = Cardinality(Unfinished) + 1
    BY <2>2, JobsCount, SetsTypes
  <2>5. TesterShape'
    BY <2>0 DEF TesterShape
  <2>6. ResourceInv'
    BY <1>n, <2>1, <2>4 DEF ResourceInv, TesterShape
  <2>7. TallyInv'
    BY <2>3 DEF TallyInv
  <2>8. OutcomeInv'
    BY <2>0 DEF OutcomeInv, TesterShape
  <2>9. LoopsOn # {} => Cardinality(LoopsOn) # 0
    BY LoopsCount, SetsTypes
  <2>10. main = "waiting"
    BY <1>n, <2>1, <2>9 DEF MainInv, ResourceInv, TesterShape, LoopsOn
  <2>11. MainInv'
    BY <2>10 DEF MainInv
  <2> QED
    BY <2>5, <2>6, <2>7, <2>8, <2>11 DEF TesterInv
<1>6. ASSUME NEW l \in Loops, LoopEnds(l) PROVE TesterInv'
  <2> USE <1>6 DEF LoopEnds
  <2>1. LoopsOn' = LoopsOn \ {l} /\ l \in LoopsOn
    BY DEF LoopsOn, TesterShape
  <2>2. Cardinality(LoopsOn') = Cardinality(LoopsOn) - 1 /\ Cardinality(LoopsOn) # 0
    BY <2>1, LoopsCount, SetsTypes
  <2>3. TesterShape'
    BY DEF TesterShape
  <2>4. ResourceInv' /\ TallyInv'
    BY <1>c, <1>n, <2>2 DEF ResourceInv, TallyInv, TesterShape
  <2>5. OutcomeInv'
    BY DEF OutcomeInv
  <2>6. MainInv'
    BY <1>n, <2>1, <2>2 DEF MainInv, ResourceInv, TesterShape, LoopsOn
  <2> QED
    BY <2>3, <2>4, <2>5, <2>6 DEF TesterInv
<1> QED
  BY <1>1, <1>2, <1>3, <1>4, <1>5, <1>6

(* A step of a goroutine. *)
LEMMA JobKeeps ==
  ASSUME TesterInv, NEW j \in Jobs, JobStep(j)
  PROVE  TesterInv'
<1>0. TesterShape /\ ResourceInv /\ OutcomeInv /\ TallyInv /\ MainInv
  BY DEF TesterInv
<1> USE <1>0, TesterAssumption
<1>n. /\ Cardinality(LoopsOn) \in 0 .. 2 /\ Cardinality(Unfinished) \in 0 .. MaxJobs
      /\ Cardinality(Running) \in 0 .. MaxJobs /\ \A l \in Loops : Cardinality(Returned(l)) \in Nat
      /\ Cardinality(Errors) \in Nat /\ Cardinality(Checked) \in Nat /\ Cardinality(Wrong) \in Nat
  BY JobsCount, LoopsCount, SetsTypes
<1>l. UNCHANGED <<main, loopPc, kind, printed>> /\ LoopsOn' = LoopsOn
  BY DEF JobStep, Returns, CountError, SetDone, CountWrong, Release, Done, Check, LoopsOn
<1>u. j \in Unfinished
  BY DEF JobStep, Returns, CountError, SetDone, CountWrong, Release, Done, Check, Goes, Unfinished
<1>w. Cardinality(Unfinished) # 0
  BY <1>u, JobsCount, SetsTypes
<1>m. MainInv'
  BY <1>l, <1>n, <1>w DEF MainInv, ResourceInv, TesterShape
<1>k. kind[j] \in Loops /\ Loops \subseteq Counters
  BY DEF TesterShape, Loops, Counters
<1>1. ASSUME NEW err \in BOOLEAN, Returns(j, err) PROVE TesterInv'
  <2> USE <1>1 DEF Returns, Add, Goes
  <2>1. /\ Running' = Running
        /\ Unfinished' = Unfinished
        /\ Errors' = Errors
        /\ Checked' = Checked
        /\ Wrong' = Wrong
    BY <1>l DEF TesterShape, OutcomeInv, Running, Unfinished, Errors, Checked, Wrong
  <2>2. /\ j \notin Returned(kind[j]) /\ Returned(kind[j])' = Returned(kind[j]) \cup {j}
        /\ \A l \in Loops \ {kind[j]} : Returned(l)' = Returned(l)
    BY <1>l DEF TesterShape, Returned
  <2>3. Cardinality(Returned(kind[j])') = Cardinality(Returned(kind[j])) + 1
    BY <2>2, <1>k, JobsCount, SetsTypes
  <2>a. PICK p \in {"returned", "failed"}, o \in {"ok", "error"} :
            /\ jobPc' = [jobPc EXCEPT ![j] = p] /\ outcome' = [outcome EXCEPT ![j] = o]
    BY Zenon
  <2>b. tally' = [tally EXCEPT ![kind[j]] = @ + 1] /\ UNCHANGED <<sem, wg, tokens, asked>>
    OBVIOUS
  <2>4. TesterShape'
    BY ONLY <1>0, <1>l, <1>k, <2>a, <2>b, TesterAssumption DEF TesterShape
  <2>5. ResourceInv'
    BY <1>l, <1>n, <2>1 DEF ResourceInv, TesterShape
  <2>6. TallyInv'
    <3>1. /\ \A l \in Loops : tally'[l] = IF l = kind[j] THEN tally[l] + 1 ELSE tally[l]
          /\ \A c \in Counters \ Loops : tally'[c] = tally[c]
      BY ONLY <1>0, <1>k, <2>b DEF TesterShape
    <3>2. \A l \in Loops : tally'[l] = Cardinality(Returned(l)')
      BY ONLY <1>0, <1>l, <1>n, <1>k, <2>2, <2>3, <3>1 DEF TallyInv
    <3>3. {"GetErr", "SetErr", "checks", "inconsistencies"} \subseteq Counters \ Loops
      BY DEF Counters, Loops
    <3> QED
      BY ONLY <1>0, <2>1, <2>b, <3>1, <3>2, <3>3 DEF TallyInv
  <2>7. OutcomeInv'
    BY <1>l DEF OutcomeInv, TesterShape
  <2> QED
    BY <2>4, <2>5, <2>6, <2>7, <1>m DEF TesterInv
<1>2. ASSUME CountError(j) PROVE TesterInv'
  <2> USE <1>2 DEF CountError, Add, TakeToken, Allow, Goes
  <2>1. /\ Running' = Running
        /\ Unfinished' = Unfinished
        /\ \A l \in Loops : Returned(l)' = Returned(l)
        /\ Checked' = Checked
        /\ Wrong' = Wrong
    BY <1>l DEF TesterShape, OutcomeInv, Running, Unfinished, Returned, Checked, Wrong
  <2>2. j \notin Errors /\ Errors' = Errors \cup {j}
    BY <1>l DEF TesterShape, OutcomeInv, Errors
  <2>3. Cardinality(Errors') = Cardinality(Errors) + 1
    BY <2>2, JobsCount, SetsTypes
  <2>4. TesterShape'
    BY <1>l, <1>k, <1>n DEF TesterShape, Counters
  <2>5. ResourceInv'
    BY <1>l, <1>n, <2>1 DEF ResourceInv, TesterShape
  <2>6. TallyInv'
    BY <1>l, <1>n, <2>1, <2>3 DEF TallyInv, TesterShape, Counters, Loops
  <2>7. OutcomeInv'
    BY <1>l DEF OutcomeInv, TesterShape
  <2> QED
    BY <2>4, <2>5, <2>6, <2>7, <1>m DEF TesterInv
<1>3. ASSUME SetDone(j) PROVE TesterInv'
  <2> USE <1>3 DEF SetDone, Goes
  <2>1. /\ Running' = Running
        /\ Unfinished' = Unfinished
        /\ \A l \in Loops : Returned(l)' = Returned(l)
        /\ Errors' = Errors
        /\ Checked' = Checked
        /\ Wrong' = Wrong
    BY <1>l DEF TesterShape, OutcomeInv, Running, Unfinished, Returned, Errors, Checked, Wrong
  <2>4. TesterShape'
    BY <1>l, <1>k, <1>n DEF TesterShape, Counters
  <2>5. ResourceInv'
    BY <1>l, <1>n, <2>1 DEF ResourceInv, TesterShape
  <2>6. TallyInv'
    BY <2>1 DEF TallyInv
  <2>7. OutcomeInv'
    BY <1>l DEF OutcomeInv, TesterShape
  <2> QED
    BY <2>4, <2>5, <2>6, <2>7, <1>m DEF TesterInv
<1>4. ASSUME NEW judged \in {"ok", "skipped", "wrong"}, Check(j, judged) PROVE TesterInv'
  <2> USE <1>4 DEF Check, Add, Goes
  <2>1. /\ Running' = Running
        /\ Unfinished' = Unfinished
        /\ \A l \in Loops : Returned(l)' = Returned(l)
        /\ Errors' = Errors
        /\ Wrong' = Wrong
    BY <1>l DEF TesterShape, OutcomeInv, Running, Unfinished, Returned, Errors, Wrong
  <2>2. j \notin Checked /\ Checked' = IF judged = "skipped" THEN Checked ELSE Checked \cup {j}
    BY <1>l DEF TesterShape, Checked
  <2>3. judged # "skipped" => Cardinality(Checked') = Cardinality(Checked) + 1
    BY <2>2, JobsCount, SetsTypes
  <2>4. TesterShape'
    BY <1>l, <1>k, <1>n DEF TesterShape, Counters
  <2>5. ResourceInv'
    BY <1>l, <1>n, <2>1 DEF ResourceInv, TesterShape
  <2>6. TallyInv'
    BY <1>l, <1>n, <2>1, <2>2, <2>3 DEF TallyInv, TesterShape, Counters, Loops
  <2>7. OutcomeInv'
    BY <1>l DEF OutcomeInv, TesterShape
  <2> QED
    BY <2>4, <2>5, <2>6, <2>7, <1>m DEF TesterInv
<1>5. ASSUME CountWrong(j) PROVE TesterInv'
  <2> USE <1>5 DEF CountWrong, Add, TakeToken, Allow, Goes
  <2>1. /\ Running' = Running
        /\ Unfinished' = Unfinished
        /\ \A l \in Loops : Returned(l)' = Returned(l)
        /\ Errors' = Errors
        /\ Checked' = Checked
    BY <1>l DEF TesterShape, OutcomeInv, Running, Unfinished, Returned, Errors, Checked
  <2>2. j \notin Wrong /\ Wrong' = Wrong \cup {j}
    BY <1>l DEF TesterShape, OutcomeInv, Wrong
  <2>3. Cardinality(Wrong') = Cardinality(Wrong) + 1
    BY <2>2, JobsCount, SetsTypes
  <2>4. TesterShape'
    BY <1>l, <1>k, <1>n DEF TesterShape, Counters
  <2>5. ResourceInv'
    BY <1>l, <1>n, <2>1 DEF ResourceInv, TesterShape
  <2>6. TallyInv'
    BY <1>l, <1>n, <2>1, <2>3 DEF TallyInv, TesterShape, Counters, Loops
  <2>7. OutcomeInv'
    BY <1>l DEF OutcomeInv, TesterShape
  <2> QED
    BY <2>4, <2>5, <2>6, <2>7, <1>m DEF TesterInv
<1>6. ASSUME Release(j) PROVE TesterInv'
  <2> USE <1>6 DEF Release, Goes
  <2>1. /\ Unfinished' = Unfinished
        /\ \A l \in Loops : Returned(l)' = Returned(l)
        /\ Errors' = Errors
        /\ Checked' = Checked
        /\ Wrong' = Wrong
    BY <1>l DEF TesterShape, OutcomeInv, Unfinished, Returned, Errors, Checked, Wrong
  <2>2. j \in Running /\ Running' = Running \ {j}
    BY <1>l DEF TesterShape, Running
  <2>3. Cardinality(Running') = Cardinality(Running) - 1
    BY <2>2, JobsCount, SetsTypes
  <2>4. TesterShape'
    BY <1>l, <1>k, <1>n DEF TesterShape, Counters
  <2>5. ResourceInv'
    BY <1>l, <1>n, <2>1, <2>3 DEF ResourceInv, TesterShape
  <2>6. TallyInv'
    BY <2>1 DEF TallyInv
  <2>7. OutcomeInv'
    BY <1>l DEF OutcomeInv, TesterShape
  <2> QED
    BY <2>4, <2>5, <2>6, <2>7, <1>m DEF TesterInv
<1>7. ASSUME Done(j) PROVE TesterInv'
  <2> USE <1>7 DEF Done, Goes
  <2>1. /\ Running' = Running
        /\ \A l \in Loops : Returned(l)' = Returned(l)
        /\ Errors' = Errors
        /\ Checked' = Checked
        /\ Wrong' = Wrong
    BY <1>l DEF TesterShape, OutcomeInv, Running, Returned, Errors, Checked, Wrong
  <2>2. j \in Unfinished /\ Unfinished' = Unfinished \ {j}
    BY <1>l DEF TesterShape, Unfinished
  <2>3. Cardinality(Unfinished') = Cardinality(Unfinished) - 1
    BY <2>2, JobsCount, SetsTypes
  <2>4. TesterShape'
    BY <1>l, <1>k, <1>n DEF TesterShape, Counters
  <2>5. ResourceInv'
    BY <1>l, <1>n, <2>1, <2>3 DEF ResourceInv, TesterShape
  <2>6. TallyInv'
    BY <2>1 DEF TallyInv
  <2>7. OutcomeInv'
    BY <1>l DEF OutcomeInv, TesterShape
  <2> QED
    BY <2>4, <2>5, <2>6, <2>7, <1>m DEF TesterInv
<1> QED
  BY <1>1, <1>2, <1>3, <1>4, <1>5, <1>6, <1>7 DEF JobStep

(* Every step of the tester keeps TesterInv. *)
LEMMA TesterStep == TesterInv /\ [StNext]_stVars => TesterInv'
<1> SUFFICES ASSUME TesterInv, [StNext]_stVars PROVE TesterInv'
  OBVIOUS
<1>1. CASE UNCHANGED stVars
  BY <1>1 DEF stVars, TesterInv, TesterShape, ResourceInv, OutcomeInv, TallyInv, MainInv,
              Running, Unfinished, LoopsOn, Returned, Errors, Checked, Wrong
<1>2. CASE \E j \in Jobs : JobStep(j)
  BY <1>2, JobKeeps
<1>3. CASE \/ StartLoops \/ Report \/ Refill
           \/ \E l \in Loops : LoopOn(l) \/ StartJob(l) \/ LoopEnds(l)
  BY <1>3, LoopKeeps
<1> QED
  BY <1>1, <1>2, <1>3 DEF StNext

(* When main() prints, every goroutine is over, so the sets above are all the  *)
(* requests of their kind.                                                     *)
LEMMA TesterReport == TesterInv => ReportIsComplete
<1> SUFFICES ASSUME TesterInv, main = "reported" PROVE ReportIsComplete
  BY DEF ReportIsComplete
<1>0. TesterShape /\ ResourceInv /\ OutcomeInv /\ TallyInv /\ MainInv
  BY DEF TesterInv
<1>1. wg = 0 /\ printed = tally
  BY <1>0 DEF MainInv
<1>2. Cardinality(Unfinished) = 0
  <2>1. Cardinality(LoopsOn) \in 0 .. 2 /\ Cardinality(Unfinished) \in 0 .. MaxJobs
    BY JobsCount, LoopsCount, SetsTypes
  <2> QED
    BY <1>0, <1>1, <2>1, TesterAssumption DEF ResourceInv
<1>3. \A j \in Jobs : jobPc[j] \in {"none", "over"}
  <2>1. Unfinished = {}
    BY <1>2, JobsCount, SetsTypes
  <2> QED
    BY <2>1 DEF Unfinished
<1>4. \A l \in Loops : Returned(l) = {j \in Jobs : jobPc[j] # "none" /\ kind[j] = l}
  BY <1>3 DEF Returned
<1>5. Errors = {j \in Jobs : jobPc[j] # "none" /\ outcome[j] = "error"}
  BY <1>0, <1>3 DEF Errors, OutcomeInv
<1>6. Checked = {j \in Jobs : jobPc[j] # "none" /\ (kind[j] = "Get" /\ outcome[j] \in {"ok", "wrong"})}
  BY <1>0, <1>3 DEF Checked, OutcomeInv
<1>7. Wrong = {j \in Jobs : jobPc[j] # "none" /\ outcome[j] = "wrong"}
  BY <1>0, <1>3 DEF Wrong, OutcomeInv
<1> QED
  BY <1>0, <1>1, <1>4, <1>5, <1>6, <1>7 DEF ReportIsComplete, Started, TallyInv

-----------------------------------------------------------------------------
(* The process                                                             *)

(* In every behaviour of the process the pool is one of Spec and the tester   *)
(* keeps its invariant.                                                        *)
LEMMA ProcessParts == ProcessSpec => Spec /\ []TesterInv
<1>1. ProcessInit => Init /\ TesterInv
  BY TesterInit DEF ProcessInit
<1>2. [ProcessNext]_processVars => [Next]_vars /\ [StNext]_stVars
  BY DEF ProcessNext, processVars
<1>3. QED
  BY <1>1, <1>2, TesterStep, PTL DEF ProcessSpec, Spec

(* The variables keep their types: no nil client is cached or returned as a    *)
(* success, and there is no Release() and no Done() too many, which panic.     *)
THEOREM TypesCorrect == ProcessSpec => [](TypeOK /\ StTypeOK)
<1>1. Inv => TypeOK
  BY DEF Inv
<1>2. QED
  BY <1>1, TesterTypes, ProcessParts, Invariance, PTL

(* GetClient connects once per node and caches every connection it makes.     *)
THEOREM ConnectsOnce == ProcessSpec => []OneConnection
<1>1. Inv => OneConnection
  BY DEF Inv
<1>2. QED
  BY <1>1, ProcessParts, Invariance, PTL

(* All successful calls for a node returned the client that is cached now.    *)
THEOREM CallersShareClients == ProcessSpec => []SameClient
<1>1. Inv => SameClient
  BY DEF Inv
<1>2. QED
  BY <1>1, ProcessParts, Invariance, PTL

(* The map of clients is not read while a thread is past Lock().              *)
THEOREM MapIsProtected == ProcessSpec => []NoMapRace
<1>1. Inv => NoMapRace
  BY ThreadsAssumption DEF Inv, MutexInv, NoMapRace, RW!HasLock, TypeOK, RW!RWMutexType
<1>2. QED
  BY <1>1, ProcessParts, Invariance, PTL

(* For its callers GetClient, with its two locks, its two lookups and its      *)
(* failing connections, is an atomic cache.                                    *)
THEOREM PoolIsCache == ProcessSpec => ImplementsCache
<1>1. QED
  BY CacheInit, CacheNext, ProcessParts, Invariance, PTL DEF Spec, ImplementsCache, Cache!Spec

(* What main() prints is complete, for any number of requests and places of    *)
(* the semaphore and any burst of the log limiter.                             *)
THEOREM ReportComplete == ProcessSpec => []ReportIsComplete
<1>1. QED
  BY TesterReport, ProcessParts, PTL

-----------------------------------------------------------------------------
(* The consistency checker                                                 *)

\* The service fails no Set before one has succeeded and applies none late.
WellBehaved == ~FirstSetFails /\ ~LateSets

Alone(w) == \A v \in InFlight : v = w

\* The reference count counts the writes under way.
CountInv == rc = Cardinality(InFlight)

\* A write under way overlapped another one iff one completed since it began
\* or one is under way now.
OverlapInv ==
    /\ \A w \in Writers : wpc[w] \in {"idle", "started"} => w \notin overlapped
    /\ \A w \in InFlight :
        /\ winit[w] <= version
        /\ w \in overlapped <=> winit[w] < version \/ ~Alone(w)

\* A completed write is accepted or overwritten, and came before every write
\* under way that it did not overlap.
HistoryInv ==
    /\ \A w \in Writers :
        /\ wpc[w] = "done" <=> w \in values \cup overwrittenValues
        /\ wpc[w] = "done" => winit[w] < version
        /\ wpc[w] = "done" /\ w \notin overlapped =>
               \A v \in InFlight : winit[w] < winit[v]
    /\ StaleIsRejected

\* The register holds the value of a write that is accepted or under way, and
\* expires it within the limits the checker computes.
StoreInv ==
    WellBehaved =>
        /\ applied # {} => cell # NoValue
        /\ cell # NoValue =>
            /\ cell \in values \cup InFlight
            /\ wstart[cell] + TTL <= expiry
            /\ wpc[cell] \in {"returned", "done"} => expiry <= wend[cell] + TTL
        /\ \A w \in InFlight : w \notin overlapped /\ w \in applied => cell = w
        /\ \A w \in Writers :
            /\ wpc[w] \in {"returned", "done"} => applied # {}
            /\ wpc[w] \in {"returned", "done"} /\ ~werr[w] => w \in applied
            /\ wpc[w] \in {"idle", "started"} => w \notin applied
            /\ wpc[w] # "idle" => wstart[w] <= clock
        /\ expiry <= clock + TTL

\* A Get that no write overlapped returned what the register still holds.
ReadInv ==
    WellBehaved =>
        \A r \in Readers :
            /\ verdict[r] # "incorrect"
            /\ rpc[r] # "idle" => rstart[r] <= clock
            /\ rpc[r] \in {"begun", "got"} => rinit[r] <= version
            /\ (rpc[r] = "got" /\ rinit[r] = version /\ InFlight = {}) =>
                \/ rval[r] = NoValue /\ (cell = NoValue \/ expiry < clock)
                \/ rval[r] # NoValue /\ rval[r] = cell /\ rstart[r] <= expiry

CheckerInv == CheckerTypeOK /\ CountInv /\ OverlapInv /\ HistoryInv /\ StoreInv /\ ReadInv

-----------------------------------------------------------------------------
(* What the count says about the set it counts. *)
LEMMA CountFacts ==
    ASSUME CheckerTypeOK, CountInv
    PROVE  /\ rc = 0 <=> InFlight = {}
           /\ \A w \in InFlight : rc = 1 <=> Alone(w)
<1>1. IsFiniteSet(InFlight)
  BY ValuesAssumption, FS_Subset DEF InFlight
<1>2. rc = 0 <=> InFlight = {}
  BY <1>1, FS_EmptySet DEF CountInv
<1>3. ASSUME NEW w \in InFlight, rc = 1 PROVE Alone(w)
  <2>1. PICK x : InFlight = {x}
    BY <1>1, <1>3, FS_Singleton DEF CountInv
  <2>2. QED
    BY <2>1 DEF Alone
<1>4. ASSUME NEW w \in InFlight, Alone(w) PROVE rc = 1
  <2>1. InFlight = {w}
    BY <1>4 DEF Alone
  <2>2. QED
    BY <2>1, FS_Singleton DEF CountInv
<1>5. QED
  BY <1>2, <1>3, <1>4

(* Every step keeps the variables in their types. *)
LEMMA CheckerTypeStep == CheckerInv /\ [CheckerNext]_checkerVars => CheckerTypeOK'
<1> SUFFICES ASSUME CheckerInv, [CheckerNext]_checkerVars PROVE CheckerTypeOK'
  OBVIOUS
<1>0. CheckerTypeOK /\ CountInv
  BY DEF CheckerInv
<1> USE <1>0, ValuesAssumption, TimesAssumption
    DEF CheckerTypeOK
<1>1. CASE Tick
  BY <1>1 DEF Tick, storeVars, ccVars, writerVars, readerVars
<1>2. ASSUME NEW w \in Writers, SetStart(w) PROVE CheckerTypeOK'
  BY <1>2 DEF SetStart, storeVars, ccVars, writerVars, readerVars
<1>3. ASSUME NEW w \in Writers, BeginWrite(w) PROVE CheckerTypeOK'
  <2>1. InFlight \subseteq Writers
    BY DEF InFlight
  <2>2. overlapped' \in SUBSET Writers
    BY <1>3, <2>1 DEF BeginWrite
  <2>3. QED
    BY <1>3, <2>2 DEF BeginWrite, storeVars, ccVars, writerVars, readerVars
<1>4. ASSUME NEW w \in Writers, Apply(w) PROVE CheckerTypeOK'
  BY <1>4 DEF Apply, storeVars, ccVars, writerVars, readerVars
<1>5. ASSUME NEW w \in Writers, SetReturn(w) PROVE CheckerTypeOK'
  BY <1>5 DEF SetReturn, storeVars, ccVars, writerVars, readerVars
<1>6. ASSUME NEW w \in Writers, CompleteWrite(w) PROVE CheckerTypeOK'
  <2>1. rc \in Nat \ {0}
    <3>1. w \in InFlight
      BY <1>6 DEF CompleteWrite, InFlight
    <3>2. QED
      BY <3>1, CountFacts
  <2>2. QED
    BY <1>6, <2>1 DEF CompleteWrite, storeVars, ccVars, writerVars, readerVars
<1>7. ASSUME NEW r \in Readers, GetStart(r) PROVE CheckerTypeOK'
  BY <1>7 DEF GetStart, storeVars, ccVars, writerVars, readerVars
<1>8. ASSUME NEW r \in Readers, BeginRead(r) PROVE CheckerTypeOK'
  BY <1>8 DEF BeginRead, storeVars, ccVars, writerVars, readerVars
<1>9. ASSUME NEW r \in Readers, Get(r) PROVE CheckerTypeOK'
  BY <1>9 DEF Get, storeVars, ccVars, writerVars, readerVars
<1>10. ASSUME NEW r \in Readers, GetError(r) PROVE CheckerTypeOK'
  BY <1>10 DEF GetError, GetEnds, storeVars, ccVars, writerVars, readerVars
<1>11. ASSUME NEW r \in Readers, CheckReadCorrect(r) PROVE CheckerTypeOK'
  <2>1. Judge(r) \in {"skipped", "correct", "incorrect"}
    BY DEF Judge
  <2>2. QED
    BY <1>11, <2>1
    DEF CheckReadCorrect, GetEnds, storeVars, ccVars, writerVars, readerVars
<1>12. CASE UNCHANGED checkerVars
  BY <1>12 DEF checkerVars, storeVars, ccVars, writerVars, readerVars
<1>13. QED
  BY <1>1, <1>2, <1>3, <1>4, <1>5, <1>6, <1>7, <1>8, <1>9, <1>10, <1>11, <1>12
  DEF CheckerNext, WriterStep, ReaderStep

(* BeginWrite and CompleteWrite keep the count. *)
LEMMA CountStep == CheckerInv /\ [CheckerNext]_checkerVars => CountInv'
<1> SUFFICES ASSUME CheckerInv, [CheckerNext]_checkerVars PROVE CountInv'
  OBVIOUS
<1>0. CheckerTypeOK /\ CountInv
  BY DEF CheckerInv
<1> USE <1>0, ValuesAssumption, TimesAssumption
    DEF CheckerTypeOK, CountInv
<1>1. CASE Tick
  <2>1. InFlight' = InFlight /\ rc' = rc
    BY <1>1 DEF Tick, storeVars, ccVars, writerVars, readerVars, InFlight
  <2>2. QED
    BY <2>1
<1>2. ASSUME NEW w \in Writers, SetStart(w) PROVE CountInv'
  <2>1. InFlight' = InFlight /\ rc' = rc
    BY <1>2 DEF SetStart, storeVars, ccVars, writerVars, readerVars, InFlight
  <2>2. QED
    BY <2>1
<1>3. ASSUME NEW w \in Writers, BeginWrite(w) PROVE CountInv'
  <2>1. IsFiniteSet(InFlight) /\ w \notin InFlight
    BY <1>3, FS_Subset DEF BeginWrite, InFlight
  <2>2. InFlight' = InFlight \cup {w}
    BY <1>3 DEF BeginWrite, InFlight
  <2>3. QED
    BY <1>3, <2>1, <2>2, FS_AddElement DEF BeginWrite
<1>4. ASSUME NEW w \in Writers, Apply(w) PROVE CountInv'
  <2>1. InFlight' = InFlight /\ rc' = rc
    BY <1>4 DEF Apply, storeVars, ccVars, writerVars, readerVars, InFlight
  <2>2. QED
    BY <2>1
<1>5. ASSUME NEW w \in Writers, SetReturn(w) PROVE CountInv'
  <2>1. InFlight' = InFlight /\ rc' = rc
    BY <1>5 DEF SetReturn, storeVars, ccVars, writerVars, readerVars, InFlight
  <2>2. QED
    BY <2>1
<1>6. ASSUME NEW w \in Writers, CompleteWrite(w) PROVE CountInv'
  <2>1. IsFiniteSet(InFlight) /\ w \in InFlight
    BY <1>6, FS_Subset DEF CompleteWrite, InFlight
  <2>2. InFlight' = InFlight \ {w}
    BY <1>6 DEF CompleteWrite, InFlight
  <2>3. QED
    BY <1>6, <2>1, <2>2, FS_RemoveElement DEF CompleteWrite
<1>7. ASSUME NEW r \in Readers, GetStart(r) PROVE CountInv'
  <2>1. InFlight' = InFlight /\ rc' = rc
    BY <1>7 DEF GetStart, storeVars, ccVars, writerVars, readerVars, InFlight
  <2>2. QED
    BY <2>1
<1>8. ASSUME NEW r \in Readers, BeginRead(r) PROVE CountInv'
  <2>1. InFlight' = InFlight /\ rc' = rc
    BY <1>8 DEF BeginRead, storeVars, ccVars, writerVars, readerVars, InFlight
  <2>2. QED
    BY <2>1
<1>9. ASSUME NEW r \in Readers, Get(r) PROVE CountInv'
  <2>1. InFlight' = InFlight /\ rc' = rc
    BY <1>9 DEF Get, storeVars, ccVars, writerVars, readerVars, InFlight
  <2>2. QED
    BY <2>1
<1>10. ASSUME NEW r \in Readers, GetError(r) PROVE CountInv'
  <2>1. InFlight' = InFlight /\ rc' = rc
    BY <1>10 DEF GetError, GetEnds, storeVars, ccVars, writerVars, readerVars, InFlight
  <2>2. QED
    BY <2>1
<1>11. ASSUME NEW r \in Readers, CheckReadCorrect(r) PROVE CountInv'
  <2>1. InFlight' = InFlight /\ rc' = rc
    BY <1>11
    DEF CheckReadCorrect, GetEnds, storeVars, ccVars, writerVars, readerVars,
        InFlight
  <2>2. QED
    BY <2>1
<1>12. CASE UNCHANGED checkerVars
  <2>1. InFlight' = InFlight /\ rc' = rc
    BY <1>12 DEF checkerVars, storeVars, ccVars, writerVars, readerVars, InFlight
  <2>2. QED
    BY <2>1
<1>13. QED
  BY <1>1, <1>2, <1>3, <1>4, <1>5, <1>6, <1>7, <1>8, <1>9, <1>10, <1>11, <1>12
  DEF CheckerNext, WriterStep, ReaderStep

(* version and rc never miss an overlap. *)
LEMMA OverlapStep == CheckerInv /\ [CheckerNext]_checkerVars => OverlapInv'
<1> SUFFICES ASSUME CheckerInv, [CheckerNext]_checkerVars PROVE OverlapInv'
  OBVIOUS
<1>0. CheckerTypeOK /\ OverlapInv
  BY DEF CheckerInv
<1> USE <1>0, ValuesAssumption, TimesAssumption
    DEF CheckerTypeOK, OverlapInv, Alone, InFlight
<1>1. CASE Tick
  BY <1>1 DEF Tick, storeVars, ccVars, writerVars, readerVars
<1>2. ASSUME NEW w \in Writers, SetStart(w) PROVE OverlapInv'
  BY <1>2 DEF SetStart, storeVars, ccVars, writerVars, readerVars
<1>3. ASSUME NEW w \in Writers, BeginWrite(w) PROVE OverlapInv'
  BY <1>3 DEF BeginWrite, storeVars, ccVars, writerVars, readerVars
<1>4. ASSUME NEW w \in Writers, Apply(w) PROVE OverlapInv'
  BY <1>4 DEF Apply, storeVars, ccVars, writerVars, readerVars
<1>5. ASSUME NEW w \in Writers, SetReturn(w) PROVE OverlapInv'
  BY <1>5 DEF SetReturn, storeVars, ccVars, writerVars, readerVars
<1>6. ASSUME NEW w \in Writers, CompleteWrite(w) PROVE OverlapInv'
  BY <1>6 DEF CompleteWrite, storeVars, ccVars, writerVars, readerVars
<1>7. ASSUME NEW r \in Readers, GetStart(r) PROVE OverlapInv'
  BY <1>7 DEF GetStart, storeVars, ccVars, writerVars, readerVars
<1>8. ASSUME NEW r \in Readers, BeginRead(r) PROVE OverlapInv'
  BY <1>8 DEF BeginRead, storeVars, ccVars, writerVars, readerVars
<1>9. ASSUME NEW r \in Readers, Get(r) PROVE OverlapInv'
  BY <1>9 DEF Get, storeVars, ccVars, writerVars, readerVars
<1>10. ASSUME NEW r \in Readers, GetError(r) PROVE OverlapInv'
  BY <1>10 DEF GetError, GetEnds, storeVars, ccVars, writerVars, readerVars
<1>11. ASSUME NEW r \in Readers, CheckReadCorrect(r) PROVE OverlapInv'
  BY <1>11 DEF CheckReadCorrect, GetEnds, storeVars, ccVars, writerVars, readerVars
<1>12. CASE UNCHANGED checkerVars
  BY <1>12 DEF checkerVars, storeVars, ccVars, writerVars, readerVars
<1>13. QED
  BY <1>1, <1>2, <1>3, <1>4, <1>5, <1>6, <1>7, <1>8, <1>9, <1>10, <1>11, <1>12
  DEF CheckerNext, WriterStep, ReaderStep

(* Values are given up only for a write that ran alone. *)
LEMMA HistoryStep == CheckerInv /\ [CheckerNext]_checkerVars => HistoryInv'
<1> SUFFICES ASSUME CheckerInv, [CheckerNext]_checkerVars PROVE HistoryInv'
  OBVIOUS
<1>0. CheckerTypeOK /\ CountInv /\ OverlapInv /\ HistoryInv
  BY DEF CheckerInv
<1> USE <1>0, ValuesAssumption, TimesAssumption
    DEF CheckerTypeOK, OverlapInv, HistoryInv, StaleIsRejected, Alone, InFlight
<1>1. CASE Tick
  BY <1>1 DEF Tick, storeVars, ccVars, writerVars, readerVars
<1>2. ASSUME NEW w \in Writers, SetStart(w) PROVE HistoryInv'
  BY <1>2 DEF SetStart, storeVars, ccVars, writerVars, readerVars
<1>3. ASSUME NEW w \in Writers, BeginWrite(w) PROVE HistoryInv'
  BY <1>3 DEF BeginWrite, storeVars, ccVars, writerVars, readerVars
<1>4. ASSUME NEW w \in Writers, Apply(w) PROVE HistoryInv'
  BY <1>4 DEF Apply, storeVars, ccVars, writerVars, readerVars
<1>5. ASSUME NEW w \in Writers, SetReturn(w) PROVE HistoryInv'
  BY <1>5 DEF SetReturn, storeVars, ccVars, writerVars, readerVars
<1>6. ASSUME NEW w \in Writers, CompleteWrite(w) PROVE HistoryInv'
  <2> DEFINE solo == ~werr[w] /\ winit[w] = version /\ rc = 1
  <2>1. w \in InFlight /\ w \notin values /\ w \notin overwrittenValues
    BY <1>6 DEF CompleteWrite
  <2>2. solo <=> ~werr[w] /\ w \notin overlapped
    <3>1. rc = 1 <=> Alone(w)
      BY <2>1, CountFacts
    <3> QED
      BY <2>1, <3>1
  <2>3. /\ wpc' = [wpc EXCEPT ![w] = "done"] /\ version' = version + 1
        /\ UNCHANGED <<werr, winit, overlapped>>
        /\ solo => overwrittenValues' = overwrittenValues \cup values /\ values' = {w}
        /\ ~solo => overwrittenValues' = overwrittenValues /\ values' = values \cup {w}
    BY <1>6 DEF CompleteWrite, storeVars, ccVars, writerVars, readerVars
  <2> HIDE DEF solo
  <2>4. \A v \in Writers : wpc'[v] = "done" <=> v \in values' \cup overwrittenValues'
    BY <2>1, <2>3
  <2>5. \A v \in Writers : wpc'[v] = "done" => winit'[v] < version'
    BY <2>1, <2>3
  <2>6. \A v \in Writers : wpc'[v] = "done" /\ v \notin overlapped' =>
            \A u \in InFlight' : winit'[v] < winit'[u]
    BY <2>1, <2>3
  <2>7. StaleIsRejected'
    <3> SUFFICES ASSUME NEW v \in Writers, NEW u \in Writers,
                        wpc'[v] = "done", wpc'[u] = "done", v # u,
                        u \notin overlapped', ~werr'[u], winit'[v] < winit'[u]
                 PROVE  v \in overwrittenValues' /\ v \notin values'
      OBVIOUS
    <3>1. CASE u = w
      BY <3>1, <2>1, <2>2, <2>3
    <3>2. CASE v = w
      BY <3>2, <2>1, <2>3
    <3>3. CASE u # w /\ v # w
      BY <3>3, <2>1, <2>3
    <3> QED
      BY <3>1, <3>2, <3>3
  <2> QED
    BY <2>4, <2>5, <2>6, <2>7
<1>7. ASSUME NEW r \in Readers, GetStart(r) PROVE HistoryInv'
  BY <1>7 DEF GetStart, storeVars, ccVars, writerVars, readerVars
<1>8. ASSUME NEW r \in Readers, BeginRead(r) PROVE HistoryInv'
  BY <1>8 DEF BeginRead, storeVars, ccVars, writerVars, readerVars
<1>9. ASSUME NEW r \in Readers, Get(r) PROVE HistoryInv'
  BY <1>9 DEF Get, storeVars, ccVars, writerVars, readerVars
<1>10. ASSUME NEW r \in Readers, GetError(r) PROVE HistoryInv'
  BY <1>10 DEF GetError, GetEnds, storeVars, ccVars, writerVars, readerVars
<1>11. ASSUME NEW r \in Readers, CheckReadCorrect(r) PROVE HistoryInv'
  BY <1>11 DEF CheckReadCorrect, GetEnds, storeVars, ccVars, writerVars, readerVars
<1>12. CASE UNCHANGED checkerVars
  BY <1>12 DEF checkerVars, storeVars, ccVars, writerVars, readerVars
<1>13. QED
  BY <1>1, <1>2, <1>3, <1>4, <1>5, <1>6, <1>7, <1>8, <1>9, <1>10, <1>11, <1>12
  DEF CheckerNext, WriterStep, ReaderStep

(* The register's value stays among the accepted ones. *)
LEMMA StoreStep == CheckerInv /\ [CheckerNext]_checkerVars => StoreInv'
<1> SUFFICES ASSUME CheckerInv, [CheckerNext]_checkerVars PROVE StoreInv'
  OBVIOUS
<1>0. CheckerTypeOK /\ CountInv /\ OverlapInv /\ HistoryInv /\ StoreInv
  BY DEF CheckerInv
<1> USE <1>0, ValuesAssumption, TimesAssumption
    DEF CheckerTypeOK, OverlapInv, HistoryInv, StoreInv, WellBehaved, Alone, InFlight
<1>1. CASE Tick
  BY <1>1 DEF Tick, storeVars, ccVars, writerVars, readerVars
<1>2. ASSUME NEW w \in Writers, SetStart(w) PROVE StoreInv'
  BY <1>2 DEF SetStart, storeVars, ccVars, writerVars, readerVars
<1>3. ASSUME NEW w \in Writers, BeginWrite(w) PROVE StoreInv'
  <2> SUFFICES ASSUME WellBehaved PROVE StoreInv!2'
    OBVIOUS
  <2>1. /\ InFlight' = InFlight \cup {w} /\ wpc[w] = "started"
        /\ overlapped \subseteq overlapped'
        /\ wpc' = [wpc EXCEPT ![w] = "begun"]
        /\ UNCHANGED <<clock, cell, expiry, applied, values, wstart, wend, werr>>
    BY <1>3 DEF BeginWrite, storeVars, ccVars, writerVars, readerVars
  <2>2. w \notin applied
    BY <2>1
  <2> QED
    BY <2>1, <2>2
<1>4. ASSUME NEW w \in Writers, Apply(w) PROVE StoreInv'
  BY <1>4 DEF Apply, storeVars, ccVars, writerVars, readerVars
<1>5. ASSUME NEW w \in Writers, SetReturn(w) PROVE StoreInv'
  BY <1>5 DEF SetReturn, storeVars, ccVars, writerVars, readerVars
<1>6. ASSUME NEW w \in Writers, CompleteWrite(w) PROVE StoreInv'
  <2>1. w \in InFlight
    BY <1>6 DEF CompleteWrite
  <2>2. rc = 1 <=> Alone(w)
    BY <2>1, CountFacts
  <2> QED
    BY <1>6, <2>1, <2>2 DEF CompleteWrite, storeVars, ccVars, writerVars, readerVars
<1>7. ASSUME NEW r \in Readers, GetStart(r) PROVE StoreInv'
  BY <1>7 DEF GetStart, storeVars, ccVars, writerVars, readerVars
<1>8. ASSUME NEW r \in Readers, BeginRead(r) PROVE StoreInv'
  BY <1>8 DEF BeginRead, storeVars, ccVars, writerVars, readerVars
<1>9. ASSUME NEW r \in Readers, Get(r) PROVE StoreInv'
  BY <1>9 DEF Get, storeVars, ccVars, writerVars, readerVars
<1>10. ASSUME NEW r \in Readers, GetError(r) PROVE StoreInv'
  BY <1>10 DEF GetError, GetEnds, storeVars, ccVars, writerVars, readerVars
<1>11. ASSUME NEW r \in Readers, CheckReadCorrect(r) PROVE StoreInv'
  BY <1>11 DEF CheckReadCorrect, GetEnds, storeVars, ccVars, writerVars, readerVars
<1>12. CASE UNCHANGED checkerVars
  BY <1>12 DEF checkerVars, storeVars, ccVars, writerVars, readerVars
<1>13. QED
  BY <1>1, <1>2, <1>3, <1>4, <1>5, <1>6, <1>7, <1>8, <1>9, <1>10, <1>11, <1>12
  DEF CheckerNext, WriterStep, ReaderStep

(* A read that no write overlapped is judged by what the register holds. *)
LEMMA ReadStep == CheckerInv /\ [CheckerNext]_checkerVars => ReadInv'
<1> SUFFICES ASSUME CheckerInv, [CheckerNext]_checkerVars PROVE ReadInv'
  OBVIOUS
<1>0. CheckerTypeOK /\ CountInv /\ OverlapInv /\ HistoryInv /\ StoreInv /\ ReadInv
  BY DEF CheckerInv
<1> USE <1>0, ValuesAssumption, TimesAssumption
    DEF CheckerTypeOK, ReadInv, WellBehaved, InFlight
<1>1. CASE Tick
  BY <1>1 DEF Tick, storeVars, ccVars, writerVars, readerVars
<1>2. ASSUME NEW w \in Writers, SetStart(w) PROVE ReadInv'
  BY <1>2 DEF SetStart, storeVars, ccVars, writerVars, readerVars
<1>3. ASSUME NEW w \in Writers, BeginWrite(w) PROVE ReadInv'
  BY <1>3 DEF BeginWrite, storeVars, ccVars, writerVars, readerVars
<1>4. ASSUME NEW w \in Writers, Apply(w) PROVE ReadInv'
  BY <1>4 DEF Apply, storeVars, ccVars, writerVars, readerVars
<1>5. ASSUME NEW w \in Writers, SetReturn(w) PROVE ReadInv'
  BY <1>5 DEF SetReturn, storeVars, ccVars, writerVars, readerVars
<1>6. ASSUME NEW w \in Writers, CompleteWrite(w) PROVE ReadInv'
  BY <1>6 DEF CompleteWrite, storeVars, ccVars, writerVars, readerVars
<1>7. ASSUME NEW r \in Readers, GetStart(r) PROVE ReadInv'
  BY <1>7 DEF GetStart, storeVars, ccVars, writerVars, readerVars
<1>8. ASSUME NEW r \in Readers, BeginRead(r) PROVE ReadInv'
  BY <1>8 DEF BeginRead, storeVars, ccVars, writerVars, readerVars
<1>9. ASSUME NEW r \in Readers, Get(r) PROVE ReadInv'
  BY <1>9 DEF Get, storeVars, ccVars, writerVars, readerVars
<1>10. ASSUME NEW r \in Readers, GetError(r) PROVE ReadInv'
  BY <1>10 DEF GetError, GetEnds, storeVars, ccVars, writerVars, readerVars
<1>11. ASSUME NEW r \in Readers, CheckReadCorrect(r) PROVE ReadInv'
  <2>1. ASSUME WellBehaved, version = rinit[r], rc = 0
        PROVE  Judge(r) # "incorrect"
    <3>1. InFlight = {}
      BY <2>1, CountFacts
    <3>2. rpc[r] = "got"
      BY <1>11 DEF CheckReadCorrect
    <3>3. \A w \in values : wpc[w] = "done"
      BY DEF HistoryInv
    <3>4. cell # NoValue => /\ cell \in values /\ wpc[cell] = "done"
                            /\ wstart[cell] + TTL <= expiry
                            /\ expiry <= wend[cell] + TTL
      BY <2>1, <3>1, <3>3 DEF StoreInv
    <3>5. cell = NoValue => values = {}
      BY <2>1, <3>3 DEF StoreInv
    <3>6. CASE rval[r] = NoValue
      <4>1. cell = NoValue \/ expiry < clock
        BY <2>1, <3>1, <3>2, <3>6
      <4>2. values = {} \/ \E w \in values : MaybeExpiredBy(w) < clock
        BY <3>4, <3>5, <4>1 DEF MaybeExpiredBy
      <4> QED
        BY <3>6, <4>2 DEF Judge
    <3>7. CASE rval[r] # NoValue
      <4>1. rval[r] = cell /\ rstart[r] <= expiry
        BY <2>1, <3>1, <3>2, <3>7
      <4>2. cell \in values /\ rstart[r] <= wend[cell] + TTL
        BY <3>4, <3>7, <4>1
      <4>3. ~(DefinitelyExpiredBy(cell) < rstart[r])
        BY <4>2 DEF DefinitelyExpiredBy
      <4> QED
        BY <3>7, <4>1, <4>2, <4>3 DEF Judge
    <3> QED
      BY <3>6, <3>7
  <2>2. WellBehaved => Judge(r) # "incorrect"
    BY <2>1 DEF Judge
  <2> QED
    BY <1>11, <2>2
    DEF CheckReadCorrect, GetEnds, storeVars, ccVars, writerVars, readerVars
<1>12. CASE UNCHANGED checkerVars
  BY <1>12 DEF checkerVars, storeVars, ccVars, writerVars, readerVars
<1>13. QED
  BY <1>1, <1>2, <1>3, <1>4, <1>5, <1>6, <1>7, <1>8, <1>9, <1>10, <1>11, <1>12
  DEF CheckerNext, WriterStep, ReaderStep

-----------------------------------------------------------------------------
(* Nothing has been written or read yet. *)
LEMMA CheckerInitInv == CheckerInit => CheckerInv
<1> SUFFICES ASSUME CheckerInit PROVE CheckerInv
  OBVIOUS
<1> USE ValuesAssumption, TimesAssumption DEF CheckerInit
<1>1. CheckerTypeOK
  BY DEF CheckerTypeOK
<1>2. InFlight = {}
  BY DEF InFlight
<1>3. CountInv
  BY <1>2, FS_EmptySet DEF CountInv
<1>4. OverlapInv
  BY <1>2 DEF OverlapInv
<1>5. HistoryInv
  BY DEF HistoryInv, StaleIsRejected
<1>6. StoreInv
  BY <1>2 DEF StoreInv
<1>7. ReadInv
  BY DEF ReadInv
<1>8. QED
  BY <1>1, <1>3, <1>4, <1>5, <1>6, <1>7 DEF CheckerInv

(* CheckerInv is an inductive invariant of the checker and its users. *)
THEOREM CheckerInvariance == CheckerSpec => []CheckerInv
<1>1. CheckerInv /\ [CheckerNext]_checkerVars => CheckerInv'
  BY CheckerTypeStep, CountStep, OverlapStep, HistoryStep, StoreStep, ReadStep DEF CheckerInv
<1>2. QED
  BY <1>1, CheckerInitInv, PTL DEF CheckerSpec

(* The variables of the checker and its users keep their types; rc, which     *)
(* CompleteWrite decrements, never drops below zero.                          *)
THEOREM CheckerTypesCorrect == CheckerSpec => []CheckerTypeOK
<1>1. CheckerInv => CheckerTypeOK
  BY DEF CheckerInv
<1>2. QED
  BY <1>1, CheckerInvariance, PTL

(* The initial version and the reference count tell CompleteWrite exactly      *)
(* whether another Set overlapped this one.                                    *)
THEOREM OverlapsAreDetected == CheckerSpec => []OverlapIsDetected
<1>1. CheckerInv => OverlapIsDetected
  <2> SUFFICES ASSUME CheckerInv, NEW w \in InFlight
               PROVE  (winit[w] = version /\ rc = 1) <=> w \notin overlapped
    BY DEF OverlapIsDetected
  <2>1. rc = 1 <=> Alone(w)
    BY CountFacts DEF CheckerInv
  <2>2. winit[w] \in Nat /\ version \in Nat
    BY DEF CheckerInv, CheckerTypeOK, InFlight
  <2>3. QED
    BY <2>1, <2>2 DEF CheckerInv, OverlapInv
<1>2. QED
  BY <1>1, CheckerInvariance, PTL

(* A value older than a successful Set that ran alone is not accepted again.   *)
THEOREM StaleValuesAreRejected == CheckerSpec => []StaleIsRejected
<1>1. CheckerInv => StaleIsRejected
  BY DEF CheckerInv, HistoryInv
<1>2. QED
  BY <1>1, CheckerInvariance, PTL

(* The checker raises no false alarm about a register with a TTL, as long as   *)
(* no Set fails before one has succeeded and no failed Set takes effect after  *)
(* it returned.  The run checker_first_set shows that the first condition is   *)
(* needed; LateSets = TRUE in its configuration shows the same of the second.  *)
THEOREM NoFalseAlarm == CheckerSpec => [](WellBehaved => NoFalsePositive)
<1>1. CheckerInv => (WellBehaved => NoFalsePositive)
  BY DEF CheckerInv, ReadInv, NoFalsePositive
<1>2. QED
  BY <1>1, CheckerInvariance, PTL
=============================================================================

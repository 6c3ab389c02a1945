------------------------------ MODULE ShardMap ------------------------------
(***************************************************************************)
(* lab4/kv/shardmap.go: the ShardMap, its listeners and Update().          *)
(*                                                                         *)
(* Update() swaps the state in atomically, then, holding the read lock,    *)
(* sends one notification on the unbuffered channel of every registered    *)
(* listener; MakeListener() and Close() change the set of channels under   *)
(* the write lock.  The state value itself is abstracted to the number of  *)
(* Swaps done so far: the number stands for the pointer the Swap stored.   *)
(*                                                                         *)
(* The updaters are threads that run UpdateShardMapping of                 *)
(* lab4/kv/test/test_setup.go, i.e. Update() twice in a row.               *)
(***************************************************************************)
EXTENDS Naturals, FiniteSets

CONSTANTS Updaters,     \* threads that call UpdateShardMapping
          Servers,      \* KvServerImpl instances; each owns one listener
          Nobody,       \* no thread / no channel
          MaxSwaps,     \* bound: no UpdateShardMapping starts beyond it
          MaxListeners  \* bound: calls of MakeListener() explored

ASSUME ThreadsAssumption ==
    /\ Updaters \cap Servers = {}
    /\ Nobody \notin Updaters \cup Servers
ASSUME BoundsAssumption == MaxSwaps \in Nat /\ MaxListeners \in Nat

VARIABLES
    swaps,                 \* sm.state, as the number of the Swap that stored it
    mutex,                 \* sm.mutex
    updateChannels,        \* sm.updateChannels: id -> the server whose listener it is
    updateChannelCounter,  \* sm.updateChannelCounter
    listenerId,            \* ShardMapListener.id of each server
    closed,                \* servers whose listener channel is closed
    upc,                   \* control point of each updater
    phase,                 \* which of the two Update() calls an updater is in
    pending,               \* ids the updater's range loop has not visited yet
    target,                \* the id it is sending to, else MaxListeners
    goal,                  \* history: number of the updater's first Swap
    base                   \* history: servers registered at that Swap

mapVars == <<updateChannels, updateChannelCounter, listenerId, closed>>
updaterVars == <<upc, phase, pending, target, goal, base>>
smVars == <<swaps, mutex, mapVars, updaterVars>>

RW == INSTANCE RWMutex WITH Threads <- Updaters \cup Servers

Ids == 0 .. MaxListeners
Registered(s) == updateChannels[listenerId[s]] = s
RegisteredIds == {id \in Ids : updateChannels[id] # Nobody}

ShardMapTypeOK ==
    /\ swaps \in Nat
    /\ mutex \in RW!RWMutexType
    /\ updateChannels \in [Ids -> Servers \cup {Nobody}]
    /\ updateChannelCounter \in Ids
    /\ listenerId \in [Servers -> Ids]
    /\ closed \in SUBSET Servers
    /\ upc \in [Updaters -> {"idle", "rlock", "queued", "range", "send", "again"}]
    /\ phase \in [Updaters -> {1, 2}]
    /\ pending \in [Updaters -> SUBSET Ids]
    /\ target \in [Updaters -> Ids]
    /\ goal \in [Updaters -> Nat]
    /\ base \in [Updaters -> SUBSET Servers]

\* The zero ShardMap: no channels, counter 0.  MaxListeners is never handed
\* out as an id, so it serves as the id of a listener not made yet.
ShardMapInit ==
    /\ swaps = 0
    /\ mutex = RW!Unlocked
    /\ updateChannels = [id \in Ids |-> Nobody]
    /\ updateChannelCounter = 0
    /\ listenerId = [s \in Servers |-> MaxListeners]
    /\ closed = {}
    /\ upc = [u \in Updaters |-> "idle"]
    /\ phase = [u \in Updaters |-> 1]
    /\ pending = [u \in Updaters |-> {}]
    /\ target = [u \in Updaters |-> MaxListeners]
    /\ goal = [u \in Updaters |-> 0]
    /\ base = [u \in Updaters |-> {}]

-----------------------------------------------------------------------------
(* Update(), by updater u.                                                 *)

\* Swap of the first Update() of an UpdateShardMapping.
FirstSwap(u) ==
    /\ upc[u] = "idle"
    /\ swaps + 2 <= MaxSwaps
    /\ swaps' = swaps + 1
    /\ goal' = [goal EXCEPT ![u] = swaps + 1]
    /\ base' = [base EXCEPT ![u] = {s \in Servers : Registered(s)}]
    /\ phase' = [phase EXCEPT ![u] = 1]
    /\ upc' = [upc EXCEPT ![u] = "rlock"]
    /\ UNCHANGED <<mutex, mapVars, pending, target>>

\* Swap of the second Update(), which stores the same state again.
SecondSwap(u) ==
    /\ upc[u] = "again"
    /\ swaps' = swaps + 1
    /\ phase' = [phase EXCEPT ![u] = 2]
    /\ upc' = [upc EXCEPT ![u] = "rlock"]
    /\ UNCHANGED <<mutex, mapVars, pending, target, goal, base>>

\* Mutant of UpdateRLock: the map is walked without taking the read lock.
UpdateRLockSkipped(u) ==
    /\ upc[u] = "rlock"
    /\ pending' = [pending EXCEPT ![u] = RegisteredIds]
    /\ upc' = [upc EXCEPT ![u] = "range"]
    /\ UNCHANGED <<swaps, mutex, mapVars, phase, target, goal, base>>

\* sm.mutex.RLock(), and the start of the range loop.
UpdateRLock(u) ==
    /\ upc[u] = "rlock"
    /\ RW!CanRLock(mutex)
    /\ mutex' = RW!RLock(mutex, u)
    /\ pending' = [pending EXCEPT ![u] = RegisteredIds]
    /\ upc' = [upc EXCEPT ![u] = "range"]
    /\ UNCHANGED <<swaps, mapVars, phase, target, goal, base>>

UpdateRLockWait(u) ==
    /\ upc[u] = "rlock"
    /\ ~RW!CanRLock(mutex)
    /\ mutex' = RW!RLockQueue(mutex, u)
    /\ upc' = [upc EXCEPT ![u] = "queued"]
    /\ UNCHANGED <<swaps, mapVars, phase, pending, target, goal, base>>

UpdateRLockWake(u) ==
    /\ upc[u] = "queued"
    /\ u \in mutex.readers
    /\ pending' = [pending EXCEPT ![u] = RegisteredIds]
    /\ upc' = [upc EXCEPT ![u] = "range"]
    /\ UNCHANGED <<swaps, mutex, mapVars, phase, target, goal, base>>

\* for _, ch := range sm.updateChannels: the map's order is unspecified, and
\* the loop commits to a channel before it knows whether anyone receives on it.
UpdateNext(u) ==
    /\ upc[u] = "range"
    /\ \E id \in pending[u] :
        /\ target' = [target EXCEPT ![u] = id]
        /\ pending' = [pending EXCEPT ![u] = @ \ {id}]
    /\ upc' = [upc EXCEPT ![u] = "send"]
    /\ UNCHANGED <<swaps, mutex, mapVars, phase, goal, base>>

\* ch <- struct{}{}: a rendezvous, so the receiver's step is conjoined to it.
UpdateSend(u, s) ==
    /\ upc[u] = "send"
    /\ updateChannels[target[u]] = s
    /\ target' = [target EXCEPT ![u] = MaxListeners]
    /\ upc' = [upc EXCEPT ![u] = "range"]
    /\ UNCHANGED <<swaps, mutex, mapVars, phase, pending, goal, base>>

\* Mutant of UpdateReturn: the deferred RUnlock is missing.
UpdateReturnLocked(u) ==
    /\ upc[u] = "range"
    /\ pending[u] = {}
    /\ upc' = [upc EXCEPT ![u] = IF phase[u] = 1 THEN "again" ELSE "idle"]
    /\ UNCHANGED <<swaps, mutex, mapVars, phase, pending, target, goal, base>>

\* Mutant of UpdateReturn: UpdateShardMapping calls Update() once.
UpdateReturnOnce(u) ==
    /\ upc[u] = "range"
    /\ pending[u] = {}
    /\ mutex' = RW!RUnlock(mutex, u)
    /\ upc' = [upc EXCEPT ![u] = "idle"]
    /\ UNCHANGED <<swaps, mapVars, phase, pending, target, goal, base>>

\* RUnlock and return; UpdateShardMapping goes on with its second Update().
UpdateReturn(u) ==
    /\ upc[u] = "range"
    /\ pending[u] = {}
    /\ mutex' = RW!RUnlock(mutex, u)
    /\ upc' = [upc EXCEPT ![u] = IF phase[u] = 1 THEN "again" ELSE "idle"]
    /\ UNCHANGED <<swaps, mapVars, phase, pending, target, goal, base>>

-----------------------------------------------------------------------------
(* MakeListener() and Close(), by the thread that owns server s.           *)

LockAnnounce(s) ==
    /\ RW!CanAnnounce(mutex)
    /\ mutex' = RW!Announce(mutex, s)
    /\ UNCHANGED <<swaps, mapVars, updaterVars>>

MakeListener(s) ==
    /\ RW!HasLock(mutex, s)
    /\ updateChannelCounter < MaxListeners
    /\ listenerId' = [listenerId EXCEPT ![s] = updateChannelCounter]
    /\ updateChannelCounter' = updateChannelCounter + 1
    /\ updateChannels' = [updateChannels EXCEPT ![updateChannelCounter] = s]
    /\ mutex' = RW!Unlock(mutex)
    /\ UNCHANGED <<swaps, closed, updaterVars>>

Close(s) ==
    /\ RW!HasLock(mutex, s)
    /\ updateChannels' = [updateChannels EXCEPT ![listenerId[s]] = Nobody]
    /\ closed' = closed \cup {s}
    /\ mutex' = RW!Unlock(mutex)
    /\ UNCHANGED <<swaps, updateChannelCounter, listenerId, updaterVars>>

\* A step of Update() that no listener takes part in.
UpdateStep(u) ==
    \/ FirstSwap(u) \/ SecondSwap(u)
    \/ UpdateRLock(u) \/ UpdateRLockWait(u) \/ UpdateRLockWake(u)
    \/ UpdateNext(u) \/ UpdateReturn(u)
=============================================================================

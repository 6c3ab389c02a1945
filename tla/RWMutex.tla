------------------------------ MODULE RWMutex ------------------------------
(***************************************************************************)
(* Go's sync.RWMutex (standard library, external), as the shard map and    *)
(* the client pool use it.  A mutex is a record:                           *)
(*   readers  threads inside RLock .. RUnlock                              *)
(*   queued   threads that called RLock while a writer was announced       *)
(*   writer   the thread that announced Lock (it waits for the readers to  *)
(*            leave, then holds the mutex), or Nobody                      *)
(* An announced writer keeps new readers out, and its Unlock admits every  *)
(* queued reader before another writer can announce itself.                *)
(***************************************************************************)

CONSTANTS Threads, Nobody
\* The modules that instantiate this one assume Nobody \notin Threads.

RWMutexType == [readers : SUBSET Threads,
                queued  : SUBSET Threads,
                writer  : Threads \cup {Nobody}]

Unlocked == [readers |-> {}, queued |-> {}, writer |-> Nobody]

-----------------------------------------------------------------------------
(* RLock: get in at once, or queue up behind the announced writer.         *)

CanRLock(m) == m.writer = Nobody
RLock(m, t) == [m EXCEPT !.readers = @ \cup {t}]
RLockQueue(m, t) == [m EXCEPT !.queued = @ \cup {t}]
RUnlock(m, t) == [m EXCEPT !.readers = @ \ {t}]

(* Lock: announce (one writer at a time), wait for the readers, enter.     *)
CanAnnounce(m) == m.writer = Nobody
Announce(m, t) == [m EXCEPT !.writer = t]
HasLock(m, t) == m.writer = t /\ m.readers = {}

(* Unlock: the queued readers get in.                                      *)
Unlock(m) == [readers |-> m.queued, queued |-> {}, writer |-> Nobody]
=============================================================================

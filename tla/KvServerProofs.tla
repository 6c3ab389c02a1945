--------------------------- MODULE KvServerProofs ---------------------------
(***************************************************************************)
(* For every set of updaters and servers and every bound: the invariants   *)
(* of KvServer follow from one inductive invariant, Inv.                   *)
(***************************************************************************)
EXTENDS KvServer, TLAPS

\* Update() u has yet to notify server s.
Unsent(u, s) ==
    \/ upc[u] \in {"rlock", "queued"}
    \/ upc[u] \in {"range", "send"} /\ listenerId[s] \in pending[u]
    \/ upc[u] = "send" /\ listenerId[s] = target[u]

\* Who holds the mutex, and what is then fixed.
LockInv ==
    \A u \in Updaters :
        /\ upc[u] \in {"range", "send"} =>
            /\ u \in mutex.readers
            /\ \A id \in pending[u] : updateChannels[id] # Nobody
        /\ upc[u] = "send" => updateChannels[target[u]] # Nobody

\* The channel map holds exactly the listeners made and not yet closed, each
\* under its own id.
ChannelInv ==
    /\ \A id \in Ids : updateChannels[id] # Nobody =>
        /\ listenerId[updateChannels[id]] = id
        /\ id < updateChannelCounter
        /\ spc[updateChannels[id]] \notin {"absent", "makeLock", "down"}
    /\ \A s \in Servers :
        /\ spc[s] \notin {"absent", "makeLock", "down"} => Registered(s)
        /\ s \in closed => spc[s] = "down"

\* The owner's and the loop's control points, and how far the loop is.
LoopInv ==
    \A s \in Servers :
        /\ loop[s] = "none" <=> spc[s] \in {"absent", "makeLock", "made"}
        /\ loop[s] = "exited" <=> spc[s] \in {"close", "closeLock", "down"}
        /\ loop[s] \in {"none", "select"} => handled[s] = begun[s]
        /\ handled[s] <= begun[s]
        /\ begun[s] <= swaps

\* What the first and the second Update() of u have achieved at server s.
SyncInv ==
    \A u \in Updaters :
        /\ goal[u] <= swaps
        /\ \A s \in base[u] :
            /\ spc[s] \notin {"absent", "makeLock"}
            /\ loop[s] # "exited" =>
                /\ upc[u] = "idle" => handled[s] >= goal[u]
                /\ (upc[u] # "idle" /\ phase[u] = 1) =>
                       Unsent(u, s) \/ begun[s] >= goal[u]
                /\ (upc[u] # "idle" /\ phase[u] = 2) =>
                       /\ begun[s] >= goal[u]
                       /\ Unsent(u, s) \/ handled[s] >= goal[u]

\* A running server is up to date, or some Update() will still notify it.
NotifyInv ==
    \A s \in Servers : loop[s] \in {"select", "handling"} =>
        \/ begun[s] = swaps
        \/ ctor[s] = swaps
        \/ \E u \in Updaters : Unsent(u, s)

Inv == TypeOK /\ LockInv /\ ChannelInv /\ LoopInv /\ SyncInv /\ NotifyInv

-----------------------------------------------------------------------------
(* Every step keeps the variables in their types. *)
LEMMA TypeStep == Inv /\ [Next]_vars => TypeOK'
<1> SUFFICES ASSUME Inv, [Next]_vars PROVE TypeOK'
  OBVIOUS
<1>0. TypeOK
  BY DEF Inv
<1> USE <1>0, ThreadsAssumption, BoundsAssumption
    DEF TypeOK, ShardMapTypeOK, RW!RWMutexType, Ids
<1>1. ASSUME NEW u \in Updaters, FirstSwap(u), UNCHANGED serverVars PROVE TypeOK'
  BY <1>1 DEF FirstSwap, mapVars, serverVars
<1>2. ASSUME NEW u \in Updaters, SecondSwap(u), UNCHANGED serverVars PROVE TypeOK'
  BY <1>2 DEF SecondSwap, mapVars, serverVars
<1>3. ASSUME NEW u \in Updaters, UpdateRLock(u), UNCHANGED serverVars PROVE TypeOK'
  BY <1>3 DEF UpdateRLock, RW!CanRLock, RW!RLock, RegisteredIds, mapVars, serverVars
<1>4. ASSUME NEW u \in Updaters, UpdateRLockWait(u), UNCHANGED serverVars PROVE TypeOK'
  BY <1>4 DEF UpdateRLockWait, RW!CanRLock, RW!RLockQueue, mapVars, serverVars
<1>5. ASSUME NEW u \in Updaters, UpdateRLockWake(u), UNCHANGED serverVars PROVE TypeOK'
  BY <1>5 DEF UpdateRLockWake, RegisteredIds, mapVars, serverVars
<1>6. ASSUME NEW u \in Updaters, UpdateNext(u), UNCHANGED serverVars PROVE TypeOK'
  BY <1>6 DEF UpdateNext, mapVars, serverVars
<1>7. ASSUME NEW u \in Updaters, UpdateReturn(u), UNCHANGED serverVars PROVE TypeOK'
  BY <1>7 DEF UpdateReturn, RW!RUnlock, mapVars, serverVars
<1>8. ASSUME NEW u \in Updaters, NEW s \in Servers, LoopNotified(u, s) PROVE TypeOK'
  BY <1>8 DEF LoopNotified, UpdateSend, mapVars, updaterVars
<1>9. ASSUME NEW s \in Servers, MakeLock(s) PROVE TypeOK'
  BY <1>9 DEF MakeLock, LockAnnounce, RW!CanAnnounce, RW!Announce, mapVars, updaterVars
<1>10. ASSUME NEW s \in Servers, ShutdownCall(s) PROVE TypeOK'
  BY <1>10 DEF ShutdownCall, mapVars, updaterVars
<1>11. ASSUME NEW s \in Servers, ShutdownCloseLock(s) PROVE TypeOK'
  BY <1>11
  DEF ShutdownCloseLock, LockAnnounce, RW!CanAnnounce, RW!Announce, mapVars,
      updaterVars
<1>12. ASSUME NEW s \in Servers, MakeRegister(s) PROVE TypeOK'
  BY <1>12 DEF MakeRegister, MakeListener, RW!HasLock, RW!Unlock, mapVars, updaterVars
<1>13. ASSUME NEW s \in Servers, MakeStartLoop(s) PROVE TypeOK'
  BY <1>13 DEF MakeStartLoop, mapVars, updaterVars
<1>14. ASSUME NEW s \in Servers, MakeHandled(s) PROVE TypeOK'
  BY <1>14 DEF MakeHandled, mapVars, updaterVars
<1>15. ASSUME NEW s \in Servers, ShutdownLoop(s) PROVE TypeOK'
  BY <1>15 DEF ShutdownLoop, mapVars, updaterVars
<1>16. ASSUME NEW s \in Servers, ShutdownClose(s) PROVE TypeOK'
  BY <1>16 DEF ShutdownClose, Close, RW!HasLock, RW!Unlock, mapVars, updaterVars
<1>17. ASSUME NEW s \in Servers, LoopHandled(s) PROVE TypeOK'
  BY <1>17 DEF LoopHandled, mapVars, updaterVars
<1>18. CASE UNCHANGED vars
  BY <1>18 DEF vars, mapVars, updaterVars, serverVars
<1>19. QED
  BY <1>1, <1>2, <1>3, <1>4, <1>5, <1>6, <1>7, <1>8, <1>9,
     <1>10, <1>11, <1>12, <1>13, <1>14, <1>15, <1>16, <1>17, <1>18
  DEF Next, Updating, UpdateStep, OwnerStep, Finished

(* An Update() walking the map holds the read lock, so the map is frozen. *)
LEMMA LockStep == Inv /\ [Next]_vars => LockInv'
<1> SUFFICES ASSUME Inv, [Next]_vars PROVE LockInv'
  OBVIOUS
<1>0. TypeOK /\ LockInv
  BY DEF Inv
<1> USE <1>0, ThreadsAssumption, BoundsAssumption
    DEF TypeOK, ShardMapTypeOK, RW!RWMutexType, Ids, LockInv
<1>1. ASSUME NEW u \in Updaters, FirstSwap(u), UNCHANGED serverVars PROVE LockInv'
  BY <1>1 DEF FirstSwap, mapVars, serverVars
<1>2. ASSUME NEW u \in Updaters, SecondSwap(u), UNCHANGED serverVars PROVE LockInv'
  BY <1>2 DEF SecondSwap, mapVars, serverVars
<1>3. ASSUME NEW u \in Updaters, UpdateRLock(u), UNCHANGED serverVars PROVE LockInv'
  BY <1>3 DEF UpdateRLock, RW!CanRLock, RW!RLock, RegisteredIds, mapVars, serverVars
<1>4. ASSUME NEW u \in Updaters, UpdateRLockWait(u), UNCHANGED serverVars PROVE LockInv'
  BY <1>4 DEF UpdateRLockWait, RW!CanRLock, RW!RLockQueue, mapVars, serverVars
<1>5. ASSUME NEW u \in Updaters, UpdateRLockWake(u), UNCHANGED serverVars PROVE LockInv'
  BY <1>5 DEF UpdateRLockWake, RegisteredIds, mapVars, serverVars
<1>6. ASSUME NEW u \in Updaters, UpdateNext(u), UNCHANGED serverVars PROVE LockInv'
  BY <1>6 DEF UpdateNext, mapVars, serverVars
<1>7. ASSUME NEW u \in Updaters, UpdateReturn(u), UNCHANGED serverVars PROVE LockInv'
  BY <1>7 DEF UpdateReturn, RW!RUnlock, mapVars, serverVars
<1>8. ASSUME NEW u \in Updaters, NEW s \in Servers, LoopNotified(u, s) PROVE LockInv'
  BY <1>8 DEF LoopNotified, UpdateSend, mapVars, updaterVars
<1>9. ASSUME NEW s \in Servers, MakeLock(s) PROVE LockInv'
  BY <1>9 DEF MakeLock, LockAnnounce, RW!CanAnnounce, RW!Announce, mapVars, updaterVars
<1>10. ASSUME NEW s \in Servers, ShutdownCall(s) PROVE LockInv'
  BY <1>10 DEF ShutdownCall, mapVars, updaterVars
<1>11. ASSUME NEW s \in Servers, ShutdownCloseLock(s) PROVE LockInv'
  BY <1>11
  DEF ShutdownCloseLock, LockAnnounce, RW!CanAnnounce, RW!Announce, mapVars,
      updaterVars
<1>12. ASSUME NEW s \in Servers, MakeRegister(s) PROVE LockInv'
  BY <1>12 DEF MakeRegister, MakeListener, RW!HasLock, RW!Unlock, mapVars, updaterVars
<1>13. ASSUME NEW s \in Servers, MakeStartLoop(s) PROVE LockInv'
  BY <1>13 DEF MakeStartLoop, mapVars, updaterVars
<1>14. ASSUME NEW s \in Servers, MakeHandled(s) PROVE LockInv'
  BY <1>14 DEF MakeHandled, mapVars, updaterVars
<1>15. ASSUME NEW s \in Servers, ShutdownLoop(s) PROVE LockInv'
  BY <1>15 DEF ShutdownLoop, mapVars, updaterVars
<1>16. ASSUME NEW s \in Servers, ShutdownClose(s) PROVE LockInv'
  BY <1>16 DEF ShutdownClose, Close, RW!HasLock, RW!Unlock, mapVars, updaterVars
<1>17. ASSUME NEW s \in Servers, LoopHandled(s) PROVE LockInv'
  BY <1>17 DEF LoopHandled, mapVars, updaterVars
<1>18. CASE UNCHANGED vars
  BY <1>18 DEF vars, mapVars, updaterVars, serverVars
<1>19. QED
  BY <1>1, <1>2, <1>3, <1>4, <1>5, <1>6, <1>7, <1>8, <1>9,
     <1>10, <1>11, <1>12, <1>13, <1>14, <1>15, <1>16, <1>17, <1>18
  DEF Next, Updating, UpdateStep, OwnerStep, Finished

(* MakeListener() hands out fresh ids, Close() removes its own. *)
LEMMA ChannelStep == Inv /\ [Next]_vars => ChannelInv'
<1> SUFFICES ASSUME Inv, [Next]_vars PROVE ChannelInv'
  OBVIOUS
<1>0. TypeOK /\ ChannelInv
  BY DEF Inv
<1> USE <1>0, ThreadsAssumption, BoundsAssumption
    DEF TypeOK, ShardMapTypeOK, RW!RWMutexType, Ids, ChannelInv, Registered
<1>1. ASSUME NEW u \in Updaters, FirstSwap(u), UNCHANGED serverVars PROVE ChannelInv'
  BY <1>1 DEF FirstSwap, mapVars, serverVars
<1>2. ASSUME NEW u \in Updaters, SecondSwap(u), UNCHANGED serverVars PROVE ChannelInv'
  BY <1>2 DEF SecondSwap, mapVars, serverVars
<1>3. ASSUME NEW u \in Updaters, UpdateRLock(u), UNCHANGED serverVars PROVE ChannelInv'
  BY <1>3 DEF UpdateRLock, RW!CanRLock, RW!RLock, RegisteredIds, mapVars, serverVars
<1>4. ASSUME NEW u \in Updaters, UpdateRLockWait(u), UNCHANGED serverVars PROVE ChannelInv'
  BY <1>4 DEF UpdateRLockWait, RW!CanRLock, RW!RLockQueue, mapVars, serverVars
<1>5. ASSUME NEW u \in Updaters, UpdateRLockWake(u), UNCHANGED serverVars PROVE ChannelInv'
  BY <1>5 DEF UpdateRLockWake, RegisteredIds, mapVars, serverVars
<1>6. ASSUME NEW u \in Updaters, UpdateNext(u), UNCHANGED serverVars PROVE ChannelInv'
  BY <1>6 DEF UpdateNext, mapVars, serverVars
<1>7. ASSUME NEW u \in Updaters, UpdateReturn(u), UNCHANGED serverVars PROVE ChannelInv'
  BY <1>7 DEF UpdateReturn, RW!RUnlock, mapVars, serverVars
<1>8. ASSUME NEW u \in Updaters, NEW s \in Servers, LoopNotified(u, s) PROVE ChannelInv'
  BY <1>8 DEF LoopNotified, UpdateSend, mapVars, updaterVars
<1>9. ASSUME NEW s \in Servers, MakeLock(s) PROVE ChannelInv'
  BY <1>9 DEF MakeLock, LockAnnounce, RW!CanAnnounce, RW!Announce, mapVars, updaterVars
<1>10. ASSUME NEW s \in Servers, ShutdownCall(s) PROVE ChannelInv'
  BY <1>10 DEF ShutdownCall, mapVars, updaterVars
<1>11. ASSUME NEW s \in Servers, ShutdownCloseLock(s) PROVE ChannelInv'
  <2>1. \A t \in Servers \ {s} : spc'[t] = spc[t] /\ listenerId'[t] = listenerId[t]
    BY <1>11
    DEF ShutdownCloseLock, LockAnnounce, RW!CanAnnounce, RW!Announce, mapVars,
        updaterVars
  <2>2. spc'[s] = "closeLock" /\ spc[s] \in {"close", "closeLock"}
    BY <1>11
    DEF ShutdownCloseLock, LockAnnounce, RW!CanAnnounce, RW!Announce, mapVars,
        updaterVars
  <2>a. Registered(s)
    BY <2>2
  <2>3. \A id \in Ids : (updateChannels[id] # Nobody)' =>
            /\ (listenerId[updateChannels[id]] = id)'
            /\ (id < updateChannelCounter)'
            /\ (spc[updateChannels[id]] \notin {"absent", "makeLock", "down"})'
    BY <1>11, <2>1, <2>2, <2>a
    DEF ShutdownCloseLock, LockAnnounce, RW!CanAnnounce, RW!Announce, mapVars,
        updaterVars
  <2>4. \A t \in Servers :
            /\ (spc[t] \notin {"absent", "makeLock", "down"} => Registered(t))'
            /\ (t \in closed => spc[t] = "down")'
    BY <1>11, <2>1, <2>2, <2>a
    DEF ShutdownCloseLock, LockAnnounce, RW!CanAnnounce, RW!Announce, mapVars,
        updaterVars
  <2>5. QED
    BY <2>3, <2>4
<1>12. ASSUME NEW s \in Servers, MakeRegister(s) PROVE ChannelInv'
  BY <1>12 DEF MakeRegister, MakeListener, RW!HasLock, RW!Unlock, mapVars, updaterVars
<1>13. ASSUME NEW s \in Servers, MakeStartLoop(s) PROVE ChannelInv'
  BY <1>13 DEF MakeStartLoop, mapVars, updaterVars
<1>14. ASSUME NEW s \in Servers, MakeHandled(s) PROVE ChannelInv'
  BY <1>14 DEF MakeHandled, mapVars, updaterVars
<1>15. ASSUME NEW s \in Servers, ShutdownLoop(s) PROVE ChannelInv'
  BY <1>15 DEF ShutdownLoop, mapVars, updaterVars
<1>16. ASSUME NEW s \in Servers, ShutdownClose(s) PROVE ChannelInv'
  <2>1. \A t \in Servers \ {s} : spc'[t] = spc[t] /\ listenerId'[t] = listenerId[t]
    BY <1>16 DEF ShutdownClose, Close, RW!HasLock, RW!Unlock, mapVars, updaterVars
  <2>2. spc'[s] = "down" /\ spc[s] \in {"close", "closeLock"}
    BY <1>16 DEF ShutdownClose, Close, RW!HasLock, RW!Unlock, mapVars, updaterVars
  <2>a. Registered(s)
    BY <2>2
  <2>3. \A id \in Ids : (updateChannels[id] # Nobody)' =>
            /\ (listenerId[updateChannels[id]] = id)'
            /\ (id < updateChannelCounter)'
            /\ (spc[updateChannels[id]] \notin {"absent", "makeLock", "down"})'
    BY <1>16, <2>1, <2>2, <2>a
    DEF ShutdownClose, Close, RW!HasLock, RW!Unlock, mapVars, updaterVars
  <2>4. \A t \in Servers :
            /\ (spc[t] \notin {"absent", "makeLock", "down"} => Registered(t))'
            /\ (t \in closed => spc[t] = "down")'
    BY <1>16, <2>1, <2>2, <2>a
    DEF ShutdownClose, Close, RW!HasLock, RW!Unlock, mapVars, updaterVars
  <2>5. QED
    BY <2>3, <2>4
<1>17. ASSUME NEW s \in Servers, LoopHandled(s) PROVE ChannelInv'
  BY <1>17 DEF LoopHandled, mapVars, updaterVars
<1>18. CASE UNCHANGED vars
  BY <1>18 DEF vars, mapVars, updaterVars, serverVars
<1>19. QED
  BY <1>1, <1>2, <1>3, <1>4, <1>5, <1>6, <1>7, <1>8, <1>9,
     <1>10, <1>11, <1>12, <1>13, <1>14, <1>15, <1>16, <1>17, <1>18
  DEF Next, Updating, UpdateStep, OwnerStep, Finished

(* Owner and loop move together. *)
LEMMA LoopStep == Inv /\ [Next]_vars => LoopInv'
<1> SUFFICES ASSUME Inv, [Next]_vars PROVE LoopInv'
  OBVIOUS
<1>0. TypeOK /\ LoopInv
  BY DEF Inv
<1> USE <1>0, ThreadsAssumption, BoundsAssumption
    DEF TypeOK, ShardMapTypeOK, LoopInv
<1>1. ASSUME NEW u \in Updaters, FirstSwap(u), UNCHANGED serverVars PROVE LoopInv'
  BY <1>1 DEF FirstSwap, mapVars, serverVars
<1>2. ASSUME NEW u \in Updaters, SecondSwap(u), UNCHANGED serverVars PROVE LoopInv'
  BY <1>2 DEF SecondSwap, mapVars, serverVars
<1>3. ASSUME NEW u \in Updaters, UpdateRLock(u), UNCHANGED serverVars PROVE LoopInv'
  BY <1>3 DEF UpdateRLock, RW!CanRLock, RW!RLock, RegisteredIds, mapVars, serverVars
<1>4. ASSUME NEW u \in Updaters, UpdateRLockWait(u), UNCHANGED serverVars PROVE LoopInv'
  BY <1>4 DEF UpdateRLockWait, RW!CanRLock, RW!RLockQueue, mapVars, serverVars
<1>5. ASSUME NEW u \in Updaters, UpdateRLockWake(u), UNCHANGED serverVars PROVE LoopInv'
  BY <1>5 DEF UpdateRLockWake, RegisteredIds, mapVars, serverVars
<1>6. ASSUME NEW u \in Updaters, UpdateNext(u), UNCHANGED serverVars PROVE LoopInv'
  BY <1>6 DEF UpdateNext, mapVars, serverVars
<1>7. ASSUME NEW u \in Updaters, UpdateReturn(u), UNCHANGED serverVars PROVE LoopInv'
  BY <1>7 DEF UpdateReturn, RW!RUnlock, mapVars, serverVars
<1>8. ASSUME NEW u \in Updaters, NEW s \in Servers, LoopNotified(u, s) PROVE LoopInv'
  BY <1>8 DEF LoopNotified, UpdateSend, mapVars, updaterVars
<1>9. ASSUME NEW s \in Servers, MakeLock(s) PROVE LoopInv'
  BY <1>9 DEF MakeLock, LockAnnounce, RW!CanAnnounce, RW!Announce, mapVars, updaterVars
<1>10. ASSUME NEW s \in Servers, ShutdownCall(s) PROVE LoopInv'
  BY <1>10 DEF ShutdownCall, mapVars, updaterVars
<1>11. ASSUME NEW s \in Servers, ShutdownCloseLock(s) PROVE LoopInv'
  BY <1>11
  DEF ShutdownCloseLock, LockAnnounce, RW!CanAnnounce, RW!Announce, mapVars,
      updaterVars
<1>12. ASSUME NEW s \in Servers, MakeRegister(s) PROVE LoopInv'
  BY <1>12 DEF MakeRegister, MakeListener, RW!HasLock, RW!Unlock, mapVars, updaterVars
<1>13. ASSUME NEW s \in Servers, MakeStartLoop(s) PROVE LoopInv'
  <2>1. \A t \in Servers \ {s} : spc'[t] = spc[t] /\ loop'[t] = loop[t]
    BY <1>13 DEF MakeStartLoop, mapVars, updaterVars
  <2>2. spc[s] = "made" /\ spc'[s] = "init" /\ loop'[s] = "select" /\ loop[s] = "none"
    BY <1>13 DEF MakeStartLoop, mapVars, updaterVars
  <2>3. handled[s] = begun[s]
    BY <2>2
  <2>4. swaps' = swaps /\ begun' = begun /\ handled' = handled
    BY <1>13 DEF MakeStartLoop, mapVars, updaterVars
  <2>5. QED
    BY <2>1, <2>2, <2>3, <2>4
<1>14. ASSUME NEW s \in Servers, MakeHandled(s) PROVE LoopInv'
  BY <1>14 DEF MakeHandled, mapVars, updaterVars
<1>15. ASSUME NEW s \in Servers, ShutdownLoop(s) PROVE LoopInv'
  BY <1>15 DEF ShutdownLoop, mapVars, updaterVars
<1>16. ASSUME NEW s \in Servers, ShutdownClose(s) PROVE LoopInv'
  BY <1>16 DEF ShutdownClose, Close, RW!HasLock, RW!Unlock, mapVars, updaterVars
<1>17. ASSUME NEW s \in Servers, LoopHandled(s) PROVE LoopInv'
  BY <1>17 DEF LoopHandled, mapVars, updaterVars
<1>18. CASE UNCHANGED vars
  BY <1>18 DEF vars, mapVars, updaterVars, serverVars
<1>19. QED
  BY <1>1, <1>2, <1>3, <1>4, <1>5, <1>6, <1>7, <1>8, <1>9,
     <1>10, <1>11, <1>12, <1>13, <1>14, <1>15, <1>16, <1>17, <1>18
  DEF Next, Updating, UpdateStep, OwnerStep, Finished

(* Two consecutive sends to a listener enclose a complete handler. *)
LEMMA SyncStep == Inv /\ [Next]_vars => SyncInv'
<1> SUFFICES ASSUME Inv, [Next]_vars PROVE SyncInv'
  OBVIOUS
<1>0. TypeOK /\ ChannelInv /\ LoopInv /\ SyncInv
  BY DEF Inv
<1> USE <1>0, ThreadsAssumption, BoundsAssumption
    DEF TypeOK, ShardMapTypeOK, Ids, ChannelInv, Registered, LoopInv, SyncInv, Unsent
<1>1. ASSUME NEW u \in Updaters, FirstSwap(u), UNCHANGED serverVars PROVE SyncInv'
  BY <1>1 DEF FirstSwap, mapVars, serverVars
<1>2. ASSUME NEW u \in Updaters, SecondSwap(u), UNCHANGED serverVars PROVE SyncInv'
  BY <1>2 DEF SecondSwap, mapVars, serverVars
<1>3. ASSUME NEW u \in Updaters, UpdateRLock(u), UNCHANGED serverVars PROVE SyncInv'
  BY <1>3 DEF UpdateRLock, RW!CanRLock, RW!RLock, RegisteredIds, mapVars, serverVars
<1>4. ASSUME NEW u \in Updaters, UpdateRLockWait(u), UNCHANGED serverVars PROVE SyncInv'
  BY <1>4 DEF UpdateRLockWait, RW!CanRLock, RW!RLockQueue, mapVars, serverVars
<1>5. ASSUME NEW u \in Updaters, UpdateRLockWake(u), UNCHANGED serverVars PROVE SyncInv'
  BY <1>5 DEF UpdateRLockWake, RegisteredIds, mapVars, serverVars
<1>6. ASSUME NEW u \in Updaters, UpdateNext(u), UNCHANGED serverVars PROVE SyncInv'
  BY <1>6 DEF UpdateNext, mapVars, serverVars
<1>7. ASSUME NEW u \in Updaters, UpdateReturn(u), UNCHANGED serverVars PROVE SyncInv'
  BY <1>7 DEF UpdateReturn, RW!RUnlock, mapVars, serverVars
<1>8. ASSUME NEW u \in Updaters, NEW s \in Servers, LoopNotified(u, s) PROVE SyncInv'
  BY <1>8 DEF LoopNotified, UpdateSend, mapVars, updaterVars
<1>9. ASSUME NEW s \in Servers, MakeLock(s) PROVE SyncInv'
  BY <1>9 DEF MakeLock, LockAnnounce, RW!CanAnnounce, RW!Announce, mapVars, updaterVars
<1>10. ASSUME NEW s \in Servers, ShutdownCall(s) PROVE SyncInv'
  BY <1>10 DEF ShutdownCall, mapVars, updaterVars
<1>11. ASSUME NEW s \in Servers, ShutdownCloseLock(s) PROVE SyncInv'
  BY <1>11
  DEF ShutdownCloseLock, LockAnnounce, RW!CanAnnounce, RW!Announce, mapVars,
      updaterVars
<1>12. ASSUME NEW s \in Servers, MakeRegister(s) PROVE SyncInv'
  BY <1>12 DEF MakeRegister, MakeListener, RW!HasLock, RW!Unlock, mapVars, updaterVars
<1>13. ASSUME NEW s \in Servers, MakeStartLoop(s) PROVE SyncInv'
  BY <1>13 DEF MakeStartLoop, mapVars, updaterVars
<1>14. ASSUME NEW s \in Servers, MakeHandled(s) PROVE SyncInv'
  BY <1>14 DEF MakeHandled, mapVars, updaterVars
<1>15. ASSUME NEW s \in Servers, ShutdownLoop(s) PROVE SyncInv'
  BY <1>15 DEF ShutdownLoop, mapVars, updaterVars
<1>16. ASSUME NEW s \in Servers, ShutdownClose(s) PROVE SyncInv'
  BY <1>16 DEF ShutdownClose, Close, RW!HasLock, RW!Unlock, mapVars, updaterVars
<1>17. ASSUME NEW s \in Servers, LoopHandled(s) PROVE SyncInv'
  BY <1>17 DEF LoopHandled, mapVars, updaterVars
<1>18. CASE UNCHANGED vars
  BY <1>18 DEF vars, mapVars, updaterVars, serverVars
<1>19. QED
  BY <1>1, <1>2, <1>3, <1>4, <1>5, <1>6, <1>7, <1>8, <1>9,
     <1>10, <1>11, <1>12, <1>13, <1>14, <1>15, <1>16, <1>17, <1>18
  DEF Next, Updating, UpdateStep, OwnerStep, Finished

(* A notification that is still owed is not forgotten. *)
LEMMA NotifyStep == Inv /\ [Next]_vars => NotifyInv'
<1> SUFFICES ASSUME Inv, [Next]_vars PROVE NotifyInv'
  OBVIOUS
<1>0. TypeOK /\ ChannelInv /\ LoopInv /\ NotifyInv
  BY DEF Inv
<1> USE <1>0, ThreadsAssumption, BoundsAssumption
    DEF TypeOK, ShardMapTypeOK, Ids
<1>a. \A t \in Servers : loop[t] \in {"select", "handling"} =>
            Registered(t) /\ spc[t] # "makeLock"
  BY DEF ChannelInv, LoopInv
<1>1. ASSUME NEW u \in Updaters, FirstSwap(u), UNCHANGED serverVars PROVE NotifyInv'
  BY <1>1 DEF FirstSwap, mapVars, serverVars, NotifyInv, Unsent, Registered
<1>2. ASSUME NEW u \in Updaters, SecondSwap(u), UNCHANGED serverVars PROVE NotifyInv'
  BY <1>2 DEF SecondSwap, mapVars, serverVars, NotifyInv, Unsent, Registered
<1>3. ASSUME NEW u \in Updaters, UpdateRLock(u), UNCHANGED serverVars PROVE NotifyInv'
  <2>1. \A t \in Servers, v \in Updaters :
            loop'[t] \in {"select", "handling"} /\ Unsent(v, t) =>
                Unsent(v, t)' \/ begun'[t] = swaps'
    BY <1>3, <1>a
    DEF UpdateRLock, RW!CanRLock, RW!RLock, RegisteredIds, mapVars, serverVars,
        Unsent, Registered
  <2>2. loop' = loop /\ begun' = begun /\ ctor' = ctor /\ swaps' = swaps
    BY <1>3 DEF UpdateRLock, RW!CanRLock, RW!RLock, RegisteredIds, mapVars, serverVars
  <2>3. QED
    BY <2>1, <2>2 DEF NotifyInv
<1>4. ASSUME NEW u \in Updaters, UpdateRLockWait(u), UNCHANGED serverVars PROVE NotifyInv'
  BY <1>4
  DEF UpdateRLockWait, RW!CanRLock, RW!RLockQueue, mapVars, serverVars, NotifyInv,
      Unsent, Registered
<1>5. ASSUME NEW u \in Updaters, UpdateRLockWake(u), UNCHANGED serverVars PROVE NotifyInv'
  <2>1. \A t \in Servers, v \in Updaters :
            loop'[t] \in {"select", "handling"} /\ Unsent(v, t) =>
                Unsent(v, t)' \/ begun'[t] = swaps'
    BY <1>5, <1>a
    DEF UpdateRLockWake, RegisteredIds, mapVars, serverVars, Unsent, Registered
  <2>2. loop' = loop /\ begun' = begun /\ ctor' = ctor /\ swaps' = swaps
    BY <1>5 DEF UpdateRLockWake, RegisteredIds, mapVars, serverVars
  <2>3. QED
    BY <2>1, <2>2 DEF NotifyInv
<1>6. ASSUME NEW u \in Updaters, UpdateNext(u), UNCHANGED serverVars PROVE NotifyInv'
  <2>1. \A t \in Servers, v \in Updaters :
            loop'[t] \in {"select", "handling"} /\ Unsent(v, t) =>
                Unsent(v, t)' \/ begun'[t] = swaps'
    BY <1>6, <1>a DEF UpdateNext, mapVars, serverVars, Unsent, Registered
  <2>2. loop' = loop /\ begun' = begun /\ ctor' = ctor /\ swaps' = swaps
    BY <1>6 DEF UpdateNext, mapVars, serverVars
  <2>3. QED
    BY <2>1, <2>2 DEF NotifyInv
<1>7. ASSUME NEW u \in Updaters, UpdateReturn(u), UNCHANGED serverVars PROVE NotifyInv'
  <2>1. \A t \in Servers, v \in Updaters :
            loop'[t] \in {"select", "handling"} /\ Unsent(v, t) =>
                Unsent(v, t)' \/ begun'[t] = swaps'
    BY <1>7, <1>a DEF UpdateReturn, RW!RUnlock, mapVars, serverVars, Unsent, Registered
  <2>2. loop' = loop /\ begun' = begun /\ ctor' = ctor /\ swaps' = swaps
    BY <1>7 DEF UpdateReturn, RW!RUnlock, mapVars, serverVars
  <2>3. QED
    BY <2>1, <2>2 DEF NotifyInv
<1>8. ASSUME NEW u \in Updaters, NEW s \in Servers, LoopNotified(u, s) PROVE NotifyInv'
  <2>1. \A t \in Servers, v \in Updaters :
            loop'[t] \in {"select", "handling"} /\ Unsent(v, t) =>
                Unsent(v, t)' \/ begun'[t] = swaps'
    BY <1>8, <1>a DEF LoopNotified, UpdateSend, mapVars, updaterVars, Unsent, Registered
  <2>2. \A t \in Servers \ {s} : loop'[t] = loop[t] /\ begun'[t] = begun[t]
    BY <1>8 DEF LoopNotified, UpdateSend, mapVars, updaterVars
  <2>3. begun'[s] = swaps' /\ ctor' = ctor /\ swaps' = swaps
    BY <1>8 DEF LoopNotified, UpdateSend, mapVars, updaterVars
  <2>4. QED
    BY <2>1, <2>2, <2>3 DEF NotifyInv
<1>9. ASSUME NEW s \in Servers, MakeLock(s) PROVE NotifyInv'
  BY <1>9
  DEF MakeLock, LockAnnounce, RW!CanAnnounce, RW!Announce, mapVars, updaterVars,
      NotifyInv, Unsent, Registered
<1>10. ASSUME NEW s \in Servers, ShutdownCall(s) PROVE NotifyInv'
  BY <1>10 DEF ShutdownCall, mapVars, updaterVars, NotifyInv, Unsent, Registered
<1>11. ASSUME NEW s \in Servers, ShutdownCloseLock(s) PROVE NotifyInv'
  BY <1>11
  DEF ShutdownCloseLock, LockAnnounce, RW!CanAnnounce, RW!Announce, mapVars,
      updaterVars, NotifyInv, Unsent, Registered
<1>12. ASSUME NEW s \in Servers, MakeRegister(s) PROVE NotifyInv'
  <2>1. \A t \in Servers, v \in Updaters :
            loop'[t] \in {"select", "handling"} /\ Unsent(v, t) =>
                Unsent(v, t)' \/ begun'[t] = swaps'
    BY <1>12, <1>a
    DEF MakeRegister, MakeListener, RW!HasLock, RW!Unlock, mapVars, updaterVars,
        Unsent, Registered
  <2>2. loop' = loop /\ begun' = begun /\ ctor' = ctor /\ swaps' = swaps
    BY <1>12 DEF MakeRegister, MakeListener, RW!HasLock, RW!Unlock, mapVars, updaterVars
  <2>3. QED
    BY <2>1, <2>2 DEF NotifyInv
<1>13. ASSUME NEW s \in Servers, MakeStartLoop(s) PROVE NotifyInv'
  BY <1>13 DEF MakeStartLoop, mapVars, updaterVars, NotifyInv, Unsent, Registered
<1>14. ASSUME NEW s \in Servers, MakeHandled(s) PROVE NotifyInv'
  BY <1>14 DEF MakeHandled, mapVars, updaterVars, NotifyInv, Unsent, Registered
<1>15. ASSUME NEW s \in Servers, ShutdownLoop(s) PROVE NotifyInv'
  BY <1>15 DEF ShutdownLoop, mapVars, updaterVars, NotifyInv, Unsent, Registered
<1>16. ASSUME NEW s \in Servers, ShutdownClose(s) PROVE NotifyInv'
  BY <1>16
  DEF ShutdownClose, Close, RW!HasLock, RW!Unlock, mapVars, updaterVars, NotifyInv,
      Unsent, Registered
<1>17. ASSUME NEW s \in Servers, LoopHandled(s) PROVE NotifyInv'
  BY <1>17 DEF LoopHandled, mapVars, updaterVars, NotifyInv, Unsent, Registered
<1>18. CASE UNCHANGED vars
  BY <1>18 DEF vars, mapVars, updaterVars, serverVars, NotifyInv, Unsent, Registered
<1>19. QED
  BY <1>1, <1>2, <1>3, <1>4, <1>5, <1>6, <1>7, <1>8, <1>9,
     <1>10, <1>11, <1>12, <1>13, <1>14, <1>15, <1>16, <1>17, <1>18
  DEF Next, Updating, UpdateStep, OwnerStep, Finished

-----------------------------------------------------------------------------
(* Before the first call nothing is registered, locked or owed. *)
LEMMA InitInv == Init => Inv
<1> SUFFICES ASSUME Init PROVE Inv
  OBVIOUS
<1> USE ThreadsAssumption, BoundsAssumption
    DEF Init, ShardMapInit, Ids, RW!Unlocked, Registered
<1>1. TypeOK
  BY DEF TypeOK, ShardMapTypeOK, RW!RWMutexType
<1>2. LockInv
  BY DEF LockInv
<1>3. ChannelInv
  BY DEF ChannelInv
<1>4. LoopInv
  BY DEF LoopInv
<1>5. SyncInv
  BY DEF SyncInv
<1>6. NotifyInv
  BY DEF NotifyInv
<1>7. QED
  BY <1>1, <1>2, <1>3, <1>4, <1>5, <1>6 DEF Inv

(* Inv is an inductive invariant of the shard map and its servers. *)
THEOREM Invariance == Spec => []Inv
<1>1. Inv /\ [Next]_vars => Inv'
  BY TypeStep, LockStep, ChannelStep, LoopStep, SyncStep, NotifyStep DEF Inv
<1>2. QED
  BY <1>1, InitInv, PTL DEF Spec

(* The variables of ShardMap and KvServer keep their types, whatever the     *)
(* updaters and the owners of the servers do.                                *)
THEOREM TypeCorrect == Spec => []TypeOK
<1>1. Inv => TypeOK
  BY DEF Inv
<1>2. QED
  BY <1>1, Invariance, PTL

(* Update() never sends on a channel that Close() has closed (a panic): the  *)
(* read lock it holds keeps Close() out until it has visited every channel.  *)
THEOREM SendsAreSafe == Spec => []NeverSendOnClosed
<1>1. Inv => NeverSendOnClosed
  <2> SUFFICES ASSUME Inv, NEW u \in Updaters, upc[u] = "send"
               PROVE  /\ updateChannels[target[u]] # Nobody
                      /\ updateChannels[target[u]] \notin closed
    BY DEF NeverSendOnClosed
  <2>1. updateChannels[target[u]] # Nobody /\ target[u] \in Ids
    BY DEF Inv, LockInv, TypeOK, ShardMapTypeOK
  <2>2. updateChannels[target[u]] \in Servers
    BY <2>1 DEF Inv, TypeOK, ShardMapTypeOK
  <2>3. QED
    BY <2>1, <2>2 DEF Inv, ChannelInv
<1>2. QED
  BY <1>1, Invariance, PTL

(* The comment in UpdateShardMapping holds: the second of two consecutive    *)
(* Update() calls returns only after every server that was registered at the *)
(* first, and still runs, has processed the first.                           *)
THEOREM SecondUpdateIsABarrier == Spec => []SecondUpdateWaits
<1>1. Inv => SecondUpdateWaits
  BY DEF Inv, SyncInv, SecondUpdateWaits
<1>2. QED
  BY <1>1, Invariance, PTL

(* No Update() is lost on a running server: neither one that raced with its  *)
(* registration nor one that raced with another Update().                    *)
THEOREM NoUpdateIsLost == Spec => []NoLostUpdate
<1>1. Inv => NoLostUpdate
  BY DEF Inv, NotifyInv, NoLostUpdate, Unsent
<1>2. QED
  BY <1>1, Invariance, PTL

-----------------------------------------------------------------------------
(* The barrier: ShardBarrier's variables, as ImplementsBarrier computes them. *)

Members == {s \in Servers : Registered(s) /\ loop[s] # "exited"}
Active == {u \in Updaters : upc[u] # "idle"}
Waits == [u \in Updaters |-> BarrierWaits(u)]
Covered == [s \in Servers |-> BarrierCovered(s)]
BarrierState == <<Members, Active, Waits, Covered>>

(* Nothing is registered and nobody waits before the first call. *)
LEMMA BarrierInit == Init => Barrier!Init
BY ThreadsAssumption, BoundsAssumption
DEF Init, ShardMapInit, Ids, Registered, BarrierWaits, BarrierCovered, Barrier!Init

(* Two families of sets of servers are equal if they have the same elements. *)
LEMMA SameWaits ==
    ASSUME NEW f, NEW g, f \in [Updaters -> SUBSET Servers], g \in [Updaters -> SUBSET Servers],
           \A u \in Updaters, s \in Servers : s \in f[u] <=> s \in g[u]
    PROVE  f = g
<1>1. \A u \in Updaters : f[u] = g[u]
  OBVIOUS
<1>2. QED
  BY <1>1

(* The same of families of sets of updaters. *)
LEMMA SameCovered ==
    ASSUME NEW f, NEW g, f \in [Servers -> SUBSET Updaters], g \in [Servers -> SUBSET Updaters],
           \A s \in Servers, u \in Updaters : u \in f[s] <=> u \in g[s]
    PROVE  f = g
<1>1. \A s \in Servers : f[s] = g[s]
  OBVIOUS
<1>2. QED
  BY <1>1

(* Whom an updater waits for, element by element. *)
LEMMA WaitsAre ==
    ASSUME TypeOK
    PROVE  /\ Waits \in [Updaters -> SUBSET Servers]
           /\ \A u \in Updaters, s \in Servers :
                s \in Waits[u] <=> s \in base[u] /\ loop[s] # "exited" /\ handled[s] < goal[u]
BY DEF TypeOK, ShardMapTypeOK, Waits, BarrierWaits

(* Whom a round of a server covers, element by element. *)
LEMMA CoveredIs ==
    /\ Covered \in [Servers -> SUBSET Updaters]
    /\ \A s \in Servers, u \in Updaters :
        u \in Covered[s] <=> loop[s] = "handling" /\ s \in Waits[u] /\ begun[s] >= goal[u]
BY DEF Waits, Covered, BarrierCovered, BarrierWaits

(* WaitsAre after a step. *)
LEMMA WaitsAreNext ==
    ASSUME TypeOK'
    PROVE  /\ Waits' \in [Updaters -> SUBSET Servers]
           /\ \A u \in Updaters, s \in Servers :
                s \in Waits'[u] <=> s \in base'[u] /\ loop'[s] # "exited" /\ handled'[s] < goal'[u]
BY DEF TypeOK, ShardMapTypeOK, Waits, BarrierWaits

(* CoveredIs after a step. *)
LEMMA CoveredIsNext ==
    /\ Covered' \in [Servers -> SUBSET Updaters]
    /\ \A s \in Servers, u \in Updaters :
        u \in Covered'[s] <=> loop'[s] = "handling" /\ s \in Waits'[u] /\ begun'[s] >= goal'[u]
BY DEF Waits, Covered, BarrierCovered, BarrierWaits

(* A step that changes none of what the barrier is computed from is a stutter. *)
LEMMA BarrierStutter ==
    ASSUME TypeOK, TypeOK', Active' = Active,
           UNCHANGED <<updateChannels, listenerId, goal, base, begun, handled>>,
           \A s \in Servers : loop'[s] = loop[s] \/ {loop'[s], loop[s]} \subseteq {"none", "select"}
    PROVE  UNCHANGED BarrierState
<1>1. Members' = Members
  <2>1. \A s \in Servers : s \in Members' <=> s \in Members
    BY DEF Members, Registered
  <2>2. QED
    BY <2>1 DEF Members
<1>2. Waits' = Waits
  <2>1. \A u \in Updaters, s \in Servers : s \in Waits'[u] <=> s \in Waits[u]
    BY WaitsAre, WaitsAreNext
  <2>2. QED
    BY <2>1, WaitsAre, WaitsAreNext, SameWaits
<1>3. Covered' = Covered
  <2>1. \A s \in Servers, u \in Updaters : u \in Covered'[s] <=> u \in Covered[s]
    BY <1>2, CoveredIs, CoveredIsNext
  <2>2. QED
    BY <2>1, CoveredIs, CoveredIsNext, SameCovered
<1>4. QED
  BY <1>1, <1>2, <1>3 DEF BarrierState

(* Every step of the shard map and its servers is a step of the barrier. *)
LEMMA BarrierStep == Inv /\ Inv' /\ [Next]_vars => [Barrier!Next]_BarrierState
<1> SUFFICES ASSUME Inv, Inv', [Next]_vars PROVE Barrier!Next \/ UNCHANGED BarrierState
  OBVIOUS
<1>0. TypeOK /\ ChannelInv /\ LoopInv /\ SyncInv /\ TypeOK' /\ ChannelInv' /\ LoopInv' /\ SyncInv'
  BY DEF Inv
<1>a. \A u \in Updaters : upc[u] = "idle" => Waits[u] = {}
  BY <1>0, WaitsAre DEF SyncInv, TypeOK, ShardMapTypeOK
<1>b. /\ Waits \in [Updaters -> SUBSET Servers] /\ Waits' \in [Updaters -> SUBSET Servers]
      /\ Covered \in [Servers -> SUBSET Updaters] /\ Covered' \in [Servers -> SUBSET Updaters]
  BY <1>0, WaitsAre, WaitsAreNext, CoveredIs, CoveredIsNext
<1> USE ThreadsAssumption, BoundsAssumption
<1>1. ASSUME NEW u \in Updaters, FirstSwap(u), UNCHANGED serverVars PROVE Barrier!Announce(u)
  <2>1. /\ upc[u] = "idle" /\ upc' = [upc EXCEPT ![u] = "rlock"]
        /\ goal' = [goal EXCEPT ![u] = swaps + 1]
        /\ base' = [base EXCEPT ![u] = {s \in Servers : Registered(s)}]
        /\ UNCHANGED <<updateChannels, listenerId, loop, begun, handled>>
    BY <1>1 DEF FirstSwap, mapVars, serverVars
  <2>2. \A s \in Servers : handled[s] < swaps + 1 /\ ~(begun[s] >= swaps + 1)
    BY <1>0 DEF LoopInv, TypeOK, ShardMapTypeOK
  <2>3. u \notin Active /\ Active' = Active \cup {u}
    BY <1>0, <2>1 DEF Active, TypeOK, ShardMapTypeOK
  <2>4. Members' = Members /\ Members \in SUBSET Servers
    BY <2>1 DEF Members, Registered
  <2>5. Waits' = [Waits EXCEPT ![u] = Members]
    <3>1. \A v \in Updaters, s \in Servers :
              s \in Waits'[v] <=> IF v = u THEN s \in Members ELSE s \in Waits[v]
      BY <1>0, <2>1, <2>2, WaitsAre, WaitsAreNext DEF Members, TypeOK, ShardMapTypeOK
    <3> DEFINE g == [Waits EXCEPT ![u] = Members]
    <3>2. g \in [Updaters -> SUBSET Servers]
      BY <1>b, <2>4
    <3>3. \A v \in Updaters, s \in Servers : s \in Waits'[v] <=> s \in g[v]
      BY <1>b, <3>1
    <3> HIDE DEF g
    <3>4. Waits' = g
      BY <1>b, <3>2, <3>3, SameWaits
    <3>5. QED
      BY <3>4 DEF g
  <2>6. Covered' = Covered
    <3>1. \A s \in Servers, v \in Updaters : v \in Covered'[s] <=> v \in Covered[s]
      BY <1>0, <1>a, <2>1, <2>2, <2>5, WaitsAre, CoveredIs, CoveredIsNext DEF TypeOK, ShardMapTypeOK
    <3>2. QED
      BY <1>b, <3>1, SameCovered
  <2>7. QED
    BY <2>3, <2>4, <2>5, <2>6 DEF Barrier!Announce, Members, Active, Waits, Covered
<1>2. ASSUME NEW u \in Updaters, UNCHANGED serverVars,
             \/ SecondSwap(u) \/ UpdateRLock(u) \/ UpdateRLockWait(u)
             \/ UpdateRLockWake(u) \/ UpdateNext(u)
      PROVE  UNCHANGED BarrierState
  <2>1. UNCHANGED <<updateChannels, listenerId, goal, base, loop, begun, handled>>
    BY <1>2 DEF SecondSwap, UpdateRLock, UpdateRLockWait, UpdateRLockWake, UpdateNext,
                mapVars, serverVars
  <2>2. Active' = Active
    BY <1>0, <1>2 DEF SecondSwap, UpdateRLock, UpdateRLockWait, UpdateRLockWake, UpdateNext,
                      TypeOK, ShardMapTypeOK, Active
  <2>3. QED
    BY <1>0, <2>1, <2>2, BarrierStutter
<1>3. ASSUME NEW u \in Updaters, UpdateReturn(u), UNCHANGED serverVars
      PROVE  Barrier!Return(u) \/ UNCHANGED BarrierState
  <2>1. UNCHANGED <<updateChannels, listenerId, goal, base, loop, begun, handled, phase>>
    BY <1>3 DEF UpdateReturn, mapVars, serverVars
  <2>2. CASE phase[u] = 1
    <3>1. Active' = Active
      BY <1>0, <1>3, <2>2 DEF UpdateReturn, TypeOK, ShardMapTypeOK, Active
    <3>2. QED
      BY <1>0, <2>1, <3>1, BarrierStutter
  <2>3. CASE phase[u] # 1
    <3>1. u \in Active /\ upc'[u] = "idle" /\ Active' = Active \ {u}
      BY <1>0, <1>3, <2>3 DEF UpdateReturn, TypeOK, ShardMapTypeOK, Active
    <3>2. Members' = Members /\ Waits' = Waits /\ Covered' = Covered
      BY <2>1 DEF Members, Waits, Covered, BarrierWaits, BarrierCovered, Registered
    <3>3. Waits[u] = {}
      BY <1>0, <2>1, <3>1, WaitsAre, WaitsAreNext DEF SyncInv, TypeOK, ShardMapTypeOK
    <3>4. QED
      BY <3>1, <3>2, <3>3 DEF Barrier!Return, Members, Active, Waits, Covered
  <2>4. QED
    BY <2>2, <2>3
<1>4. ASSUME NEW u \in Updaters, NEW s \in Servers, LoopNotified(u, s) PROVE Barrier!Begin(s)
  <2>1. /\ loop[s] = "select" /\ loop' = [loop EXCEPT ![s] = "handling"]
        /\ begun' = [begun EXCEPT ![s] = swaps]
        /\ UNCHANGED <<updateChannels, listenerId, goal, base, handled>>
        /\ updateChannels[target[u]] = s
    BY <1>4 DEF LoopNotified, UpdateSend, mapVars, updaterVars
  <2>2. Active' = Active
    BY <1>0, <1>4 DEF LoopNotified, UpdateSend, Active, TypeOK, ShardMapTypeOK
  <2>3. Members' = Members /\ s \in Members
    BY <1>0, <2>1 DEF Members, Registered, ChannelInv, LoopInv, TypeOK
  <2>4. Waits' = Waits
    <3>1. \A v \in Updaters, t \in Servers : t \in Waits'[v] <=> t \in Waits[v]
      BY <1>0, <2>1, WaitsAre, WaitsAreNext DEF TypeOK
    <3>2. QED
      BY <1>b, <3>1, SameWaits
  <2>5. Covered[s] = {}
    <3>1. \A v \in Updaters : v \notin Covered[s]
      BY <2>1, CoveredIs
    <3>2. QED
      BY <3>1, CoveredIs
  <2>6. Covered' = [Covered EXCEPT ![s] = {v \in Updaters : s \in Waits[v]}]
    <3>1. \A t \in Servers, v \in Updaters :
              v \in Covered'[t] <=> IF t = s THEN s \in Waits[v] ELSE v \in Covered[t]
      BY <1>0, <2>1, <2>4, CoveredIs, CoveredIsNext DEF SyncInv, TypeOK, ShardMapTypeOK
    <3> DEFINE g == [Covered EXCEPT ![s] = {v \in Updaters : s \in Waits[v]}]
    <3>2. g \in [Servers -> SUBSET Updaters]
      BY <1>b
    <3>3. \A t \in Servers, v \in Updaters : v \in Covered'[t] <=> v \in g[t]
      BY <1>b, <3>1
    <3> HIDE DEF g
    <3>4. Covered' = g
      BY <1>b, <3>2, <3>3, SameCovered
    <3>5. QED
      BY <3>4 DEF g
  <2>7. QED
    BY <2>2, <2>3, <2>4, <2>5, <2>6 DEF Barrier!Begin, Members, Active, Waits, Covered
<1>5. ASSUME NEW s \in Servers, LoopHandled(s) PROVE Barrier!End(s)
  <2>1. /\ loop[s] = "handling" /\ loop' = [loop EXCEPT ![s] = "select"]
        /\ handled' = [handled EXCEPT ![s] = begun[s]]
        /\ UNCHANGED <<updateChannels, listenerId, goal, base, begun, upc>>
    BY <1>5 DEF LoopHandled, mapVars, updaterVars
  <2>2. Active' = Active /\ Members' = Members
    BY <1>0, <2>1 DEF Active, Members, Registered, TypeOK
  <2>3. \A v \in Updaters, t \in Servers :
            t \in Waits'[v] <=> t \in Waits[v] /\ ~(t = s /\ v \in Covered[s])
    BY <1>0, <2>1, WaitsAre, WaitsAreNext, CoveredIs DEF LoopInv, TypeOK, ShardMapTypeOK
  <2>4. Waits' = [v \in Updaters |-> IF v \in Covered[s] THEN Waits[v] \ {s} ELSE Waits[v]]
    <3> DEFINE g == [v \in Updaters |-> IF v \in Covered[s] THEN Waits[v] \ {s} ELSE Waits[v]]
    <3>1. g \in [Updaters -> SUBSET Servers]
      BY <1>b
    <3>2. \A v \in Updaters, t \in Servers : t \in Waits'[v] <=> t \in g[v]
      BY <2>3
    <3> HIDE DEF g
    <3>3. Waits' = g
      BY <1>b, <3>1, <3>2, SameWaits
    <3>4. QED
      BY <3>3 DEF g
  <2>5. \A t \in Servers, v \in Updaters : v \in Covered'[t] <=> t # s /\ v \in Covered[t]
    BY <1>0, <2>1, <2>3, CoveredIs, CoveredIsNext DEF TypeOK
  <2>6. Covered' = [Covered EXCEPT ![s] = {}]
    <3> DEFINE g == [Covered EXCEPT ![s] = {}]
    <3>1. g \in [Servers -> SUBSET Updaters]
      BY <1>b
    <3>2. \A t \in Servers, v \in Updaters : v \in Covered'[t] <=> v \in g[t]
      BY <1>b, <2>5
    <3> HIDE DEF g
    <3>3. Covered' = g
      BY <1>b, <3>1, <3>2, SameCovered
    <3>4. QED
      BY <3>3 DEF g
  <2>7. QED
    BY <2>2, <2>4, <2>6 DEF Barrier!End, Members, Active, Waits, Covered
<1>6. ASSUME NEW s \in Servers, MakeRegister(s) PROVE Barrier!Join(s)
  <2> USE <1>0, <1>6 DEF MakeRegister, MakeListener, RW!HasLock, RW!Unlock, mapVars, updaterVars,
                         TypeOK, ShardMapTypeOK, Ids
  <2>1. Active' = Active /\ Waits' = Waits /\ Covered' = Covered
    BY DEF Active, Waits, Covered, BarrierWaits, BarrierCovered
  <2>2. ASSUME NEW t \in Servers \ {s} PROVE Registered(t)' <=> Registered(t)
    <3>1. listenerId'[t] = listenerId[t] /\ listenerId[t] \in Ids
      OBVIOUS
    <3>2. updateChannels[updateChannelCounter] = Nobody
      BY DEF ChannelInv
    <3>3. QED
      BY <3>1, <3>2 DEF Registered
  <2>3. Registered(s)' /\ loop' = loop /\ loop[s] # "exited"
    BY DEF Registered, LoopInv
  <2>4. Members' = Members \cup {s}
    BY <2>2, <2>3 DEF Members
  <2>5. QED
    BY <2>1, <2>4 DEF Barrier!Join, Members, Active, Waits, Covered
<1>7. ASSUME NEW s \in Servers, ShutdownLoop(s) PROVE Barrier!Leave(s)
  <2>1. /\ spc[s] = "stopping" /\ loop[s] = "select" /\ loop' = [loop EXCEPT ![s] = "exited"]
        /\ UNCHANGED <<updateChannels, listenerId, goal, base, begun, handled, upc>>
    BY <1>7 DEF ShutdownLoop, mapVars, updaterVars
  <2>2. Active' = Active /\ s \in Members /\ Members' = Members \ {s}
    BY <1>0, <2>1 DEF Active, Members, Registered, ChannelInv, TypeOK
  <2>3. \A v \in Updaters, t \in Servers : t \in Waits'[v] <=> t \in Waits[v] /\ t # s
    BY <1>0, <2>1, WaitsAre, WaitsAreNext DEF TypeOK
  <2>4. Waits' = [v \in Updaters |-> Waits[v] \ {s}]
    <3>1. [v \in Updaters |-> Waits[v] \ {s}] \in [Updaters -> SUBSET Servers]
      BY <1>0, WaitsAre
    <3>2. QED
      BY <1>b, <2>3, <3>1, SameWaits
  <2>5. Covered[s] = {}
    <3>1. \A v \in Updaters : v \notin Covered[s]
      BY <2>1, CoveredIs
    <3>2. QED
      BY <3>1, CoveredIs
  <2>6. Covered' = Covered
    <3>1. \A t \in Servers, v \in Updaters : v \in Covered'[t] <=> v \in Covered[t]
      BY <1>0, <2>1, <2>3, CoveredIs, CoveredIsNext DEF TypeOK
    <3>2. QED
      BY <1>b, <3>1, SameCovered
  <2>7. QED
    BY <2>2, <2>4, <2>5, <2>6 DEF Barrier!Leave, Members, Active, Waits, Covered
<1>8. ASSUME NEW s \in Servers,
             \/ MakeLock(s) \/ ShutdownCall(s) \/ ShutdownCloseLock(s)
             \/ MakeStartLoop(s) \/ MakeHandled(s)
      PROVE  UNCHANGED BarrierState
  <2>1. UNCHANGED <<updateChannels, listenerId, goal, base, upc, begun, handled>>
    BY <1>8 DEF MakeLock, ShutdownCall, ShutdownCloseLock, MakeStartLoop, MakeHandled,
                LockAnnounce, mapVars, updaterVars
  <2>2. \A t \in Servers : loop'[t] = loop[t] \/ {loop'[t], loop[t]} \subseteq {"none", "select"}
    BY <1>0, <1>8 DEF MakeLock, ShutdownCall, ShutdownCloseLock, MakeStartLoop, MakeHandled,
                      TypeOK, LoopInv
  <2>3. QED
    BY <1>0, <2>1, <2>2, BarrierStutter DEF Active
<1>9. ASSUME NEW s \in Servers, ShutdownClose(s) PROVE UNCHANGED BarrierState
  <2> USE <1>0, <1>9 DEF ShutdownClose, Close, RW!HasLock, RW!Unlock, mapVars, updaterVars,
                         TypeOK, ShardMapTypeOK, Ids
  <2>1. Active' = Active /\ Waits' = Waits /\ Covered' = Covered
    BY DEF Active, Waits, Covered, BarrierWaits, BarrierCovered
  <2>2. \A t \in Servers \ {s} : Registered(t)' <=> Registered(t)
    BY DEF Registered, ChannelInv
  <2>3. loop[s] = "exited" /\ loop' = loop
    BY DEF LoopInv
  <2>4. QED
    BY <2>1, <2>2, <2>3 DEF Members, BarrierState
<1>10. CASE UNCHANGED vars
  BY <1>10 DEF vars, mapVars, updaterVars, serverVars, BarrierState, Members, Active, Waits,
               Covered, Registered, BarrierWaits, BarrierCovered
<1>11. QED
  BY <1>1, <1>2, <1>3, <1>4, <1>5, <1>6, <1>7, <1>8, <1>9, <1>10
  DEF Next, Updating, UpdateStep, OwnerStep, Finished, Barrier!Next

(* The two Update() calls of UpdateShardMapping are a barrier: it waits for  *)
(* exactly the servers registered when it swapped the state in, each of them *)
(* is released by a round of handleShardMapUpdate that began after the Swap  *)
(* or by the end of its loop, and it returns when none is left.              *)
THEOREM UpdateShardMappingIsABarrier == Spec => ImplementsBarrier
<1>1. Inv /\ Inv' /\ [Next]_vars => [Barrier!Next]_BarrierState
  BY BarrierStep
<1>2. QED
  BY <1>1, BarrierInit, Invariance, PTL
  DEF Spec, ImplementsBarrier, Barrier!Spec, Barrier!barrierVars, BarrierState, Members, Active,
      Waits, Covered
=============================================================================

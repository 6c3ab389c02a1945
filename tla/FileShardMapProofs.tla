------------------------- MODULE FileShardMapProofs -------------------------
(***************************************************************************)
(* For any number of versions and any size of the event queue: the ShardMap*)
(* never returns to an older version of the file, and misses none unless   *)
(* the watcher dropped an event.                                           *)
(***************************************************************************)
EXTENDS FileShardMap, TLAPS

PendingEvent == \E i \in DOMAIN events : events[i] \in {"write", "create"}

\* Versions only grow: the file's is the newest, then comes the one read, then
\* the ShardMap's.
VersionInv ==
    /\ file > 0 => file = written
    /\ file = Torn => written < MaxVersion
    /\ data <= written /\ sm <= written
    /\ (pc \in {"loaded", "readDone"} /\ data > 0) => sm <= data
    /\ pc \in {"start", "load", "loaded"} => sm = 0

\* A good version that the ShardMap lacks is announced by a queued event, or
\* applyFromFile is about to read it or has read it.
FreshInv ==
    (EventName = Filename /\ ~lost /\ Watched /\ file > 0 /\ sm # file) =>
        \/ PendingEvent
        \/ pc \in {"load", "read"}
        \/ pc \in {"loaded", "readDone"} /\ data = file

Inv == TypeOK /\ VersionInv /\ FreshInv

-----------------------------------------------------------------------------
(* What posting an event does to the queue. *)
LEMMA PostFacts ==
    ASSUME TypeOK, NEW e \in Kinds \ {"overflow"}, Post(e)
    PROVE  /\ events' \in Seq(Kinds) /\ Len(events') <= QueueSize + 1
           /\ lost' \in BOOLEAN
           /\ ~lost' => ~lost
           /\ PendingEvent => PendingEvent'
           /\ Watched /\ e \in {"write", "create"} /\ ~lost' => PendingEvent'
<1> USE LimitsAssumption DEF TypeOK, Post, Kinds
<1>1. events' \in Seq(Kinds) /\ Len(events') <= QueueSize + 1 /\ lost' \in BOOLEAN
  OBVIOUS
<1>2. ~lost' => ~lost
  OBVIOUS
<1>3. PendingEvent => PendingEvent'
  BY DEF PendingEvent
<1>4. ASSUME Watched, e \in {"write", "create"}, ~lost' PROVE PendingEvent'
  <2>0. ~(Len(events) >= QueueSize)
    BY <1>4
  <2>1. events' = Append(events, e)
    BY <1>4, <2>0
  <2>2. Len(events) + 1 \in DOMAIN events' /\ events'[Len(events) + 1] = e
    BY <2>1
  <2> QED
    BY <1>4, <2>2 DEF PendingEvent
<1> QED
  BY <1>1, <1>2, <1>3, <1>4

(* Taking an event that is not about the file's content leaves the others. *)
LEMMA TailFacts ==
    ASSUME TypeOK, events # <<>>, events' = Tail(events)
    PROVE  /\ events' \in Seq(Kinds) /\ Len(events') <= QueueSize + 1
           /\ PendingEvent => PendingEvent' \/ Head(events) \in {"write", "create"}
<1>1. events' \in Seq(Kinds) /\ Len(events') <= QueueSize + 1
  BY LimitsAssumption DEF TypeOK, Kinds
<1>2. ASSUME PendingEvent, Head(events) \notin {"write", "create"} PROVE PendingEvent'
  <2>1. PICK i \in DOMAIN events : events[i] \in {"write", "create"}
    BY <1>2 DEF PendingEvent
  <2>2. i # 1
    BY <1>2, <2>1 DEF TypeOK
  <2>3. i - 1 \in DOMAIN events' /\ events'[i - 1] = events[i]
    BY <2>2 DEF TypeOK
  <2> QED
    BY <2>1, <2>3 DEF PendingEvent
<1> QED
  BY <1>1, <1>2

(* Every step keeps the variables in their types. *)
LEMMA TypeStep == Inv /\ [Next]_vars => TypeOK'
<1> SUFFICES ASSUME Inv, [Next]_vars PROVE TypeOK'
  OBVIOUS
<1>0. TypeOK /\ VersionInv
  BY DEF Inv
<1> USE <1>0, LimitsAssumption DEF TypeOK, VersionInv, Torn, Missing
<1>1. CASE WriteBegin
  <2> DEFINE e == IF file = Missing THEN "create" ELSE "write"
  <2>1. e \in Kinds \ {"overflow"} /\ Post(e)
    BY <1>1 DEF WriteBegin, Kinds
  <2> HIDE DEF e
  <2>2. events' \in Seq(Kinds) /\ Len(events') <= QueueSize + 1 /\ lost' \in BOOLEAN
    BY <2>1, PostFacts
  <2> QED
    BY <1>1, <2>2 DEF WriteBegin
<1>2. CASE WriteEnd
  <2> DEFINE e == "write"
  <2>1. e \in Kinds \ {"overflow"} /\ Post(e)
    BY <1>2 DEF WriteEnd, Kinds
  <2> HIDE DEF e
  <2>2. events' \in Seq(Kinds) /\ Len(events') <= QueueSize + 1 /\ lost' \in BOOLEAN
    BY <2>1, PostFacts
  <2> QED
    BY <1>2, <2>2 DEF WriteEnd
<1>3. CASE Rename
  <2> DEFINE e == "create"
  <2>1. e \in Kinds \ {"overflow"} /\ Post(e)
    BY <1>3 DEF Rename, Kinds
  <2> HIDE DEF e
  <2>2. events' \in Seq(Kinds) /\ Len(events') <= QueueSize + 1 /\ lost' \in BOOLEAN
    BY <2>1, PostFacts
  <2> QED
    BY <1>3, <2>2 DEF Rename
<1>4. CASE RemoveFile
  <2> DEFINE e == "remove"
  <2>1. e \in Kinds \ {"overflow"} /\ Post(e)
    BY <1>4 DEF RemoveFile, Kinds
  <2> HIDE DEF e
  <2>2. events' \in Seq(Kinds) /\ Len(events') <= QueueSize + 1 /\ lost' \in BOOLEAN
    BY <2>1, PostFacts
  <2> QED
    BY <1>4, <2>2 DEF RemoveFile
<1>5. CASE TouchOther
  <2> DEFINE e == "other"
  <2>1. e \in Kinds \ {"overflow"} /\ Post(e)
    BY <1>5 DEF TouchOther, Kinds
  <2> HIDE DEF e
  <2>2. events' \in Seq(Kinds) /\ Len(events') <= QueueSize + 1 /\ lost' \in BOOLEAN
    BY <2>1, PostFacts
  <2> QED
    BY <1>5, <2>2 DEF TouchOther
<1>6. CASE Watch
  BY <1>6 DEF Watch, editVars
<1>7. CASE WatchFails
  BY <1>7 DEF WatchFails, editVars
<1>8. CASE ReadFile
  BY <1>8 DEF ReadFile, editVars
<1>9. CASE ApplyFails
  BY <1>9 DEF ApplyFails, editVars
<1>10. CASE ApplySwap
  BY <1>10 DEF ApplySwap, editVars
<1>11. CASE ApplyReturns
  BY <1>11 DEF ApplyReturns, editVars
<1>12. CASE HandleEvent
  <2>1. events' \in Seq(Kinds) /\ Len(events') <= QueueSize + 1
    BY <1>12, TailFacts DEF HandleEvent
  <2> QED
    BY <1>12, <2>1 DEF HandleEvent, editVars
<1>13. CASE Shutdown
  BY <1>13 DEF Shutdown, editVars
<1>14. CASE UNCHANGED vars
  BY <1>14 DEF vars, editVars
<1>15. QED
  BY <1>1, <1>2, <1>3, <1>4, <1>5, <1>6, <1>7, <1>8, <1>9, <1>10, <1>11, <1>12,
      <1>13, <1>14
  DEF Next, Editing, Applying

(* Versions only grow. *)
LEMMA VersionStep == Inv /\ [Next]_vars => VersionInv'
<1> SUFFICES ASSUME Inv, [Next]_vars PROVE VersionInv'
  OBVIOUS
<1>0. TypeOK /\ VersionInv
  BY DEF Inv
<1> USE <1>0, LimitsAssumption DEF TypeOK, VersionInv, Torn, Missing
<1>1. CASE WriteBegin
  BY <1>1 DEF WriteBegin, editVars
<1>2. CASE WriteEnd
  BY <1>2 DEF WriteEnd, editVars
<1>3. CASE Rename
  BY <1>3 DEF Rename, editVars
<1>4. CASE RemoveFile
  BY <1>4 DEF RemoveFile, editVars
<1>5. CASE TouchOther
  BY <1>5 DEF TouchOther, editVars
<1>6. CASE Watch
  BY <1>6 DEF Watch, editVars
<1>7. CASE WatchFails
  BY <1>7 DEF WatchFails, editVars
<1>8. CASE ReadFile
  BY <1>8 DEF ReadFile, editVars
<1>9. CASE ApplyFails
  BY <1>9 DEF ApplyFails, editVars
<1>10. CASE ApplySwap
  BY <1>10 DEF ApplySwap, editVars
<1>11. CASE ApplyReturns
  BY <1>11 DEF ApplyReturns, editVars
<1>12. CASE HandleEvent
  BY <1>12 DEF HandleEvent, editVars
<1>13. CASE Shutdown
  BY <1>13 DEF Shutdown, editVars
<1>14. CASE UNCHANGED vars
  BY <1>14 DEF vars, editVars
<1>15. QED
  BY <1>1, <1>2, <1>3, <1>4, <1>5, <1>6, <1>7, <1>8, <1>9, <1>10, <1>11, <1>12,
      <1>13, <1>14
  DEF Next, Editing, Applying

(* Whatever changes the file is announced; whatever is announced is read. *)
LEMMA FreshStep == Inv /\ [Next]_vars => FreshInv'
<1> SUFFICES ASSUME Inv, [Next]_vars PROVE FreshInv'
  OBVIOUS
<1>0. TypeOK /\ VersionInv /\ FreshInv
  BY DEF Inv
<1> USE <1>0, LimitsAssumption DEF TypeOK, FreshInv, Watched, Torn, Missing
<1>1. CASE WriteBegin
  <2> DEFINE e == IF file = Missing THEN "create" ELSE "write"
  <2>1. e \in Kinds \ {"overflow"} /\ Post(e)
    BY <1>1 DEF WriteBegin, Kinds
  <2> HIDE DEF e
  <2>2. /\ ~lost' => ~lost
        /\ PendingEvent => PendingEvent'
        /\ Watched /\ e \in {"write", "create"} /\ ~lost' => PendingEvent'
    BY <2>1, PostFacts
  <2> QED
    BY <1>1, <2>2 DEF WriteBegin, e
<1>2. CASE WriteEnd
  <2> DEFINE e == "write"
  <2>1. e \in Kinds \ {"overflow"} /\ Post(e)
    BY <1>2 DEF WriteEnd, Kinds
  <2> HIDE DEF e
  <2>2. /\ ~lost' => ~lost
        /\ PendingEvent => PendingEvent'
        /\ Watched /\ e \in {"write", "create"} /\ ~lost' => PendingEvent'
    BY <2>1, PostFacts
  <2> QED
    BY <1>2, <2>2 DEF WriteEnd, e
<1>3. CASE Rename
  <2> DEFINE e == "create"
  <2>1. e \in Kinds \ {"overflow"} /\ Post(e)
    BY <1>3 DEF Rename, Kinds
  <2> HIDE DEF e
  <2>2. /\ ~lost' => ~lost
        /\ PendingEvent => PendingEvent'
        /\ Watched /\ e \in {"write", "create"} /\ ~lost' => PendingEvent'
    BY <2>1, PostFacts
  <2> QED
    BY <1>3, <2>2 DEF Rename, e
<1>4. CASE RemoveFile
  <2> DEFINE e == "remove"
  <2>1. e \in Kinds \ {"overflow"} /\ Post(e)
    BY <1>4 DEF RemoveFile, Kinds
  <2> HIDE DEF e
  <2>2. /\ ~lost' => ~lost
        /\ PendingEvent => PendingEvent'
        /\ Watched /\ e \in {"write", "create"} /\ ~lost' => PendingEvent'
    BY <2>1, PostFacts
  <2> QED
    BY <1>4, <2>2 DEF RemoveFile, e
<1>5. CASE TouchOther
  <2> DEFINE e == "other"
  <2>1. e \in Kinds \ {"overflow"} /\ Post(e)
    BY <1>5 DEF TouchOther, Kinds
  <2> HIDE DEF e
  <2>2. /\ ~lost' => ~lost
        /\ PendingEvent => PendingEvent'
        /\ Watched /\ e \in {"write", "create"} /\ ~lost' => PendingEvent'
    BY <2>1, PostFacts
  <2> QED
    BY <1>5, <2>2 DEF TouchOther, e
<1>6. CASE Watch
  <2>1. PendingEvent' = PendingEvent
    BY <1>6 DEF Watch, PendingEvent
  <2> QED
    BY <1>6, <2>1 DEF Watch, editVars
<1>7. CASE WatchFails
  <2>1. PendingEvent' = PendingEvent
    BY <1>7 DEF WatchFails, PendingEvent
  <2> QED
    BY <1>7, <2>1 DEF WatchFails, editVars
<1>8. CASE ReadFile
  <2>1. PendingEvent' = PendingEvent
    BY <1>8 DEF ReadFile, PendingEvent
  <2> QED
    BY <1>8, <2>1 DEF ReadFile, editVars
<1>9. CASE ApplyFails
  <2>1. PendingEvent' = PendingEvent
    BY <1>9 DEF ApplyFails, PendingEvent
  <2> QED
    BY <1>9, <2>1 DEF ApplyFails, editVars
<1>10. CASE ApplySwap
  <2>1. PendingEvent' = PendingEvent
    BY <1>10 DEF ApplySwap, PendingEvent
  <2>2. file > 0 => sm <= data /\ data <= file
    BY <1>10 DEF ApplySwap, VersionInv
  <2> QED
    BY <1>10, <2>1, <2>2 DEF ApplySwap, editVars
<1>11. CASE ApplyReturns
  <2>1. PendingEvent' = PendingEvent
    BY <1>11 DEF ApplyReturns, PendingEvent
  <2> QED
    BY <1>11, <2>1 DEF ApplyReturns, editVars
<1>12. CASE HandleEvent
  <2>1. PendingEvent => PendingEvent' \/ Head(events) \in {"write", "create"}
    BY <1>12, TailFacts DEF HandleEvent
  <2> QED
    BY <1>12, <2>1 DEF HandleEvent, Relevant, editVars
<1>13. CASE Shutdown
  <2>1. PendingEvent' = PendingEvent
    BY <1>13 DEF Shutdown, PendingEvent
  <2> QED
    BY <1>13, <2>1 DEF Shutdown, editVars
<1>14. CASE UNCHANGED vars
  BY <1>14 DEF vars, editVars, PendingEvent
<1>15. QED
  BY <1>1, <1>2, <1>3, <1>4, <1>5, <1>6, <1>7, <1>8, <1>9, <1>10, <1>11, <1>12,
      <1>13, <1>14
  DEF Next, Editing, Applying

-----------------------------------------------------------------------------
(* The program starts with a file it has not read. *)
LEMMA InitInv == Init => Inv
<1> SUFFICES ASSUME Init PROVE Inv
  OBVIOUS
<1> USE LimitsAssumption DEF Init, Torn
<1>1. TypeOK
  <2>1. events \in Seq(Kinds) /\ Len(events) <= QueueSize + 1
    OBVIOUS
  <2>2. file \in -1 .. MaxVersion /\ written \in 0 .. MaxVersion /\ others \in 0 .. MaxOther
    OBVIOUS
  <2>3. data \in -1 .. MaxVersion /\ sm \in 0 .. MaxVersion
    OBVIOUS
  <2> QED
    BY <2>1, <2>2, <2>3 DEF TypeOK
<1>2. VersionInv
  BY DEF VersionInv
<1>3. FreshInv
  BY DEF FreshInv, Watched
<1> QED
  BY <1>1, <1>2, <1>3 DEF Inv

(* Inv is an inductive invariant of the file, the watcher and the ShardMap. *)
THEOREM Invariance == Spec => []Inv
<1>1. Inv /\ [Next]_vars => Inv'
  BY TypeStep, VersionStep, FreshStep DEF Inv
<1>2. QED
  BY <1>1, InitInv, PTL DEF Spec

(* The variables keep their types; in particular the ShardMap never gets the  *)
(* content of a half-written or missing file, and the queue stays bounded.    *)
THEOREM TypeCorrect == Spec => []TypeOK
<1>1. Inv => TypeOK
  BY DEF Inv
<1>2. QED
  BY <1>1, Invariance, PTL

(* If the path is the one fsnotify uses in its events, no version of the file *)
(* is missed without an event having been dropped: neither the initial load   *)
(* nor the time applyFromFile takes opens a gap.                              *)
THEOREM NoVersionIsMissed == Spec => [](EventName = Filename => NothingMissed)
<1>1. Inv => (EventName = Filename => NothingMissed)
  BY DEF Inv, FreshInv, NothingMissed, Watched, PendingEvent
<1>2. QED
  BY <1>1, Invariance, PTL

(* watchForUpdates never replaces the ShardMap's state by an older or an      *)
(* unreadable one.                                                            *)
THEOREM LastGoodIsKept == Spec => KeepsLastGood
<1>1. Inv /\ [Next]_vars => [sm' >= sm]_vars
  <2> SUFFICES ASSUME Inv, [Next]_vars PROVE sm' >= sm
    OBVIOUS
  <2> USE DEF Inv, TypeOK, VersionInv
  <2>1. CASE ApplySwap
    BY <2>1 DEF ApplySwap, Torn, Missing
  <2>2. CASE UNCHANGED sm
    BY <2>2
  <2> QED
    BY <2>1, <2>2
    DEF Next, Editing, Applying, vars, WriteBegin, WriteEnd, Rename, RemoveFile,
       TouchOther, Watch, WatchFails, ReadFile, ApplyFails, ApplyReturns, HandleEvent, Shutdown
<1>2. QED
  BY <1>1, Invariance, PTL DEF Spec, KeepsLastGood
=============================================================================

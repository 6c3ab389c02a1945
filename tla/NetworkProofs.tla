--------------------------- MODULE NetworkProofs ---------------------------
(***************************************************************************)
(* The two users of the simulated network.  For any number of nodes, calls *)
(* and restarts: what a client of the harness was told is durable, the     *)
(* carried-over state is never torn, and the links between the nodes are   *)
(* the ones the test asked for.  For any number of calls and any types: a  *)
(* method is executed at most once, what gob loses on the way is reported, *)
(* and reported once.                                                      *)
(***************************************************************************)
EXTENDS RaftConfig, LabrpcCall, FoldTheorems, SequenceTheorems, TLAPS

-----------------------------------------------------------------------------
(* The harness                                                             *)

\* The harness is between DeleteServer() and AddServer().
Deleted == dpc \in {"copy", "kill", "readState", "readSnapshot", "ends", "make", "add"}

\* An RPC refers to an incarnation that exists.
CallInv ==
    \A c \in Calls :
        /\ cpc[c] # "idle" => cend[c] \in Ends
        /\ cpc[c] \in {"idle", "sending", "sent", "accepted"} => hpc[c] = "none"
        /\ (hpc[c] # "none" \/ cpc[c] = "accepted") =>
                cpc[c] # "idle" /\ cserver[c] \in Incs /\ cserver[c] <= inc[Dest(c)]
        /\ cpc[c] \in {"got", "replying", "delayed", "true"} => hpc[c] = "returned"

\* Where the harness is in crash1() and start1(), and who owns the Persister.
ServerInv ==
    /\ \A i \in Nodes :
        /\ servers[i] # 0 => ~owned[i] /\ servers[i] = inc[i]
        /\ ~owned[i] => inc[i] \in Incs
    /\ Deleted => servers[dnode] = 0
    /\ dpc \in {"kill", "readState", "readSnapshot", "ends", "make"} => owned[dnode]
    /\ dpc = "readSnapshot" => raftlog = saved[dnode].raftstate
    /\ dpc = "add" => ~owned[dnode]
    /\ dpc \in {"ends", "make"} => inc[dnode] < MaxIncarnation
    /\ (dpc \in {"crash", "delete", "copy", "kill", "readState", "readSnapshot"} /\ dstart) =>
            inc[dnode] < MaxIncarnation

\* A saved update stays saved; one whose reply passed the check is in Saved.
AckInv ==
    \A c \in Calls :
        /\ hpc[c] \in {"saved", "returned"} =>
                c \in disk[Dest(c)][cserver[c]].raftstate
        /\ cpc[c] \in {"replying", "delayed", "true"} =>
                c \in Saved(Dest(c)).raftstate

\* Nowhere is a snapshot newer than the Raft state stored with it.
PairInv ==
    \A i \in Nodes :
        /\ saved[i].snapshot \subseteq saved[i].raftstate
        /\ \A k \in Incs : disk[i][k].snapshot \subseteq disk[i][k].raftstate

Current(e) == e[2] = endnames[e[1]]
Wanted(e) == connected[e[1]] /\ connected[e[3]]

\* Which client ends are enabled, while the test thread is working too.
LinkInv ==
    /\ \A i \in Nodes :
        endnames[i] = IF dpc = "make" /\ i = dnode THEN inc[i] + 1 ELSE inc[i]
    /\ \A e \in Ends :
        /\ enabled[e] => Current(e)
        /\ Current(e) /\ e \notin todo => (enabled[e] <=> Wanted(e))
        /\ e \in todo => Current(e)
        /\ e \in todo /\ dpc = "connect" => Wanted(e)
        /\ e \in todo /\ dpc \in {"disconnect", "crash"} => dnode \in {e[1], e[3]}
    /\ dpc \notin {"connect", "disconnect", "crash"} => todo = {}
    /\ dpc \in {"disconnect", "crash", "delete"} \/ Deleted => ~connected[dnode]

Inv == TypeOK /\ CallInv /\ ServerInv /\ AckInv /\ PairInv /\ LinkInv

-----------------------------------------------------------------------------
(* A step of an RPC touches none of the network's own variables. *)
LEMMA RpcKeepsNet == ASSUME NEW c \in Calls, RpcStep(c) PROVE KeepNet
  BY DEF RpcStep, CallAborted, Dispatch, Accept, Refuse, DropRequest, StartHandler,
         GetReply, PollDead, CheckReply, DropReply, DelayReply, Deliver, FailReply,
         KeepRest, KeepNet

(* What the harness holds for a node is a well-formed Persister. *)
LEMMA SavedType ==
    ASSUME TypeOK, ServerInv, NEW i \in Nodes PROVE Saved(i) \in PersisterType(Calls)
  BY DEF TypeOK, ServerInv, Saved

(* start1() has an incarnation left to start. *)
LEMMA NextInc ==
    ASSUME TypeOK, ServerInv, dpc \in {"ends", "make"}
    PROVE  inc[dnode] + 1 \in Incs /\ inc[dnode] \in Nat
<1>1. inc[dnode] \in Incs \cup {0}
  BY DEF TypeOK
<1>2. inc[dnode] < MaxIncarnation
  BY DEF ServerInv
<1>3. QED
  BY <1>1, <1>2, IncarnationAssumption DEF Incs

(* Either way to save adds the update to the Raft state, and the snapshot does
   not get ahead of it. *)
LEMMA SaveEffect ==
    ASSUME NEW c \in Calls, HandlerSave(c),
           disk[Dest(c)][cserver[c]] \in PersisterType(Calls)
    PROVE  \E ps \in PersisterType(Calls) :
            /\ HandlerStore(c, ps)
            /\ ps.raftstate = disk[Dest(c)][cserver[c]].raftstate \cup {c}
            /\ \/ ps.snapshot = ps.raftstate
               \/ ps.snapshot = disk[Dest(c)][cserver[c]].snapshot
<1> DEFINE was == disk[Dest(c)][cserver[c]]
           state == was.raftstate \cup {c}
           one == SaveRaftState(was, state)
           both == SaveStateAndSnapshot(was, state, state)
<1>1. HandlerStore(c, one) \/ HandlerStore(c, both)
  BY DEF HandlerSave
<1>2. /\ one \in PersisterType(Calls)
      /\ one.raftstate = state /\ one.snapshot = was.snapshot
  BY DEF PersisterType, SaveRaftState
<1>3. /\ both \in PersisterType(Calls)
      /\ both.raftstate = state /\ both.snapshot = state
  BY DEF PersisterType, SaveStateAndSnapshot
<1>4. QED
  BY <1>1, <1>2, <1>3

(* Every step keeps the variables in their types. *)
LEMMA TypeStep == Inv /\ [Next]_vars => TypeOK'
<1> SUFFICES ASSUME Inv, [Next]_vars PROVE TypeOK'
  OBVIOUS
<1>0. TypeOK /\ CallInv /\ ServerInv
  BY DEF Inv
<1> USE <1>0, IncarnationAssumption
    DEF TypeOK, LabrpcTypeOK, Incs
<1>1. CASE ConnectStep
  BY <1>1
  DEF ConnectStep, Enable, netVars, flagVars, callVars, cfgVars, driverVars,
      linkVars, storeVars
<1>2. CASE ConnectDone
  BY <1>2
  DEF ConnectDone, netVars, flagVars, callVars, cfgVars, driverVars, linkVars,
      storeVars
<1>3. CASE DisconnectStep
  BY <1>3
  DEF DisconnectStep, Enable, netVars, flagVars, callVars, cfgVars, driverVars,
      linkVars, storeVars
<1>4. CASE DisconnectDone
  BY <1>4
  DEF DisconnectDone, netVars, flagVars, callVars, cfgVars, driverVars, linkVars,
      storeVars
<1>5. CASE CrashDelete
  BY <1>5
  DEF CrashDelete, DeleteServer, netVars, flagVars, callVars, cfgVars, driverVars,
      linkVars, storeVars
<1>6. CASE CrashCopy
  <2>1. Copy(Saved(dnode)) \in PersisterType(Calls)
    BY SavedType DEF Copy
  <2>2. QED
    BY <1>6, <2>1 DEF CrashCopy, netVars, flagVars, callVars, linkVars
<1>7. CASE CrashKill
  BY <1>7
  DEF CrashKill, netVars, flagVars, callVars, cfgVars, driverVars, linkVars,
      storeVars
<1>8. CASE CrashReadState
  <2>1. ReadRaftState(Saved(dnode)) \in SUBSET Calls
    BY SavedType DEF ReadRaftState, PersisterType
  <2>2. QED
    BY <1>8, <2>1 DEF CrashReadState, netVars, flagVars, callVars, linkVars, storeVars
<1>9. CASE CrashReadSnapshot
  <2>1. Saved(dnode).snapshot \in SUBSET Calls
    BY SavedType DEF PersisterType
  <2>2. SaveStateAndSnapshot(MakePersister, raftlog, ReadSnapshot(Saved(dnode)))
            \in PersisterType(Calls)
    BY <2>1 DEF SaveStateAndSnapshot, MakePersister, ReadSnapshot, PersisterType
  <2>3. QED
    BY <1>9, <2>2 DEF CrashReadSnapshot, netVars, flagVars, callVars, linkVars
<1>10. CASE StartEnds
  <2>1. inc[dnode] + 1 \in Incs
    BY <1>10, NextInc DEF StartEnds
  <2>2. QED
    BY <1>10, <2>1 DEF StartEnds, netVars, flagVars, callVars, storeVars
<1>11. CASE StartMake
  <2>1. inc[dnode] + 1 \in Incs
    BY <1>11, NextInc DEF StartMake
  <2>2. Copy(Saved(dnode)) \in PersisterType(Calls)
    BY SavedType DEF Copy
  <2>3. disk' \in [Nodes -> [Incs -> PersisterType(Calls)]]
    BY <1>11, <2>2 DEF StartMake
  <2>4. QED
    BY <1>11, <2>1, <2>3 DEF StartMake, netVars, flagVars, callVars, linkVars
<1>12. CASE StartAddServer
  BY <1>12
  DEF StartAddServer, AddServer, netVars, flagVars, callVars, cfgVars, driverVars,
      linkVars, storeVars
<1>13. CASE SetFlags
  BY <1>13
  DEF SetFlags, Reliable, LongReordering, netVars, flagVars, callVars, cfgVars,
      driverVars, linkVars, storeVars
<1>14. CASE CleanupConfig
  BY <1>14
  DEF CleanupConfig, Cleanup, netVars, flagVars, callVars, cfgVars, driverVars,
      linkVars, storeVars
<1>15. ASSUME NEW i \in Nodes, Connect(i) PROVE TypeOK'
  BY <1>15
  DEF Connect, Outgoing, Incoming, netVars, flagVars, callVars, cfgVars, driverVars,
      linkVars, storeVars
<1>16. ASSUME NEW i \in Nodes, Disconnect(i) PROVE TypeOK'
  BY <1>16
  DEF Disconnect, StartDisconnect, Outgoing, Incoming, netVars, flagVars, callVars,
      cfgVars, driverVars, linkVars, storeVars
<1>17. ASSUME NEW i \in Nodes, Crash(i) PROVE TypeOK'
  BY <1>17
  DEF Crash, StartDisconnect, Outgoing, Incoming, netVars, flagVars, callVars,
      cfgVars, driverVars, linkVars, storeVars
<1>18. ASSUME NEW i \in Nodes, Start(i) PROVE TypeOK'
  BY <1>18
  DEF Start, StartDisconnect, Outgoing, Incoming, netVars, flagVars, callVars,
      cfgVars, driverVars, linkVars, storeVars
<1>19. ASSUME NEW c \in Calls, NEW e \in Ends, PeerCall(c, e) PROVE TypeOK'
  BY <1>19
  DEF PeerCall, CallSend, Goto, KeepNet, netVars, flagVars, callVars, cfgVars,
      driverVars, linkVars, storeVars
<1>20. ASSUME NEW c \in Calls, CallAborted(c), UNCHANGED cfgVars PROVE TypeOK'
  BY <1>20
  DEF CallAborted, Goto, KeepRest, KeepNet, IsServerDead, flagVars, cfgVars,
      driverVars, linkVars, storeVars
<1>21. ASSUME NEW c \in Calls, Dispatch(c), UNCHANGED cfgVars PROVE TypeOK'
  BY <1>21
  DEF Dispatch, Goto, KeepRest, KeepNet, IsServerDead, flagVars, cfgVars, driverVars,
      linkVars, storeVars
<1>22. ASSUME NEW c \in Calls, Accept(c), UNCHANGED cfgVars PROVE TypeOK'
  <2>1. servers[Dest(c)] \in Incs \cup {0}
    BY <1>22 DEF Accept, Goto, CallInv, Dest, Ends
  <2>2. QED
    BY <1>22, <2>1
    DEF Accept, Goto, KeepNet, flagVars, cfgVars, driverVars, linkVars, storeVars
<1>23. ASSUME NEW c \in Calls, Refuse(c), UNCHANGED cfgVars PROVE TypeOK'
  BY <1>23
  DEF Refuse, Goto, KeepRest, KeepNet, IsServerDead, flagVars, cfgVars, driverVars,
      linkVars, storeVars
<1>24. ASSUME NEW c \in Calls, DropRequest(c), UNCHANGED cfgVars PROVE TypeOK'
  BY <1>24
  DEF DropRequest, Goto, KeepRest, KeepNet, IsServerDead, flagVars, cfgVars,
      driverVars, linkVars, storeVars
<1>25. ASSUME NEW c \in Calls, StartHandler(c), UNCHANGED cfgVars PROVE TypeOK'
  BY <1>25
  DEF StartHandler, Goto, KeepRest, KeepNet, IsServerDead, flagVars, cfgVars,
      driverVars, linkVars, storeVars
<1>26. ASSUME NEW c \in Calls, GetReply(c), UNCHANGED cfgVars PROVE TypeOK'
  BY <1>26
  DEF GetReply, Goto, KeepRest, KeepNet, IsServerDead, flagVars, cfgVars, driverVars,
      linkVars, storeVars
<1>27. ASSUME NEW c \in Calls, PollDead(c), UNCHANGED cfgVars PROVE TypeOK'
  BY <1>27
  DEF PollDead, Goto, KeepRest, KeepNet, IsServerDead, flagVars, cfgVars, driverVars,
      linkVars, storeVars
<1>28. ASSUME NEW c \in Calls, CheckReply(c), UNCHANGED cfgVars PROVE TypeOK'
  BY <1>28
  DEF CheckReply, Goto, KeepRest, KeepNet, flagVars, cfgVars, driverVars, linkVars,
            storeVars
<1>29. ASSUME NEW c \in Calls, DropReply(c), UNCHANGED cfgVars PROVE TypeOK'
  BY <1>29
  DEF DropReply, Goto, KeepRest, KeepNet, IsServerDead, flagVars, cfgVars,
      driverVars, linkVars, storeVars
<1>30. ASSUME NEW c \in Calls, DelayReply(c), UNCHANGED cfgVars PROVE TypeOK'
  BY <1>30
  DEF DelayReply, Goto, KeepRest, KeepNet, IsServerDead, flagVars, cfgVars,
      driverVars, linkVars, storeVars
<1>31. ASSUME NEW c \in Calls, Deliver(c), UNCHANGED cfgVars PROVE TypeOK'
  BY <1>31
  DEF Deliver, Goto, KeepRest, KeepNet, IsServerDead, flagVars, cfgVars, driverVars,
      linkVars, storeVars
<1>32. ASSUME NEW c \in Calls, FailReply(c), UNCHANGED cfgVars PROVE TypeOK'
  BY <1>32
  DEF FailReply, Goto, KeepRest, KeepNet, IsServerDead, flagVars, cfgVars,
      driverVars, linkVars, storeVars
<1>33. ASSUME NEW c \in Calls, HandlerSave(c) PROVE TypeOK'
  <2>1. Dest(c) \in Nodes /\ cserver[c] \in Incs
    BY <1>33 DEF HandlerSave, HandlerStore, CallInv, Dest, Ends
  <2>2. PICK ps \in PersisterType(Calls) : HandlerStore(c, ps)
    BY <1>33, <2>1, SaveEffect
  <2>3. disk' \in [Nodes -> [Incs -> PersisterType(Calls)]]
    BY <2>1, <2>2 DEF HandlerStore
  <2>4. QED
    BY <2>2, <2>3 DEF HandlerStore, KeepNet, flagVars, driverVars, linkVars
<1>34. ASSUME NEW c \in Calls, HandlerReturn(c) PROVE TypeOK'
  BY <1>34
  DEF HandlerReturn, KeepNet, netVars, flagVars, callVars, cfgVars, driverVars,
      linkVars, storeVars
<1>35. CASE LoopExit /\ UNCHANGED cfgVars
  BY <1>35
  DEF LoopExit, netVars, flagVars, callVars, cfgVars, driverVars, linkVars, storeVars
<1>36. CASE UNCHANGED vars
  BY <1>36
  DEF vars, netVars, flagVars, callVars, cfgVars, driverVars, linkVars, storeVars
<1>37. QED
  BY <1>1, <1>2, <1>3, <1>4, <1>5, <1>6, <1>7, <1>8, <1>9, <1>10,
     <1>11, <1>12, <1>13, <1>14, <1>15, <1>16, <1>17, <1>18, <1>19, <1>20,
     <1>21, <1>22, <1>23, <1>24, <1>25, <1>26, <1>27, <1>28, <1>29, <1>30,
     <1>31, <1>32, <1>33, <1>34, <1>35, <1>36
  DEF Next, DriverStep, RpcStep

(* An RPC refers to a server that exists or existed. *)
LEMMA CallsStep == Inv /\ [Next]_vars => CallInv'
<1> SUFFICES ASSUME Inv, [Next]_vars PROVE CallInv'
  OBVIOUS
<1>0. TypeOK /\ CallInv /\ ServerInv
  BY DEF Inv
<1> USE <1>0, IncarnationAssumption
    DEF TypeOK, LabrpcTypeOK, CallInv, Incs, Dest
<1>1. CASE ConnectStep
  BY <1>1
  DEF ConnectStep, Enable, netVars, flagVars, callVars, cfgVars, driverVars,
      linkVars, storeVars
<1>2. CASE ConnectDone
  BY <1>2
  DEF ConnectDone, netVars, flagVars, callVars, cfgVars, driverVars, linkVars,
      storeVars
<1>3. CASE DisconnectStep
  BY <1>3
  DEF DisconnectStep, Enable, netVars, flagVars, callVars, cfgVars, driverVars,
      linkVars, storeVars
<1>4. CASE DisconnectDone
  BY <1>4
  DEF DisconnectDone, netVars, flagVars, callVars, cfgVars, driverVars, linkVars,
      storeVars
<1>5. CASE CrashDelete
  BY <1>5
  DEF CrashDelete, DeleteServer, netVars, flagVars, callVars, cfgVars, driverVars,
      linkVars, storeVars
<1>6. CASE CrashCopy
  BY <1>6
  DEF CrashCopy, Copy, netVars, flagVars, callVars, cfgVars, driverVars, linkVars,
      storeVars
<1>7. CASE CrashKill
  BY <1>7
  DEF CrashKill, netVars, flagVars, callVars, cfgVars, driverVars, linkVars,
      storeVars
<1>8. CASE CrashReadState
  BY <1>8
  DEF CrashReadState, ReadRaftState, netVars, flagVars, callVars, cfgVars,
      driverVars, linkVars, storeVars
<1>9. CASE CrashReadSnapshot
  BY <1>9
  DEF CrashReadSnapshot, SaveStateAndSnapshot, ReadSnapshot, MakePersister, netVars,
      flagVars, callVars, cfgVars, driverVars, linkVars, storeVars
<1>10. CASE StartEnds
  BY <1>10
  DEF StartEnds, netVars, flagVars, callVars, cfgVars, driverVars, linkVars,
      storeVars
<1>11. CASE StartMake
  BY <1>11
  DEF StartMake, Copy, netVars, flagVars, callVars, cfgVars, driverVars, linkVars,
      storeVars
<1>12. CASE StartAddServer
  BY <1>12
  DEF StartAddServer, AddServer, netVars, flagVars, callVars, cfgVars, driverVars,
      linkVars, storeVars
<1>13. CASE SetFlags
  BY <1>13
  DEF SetFlags, Reliable, LongReordering, netVars, flagVars, callVars, cfgVars,
      driverVars, linkVars, storeVars
<1>14. CASE CleanupConfig
  BY <1>14
  DEF CleanupConfig, Cleanup, netVars, flagVars, callVars, cfgVars, driverVars,
      linkVars, storeVars
<1>15. ASSUME NEW i \in Nodes, Connect(i) PROVE CallInv'
  BY <1>15
  DEF Connect, Outgoing, Incoming, netVars, flagVars, callVars, cfgVars, driverVars,
      linkVars, storeVars
<1>16. ASSUME NEW i \in Nodes, Disconnect(i) PROVE CallInv'
  BY <1>16
  DEF Disconnect, StartDisconnect, Outgoing, Incoming, netVars, flagVars, callVars,
      cfgVars, driverVars, linkVars, storeVars
<1>17. ASSUME NEW i \in Nodes, Crash(i) PROVE CallInv'
  BY <1>17
  DEF Crash, StartDisconnect, Outgoing, Incoming, netVars, flagVars, callVars,
      cfgVars, driverVars, linkVars, storeVars
<1>18. ASSUME NEW i \in Nodes, Start(i) PROVE CallInv'
  BY <1>18
  DEF Start, StartDisconnect, Outgoing, Incoming, netVars, flagVars, callVars,
      cfgVars, driverVars, linkVars, storeVars
<1>19. ASSUME NEW c \in Calls, NEW e \in Ends, PeerCall(c, e) PROVE CallInv'
  BY <1>19
  DEF PeerCall, CallSend, Goto, KeepNet, netVars, flagVars, callVars, cfgVars,
      driverVars, linkVars, storeVars
<1>20. ASSUME NEW c \in Calls, CallAborted(c), UNCHANGED cfgVars PROVE CallInv'
  BY <1>20
  DEF CallAborted, Goto, KeepRest, KeepNet, IsServerDead, flagVars, cfgVars,
      driverVars, linkVars, storeVars
<1>21. ASSUME NEW c \in Calls, Dispatch(c), UNCHANGED cfgVars PROVE CallInv'
  BY <1>21
  DEF Dispatch, Goto, KeepRest, KeepNet, IsServerDead, flagVars, cfgVars, driverVars,
      linkVars, storeVars
<1>22. ASSUME NEW c \in Calls, Accept(c), UNCHANGED cfgVars PROVE CallInv'
  <2>1. Dest(c) \in Nodes /\ cend[c] \in Ends
    BY <1>22 DEF Accept, Goto, Ends
  <2>2. servers[Dest(c)] \in Incs /\ servers[Dest(c)] <= inc[Dest(c)]
    BY <1>22, <2>1 DEF Accept, ServerInv
  <2>3. QED
    BY <1>22, <2>1, <2>2
    DEF Accept, Goto, KeepNet, cfgVars, storeVars
<1>23. ASSUME NEW c \in Calls, Refuse(c), UNCHANGED cfgVars PROVE CallInv'
  BY <1>23
  DEF Refuse, Goto, KeepRest, KeepNet, IsServerDead, flagVars, cfgVars, driverVars,
      linkVars, storeVars
<1>24. ASSUME NEW c \in Calls, DropRequest(c), UNCHANGED cfgVars PROVE CallInv'
  BY <1>24
  DEF DropRequest, Goto, KeepRest, KeepNet, IsServerDead, flagVars, cfgVars,
      driverVars, linkVars, storeVars
<1>25. ASSUME NEW c \in Calls, StartHandler(c), UNCHANGED cfgVars PROVE CallInv'
  BY <1>25
  DEF StartHandler, Goto, KeepRest, KeepNet, IsServerDead, flagVars, cfgVars,
      driverVars, linkVars, storeVars
<1>26. ASSUME NEW c \in Calls, GetReply(c), UNCHANGED cfgVars PROVE CallInv'
  BY <1>26
  DEF GetReply, Goto, KeepRest, KeepNet, IsServerDead, flagVars, cfgVars, driverVars,
      linkVars, storeVars
<1>27. ASSUME NEW c \in Calls, PollDead(c), UNCHANGED cfgVars PROVE CallInv'
  BY <1>27
  DEF PollDead, Goto, KeepRest, KeepNet, IsServerDead, flagVars, cfgVars, driverVars,
      linkVars, storeVars
<1>28. ASSUME NEW c \in Calls, CheckReply(c), UNCHANGED cfgVars PROVE CallInv'
  BY <1>28
  DEF CheckReply, Goto, KeepRest, KeepNet, IsServerDead, flagVars, cfgVars,
      driverVars, linkVars, storeVars
<1>29. ASSUME NEW c \in Calls, DropReply(c), UNCHANGED cfgVars PROVE CallInv'
  BY <1>29
  DEF DropReply, Goto, KeepRest, KeepNet, IsServerDead, flagVars, cfgVars,
      driverVars, linkVars, storeVars
<1>30. ASSUME NEW c \in Calls, DelayReply(c), UNCHANGED cfgVars PROVE CallInv'
  BY <1>30
  DEF DelayReply, Goto, KeepRest, KeepNet, IsServerDead, flagVars, cfgVars,
      driverVars, linkVars, storeVars
<1>31. ASSUME NEW c \in Calls, Deliver(c), UNCHANGED cfgVars PROVE CallInv'
  BY <1>31
  DEF Deliver, Goto, KeepRest, KeepNet, IsServerDead, flagVars, cfgVars, driverVars,
      linkVars, storeVars
<1>32. ASSUME NEW c \in Calls, FailReply(c), UNCHANGED cfgVars PROVE CallInv'
  BY <1>32
  DEF FailReply, Goto, KeepRest, KeepNet, IsServerDead, flagVars, cfgVars,
      driverVars, linkVars, storeVars
<1>33. ASSUME NEW c \in Calls, HandlerSave(c) PROVE CallInv'
  BY <1>33
  DEF HandlerSave, HandlerStore, SaveRaftState, SaveStateAndSnapshot, KeepNet,
      netVars, flagVars, callVars, cfgVars, driverVars, linkVars, storeVars
<1>34. ASSUME NEW c \in Calls, HandlerReturn(c) PROVE CallInv'
  BY <1>34
  DEF HandlerReturn, KeepNet, netVars, flagVars, callVars, cfgVars, driverVars,
      linkVars, storeVars
<1>35. CASE LoopExit /\ UNCHANGED cfgVars
  BY <1>35
  DEF LoopExit, netVars, flagVars, callVars, cfgVars, driverVars, linkVars, storeVars
<1>36. CASE UNCHANGED vars
  BY <1>36
  DEF vars, netVars, flagVars, callVars, cfgVars, driverVars, linkVars, storeVars
<1>37. QED
  BY <1>1, <1>2, <1>3, <1>4, <1>5, <1>6, <1>7, <1>8, <1>9, <1>10,
     <1>11, <1>12, <1>13, <1>14, <1>15, <1>16, <1>17, <1>18, <1>19, <1>20,
     <1>21, <1>22, <1>23, <1>24, <1>25, <1>26, <1>27, <1>28, <1>29, <1>30,
     <1>31, <1>32, <1>33, <1>34, <1>35, <1>36
  DEF Next, DriverStep, RpcStep

(* A registered server is the one whose Persister the harness shares. *)
LEMMA ServerStep == Inv /\ [Next]_vars => ServerInv'
<1> SUFFICES ASSUME Inv, [Next]_vars PROVE ServerInv'
  OBVIOUS
<1>0. TypeOK /\ ServerInv
  BY DEF Inv
<1> USE <1>0, IncarnationAssumption
    DEF TypeOK, LabrpcTypeOK, PersisterType, ServerInv, Deleted, Incs, Saved
<1>1. CASE ConnectStep
  BY <1>1
  DEF ConnectStep, Enable, netVars, flagVars, callVars, cfgVars, driverVars,
      linkVars, storeVars
<1>2. CASE ConnectDone
  BY <1>2
  DEF ConnectDone, netVars, flagVars, callVars, cfgVars, driverVars, linkVars,
      storeVars
<1>3. CASE DisconnectStep
  BY <1>3
  DEF DisconnectStep, Enable, netVars, flagVars, callVars, cfgVars, driverVars,
      linkVars, storeVars
<1>4. CASE DisconnectDone
  BY <1>4
  DEF DisconnectDone, netVars, flagVars, callVars, cfgVars, driverVars, linkVars,
      storeVars
<1>5. CASE CrashDelete
  BY <1>5
  DEF CrashDelete, DeleteServer, netVars, flagVars, callVars, cfgVars, driverVars,
      linkVars, storeVars
<1>6. CASE CrashCopy
  BY <1>6
  DEF CrashCopy, Copy, netVars, flagVars, callVars, cfgVars, driverVars, linkVars,
      storeVars
<1>7. CASE CrashKill
  BY <1>7
  DEF CrashKill, netVars, flagVars, callVars, cfgVars, driverVars, linkVars,
      storeVars
<1>8. CASE CrashReadState
  BY <1>8
  DEF CrashReadState, ReadRaftState, netVars, flagVars, callVars, cfgVars,
      driverVars, linkVars, storeVars
<1>9. CASE CrashReadSnapshot
  BY <1>9
  DEF CrashReadSnapshot, SaveStateAndSnapshot, ReadSnapshot, MakePersister, netVars,
      flagVars, callVars, cfgVars, driverVars, linkVars, storeVars
<1>10. CASE StartEnds
  BY <1>10
  DEF StartEnds, netVars, flagVars, callVars, cfgVars, driverVars, linkVars,
      storeVars
<1>11. CASE StartMake
  BY <1>11
  DEF StartMake, Copy, netVars, flagVars, callVars, cfgVars, driverVars, linkVars,
      storeVars
<1>12. CASE StartAddServer
  BY <1>12
  DEF StartAddServer, AddServer, netVars, flagVars, callVars, cfgVars, driverVars,
      linkVars, storeVars
<1>13. CASE SetFlags
  BY <1>13
  DEF SetFlags, Reliable, LongReordering, netVars, flagVars, callVars, cfgVars,
      driverVars, linkVars, storeVars
<1>14. CASE CleanupConfig
  BY <1>14
  DEF CleanupConfig, Cleanup, netVars, flagVars, callVars, cfgVars, driverVars,
      linkVars, storeVars
<1>15. ASSUME NEW i \in Nodes, Connect(i) PROVE ServerInv'
  BY <1>15
  DEF Connect, Outgoing, Incoming, netVars, flagVars, callVars, cfgVars, driverVars,
      linkVars, storeVars
<1>16. ASSUME NEW i \in Nodes, Disconnect(i) PROVE ServerInv'
  BY <1>16
  DEF Disconnect, StartDisconnect, Outgoing, Incoming, netVars, flagVars, callVars,
      cfgVars, driverVars, linkVars, storeVars
<1>17. ASSUME NEW i \in Nodes, Crash(i) PROVE ServerInv'
  BY <1>17
  DEF Crash, StartDisconnect, Outgoing, Incoming, netVars, flagVars, callVars,
      cfgVars, driverVars, linkVars, storeVars
<1>18. ASSUME NEW i \in Nodes, Start(i) PROVE ServerInv'
  BY <1>18
  DEF Start, StartDisconnect, Outgoing, Incoming, netVars, flagVars, callVars,
      cfgVars, driverVars, linkVars, storeVars
<1>19. ASSUME NEW c \in Calls, NEW e \in Ends, PeerCall(c, e) PROVE ServerInv'
  BY <1>19
  DEF PeerCall, CallSend, Goto, KeepNet, netVars, flagVars, callVars, cfgVars,
      driverVars, linkVars, storeVars
<1>20. ASSUME NEW c \in Calls, RpcStep(c), UNCHANGED cfgVars PROVE ServerInv'
  BY <1>20, RpcKeepsNet DEF KeepNet, flagVars, cfgVars, driverVars, linkVars, storeVars
<1>21. ASSUME NEW c \in Calls, HandlerSave(c) PROVE ServerInv'
  BY <1>21
  DEF HandlerSave, HandlerStore, SaveRaftState, SaveStateAndSnapshot, KeepNet,
      netVars, flagVars, callVars, cfgVars, driverVars, linkVars, storeVars
<1>22. ASSUME NEW c \in Calls, HandlerReturn(c) PROVE ServerInv'
  BY <1>22
  DEF HandlerReturn, KeepNet, netVars, flagVars, callVars, cfgVars, driverVars,
      linkVars, storeVars
<1>23. CASE LoopExit /\ UNCHANGED cfgVars
  BY <1>23
  DEF LoopExit, netVars, flagVars, callVars, cfgVars, driverVars, linkVars, storeVars
<1>24. CASE UNCHANGED vars
  BY <1>24
  DEF vars, netVars, flagVars, callVars, cfgVars, driverVars, linkVars, storeVars
<1>25. QED
  BY <1>1, <1>2, <1>3, <1>4, <1>5, <1>6, <1>7, <1>8, <1>9, <1>10,
     <1>11, <1>12, <1>13, <1>14, <1>15, <1>16, <1>17, <1>18, <1>19, <1>20,
     <1>21, <1>22, <1>23, <1>24
  DEF Next, DriverStep

(* What was acknowledged is never left behind in an old Persister. *)
LEMMA AckStep == Inv /\ [Next]_vars => AckInv'
<1> SUFFICES ASSUME Inv, [Next]_vars PROVE AckInv'
  OBVIOUS
<1>0. TypeOK /\ CallInv /\ ServerInv /\ AckInv
  BY DEF Inv
<1> USE <1>0, IncarnationAssumption
    DEF TypeOK, LabrpcTypeOK, PersisterType, CallInv, ServerInv, Deleted, AckInv, Incs, Dest, Saved
<1>1. CASE ConnectStep
  BY <1>1
  DEF ConnectStep, Enable, netVars, flagVars, callVars, cfgVars, driverVars,
      linkVars, storeVars
<1>2. CASE ConnectDone
  BY <1>2
  DEF ConnectDone, netVars, flagVars, callVars, cfgVars, driverVars, linkVars,
      storeVars
<1>3. CASE DisconnectStep
  BY <1>3
  DEF DisconnectStep, Enable, netVars, flagVars, callVars, cfgVars, driverVars,
      linkVars, storeVars
<1>4. CASE DisconnectDone
  BY <1>4
  DEF DisconnectDone, netVars, flagVars, callVars, cfgVars, driverVars, linkVars,
      storeVars
<1>5. CASE CrashDelete
  BY <1>5
  DEF CrashDelete, DeleteServer, netVars, flagVars, callVars, cfgVars, driverVars,
      linkVars, storeVars
<1>6. CASE CrashCopy
  BY <1>6
  DEF CrashCopy, Copy, netVars, flagVars, callVars, cfgVars, driverVars, linkVars,
      storeVars
<1>7. CASE CrashKill
  BY <1>7
  DEF CrashKill, netVars, flagVars, callVars, cfgVars, driverVars, linkVars,
      storeVars
<1>8. CASE CrashReadState
  BY <1>8
  DEF CrashReadState, ReadRaftState, netVars, flagVars, callVars, cfgVars,
      driverVars, linkVars, storeVars
<1>9. CASE CrashReadSnapshot
  BY <1>9
  DEF CrashReadSnapshot, SaveStateAndSnapshot, ReadSnapshot, MakePersister, netVars,
      flagVars, callVars, cfgVars, driverVars, linkVars, storeVars
<1>10. CASE StartEnds
  BY <1>10
  DEF StartEnds, netVars, flagVars, callVars, cfgVars, driverVars, linkVars,
      storeVars
<1>11. CASE StartMake
  <2>1. Saved(dnode) = saved[dnode] /\ dnode \in Nodes
    BY <1>11 DEF StartMake
  <2>a. inc[dnode] + 1 \in Incs /\ inc[dnode] \in Nat
    BY <1>11, NextInc DEF StartMake
  <2>2. \A i \in Nodes : (Saved(i))' = Saved(i)
    BY <1>11, <2>1, <2>a DEF StartMake, Copy
  <2>3. \A i \in Nodes, k \in Incs : k <= inc[i] => disk'[i][k] = disk[i][k]
    BY <1>11, <2>1, <2>a DEF StartMake
  <2>4. cpc' = cpc /\ hpc' = hpc /\ cend' = cend /\ cserver' = cserver
    BY <1>11 DEF StartMake, netVars, callVars
  <2>5. \A c \in Calls : cpc[c] # "idle" => Dest(c) \in Nodes
    BY DEF Ends
  <2>6. ASSUME NEW c \in Calls
        PROVE  /\ hpc[c] # "none" => disk'[Dest(c)][cserver[c]] = disk[Dest(c)][cserver[c]]
               /\ cpc[c] # "idle" => (Saved(Dest(c)))' = Saved(Dest(c))
    BY <2>2, <2>3, <2>4, <2>5
  <2>7. ASSUME NEW c \in Calls, hpc'[c] \in {"saved", "returned"}
        PROVE  (c \in disk[Dest(c)][cserver[c]].raftstate)'
    <3>1. c \in disk[Dest(c)][cserver[c]].raftstate
      BY <2>4, <2>7
    <3>2. QED
      BY <2>4, <2>6, <2>7, <3>1
  <2>8. ASSUME NEW c \in Calls, cpc'[c] \in {"replying", "delayed", "true"}
        PROVE  (c \in Saved(Dest(c)).raftstate)'
    <3> HIDE DEF Saved
    <3>1. QED
      BY <2>4, <2>6, <2>8
  <2>9. QED
    BY <2>7, <2>8
<1>12. CASE StartAddServer
  BY <1>12
  DEF StartAddServer, AddServer, netVars, flagVars, callVars, cfgVars, driverVars,
      linkVars, storeVars
<1>13. CASE SetFlags
  BY <1>13
  DEF SetFlags, Reliable, LongReordering, netVars, flagVars, callVars, cfgVars,
      driverVars, linkVars, storeVars
<1>14. CASE CleanupConfig
  BY <1>14
  DEF CleanupConfig, Cleanup, netVars, flagVars, callVars, cfgVars, driverVars,
      linkVars, storeVars
<1>15. ASSUME NEW i \in Nodes, Connect(i) PROVE AckInv'
  BY <1>15
  DEF Connect, Outgoing, Incoming, netVars, flagVars, callVars, cfgVars, driverVars,
      linkVars, storeVars
<1>16. ASSUME NEW i \in Nodes, Disconnect(i) PROVE AckInv'
  BY <1>16
  DEF Disconnect, StartDisconnect, Outgoing, Incoming, netVars, flagVars, callVars,
      cfgVars, driverVars, linkVars, storeVars
<1>17. ASSUME NEW i \in Nodes, Crash(i) PROVE AckInv'
  BY <1>17
  DEF Crash, StartDisconnect, Outgoing, Incoming, netVars, flagVars, callVars,
      cfgVars, driverVars, linkVars, storeVars
<1>18. ASSUME NEW i \in Nodes, Start(i) PROVE AckInv'
  BY <1>18
  DEF Start, StartDisconnect, Outgoing, Incoming, netVars, flagVars, callVars,
      cfgVars, driverVars, linkVars, storeVars
<1>19. ASSUME NEW c \in Calls, NEW e \in Ends, PeerCall(c, e) PROVE AckInv'
  BY <1>19
  DEF PeerCall, CallSend, Goto, KeepNet, netVars, flagVars, callVars, cfgVars,
      driverVars, linkVars, storeVars
<1>20. ASSUME NEW c \in Calls, CallAborted(c), UNCHANGED cfgVars PROVE AckInv'
  BY <1>20
  DEF CallAborted, Goto, KeepRest, KeepNet, IsServerDead, flagVars, cfgVars,
      driverVars, linkVars, storeVars
<1>21. ASSUME NEW c \in Calls, Dispatch(c), UNCHANGED cfgVars PROVE AckInv'
  BY <1>21
  DEF Dispatch, Goto, KeepRest, KeepNet, IsServerDead, flagVars, cfgVars, driverVars,
      linkVars, storeVars
<1>22. ASSUME NEW c \in Calls, Accept(c), UNCHANGED cfgVars PROVE AckInv'
  BY <1>22
  DEF Accept, Goto, KeepRest, KeepNet, IsServerDead, flagVars, cfgVars, driverVars,
      linkVars, storeVars
<1>23. ASSUME NEW c \in Calls, Refuse(c), UNCHANGED cfgVars PROVE AckInv'
  BY <1>23
  DEF Refuse, Goto, KeepRest, KeepNet, IsServerDead, flagVars, cfgVars, driverVars,
      linkVars, storeVars
<1>24. ASSUME NEW c \in Calls, DropRequest(c), UNCHANGED cfgVars PROVE AckInv'
  BY <1>24
  DEF DropRequest, Goto, KeepRest, KeepNet, IsServerDead, flagVars, cfgVars,
      driverVars, linkVars, storeVars
<1>25. ASSUME NEW c \in Calls, StartHandler(c), UNCHANGED cfgVars PROVE AckInv'
  BY <1>25
  DEF StartHandler, Goto, KeepRest, KeepNet, IsServerDead, flagVars, cfgVars,
      driverVars, linkVars, storeVars
<1>26. ASSUME NEW c \in Calls, GetReply(c), UNCHANGED cfgVars PROVE AckInv'
  BY <1>26
  DEF GetReply, Goto, KeepRest, KeepNet, IsServerDead, flagVars, cfgVars, driverVars,
      linkVars, storeVars
<1>27. ASSUME NEW c \in Calls, PollDead(c), UNCHANGED cfgVars PROVE AckInv'
  BY <1>27
  DEF PollDead, Goto, KeepRest, KeepNet, IsServerDead, flagVars, cfgVars, driverVars,
      linkVars, storeVars
<1>28. ASSUME NEW c \in Calls, CheckReply(c), UNCHANGED cfgVars PROVE AckInv'
  <2>1. Dest(c) \in Nodes /\ c \in disk[Dest(c)][cserver[c]].raftstate
    BY <1>28 DEF CheckReply, Goto, Ends
  <2>2. ~IsServerDead(c) => c \in Saved(Dest(c)).raftstate
    <3> SUFFICES ASSUME ~IsServerDead(c) PROVE c \in Saved(Dest(c)).raftstate
      OBVIOUS
    <3>1. servers[Dest(c)] = cserver[c] /\ cserver[c] # 0
      BY <1>28 DEF IsServerDead, CheckReply, Goto
    <3>2. ~owned[Dest(c)] /\ inc[Dest(c)] = cserver[c]
      BY <2>1, <3>1
    <3>3. QED
      BY <2>1, <3>2
  <2>3. QED
    BY <1>28, <2>1, <2>2
    DEF CheckReply, Goto, KeepRest, KeepNet, cfgVars, storeVars
<1>29. ASSUME NEW c \in Calls, DropReply(c), UNCHANGED cfgVars PROVE AckInv'
  BY <1>29
  DEF DropReply, Goto, KeepRest, KeepNet, IsServerDead, flagVars, cfgVars,
      driverVars, linkVars, storeVars
<1>30. ASSUME NEW c \in Calls, DelayReply(c), UNCHANGED cfgVars PROVE AckInv'
  BY <1>30
  DEF DelayReply, Goto, KeepRest, KeepNet, IsServerDead, flagVars, cfgVars,
      driverVars, linkVars, storeVars
<1>31. ASSUME NEW c \in Calls, Deliver(c), UNCHANGED cfgVars PROVE AckInv'
  BY <1>31
  DEF Deliver, Goto, KeepRest, KeepNet, IsServerDead, flagVars, cfgVars, driverVars,
      linkVars, storeVars
<1>32. ASSUME NEW c \in Calls, FailReply(c), UNCHANGED cfgVars PROVE AckInv'
  BY <1>32
  DEF FailReply, Goto, KeepRest, KeepNet, IsServerDead, flagVars, cfgVars,
      driverVars, linkVars, storeVars
<1>33. ASSUME NEW c \in Calls, HandlerSave(c) PROVE AckInv'
  <2>1. /\ Dest(c) \in Nodes /\ cserver[c] \in Incs
        /\ disk[Dest(c)][cserver[c]] \in PersisterType(Calls)
    BY <1>33 DEF HandlerSave, HandlerStore, Ends
  <2>2. PICK ps \in PersisterType(Calls) :
            /\ HandlerStore(c, ps)
            /\ ps.raftstate = disk[Dest(c)][cserver[c]].raftstate \cup {c}
    BY <1>33, <2>1, SaveEffect
  <2>3. \A i \in Nodes, k \in Incs :
            /\ disk[i][k].raftstate \subseteq disk'[i][k].raftstate
            /\ i = Dest(c) /\ k = cserver[c] => c \in disk'[i][k].raftstate
    BY <2>1, <2>2 DEF HandlerStore
  <2>4. \A i \in Nodes : Saved(i).raftstate \subseteq (Saved(i).raftstate)'
    BY <2>2, <2>3 DEF HandlerStore
  <2>5. /\ cpc' = cpc /\ cend' = cend /\ cserver' = cserver
        /\ hpc' = [hpc EXCEPT ![c] = "saved"]
    BY <2>2 DEF HandlerStore
  <2>6. \A d \in Calls : cpc[d] # "idle" => Dest(d) \in Nodes
    BY DEF Ends
  <2>7. ASSUME NEW d \in Calls, hpc'[d] \in {"saved", "returned"}
        PROVE  (d \in disk[Dest(d)][cserver[d]].raftstate)'
    BY <2>1, <2>3, <2>5, <2>6, <2>7
  <2>8. ASSUME NEW d \in Calls, cpc'[d] \in {"replying", "delayed", "true"}
        PROVE  (d \in Saved(Dest(d)).raftstate)'
    BY <2>4, <2>5, <2>6, <2>8
  <2>9. QED
    BY <2>7, <2>8
<1>34. ASSUME NEW c \in Calls, HandlerReturn(c) PROVE AckInv'
  BY <1>34
  DEF HandlerReturn, KeepNet, netVars, flagVars, callVars, cfgVars, driverVars,
      linkVars, storeVars
<1>35. CASE LoopExit /\ UNCHANGED cfgVars
  BY <1>35
  DEF LoopExit, netVars, flagVars, callVars, cfgVars, driverVars, linkVars, storeVars
<1>36. CASE UNCHANGED vars
  BY <1>36
  DEF vars, netVars, flagVars, callVars, cfgVars, driverVars, linkVars, storeVars
<1>37. QED
  BY <1>1, <1>2, <1>3, <1>4, <1>5, <1>6, <1>7, <1>8, <1>9, <1>10,
     <1>11, <1>12, <1>13, <1>14, <1>15, <1>16, <1>17, <1>18, <1>19, <1>20,
     <1>21, <1>22, <1>23, <1>24, <1>25, <1>26, <1>27, <1>28, <1>29, <1>30,
     <1>31, <1>32, <1>33, <1>34, <1>35, <1>36
  DEF Next, DriverStep, RpcStep

(* The two halves of a Persister change hands together. *)
LEMMA PairStep == Inv /\ [Next]_vars => PairInv'
<1> SUFFICES ASSUME Inv, [Next]_vars PROVE PairInv'
  OBVIOUS
<1>0. TypeOK /\ CallInv /\ ServerInv /\ PairInv
  BY DEF Inv
<1> USE <1>0, IncarnationAssumption
    DEF TypeOK, LabrpcTypeOK, PersisterType, PairInv, Incs, Saved
<1>1. CASE ConnectStep
  BY <1>1
  DEF ConnectStep, Enable, netVars, flagVars, callVars, cfgVars, driverVars,
      linkVars, storeVars
<1>2. CASE ConnectDone
  BY <1>2
  DEF ConnectDone, netVars, flagVars, callVars, cfgVars, driverVars, linkVars,
      storeVars
<1>3. CASE DisconnectStep
  BY <1>3
  DEF DisconnectStep, Enable, netVars, flagVars, callVars, cfgVars, driverVars,
      linkVars, storeVars
<1>4. CASE DisconnectDone
  BY <1>4
  DEF DisconnectDone, netVars, flagVars, callVars, cfgVars, driverVars, linkVars,
      storeVars
<1>5. CASE CrashDelete
  BY <1>5
  DEF CrashDelete, DeleteServer, netVars, flagVars, callVars, cfgVars, driverVars,
      linkVars, storeVars
<1>6. CASE CrashCopy
  <2>1. Saved(dnode).snapshot \subseteq Saved(dnode).raftstate
    BY DEF ServerInv
  <2>2. saved' = [saved EXCEPT ![dnode] = Saved(dnode)] /\ disk' = disk
    BY <1>6 DEF CrashCopy, Copy
  <2>3. QED
    BY <2>1, <2>2
<1>7. CASE CrashKill
  BY <1>7
  DEF CrashKill, netVars, flagVars, callVars, cfgVars, driverVars, linkVars,
      storeVars
<1>8. CASE CrashReadState
  BY <1>8
  DEF CrashReadState, ReadRaftState, netVars, flagVars, callVars, cfgVars,
      driverVars, linkVars, storeVars
<1>9. CASE CrashReadSnapshot
  <2>1. raftlog = saved[dnode].raftstate /\ Saved(dnode) = saved[dnode]
    BY <1>9 DEF CrashReadSnapshot, ServerInv
  <2>2. saved'[dnode].snapshot \subseteq saved'[dnode].raftstate
    BY <1>9, <2>1
    DEF CrashReadSnapshot, SaveStateAndSnapshot, MakePersister, ReadSnapshot
  <2>3. disk' = disk /\ \A i \in Nodes \ {dnode} : saved'[i] = saved[i]
    BY <1>9 DEF CrashReadSnapshot
  <2>4. QED
    BY <2>2, <2>3
<1>10. CASE StartEnds
  BY <1>10
  DEF StartEnds, netVars, flagVars, callVars, cfgVars, driverVars, linkVars,
      storeVars
<1>11. CASE StartMake
  <2>1. Saved(dnode).snapshot \subseteq Saved(dnode).raftstate
    BY DEF ServerInv
  <2>2. \A i \in Nodes, k \in Incs :
            disk'[i][k] = Saved(dnode) \/ disk'[i][k] = disk[i][k]
    BY <1>11 DEF StartMake, Copy
  <2>3. saved' = saved
    BY <1>11 DEF StartMake
  <2>4. QED
    BY <2>1, <2>2, <2>3
<1>12. CASE StartAddServer
  BY <1>12
  DEF StartAddServer, AddServer, netVars, flagVars, callVars, cfgVars, driverVars,
      linkVars, storeVars
<1>13. CASE SetFlags
  BY <1>13
  DEF SetFlags, Reliable, LongReordering, netVars, flagVars, callVars, cfgVars,
      driverVars, linkVars, storeVars
<1>14. CASE CleanupConfig
  BY <1>14
  DEF CleanupConfig, Cleanup, netVars, flagVars, callVars, cfgVars, driverVars,
      linkVars, storeVars
<1>15. ASSUME NEW i \in Nodes, Connect(i) PROVE PairInv'
  BY <1>15
  DEF Connect, Outgoing, Incoming, netVars, flagVars, callVars, cfgVars, driverVars,
      linkVars, storeVars
<1>16. ASSUME NEW i \in Nodes, Disconnect(i) PROVE PairInv'
  BY <1>16
  DEF Disconnect, StartDisconnect, Outgoing, Incoming, netVars, flagVars, callVars,
      cfgVars, driverVars, linkVars, storeVars
<1>17. ASSUME NEW i \in Nodes, Crash(i) PROVE PairInv'
  BY <1>17
  DEF Crash, StartDisconnect, Outgoing, Incoming, netVars, flagVars, callVars,
      cfgVars, driverVars, linkVars, storeVars
<1>18. ASSUME NEW i \in Nodes, Start(i) PROVE PairInv'
  BY <1>18
  DEF Start, StartDisconnect, Outgoing, Incoming, netVars, flagVars, callVars,
      cfgVars, driverVars, linkVars, storeVars
<1>19. ASSUME NEW c \in Calls, NEW e \in Ends, PeerCall(c, e) PROVE PairInv'
  BY <1>19
  DEF PeerCall, CallSend, Goto, KeepNet, netVars, flagVars, callVars, cfgVars,
      driverVars, linkVars, storeVars
<1>20. ASSUME NEW c \in Calls, RpcStep(c), UNCHANGED cfgVars PROVE PairInv'
  BY <1>20, RpcKeepsNet DEF KeepNet, flagVars, cfgVars, driverVars, linkVars, storeVars
<1>21. ASSUME NEW c \in Calls, HandlerSave(c) PROVE PairInv'
  <2>1. /\ Dest(c) \in Nodes /\ cserver[c] \in Incs
        /\ disk[Dest(c)][cserver[c]] \in PersisterType(Calls)
    BY <1>21 DEF HandlerSave, HandlerStore, CallInv, Dest, Ends
  <2>a. disk[Dest(c)][cserver[c]].snapshot \subseteq disk[Dest(c)][cserver[c]].raftstate
    BY <2>1
  <2>2. PICK ps \in PersisterType(Calls) :
            /\ HandlerStore(c, ps)
            /\ ps.raftstate = disk[Dest(c)][cserver[c]].raftstate \cup {c}
            /\ \/ ps.snapshot = ps.raftstate
               \/ ps.snapshot = disk[Dest(c)][cserver[c]].snapshot
    BY <1>21, <2>1, SaveEffect
  <2>3. ps.snapshot \subseteq ps.raftstate
    BY <2>a, <2>2
  <2>4. QED
    BY <2>1, <2>2, <2>3 DEF HandlerStore
<1>22. ASSUME NEW c \in Calls, HandlerReturn(c) PROVE PairInv'
  BY <1>22
  DEF HandlerReturn, KeepNet, netVars, flagVars, callVars, cfgVars, driverVars,
      linkVars, storeVars
<1>23. CASE LoopExit /\ UNCHANGED cfgVars
  BY <1>23
  DEF LoopExit, netVars, flagVars, callVars, cfgVars, driverVars, linkVars, storeVars
<1>24. CASE UNCHANGED vars
  BY <1>24
  DEF vars, netVars, flagVars, callVars, cfgVars, driverVars, linkVars, storeVars
<1>25. QED
  BY <1>1, <1>2, <1>3, <1>4, <1>5, <1>6, <1>7, <1>8, <1>9, <1>10,
     <1>11, <1>12, <1>13, <1>14, <1>15, <1>16, <1>17, <1>18, <1>19, <1>20,
     <1>21, <1>22, <1>23, <1>24
  DEF Next, DriverStep

(* connect() and disconnect() reach every end of the node. *)
LEMMA LinkStep == Inv /\ [Next]_vars => LinkInv'
<1> SUFFICES ASSUME Inv, [Next]_vars PROVE LinkInv'
  OBVIOUS
<1>0. TypeOK /\ ServerInv /\ LinkInv
  BY DEF Inv
<1> USE <1>0, IncarnationAssumption
    DEF TypeOK, LabrpcTypeOK, LinkInv, Deleted, Current, Wanted, Ends, Incs
<1>1. CASE ConnectStep
  BY <1>1
  DEF ConnectStep, Enable, netVars, flagVars, callVars, cfgVars, driverVars,
      linkVars, storeVars
<1>2. CASE ConnectDone
  BY <1>2
  DEF ConnectDone, netVars, flagVars, callVars, cfgVars, driverVars, linkVars,
      storeVars
<1>3. CASE DisconnectStep
  BY <1>3
  DEF DisconnectStep, Enable, netVars, flagVars, callVars, cfgVars, driverVars,
      linkVars, storeVars
<1>4. CASE DisconnectDone
  BY <1>4
  DEF DisconnectDone, netVars, flagVars, callVars, cfgVars, driverVars, linkVars,
      storeVars
<1>5. CASE CrashDelete
  BY <1>5
  DEF CrashDelete, DeleteServer, netVars, flagVars, callVars, cfgVars, driverVars,
      linkVars, storeVars
<1>6. CASE CrashCopy
  BY <1>6
  DEF CrashCopy, Copy, netVars, flagVars, callVars, cfgVars, driverVars, linkVars,
      storeVars
<1>7. CASE CrashKill
  BY <1>7
  DEF CrashKill, netVars, flagVars, callVars, cfgVars, driverVars, linkVars,
      storeVars
<1>8. CASE CrashReadState
  BY <1>8
  DEF CrashReadState, ReadRaftState, netVars, flagVars, callVars, cfgVars,
      driverVars, linkVars, storeVars
<1>9. CASE CrashReadSnapshot
  BY <1>9
  DEF CrashReadSnapshot, SaveStateAndSnapshot, ReadSnapshot, MakePersister, netVars,
      flagVars, callVars, cfgVars, driverVars, linkVars, storeVars
<1>10. CASE StartEnds
  BY <1>10
  DEF StartEnds, netVars, flagVars, callVars, cfgVars, driverVars, linkVars,
      storeVars
<1>11. CASE StartMake
  BY <1>11
  DEF StartMake, Copy, netVars, flagVars, callVars, cfgVars, driverVars, linkVars,
      storeVars
<1>12. CASE StartAddServer
  BY <1>12
  DEF StartAddServer, AddServer, netVars, flagVars, callVars, cfgVars, driverVars,
      linkVars, storeVars
<1>13. CASE SetFlags
  BY <1>13
  DEF SetFlags, Reliable, LongReordering, netVars, flagVars, callVars, cfgVars,
      driverVars, linkVars, storeVars
<1>14. CASE CleanupConfig
  BY <1>14
  DEF CleanupConfig, Cleanup, netVars, flagVars, callVars, cfgVars, driverVars,
      linkVars, storeVars
<1>15. ASSUME NEW i \in Nodes, Connect(i) PROVE LinkInv'
  BY <1>15
  DEF Connect, Outgoing, Incoming, netVars, flagVars, callVars, cfgVars, driverVars,
      linkVars, storeVars
<1>16. ASSUME NEW i \in Nodes, Disconnect(i) PROVE LinkInv'
  BY <1>16
  DEF Disconnect, StartDisconnect, Outgoing, Incoming, netVars, flagVars, callVars,
      cfgVars, driverVars, linkVars, storeVars
<1>17. ASSUME NEW i \in Nodes, Crash(i) PROVE LinkInv'
  BY <1>17
  DEF Crash, StartDisconnect, Outgoing, Incoming, netVars, flagVars, callVars,
      cfgVars, driverVars, linkVars, storeVars
<1>18. ASSUME NEW i \in Nodes, Start(i) PROVE LinkInv'
  BY <1>18
  DEF Start, StartDisconnect, Outgoing, Incoming, netVars, flagVars, callVars,
      cfgVars, driverVars, linkVars, storeVars
<1>19. ASSUME NEW c \in Calls, NEW e \in Ends, PeerCall(c, e) PROVE LinkInv'
  BY <1>19
  DEF PeerCall, CallSend, Goto, KeepNet, netVars, flagVars, callVars, cfgVars,
      driverVars, linkVars, storeVars
<1>20. ASSUME NEW c \in Calls, RpcStep(c), UNCHANGED cfgVars PROVE LinkInv'
  BY <1>20, RpcKeepsNet DEF KeepNet, flagVars, cfgVars, driverVars, linkVars, storeVars
<1>21. ASSUME NEW c \in Calls, HandlerSave(c) PROVE LinkInv'
  BY <1>21
  DEF HandlerSave, HandlerStore, SaveRaftState, SaveStateAndSnapshot, KeepNet,
      netVars, flagVars, callVars, cfgVars, driverVars, linkVars, storeVars
<1>22. ASSUME NEW c \in Calls, HandlerReturn(c) PROVE LinkInv'
  BY <1>22
  DEF HandlerReturn, KeepNet, netVars, flagVars, callVars, cfgVars, driverVars,
      linkVars, storeVars
<1>23. CASE LoopExit /\ UNCHANGED cfgVars
  BY <1>23
  DEF LoopExit, netVars, flagVars, callVars, cfgVars, driverVars, linkVars, storeVars
<1>24. CASE UNCHANGED vars
  BY <1>24
  DEF vars, netVars, flagVars, callVars, cfgVars, driverVars, linkVars, storeVars
<1>25. QED
  BY <1>1, <1>2, <1>3, <1>4, <1>5, <1>6, <1>7, <1>8, <1>9, <1>10,
     <1>11, <1>12, <1>13, <1>14, <1>15, <1>16, <1>17, <1>18, <1>19, <1>20,
     <1>21, <1>22, <1>23, <1>24
  DEF Next, DriverStep

-----------------------------------------------------------------------------
(* Before the first start1() there is no server, no end in use, no call. *)
LEMMA InitInv == Init => Inv
<1> SUFFICES ASSUME Init PROVE Inv
  OBVIOUS
<1> USE IncarnationAssumption DEF Init, LabrpcInit, Incs
<1>1. MakePersister \in PersisterType(Calls)
  BY DEF MakePersister, PersisterType
<1>2. TypeOK
  BY <1>1 DEF TypeOK, LabrpcTypeOK
<1>3. CallInv
  BY DEF CallInv
<1>4. ServerInv
  BY DEF ServerInv, Deleted
<1>5. AckInv
  BY DEF AckInv
<1>6. PairInv
  BY DEF PairInv, MakePersister
<1>7. LinkInv
  BY DEF LinkInv, Deleted, Current, Wanted, Ends
<1>8. QED
  BY <1>2, <1>3, <1>4, <1>5, <1>6, <1>7 DEF Inv

(* Inv is an inductive invariant of the harness, the network and the peers. *)
THEOREM Invariance == Spec => []Inv
<1>1. Inv /\ [Next]_vars => Inv'
  BY TypeStep, CallsStep, ServerStep, AckStep, PairStep, LinkStep DEF Inv
<1>2. QED
  BY <1>1, InitInv, PTL DEF Spec

(* The variables of the harness and of the network keep their types. *)
THEOREM TypeCorrect == Spec => []TypeOK
<1>1. Inv => TypeOK
  BY DEF Inv
<1>2. QED
  BY <1>1, Invariance, PTL

(* An update whose Call() returned true is in the state that the next        *)
(* incarnation of its server is made from, whatever crashes overlapped with  *)
(* the call: processReq() checks isServerDead() after the handler returned,  *)
(* and crash1() deletes the server before it copies the Persister.           *)
THEOREM AcknowledgedIsDurable == Spec => []AckedPersisted
<1>1. Inv => AckedPersisted
  BY DEF Inv, AckInv, AckedPersisted
<1>2. QED
  BY <1>1, Invariance, PTL

(* crash1() reads Raft state and snapshot in two steps, but from a copy that *)
(* nobody else writes: the pair it carries over was saved together.          *)
THEOREM CarriedStateIsWhole == Spec => []NeverTorn
<1>1. Inv => NeverTorn
  BY DEF Inv, PairInv, ServerInv, NeverTorn, Saved
<1>2. QED
  BY <1>1, Invariance, PTL

(* Between two operations of the test, exactly the links between connected   *)
(* nodes are up.                                                             *)
THEOREM LinksAreAsAsked == Spec => []LinksMatchConnected
<1>1. Inv => LinksMatchConnected
  BY DEF Inv, LinkInv, LinksMatchConnected, Outgoing, Current, Wanted, TypeOK,
      LabrpcTypeOK
<1>2. QED
  BY <1>1, Invariance, PTL

(* The client ends of a replaced incarnation are disabled for ever, so a     *)
(* killed Raft that goes on running cannot send.                             *)
THEOREM OldInstanceIsCutOff == Spec => []OldEndsDisabled
<1>1. Inv => OldEndsDisabled
  BY DEF Inv, LinkInv, OldEndsDisabled, Current, TypeOK, Ends, Incs
<1>2. QED
  BY <1>1, Invariance, PTL

-----------------------------------------------------------------------------
(* Calls: at most once                                                     *)

\* The control points of a call and its handler, and the executions that go
\* with them: at s in Call(), p in the network, h and g in the handler, r runs.
OnceAt(s, p, h, g, r) ==
    /\ s \in {"start", "encoding", "sent", "decoding", "done"}
    /\ g \in {"none", "decode", "encode"}
    /\ h \in {"none", "running", "returned"}
    /\ p = "idle" <=> s \in {"start", "encoding"}
    /\ s \in {"decoding", "done"} => p = "true"
    /\ p \in {"idle", "sending", "sent", "accepted"} => h = "none"
    /\ p \in {"got", "replying", "delayed", "true"} => h = "returned"
    /\ h # "running" => g = "none"
    /\ r = IF h = "returned" \/ g = "encode" THEN 1 ELSE 0

OnceInv ==
    /\ stage = [c \in Calls |-> stage[c]] /\ cpc = [c \in Calls |-> cpc[c]]
    /\ hpc = [c \in Calls |-> hpc[c]] /\ hstage = [c \in Calls |-> hstage[c]]
    /\ ran = [c \in Calls |-> ran[c]]
    /\ \A c \in Calls : OnceAt(stage[c], cpc[c], hpc[c], hstage[c], ran[c])

PhaseOf(s, p) ==
    IF s = "start" THEN "idle"
    ELSE IF s = "done" THEN "ok"
    ELSE IF p = "false" THEN "failed" ELSE "pending"

\* One call goes from phase p and r runs to phase q and k runs.
PhaseMove(p, r, q, k) ==
    \/ q = p /\ k = r
    \/ p = "idle" /\ q = "pending" /\ k = r
    \/ p \in {"pending", "failed"} /\ r = 0 /\ q = p /\ k = 1
    \/ p = "pending" /\ r = 1 /\ q = "ok" /\ k = r
    \/ p = "pending" /\ q = "failed" /\ k = r

\* Call c goes on to these control points.
OnceMove(c, s, p, h, g, r) ==
    /\ stage' = [stage EXCEPT ![c] = s] /\ cpc' = [cpc EXCEPT ![c] = p]
    /\ hpc' = [hpc EXCEPT ![c] = h] /\ hstage' = [hstage EXCEPT ![c] = g]
    /\ ran' = [ran EXCEPT ![c] = r]
    /\ OnceAt(s, p, h, g, r)
    /\ PhaseMove(PhaseOf(stage[c], cpc[c]), ran[c], PhaseOf(s, p), r)

RpcAbs == <<[c \in Calls |-> Phase(c)], ran>>

(* A step of one call keeps the invariant, and AtMostOnceRpc allows it, if it *)
(* does so at the call's own control points.                                  *)
LEMMA OnceStep ==
  ASSUME OnceInv, NEW c \in Calls, NEW s, NEW p, NEW h, NEW g, NEW r,
         OnceMove(c, s, p, h, g, r)
  PROVE  OnceInv' /\ [Rpc!Next]_RpcAbs
<1> USE DEF OnceMove
<1>1. OnceInv'
  <2> HIDE DEF OnceAt
  <2> QED
    BY DEF OnceInv
<1> DEFINE ph == [d \in Calls |-> Phase(d)]
<1>2. \A d \in Calls : Phase(d) = PhaseOf(stage[d], cpc[d]) /\ Phase(d)' = PhaseOf(stage'[d], cpc'[d])
  BY DEF Phase, PhaseOf
<1>3. ph' = [ph EXCEPT ![c] = PhaseOf(s, p)] /\ ph[c] = PhaseOf(stage[c], cpc[c])
  <2> HIDE DEF PhaseOf
  <2> QED
    BY <1>2 DEF OnceInv
<1>4. /\ ran' = [ran EXCEPT ![c] = r]
      /\ ran = [ran EXCEPT ![c] = ran[c]]
      /\ ph = [ph EXCEPT ![c] = ph[c]]
  BY DEF OnceInv
<1>5. PhaseMove(ph[c], ran[c], PhaseOf(s, p), r)
  BY <1>3
<1> HIDE DEF ph
<1>6. \/ ph' = ph /\ ran' = ran
      \/ \/ /\ ph[c] = "idle" /\ ph' = [ph EXCEPT ![c] = "pending"] /\ ran' = ran
         \/ ph[c] \in {"pending", "failed"} /\ ran[c] = 0 /\ ph' = ph /\ ran' = [ran EXCEPT ![c] = 1]
         \/ ph[c] = "pending" /\ ran[c] = 1 /\ ph' = [ph EXCEPT ![c] = "ok"] /\ ran' = ran
         \/ ph[c] = "pending" /\ ph' = [ph EXCEPT ![c] = "failed"] /\ ran' = ran
  <2> DEFINE q == PhaseOf(s, p)
  <2> HIDE DEF q
  <2>1. ph' = [ph EXCEPT ![c] = q] /\ PhaseMove(ph[c], ran[c], q, r)
    BY <1>3, <1>5 DEF q
  <2> QED
    BY <2>1, <1>4, Zenon DEF PhaseMove
<1>7. [Rpc!Next]_<<ph, ran>>
  BY <1>6 DEF Rpc!Next, Rpc!Invoke, Rpc!Run, Rpc!Succeed, Rpc!Fail, Rpc!Move, ph
<1> QED
  BY <1>1, <1>7 DEF RpcAbs, ph

(* The control points of a call that stand still. *)
LEMMA OnceStays ==
  ASSUME OnceInv, NEW c \in Calls
  PROVE  /\ stage = [stage EXCEPT ![c] = stage[c]] /\ cpc = [cpc EXCEPT ![c] = cpc[c]]
         /\ hpc = [hpc EXCEPT ![c] = hpc[c]] /\ hstage = [hstage EXCEPT ![c] = hstage[c]]
         /\ ran = [ran EXCEPT ![c] = ran[c]]
         /\ OnceAt(stage[c], cpc[c], hpc[c], hstage[c], ran[c])
  BY DEF OnceInv

(* Nobody but the call itself touches its control points. *)
LEMMA OnceElsewhere ==
  ASSUME OnceInv, UNCHANGED <<stage, cpc, hpc, hstage, ran>>
  PROVE  OnceInv' /\ [Rpc!Next]_RpcAbs
<1>1. OnceInv'
  BY DEF OnceInv
<1>2. RpcAbs' = RpcAbs
  BY DEF RpcAbs, Phase
<1> QED
  BY <1>1, <1>2

(* The steps of the network. *)
LEMMA OnceNet ==
  ASSUME OnceInv, NEW c \in Calls, NetStep(c) \/ CountedDispatch(c)
  PROVE  OnceInv' /\ [Rpc!Next]_RpcAbs
<1> DEFINE At(p, h) == /\ cpc' = [cpc EXCEPT ![c] = p] /\ hpc' = [hpc EXCEPT ![c] = h]
                       /\ OnceAt(stage[c], p, h, hstage[c], ran[c])
                       /\ PhaseMove(PhaseOf(stage[c], cpc[c]), ran[c], PhaseOf(stage[c], p), ran[c])
<1>1. UNCHANGED <<stage, hstage, ran>>
  BY DEF NetStep, CountedDispatch, KeepData, dataVars
<1>2. \E p, h : At(p, h)
  <2> DEFINE On(q) == /\ cpc' = [cpc EXCEPT ![c] = q] /\ UNCHANGED hpc
                      /\ OnceAt(stage[c], q, hpc[c], hstage[c], ran[c])
                      /\ PhaseMove(PhaseOf(stage[c], cpc[c]), ran[c], PhaseOf(stage[c], q), ran[c])
  <2>1. StartHandler(c) \/ \E q \in {"sent", "accepted", "failing", "got", "replying", "delayed", "true", "false"} : On(q)
    <3>0. \/ CountedDispatch(c) \/ CallAborted(c) \/ Accept(c)
          \/ Refuse(c) \/ (Goto(c, "sent", "failing") /\ KeepRest)
          \/ DropRequest(c) \/ StartHandler(c) \/ GetReply(c) \/ PollDead(c)
          \/ CheckReply(c) \/ DropReply(c) \/ DelayReply(c) \/ Deliver(c) \/ FailReply(c)
      BY Zenon DEF NetStep
    <3>1. CASE CountedDispatch(c)
      BY <3>1, OnceStays DEF CountedDispatch, Dispatch, Goto, KeepRest, OnceAt, PhaseOf, PhaseMove
    <3>2. CASE CallAborted(c)
      BY <3>2, OnceStays DEF CallAborted, Goto, KeepRest, OnceAt, PhaseOf, PhaseMove
    <3>3. CASE Accept(c)
      BY <3>3, OnceStays DEF Accept, Goto, OnceAt, PhaseOf, PhaseMove
    <3>4. CASE Refuse(c) \/ (Goto(c, "sent", "failing") /\ KeepRest)
      BY <3>4, OnceStays DEF Refuse, Goto, KeepRest, OnceAt, PhaseOf, PhaseMove
    <3>5. CASE DropRequest(c)
      BY <3>5, OnceStays DEF DropRequest, Goto, KeepRest, OnceAt, PhaseOf, PhaseMove
    <3>6. CASE GetReply(c)
      BY <3>6, OnceStays DEF GetReply, Goto, KeepRest, OnceAt, PhaseOf, PhaseMove
    <3>7. CASE PollDead(c)
      BY <3>7, OnceStays DEF PollDead, Goto, KeepRest, OnceAt, PhaseOf, PhaseMove
    <3>8. CASE CheckReply(c)
      BY <3>8, OnceStays DEF CheckReply, Goto, KeepRest, OnceAt, PhaseOf, PhaseMove
    <3>9. CASE DropReply(c) \/ DelayReply(c)
      BY <3>9, OnceStays DEF DropReply, DelayReply, Goto, KeepRest, OnceAt, PhaseOf, PhaseMove
    <3>10. CASE Deliver(c)
      BY <3>10, OnceStays DEF Deliver, Goto, KeepRest, OnceAt, PhaseOf, PhaseMove
    <3>11. CASE FailReply(c)
      BY <3>11, OnceStays DEF FailReply, Goto, KeepRest, OnceAt, PhaseOf, PhaseMove
    <3> HIDE DEF On
    <3> QED
      BY <3>0, <3>1, <3>2, <3>3, <3>4, <3>5, <3>6, <3>7, <3>8, <3>9, <3>10, <3>11, Zenon
  <2>2. CASE StartHandler(c)
    <3>1. At("waiting", "running")
      BY <2>2, OnceStays DEF StartHandler, Goto, OnceAt, PhaseOf, PhaseMove
    <3> QED
      BY <3>1, Zenon
  <2>3. CASE \E q : On(q)
    <3>1. PICK q : On(q)
      BY <2>3
    <3>2. At(q, hpc[c])
      BY <3>1, OnceStays, Zenon
    <3> QED
      BY <3>2, Zenon
  <2> QED
    BY <2>1, <2>2, <2>3, Zenon
<1>3. PICK p, h : At(p, h)
  BY <1>2
<1>4. /\ stage' = [stage EXCEPT ![c] = stage[c]] /\ hstage' = [hstage EXCEPT ![c] = hstage[c]]
      /\ ran' = [ran EXCEPT ![c] = ran[c]]
  BY <1>1, OnceStays, Zenon
<1> QED
  <2>1. OnceMove(c, stage[c], p, h, hstage[c], ran[c])
    BY <1>3, <1>4, Zenon DEF OnceMove
  <2> QED
    BY <2>1, OnceStep, Zenon

(* The steps of the caller and of the handler. *)
LEMMA OnceCall ==
  ASSUME OnceInv, NEW c \in Calls,
         \/ CallDecode(c) \/ CallReturn(c) \/ CallEncode(c) \/ \E e \in Ends : CallRequest(c, e)
         \/ ServiceReturn(c) \/ \E name \in Called : ServerDispatch(c, name)
         \/ \E answer \in ReplyValues : ServiceCall(c, answer)
  PROVE  OnceInv' /\ [Rpc!Next]_RpcAbs
<1> USE DEF Stage, KeepOthers, netVars, callVars, dataVars
<1>1. CASE CallEncode(c)
  <2>1. /\ stage[c] = "start" /\ stage' = [stage EXCEPT ![c] = "encoding"]
        /\ UNCHANGED <<cpc, hpc, hstage, ran>>
    BY <1>1 DEF CallEncode
  <2>2. /\ OnceAt("encoding", cpc[c], hpc[c], hstage[c], ran[c])
        /\ PhaseMove(PhaseOf(stage[c], cpc[c]), ran[c], PhaseOf("encoding", cpc[c]), ran[c])
    BY <2>1, OnceStays DEF OnceAt, PhaseOf, PhaseMove
  <2>5. OnceMove(c, "encoding", cpc[c], hpc[c], hstage[c], ran[c])
    BY <2>1, <2>2, OnceStays, Zenon DEF OnceMove
  <2> QED
    BY <2>5, OnceStep, Zenon
<1>2. CASE \E e \in Ends : CallRequest(c, e)
  <2>1. /\ stage[c] = "encoding" /\ stage' = [stage EXCEPT ![c] = "sent"]
        /\ cpc[c] = "idle" /\ cpc' = [cpc EXCEPT ![c] = "sending"]
        /\ UNCHANGED <<hpc, hstage, ran>>
    BY <1>2 DEF CallRequest, CallSend, Goto
  <2>2. /\ OnceAt("sent", "sending", hpc[c], hstage[c], ran[c])
        /\ PhaseMove(PhaseOf(stage[c], cpc[c]), ran[c], PhaseOf("sent", "sending"), ran[c])
    BY <2>1, OnceStays DEF OnceAt, PhaseOf, PhaseMove
  <2>5. OnceMove(c, "sent", "sending", hpc[c], hstage[c], ran[c])
    BY <2>1, <2>2, OnceStays, Zenon DEF OnceMove
  <2> QED
    BY <2>5, OnceStep, Zenon
<1>3. CASE CallDecode(c)
  <2>1. /\ stage[c] = "sent" /\ stage' = [stage EXCEPT ![c] = "decoding"]
        /\ cpc[c] = "true" /\ UNCHANGED <<cpc, hpc, hstage, ran>>
    BY <1>3 DEF CallDecode
  <2>2. /\ OnceAt("decoding", cpc[c], hpc[c], hstage[c], ran[c])
        /\ PhaseMove(PhaseOf(stage[c], cpc[c]), ran[c], PhaseOf("decoding", cpc[c]), ran[c])
    BY <2>1, OnceStays DEF OnceAt, PhaseOf, PhaseMove
  <2>5. OnceMove(c, "decoding", cpc[c], hpc[c], hstage[c], ran[c])
    BY <2>1, <2>2, OnceStays, Zenon DEF OnceMove
  <2> QED
    BY <2>5, OnceStep, Zenon
<1>4. CASE CallReturn(c)
  <2>1. /\ stage[c] = "decoding" /\ stage' = [stage EXCEPT ![c] = "done"]
        /\ UNCHANGED <<cpc, hpc, hstage, ran>>
    BY <1>4 DEF CallReturn
  <2>2. /\ OnceAt("done", cpc[c], hpc[c], hstage[c], ran[c])
        /\ PhaseMove(PhaseOf(stage[c], cpc[c]), ran[c], PhaseOf("done", cpc[c]), ran[c])
    BY <2>1, OnceStays DEF OnceAt, PhaseOf, PhaseMove
  <2>5. OnceMove(c, "done", cpc[c], hpc[c], hstage[c], ran[c])
    BY <2>1, <2>2, OnceStays, Zenon DEF OnceMove
  <2> QED
    BY <2>5, OnceStep, Zenon
<1>5. CASE ServiceReturn(c)
  <2>1. /\ hpc[c] = "running" /\ hpc' = [hpc EXCEPT ![c] = "returned"]
        /\ hstage[c] = "encode" /\ hstage' = [hstage EXCEPT ![c] = "none"]
        /\ UNCHANGED <<stage, cpc, ran>>
    BY <1>5 DEF ServiceReturn
  <2>2. /\ OnceAt(stage[c], cpc[c], "returned", "none", ran[c])
        /\ PhaseMove(PhaseOf(stage[c], cpc[c]), ran[c], PhaseOf(stage[c], cpc[c]), ran[c])
    BY <2>1, OnceStays DEF OnceAt, PhaseOf, PhaseMove
  <2>5. OnceMove(c, stage[c], cpc[c], "returned", "none", ran[c])
    BY <2>1, <2>2, OnceStays, Zenon DEF OnceMove
  <2> QED
    BY <2>5, OnceStep, Zenon
<1>6. CASE \E name \in Called : ServerDispatch(c, name)
  <2>1. /\ hpc[c] = "running" /\ hstage[c] = "none"
        /\ hstage' = [hstage EXCEPT ![c] = "decode"] \/ hstage' = hstage
        /\ UNCHANGED <<stage, cpc, hpc, ran>>
    BY <1>6 DEF ServerDispatch
  <2>2. CASE hstage' = hstage
    BY <2>1, <2>2, OnceElsewhere
  <2>3. CASE hstage' = [hstage EXCEPT ![c] = "decode"]
    <3>1. /\ OnceAt(stage[c], cpc[c], hpc[c], "decode", ran[c])
          /\ PhaseMove(PhaseOf(stage[c], cpc[c]), ran[c], PhaseOf(stage[c], cpc[c]), ran[c])
      BY <2>1, OnceStays DEF OnceAt, PhaseOf, PhaseMove
    <3>2. OnceMove(c, stage[c], cpc[c], hpc[c], "decode", ran[c])
      BY <2>1, <2>3, <3>1, OnceStays, Zenon DEF OnceMove
    <3> QED
      BY <3>2, OnceStep, Zenon
  <2> QED
    BY <2>1, <2>2, <2>3
<1>7. CASE \E answer \in ReplyValues : ServiceCall(c, answer)
  <2>1. /\ hpc[c] = "running" /\ hstage[c] = "decode"
        /\ hstage' = [hstage EXCEPT ![c] = "encode"]
        /\ ran' = [ran EXCEPT ![c] = ran[c] + 1]
        /\ UNCHANGED <<stage, cpc, hpc>>
    BY <1>7 DEF ServiceCall
  <2>2. ran[c] = 0
    BY <2>1, OnceStays DEF OnceAt
  <2>3. ran' = [ran EXCEPT ![c] = 1]
    BY <2>1, <2>2
  <2>4. /\ OnceAt(stage[c], cpc[c], hpc[c], "encode", 1)
        /\ PhaseMove(PhaseOf(stage[c], cpc[c]), ran[c], PhaseOf(stage[c], cpc[c]), 1)
    BY <2>1, <2>2, OnceStays DEF OnceAt, PhaseOf, PhaseMove
  <2>5. OnceMove(c, stage[c], cpc[c], hpc[c], "encode", 1)
    BY <2>1, <2>3, <2>4, OnceStays, Zenon DEF OnceMove
  <2> QED
    BY <2>5, OnceStep, Zenon
<1> QED
  BY <1>1, <1>2, <1>3, <1>4, <1>5, <1>6, <1>7

(* Every step. *)
LEMMA OnceNext == OnceInv /\ [RpcNext]_rpcVars => OnceInv' /\ [Rpc!Next]_RpcAbs
<1> SUFFICES ASSUME OnceInv, [RpcNext]_rpcVars PROVE OnceInv' /\ [Rpc!Next]_RpcAbs
  OBVIOUS
<1>1. CASE UNCHANGED rpcVars
  BY <1>1, OnceElsewhere DEF rpcVars, netVars, callVars, dataVars
<1>2. CASE Owner
  BY <1>2, OnceElsewhere DEF Owner, callVars, dataVars
<1>3. CASE \E t \in Registered : Register(t)
  BY <1>3, OnceElsewhere DEF Register, netVars, callVars, dataVars
<1>4. CASE \E th : CheckStep(th)
  BY <1>4, OnceElsewhere DEF CheckStep, netVars, callVars, dataVars
<1>5. CASE LoopExit /\ KeepData
  BY <1>5, OnceElsewhere DEF LoopExit, KeepData, callVars, dataVars
<1>6. ASSUME NEW c \in Calls,
             \/ CallStep(c) \/ CallEncode(c) \/ \E e \in Ends : CallRequest(c, e)
             \/ \E answer \in ReplyValues : ServiceCall(c, answer)
      PROVE  OnceInv' /\ [Rpc!Next]_RpcAbs
  <2>1. \/ \E th : CheckStep(th)
        \/ NetStep(c) \/ CountedDispatch(c)
        \/ CallDecode(c) \/ CallReturn(c) \/ CallEncode(c) \/ \E e \in Ends : CallRequest(c, e)
        \/ ServiceReturn(c) \/ \E name \in Called : ServerDispatch(c, name)
        \/ \E answer \in ReplyValues : ServiceCall(c, answer)
    BY <1>6, Zenon DEF CallStep
  <2> QED
    BY <2>1, <1>4, OnceNet, OnceCall, Zenon
<1> QED
  BY <1>1, <1>2, <1>3, <1>4, <1>5, <1>6, Zenon DEF RpcNext

LEMMA OnceInit == RpcInit => OnceInv /\ Rpc!Init
<1> SUFFICES ASSUME RpcInit PROVE OnceInv /\ Rpc!Init
  OBVIOUS
<1>1. OnceInv
  BY DEF RpcInit, LabrpcInit, OnceInv, OnceAt
<1>2. Rpc!Init
  BY DEF RpcInit, Rpc!Init, Phase
<1> QED
  BY <1>1, <1>2

(* Call() is at most once: true means the method was executed, once; false    *)
(* that it was executed at most once, whatever is lost, delayed, deleted or   *)
(* shut down meanwhile.                                                       *)
THEOREM CallsAtMostOnce == RpcSpec => AtMostOnce
<1>1. QED
  BY OnceInit, OnceNext, PTL DEF RpcSpec, AtMostOnce, Rpc!Spec, RpcAbs, Rpc!rpcVars

-----------------------------------------------------------------------------
(* Stacks of checks and complaints                                         *)

\* The complaints in a stack.
Cries(s) == {i \in DOMAIN s : s[i] = Complain}

(* A check is no complaint. *)
LEMMA CheckIsNot == \A t : Check(t) # Complain /\ Check(t).do = "check" /\ Check(t).type = t
  BY DEF Check, Complain

LEMMA CriesFinite ==
  ASSUME NEW s \in Seq(Tasks)
  PROVE  IsFiniteSet(Cries(s)) /\ Cardinality(Cries(s)) \in Nat /\ Cries(s) \subseteq 1 .. Len(s)
<1>1. Cries(s) \subseteq 1 .. Len(s) /\ Len(s) \in Nat
  BY DEF Cries
<1>2. IsFiniteSet(1 .. Len(s))
  BY <1>1, FS_Interval
<1> QED
  BY <1>1, <1>2, FS_Subset, FS_CardinalityType

(* Two stacks have the complaints of both. *)
LEMMA CriesConcat ==
  ASSUME NEW s \in Seq(Tasks), NEW r \in Seq(Tasks)
  PROVE  /\ s \o r \in Seq(Tasks)
         /\ Cardinality(Cries(s \o r)) = Cardinality(Cries(s)) + Cardinality(Cries(r))
<1> DEFINE m == Len(s)
           n == Len(r)
           all == s \o r
           late == {i \in DOMAIN all : i > m /\ all[i] = Complain}
           f == [i \in Cries(r) |-> i + m]
<1>1. /\ m \in Nat /\ n \in Nat /\ all \in Seq(Tasks) /\ DOMAIN all = 1 .. m + n
      /\ \A i \in 1 .. m + n : all[i] = IF i <= m THEN s[i] ELSE r[i - m]
      /\ DOMAIN s = 1 .. m /\ DOMAIN r = 1 .. n
  BY ConcatProperties
<1> HIDE DEF all, m, n
<1>2. Cries(all) = Cries(s) \cup late /\ Cries(s) \cap late = {}
  BY <1>1 DEF Cries
<1>3. f \in [Cries(r) -> late]
  <2>1. ASSUME NEW i \in Cries(r) PROVE i + m \in late
    <3>1. i \in 1 .. n /\ r[i] = Complain
      BY <1>1 DEF Cries
    <3>2. i + m \in 1 .. m + n /\ ~(i + m <= m) /\ (i + m) - m = i /\ i + m > m
      BY <1>1, <3>1
    <3> QED
      BY <1>1, <3>1, <3>2
  <2> HIDE DEF late
  <2> QED
    BY <2>1
<1>4. \A i, j \in Cries(r) : f[i] = f[j] => i = j
  BY <1>1 DEF Cries
<1>5. \A j \in late : \E i \in Cries(r) : f[i] = j
  <2> SUFFICES ASSUME NEW j \in late PROVE \E i \in Cries(r) : f[i] = j
    OBVIOUS
  <2>1. j - m \in Cries(r) /\ (j - m) + m = j
    BY <1>1 DEF Cries
  <2> QED
    BY <2>1
<1>6. ExistsBijection(Cries(r), late)
  <2> HIDE DEF f, late
  <2>1. f \in Bijection(Cries(r), late)
    BY <1>3, <1>4, <1>5 DEF Bijection, Injection, Surjection, IsInjective
  <2> QED
    BY <2>1 DEF ExistsBijection
<1>7. IsFiniteSet(Cries(s)) /\ IsFiniteSet(Cries(r)) /\ Cardinality(Cries(s)) \in Nat /\ Cardinality(Cries(r)) \in Nat
  BY CriesFinite
<1>8. IsFiniteSet(late) /\ Cardinality(late) = Cardinality(Cries(r))
  BY <1>6, <1>7, FS_Bijection
<1> HIDE DEF late
<1>9. Cardinality(Cries(s) \cup late) = Cardinality(Cries(s)) + Cardinality(late) - Cardinality({})
  BY <1>2, <1>7, <1>8, FS_Union
<1>10. Cardinality({}) = 0
  BY FS_EmptySet
<1> QED
  BY <1>1, <1>2, <1>7, <1>8, <1>9, <1>10 DEF all

LEMMA CriesNone == <<>> \in Seq(Tasks) /\ Cardinality(Cries(<<>>)) = 0
<1>1. Cries(<<>>) = {}
  BY DEF Cries
<1> QED
  BY <1>1, FS_EmptySet

LEMMA CriesOne ==
  ASSUME NEW x \in Tasks
  PROVE  <<x>> \in Seq(Tasks) /\ Cardinality(Cries(<<x>>)) = IF x = Complain THEN 1 ELSE 0
<1>1. Cries(<<x>>) = IF x = Complain THEN {1} ELSE {}
  BY DEF Cries
<1>2. <<x>> \in Seq(Tasks)
  OBVIOUS
<1>3. CASE x = Complain
  BY <1>1, <1>2, <1>3, FS_Singleton
<1>4. CASE x # Complain
  BY <1>1, <1>2, <1>4, FS_EmptySet
<1> QED
  BY <1>3, <1>4

LEMMA CriesTail ==
  ASSUME NEW s \in Seq(Tasks), s # <<>>
  PROVE  /\ Head(s) \in Tasks /\ Tail(s) \in Seq(Tasks) /\ s = <<Head(s)>> \o Tail(s)
         /\ Cardinality(Cries(s)) = (IF Head(s) = Complain THEN 1 ELSE 0) + Cardinality(Cries(Tail(s)))
<1>1. Head(s) \in Tasks /\ Tail(s) \in Seq(Tasks)
  BY HeadTailProperties
<1>2. s = <<Head(s)>> \o Tail(s)
  <2>1. /\ Len(s) \in Nat /\ Len(s) >= 1 /\ Len(Tail(s)) = Len(s) - 1 /\ Head(s) = s[1]
        /\ \A i \in 1 .. Len(Tail(s)) : Tail(s)[i] = s[i + 1]
    BY HeadTailProperties, EmptySeq, LenProperties
  <2> DEFINE q == <<Head(s)>> \o Tail(s)
  <2>2. <<Head(s)>> \in Seq(Tasks) /\ Len(<<Head(s)>>) = 1 /\ <<Head(s)>>[1] = Head(s)
    BY <1>1
  <2>3. /\ q \in Seq(Tasks) /\ Len(q) = 1 + Len(Tail(s))
        /\ \A i \in 1 .. 1 + Len(Tail(s)) : q[i] = IF i <= 1 THEN <<Head(s)>>[i] ELSE Tail(s)[i - 1]
    BY <1>1, <2>2, ConcatProperties
  <2> HIDE DEF q
  <2>4. Len(q) = Len(s) /\ \A i \in 1 .. Len(s) : q[i] = s[i]
    BY <2>1, <2>2, <2>3
  <2>5. q = s
    BY <2>3, <2>4, SeqEqual
  <2> QED
    BY <2>5 DEF q
<1>3. Cardinality(Cries(<<Head(s)>> \o Tail(s))) = Cardinality(Cries(<<Head(s)>>)) + Cardinality(Cries(Tail(s)))
  BY <1>1, CriesOne, CriesConcat
<1> QED
  BY <1>1, <1>2, <1>3, CriesOne

LEMMA CriesAll ==
  ASSUME NEW n \in Nat
  PROVE  /\ [i \in 1 .. n |-> Complain] \in Seq(Tasks)
         /\ Cardinality(Cries([i \in 1 .. n |-> Complain])) = n
<1> DEFINE s == [i \in 1 .. n |-> Complain]
<1>1. s \in Seq(Tasks)
  <2>1. \A i \in 1 .. n : Complain \in Tasks
    BY DEF Tasks
  <2> QED
    BY <2>1, IsASeq
<1>2. Cries(s) = 1 .. n
  BY DEF Cries
<1>3. Cardinality(1 .. n) = n
  BY FS_Interval
<1> QED
  BY <1>1, <1>2, <1>3

(* Sequences are flattened one after the other. *)
LEMMA FlattenIs ==
  ASSUME NEW S, NEW seqs \in Seq(Seq(S))
  PROVE  \E g \in [0 .. Len(seqs) -> Seq(S)] :
            /\ g[0] = <<>> /\ \A i \in 1 .. Len(seqs) : g[i] = g[i - 1] \o seqs[i]
            /\ FlattenSeq(seqs) = g[Len(seqs)]
<1> DEFINE N == Len(seqs)
           step == [z \in (1 .. N) \X Seq(S) |-> z[2] \o seqs[z[1]]]
<1>1. N \in Nat /\ \A i \in 1 .. N : seqs[i] \in Seq(S)
  OBVIOUS
<1>2. \A i \in 1 .. N, y \in Seq(S) : step[<<i, y>>] = y \o seqs[i] /\ step[<<i, y>>] \in Seq(S)
  <2> SUFFICES ASSUME NEW i \in 1 .. N, NEW y \in Seq(S)
               PROVE  step[<<i, y>>] = y \o seqs[i] /\ step[<<i, y>>] \in Seq(S)
    OBVIOUS
  <2>1. <<i, y>> \in (1 .. N) \X Seq(S) /\ <<i, y>>[1] = i /\ <<i, y>>[2] = y
    OBVIOUS
  <2>2. step[<<i, y>>] = y \o seqs[i]
    BY <2>1
  <2> HIDE DEF step
  <2> QED
    BY <1>1, <2>2, ConcatProperties
<1>3. PICK g \in [0 .. N -> Seq(S)] : g[0] = <<>> /\ \A i \in 1 .. N : g[i] = step[<<i, g[i - 1]>>]
  <2>1. <<>> \in Seq(S)
    OBVIOUS
  <2> HIDE DEF step, N
  <2>2. \A i \in 1 .. N, y \in Seq(S) : step[<<i, y>>] \in Seq(S)
    BY <1>2, Zenon
  <2>3. \E g \in [0 .. N -> Seq(S)] : RecurrenceOf(g, N, step, <<>>)
    BY <1>1, <2>1, <2>2, RecurrenceExists
  <2> QED
    BY <2>3 DEF RecurrenceOf
<1>4. ASSUME NEW i \in 1 .. N PROVE g[i] = g[i - 1] \o seqs[i] /\ g[i - 1] \in Seq(S)
  <2> HIDE DEF step, N
  <2>1. i - 1 \in 0 .. N
    BY <1>1
  <2>2. g[i - 1] \in Seq(S) /\ g[i] = step[<<i, g[i - 1]>>]
    BY <1>3, <2>1
  <2> QED
    BY <1>2, <2>2
<1>5. FlattenSeq(seqs) = g[N]
  <2>1. CASE N = 0
    <3>1. seqs = <<>>
      BY <2>1, EmptySeq
    <3> QED
      BY <1>3, <2>1, <3>1 DEF FlattenSeq
  <2>2. CASE N # 0
    <3> DEFINE Rec(h) == h = [i \in 1 .. N |-> IF i = 1 THEN seqs[i] ELSE h[i - 1] \o seqs[i]]
               h == CHOOSE h : Rec(h)
               k == [i \in 1 .. N |-> g[i]]
    <3>1. FlattenSeq(seqs) = h[N]
      BY <2>2 DEF FlattenSeq
    <3>2. ASSUME NEW i \in 1 .. N PROVE k[i] = IF i = 1 THEN seqs[i] ELSE k[i - 1] \o seqs[i]
      <4>1. CASE i = 1
        <5>0. i - 1 = 0
          BY <4>1
        <5>1. g[i] = g[i - 1] \o seqs[i] /\ seqs[i] \in Seq(S)
          BY <1>1, <1>4
        <5>2. g[i] = <<>> \o seqs[i]
          BY <1>3, <5>0, <5>1
        <5> QED
          BY <4>1, <5>1, <5>2, ConcatEmptySeq
      <4>2. CASE i # 1
        <5> HIDE DEF N
        <5>1. i - 1 \in 1 .. N /\ k[i - 1] = g[i - 1] /\ k[i] = g[i]
          BY <1>1, <4>2
        <5> HIDE DEF k
        <5> QED
          BY <1>4, <4>2, <5>1
      <4> QED
        BY <4>1, <4>2
    <3>3. Rec(k)
      BY <3>2
    <3>4. Rec(h)
      <4> HIDE DEF Rec, k
      <4> QED
        BY <3>3, Zenon
    <3> HIDE DEF h
    <3> DEFINE P == {n \in Nat : n >= 1 /\ n <= N => h[n] = g[n]}
    <3>5. 0 \in P
      OBVIOUS
    <3>6. ASSUME NEW n \in Nat, n \in P PROVE n + 1 \in P
      <4> SUFFICES ASSUME n + 1 <= N PROVE h[n + 1] = g[n + 1]
        OBVIOUS
      <4>1. n + 1 \in 1 .. N /\ (n + 1) - 1 = n
        BY <1>1
      <4>2. h[n + 1] = IF n + 1 = 1 THEN seqs[n + 1] ELSE h[(n + 1) - 1] \o seqs[n + 1]
        BY <3>4, <4>1
      <4>3. k[n + 1] = IF n + 1 = 1 THEN seqs[n + 1] ELSE k[(n + 1) - 1] \o seqs[n + 1]
        BY <3>2, <4>1
      <4>4. n # 0 => h[n] = g[n] /\ k[n] = g[n]
        BY <3>6, <4>1
      <4>5. k[n + 1] = g[n + 1]
        BY <4>1
      <4> QED
        BY <4>1, <4>2, <4>3, <4>4, <4>5
    <3>7. Nat \subseteq P
      <4> HIDE DEF P
      <4> QED
        BY <3>5, <3>6, CountUp
    <3>8. h[N] = g[N]
      <4> HIDE DEF N
      <4> QED
        BY <1>1, <2>2, <3>7
    <3> QED
      BY <3>1, <3>8
  <2> QED
    BY <2>1, <2>2
<1> QED
  BY <1>3, <1>4, <1>5

(* What is behind a type: its lower-case fields, and a check of each part. *)
LEMMA PartsAre ==
  ASSUME NEW t \in Types
  PROVE  /\ PartsOf(t) \in Seq(Tasks)
         /\ LowerCase(t) \in Nat /\ Cardinality(Cries(PartsOf(t))) = LowerCase(t)
         /\ \A i \in DOMAIN Parts[t] : \E j \in DOMAIN PartsOf(t) : PartsOf(t)[j] = Check(Parts[t][i])
<1> DEFINE N == Len(Parts[t])
           seqs == [i \in DOMAIN Parts[t] |->
                        (IF Upper[t][i] THEN <<>> ELSE <<Complain>>) \o <<Check(Parts[t][i])>>]
           Low(n) == {i \in 1 .. n : ~Upper[t][i]}
<1>1. /\ Parts[t] \in Seq(Types) /\ Upper[t] \in Seq(BOOLEAN) /\ N \in Nat
      /\ DOMAIN Parts[t] = 1 .. N /\ DOMAIN Upper[t] = 1 .. N
      /\ \A i \in 1 .. N : Parts[t][i] \in Types
  BY GraphAssumption
<1>2. ASSUME NEW i \in 1 .. N
      PROVE  /\ seqs[i] \in Seq(Tasks)
             /\ Cardinality(Cries(seqs[i])) = IF Upper[t][i] THEN 0 ELSE 1
             /\ \E j \in DOMAIN seqs[i] : seqs[i][j] = Check(Parts[t][i])
  <2> DEFINE x == IF Upper[t][i] THEN <<>> ELSE <<Complain>>
             y == <<Check(Parts[t][i])>>
  <2>1. Complain \in Tasks /\ Check(Parts[t][i]) \in Tasks
    BY <1>1 DEF Tasks
  <2>2. /\ y \in Seq(Tasks) /\ Cardinality(Cries(y)) = 0
        /\ Len(y) = 1 /\ y[1] = Check(Parts[t][i])
    BY <2>1, CriesOne, CheckIsNot
  <2>3. x \in Seq(Tasks) /\ Cardinality(Cries(x)) = IF Upper[t][i] THEN 0 ELSE 1
    <3>1. CASE Upper[t][i]
      BY <3>1, CriesNone
    <3>2. CASE ~Upper[t][i]
      BY <2>1, <3>2, CriesOne
    <3> QED
      BY <3>1, <3>2
  <2>4. seqs[i] = x \o y
    BY <1>1
  <2> HIDE DEF x, y, seqs
  <2>5. x \o y \in Seq(Tasks) /\ Cardinality(Cries(x \o y)) = IF Upper[t][i] THEN 0 ELSE 1
    BY <2>2, <2>3, CriesConcat
  <2>6. Len(x) + 1 \in DOMAIN (x \o y) /\ (x \o y)[Len(x) + 1] = Check(Parts[t][i])
    BY <2>2, <2>3, ConcatProperties
  <2> QED
    BY <2>4, <2>5, <2>6
<1>3. seqs \in Seq(Seq(Tasks)) /\ Len(seqs) = N
  <2>1. seqs = [i \in 1 .. N |-> seqs[i]]
    BY <1>1
  <2> HIDE DEF seqs, N
  <2>2. \A i \in 1 .. N : seqs[i] \in Seq(Tasks)
    BY <1>2
  <2> QED
    BY <1>1, <2>1, <2>2, IsASeq
<1>4. PartsOf(t) = FlattenSeq(seqs)
  BY DEF PartsOf
<1> HIDE DEF seqs, N
<1>5. PICK g \in [0 .. N -> Seq(Tasks)] :
            /\ g[0] = <<>> /\ \A i \in 1 .. N : g[i] = g[i - 1] \o seqs[i]
            /\ FlattenSeq(seqs) = g[N]
  BY <1>3, FlattenIs
<1> DEFINE Fine(n) == /\ IsFiniteSet(Low(n)) /\ Cardinality(Cries(g[n])) = Cardinality(Low(n))
                      /\ \A i \in 1 .. n : \E j \in DOMAIN g[n] : g[n][j] = Check(Parts[t][i])
           P == {n \in Nat : n <= N => Fine(n)}
<1>6. 0 \in P
  <2>1. Low(0) = {}
    OBVIOUS
  <2>2. IsFiniteSet(Low(0)) /\ Cardinality(Cries(g[0])) = Cardinality(Low(0))
    BY <1>5, <2>1, CriesNone, FS_EmptySet
  <2> QED
    BY <2>2
<1>7. ASSUME NEW n \in Nat, n \in P PROVE n + 1 \in P
  <2> SUFFICES ASSUME n + 1 <= N PROVE Fine(n + 1)
    OBVIOUS
  <2>1. Fine(n)
    BY <1>1, <1>7
  <2>2. /\ n + 1 \in 1 .. N /\ (n + 1) - 1 = n /\ g[n + 1] = g[n] \o seqs[n + 1]
        /\ g[n] \in Seq(Tasks) /\ seqs[n + 1] \in Seq(Tasks)
    <3>1. n + 1 \in 1 .. N /\ (n + 1) - 1 = n /\ n \in 0 .. N
      BY <1>1
    <3>2. seqs[n + 1] \in Seq(Tasks)
      BY <1>2, <3>1
    <3> QED
      BY <1>5, <3>1, <3>2
  <2>3. Low(n + 1) = (IF Upper[t][n + 1] THEN Low(n) ELSE Low(n) \cup {n + 1}) /\ n + 1 \notin Low(n)
    OBVIOUS
  <2>4. /\ IsFiniteSet(Low(n + 1))
        /\ Cardinality(Low(n + 1)) = Cardinality(Low(n)) + IF Upper[t][n + 1] THEN 0 ELSE 1
    <3>1. Cardinality(Low(n)) \in Nat
      BY <2>1, FS_CardinalityType
    <3> HIDE DEF Low
    <3>2. CASE Upper[t][n + 1]
      BY <2>1, <2>3, <3>1, <3>2
    <3>3. CASE ~Upper[t][n + 1]
      BY <2>1, <2>3, <3>1, <3>3, FS_AddElement
    <3> QED
      BY <3>2, <3>3
  <2>5. Cardinality(Cries(g[n + 1])) = Cardinality(Low(n + 1))
    <3>1. Cardinality(Cries(g[n + 1])) = Cardinality(Cries(g[n])) + Cardinality(Cries(seqs[n + 1]))
      BY <2>2, CriesConcat
    <3> QED
      BY <1>2, <2>1, <2>2, <2>4, <3>1
  <2> DEFINE a == g[n]
             b == seqs[n + 1]
  <2>6. ASSUME NEW i \in 1 .. n + 1 PROVE \E j \in DOMAIN g[n + 1] : g[n + 1][j] = Check(Parts[t][i])
    <3> HIDE DEF a, b
    <3>1. /\ Len(a) \in Nat /\ Len(b) \in Nat /\ DOMAIN a = 1 .. Len(a) /\ DOMAIN b = 1 .. Len(b)
          /\ DOMAIN g[n + 1] = 1 .. Len(a) + Len(b)
          /\ \A j \in 1 .. Len(a) + Len(b) : g[n + 1][j] = IF j <= Len(a) THEN a[j] ELSE b[j - Len(a)]
      <4>1. a \in Seq(Tasks) /\ b \in Seq(Tasks) /\ g[n + 1] = a \o b
        BY <2>2 DEF a, b
      <4>2. /\ a \o b \in Seq(Tasks) /\ Len(a \o b) = Len(a) + Len(b)
            /\ \A j \in 1 .. Len(a) + Len(b) : (a \o b)[j] = IF j <= Len(a) THEN a[j] ELSE b[j - Len(a)]
        BY <4>1, ConcatProperties
      <4> QED
        BY <4>1, <4>2, LenProperties
    <3>2. CASE i # n + 1
      <4>1. PICK j \in DOMAIN a : a[j] = Check(Parts[t][i])
        BY <2>1, <3>2 DEF a
      <4> QED
        BY <3>1, <4>1
    <3>3. CASE i = n + 1
      <4>1. PICK j \in DOMAIN b : b[j] = Check(Parts[t][i])
        BY <1>2, <2>2, <3>3 DEF b
      <4>2. /\ j + Len(a) \in 1 .. Len(a) + Len(b) /\ ~(j + Len(a) <= Len(a))
            /\ (j + Len(a)) - Len(a) = j
        BY <3>1
      <4>3. j + Len(a) \in DOMAIN g[n + 1] /\ g[n + 1][j + Len(a)] = b[j]
        BY <3>1, <4>2
      <4> QED
        BY <4>1, <4>3
    <3> QED
      BY <3>2, <3>3
  <2> QED
    BY <2>4, <2>5, <2>6
<1>8. Fine(N)
  <2>1. Nat \subseteq P
    <3> HIDE DEF P
    <3> QED
      BY <1>6, <1>7, CountUp
  <2> HIDE DEF Fine
  <2> QED
    BY <1>1, <2>1
<1>9. LowerCase(t) = Cardinality(Low(N))
  BY <1>1 DEF LowerCase
<1>10. Cardinality(Low(N)) \in Nat /\ g[N] \in Seq(Tasks)
  BY <1>1, <1>5, <1>8, FS_CardinalityType
<1> QED
  BY <1>1, <1>4, <1>5, <1>8, <1>9, <1>10

-----------------------------------------------------------------------------
(* Values                                                                  *)

\* The parts whose leaves count, and the paths into them, those of a part being in d.
Usable(lower, u) == {j \in DOMAIN Parts[u] : lower \/ Upper[u][j]}
Through(lower, u, d) == UNION {{<<i>> \o p : p \in d[Parts[u][i]]} : i \in Usable(lower, u)}

\* The step i, and then on along p.
Along(i, p) == <<i>> \o p

(* A path into a part. *)
LEMMA ThroughIs ==
  \A lower, u, d, x : x \in Through(lower, u, d) <=>
                        \E i \in Usable(lower, u) : \E p \in d[Parts[u][i]] : x = Along(i, p)
<1> SUFFICES ASSUME NEW lower, NEW u, NEW d, NEW x
             PROVE  x \in Through(lower, u, d) <=>
                       \E i \in Usable(lower, u) : \E p \in d[Parts[u][i]] : x = Along(i, p)
  OBVIOUS
<1> DEFINE F(i) == {<<i>> \o p : p \in d[Parts[u][i]]}
<1>1. Through(lower, u, d) = UNION {F(i) : i \in Usable(lower, u)}
  BY DEF Through
<1>2. \A i : x \in F(i) <=> \E p \in d[Parts[u][i]] : x = Along(i, p)
  BY DEF Along
<1> HIDE DEF F
<1>3. x \in UNION {F(i) : i \in Usable(lower, u)} <=> \E i \in Usable(lower, u) : x \in F(i)
  OBVIOUS
<1> QED
  BY <1>1, <1>2, <1>3

\* The leaves of a type, if d has those of its parts.
Beyond(lower, u, d) ==
    IF Kind[u] \notin {"struct", "ptr"} THEN {<<>>} ELSE Through(lower, u, d)

\* to[n][u] are the leaves of type u that are at most n steps away.
LeavesTo(lower, to) ==
    /\ \A t : Leaves(lower, t) = to[MaxPath][t]
    /\ \A u \in Types :
        /\ to[0][u] = IF Kind[u] \notin {"struct", "ptr"} THEN {<<>>} ELSE {}
        /\ \A n \in 1 .. MaxPath : to[n][u] = Beyond(lower, u, to[n - 1])

(* The leaves of a type are those of its parts. *)
LEMMA LeavesAre ==
  ASSUME NEW lower \in BOOLEAN
  PROVE  \E to : LeavesTo(lower, to)
<1> DEFINE Flat(u) == Kind[u] \notin {"struct", "ptr"}
           A == [Types -> SUBSET Seq(Nat)]
           base == [u \in Types |-> IF Flat(u) THEN {<<>>} ELSE {}]
           step == [z \in (1 .. MaxPath) \X A |-> [u \in Types |-> Beyond(lower, u, z[2])]]
           Rec(g) == g = [n \in 0 .. MaxPath |-> [u \in Types |->
                IF Flat(u) THEN {<<>>}
                ELSE IF n = 0 THEN {}
                ELSE UNION {{<<i>> \o p : p \in g[n - 1][Parts[u][i]]} :
                            i \in {j \in DOMAIN Parts[u] : lower \/ Upper[u][j]}}]]
           to == CHOOSE g : Rec(g)
<1>1. \A t : Leaves(lower, t) = to[MaxPath][t]
  BY DEF Leaves
<1>2. MaxPath \in Nat
  BY GraphAssumption
<1>3. base \in A
  <2>1. \A u \in Types : (IF Flat(u) THEN {<<>>} ELSE {}) \in SUBSET Seq(Nat)
    OBVIOUS
  <2> HIDE DEF Flat
  <2> QED
    BY <2>1
<1>4. ASSUME NEW d \in A, NEW u \in Types PROVE Beyond(lower, u, d) \in SUBSET Seq(Nat)
  <2>1. ASSUME NEW i \in DOMAIN Parts[u], NEW p \in d[Parts[u][i]] PROVE Along(i, p) \in Seq(Nat)
    <3>1. i \in Nat /\ Parts[u][i] \in Types
      BY GraphAssumption
    <3>2. p \in Seq(Nat) /\ <<i>> \in Seq(Nat)
      BY <3>1
    <3> QED
      BY <3>2, ConcatProperties DEF Along
  <2>2. Through(lower, u, d) \in SUBSET Seq(Nat)
    <3>1. ASSUME NEW x \in Through(lower, u, d) PROVE x \in Seq(Nat)
      <4>1. \E i \in Usable(lower, u) : \E p \in d[Parts[u][i]] : x = Along(i, p)
        BY <3>1, ThroughIs
      <4>2. Usable(lower, u) \subseteq DOMAIN Parts[u]
        BY DEF Usable
      <4> QED
        BY <2>1, <4>1, <4>2
    <3> QED
      BY <3>1
  <2>3. {<<>>} \in SUBSET Seq(Nat)
    OBVIOUS
  <2> QED
    BY <2>2, <2>3 DEF Beyond
<1>5. \A i \in 1 .. MaxPath, d \in A :
          step[<<i, d>>] = [u \in Types |-> Beyond(lower, u, d)] /\ step[<<i, d>>] \in A
  <2> SUFFICES ASSUME NEW i \in 1 .. MaxPath, NEW d \in A
               PROVE  step[<<i, d>>] = [u \in Types |-> Beyond(lower, u, d)] /\ step[<<i, d>>] \in A
    OBVIOUS
  <2>1. <<i, d>> \in (1 .. MaxPath) \X A /\ <<i, d>>[2] = d
    OBVIOUS
  <2> HIDE DEF A
  <2>2. step[<<i, d>>] = [u \in Types |-> Beyond(lower, u, d)]
    BY <2>1
  <2> HIDE DEF step
  <2>3. [u \in Types |-> Beyond(lower, u, d)] \in A
    BY <1>4 DEF A
  <2> QED
    BY <2>2, <2>3
<1>6. PICK g \in [0 .. MaxPath -> A] : RecurrenceOf(g, MaxPath, step, base)
  <2> HIDE DEF A, step, base
  <2>1. \A i \in 1 .. MaxPath, d \in A : step[<<i, d>>] \in A
    BY <1>5, Zenon
  <2> QED
    BY <1>2, <1>3, <2>1, RecurrenceExists
<1>7. Rec(g)
  <2> DEFINE val(n, u) ==
                IF Flat(u) THEN {<<>>}
                ELSE IF n = 0 THEN {}
                ELSE UNION {{<<i>> \o p : p \in g[n - 1][Parts[u][i]]} :
                            i \in {j \in DOMAIN Parts[u] : lower \/ Upper[u][j]}}
  <2>1. ASSUME NEW n \in 0 .. MaxPath PROVE g[n] = [u \in Types |-> val(n, u)]
    <3>1. CASE n = 0
      <4>1. g[0] = base
        BY <1>6 DEF RecurrenceOf
      <4>2. \A u \in Types : val(0, u) = IF Flat(u) THEN {<<>>} ELSE {}
        OBVIOUS
      <4> HIDE DEF val, Flat
      <4> QED
        BY <3>1, <4>1, <4>2
    <3>2. CASE n # 0
      <4>1. n \in 1 .. MaxPath /\ n - 1 \in 0 .. MaxPath
        BY <1>2, <3>2
      <4>2. g[n] = step[<<n, g[n - 1]>>] /\ g[n - 1] \in A
        <5> HIDE DEF A, step, base
        <5> QED
          BY <1>6, <4>1 DEF RecurrenceOf
      <4>3. g[n] = [u \in Types |-> Beyond(lower, u, g[n - 1])]
        <5> HIDE DEF A, step
        <5> QED
          BY <1>5, <4>1, <4>2
      <4>4. \A u \in Types : Beyond(lower, u, g[n - 1]) = val(n, u)
        BY <3>2, Zenon DEF Beyond, Through, Usable
      <4> HIDE DEF val
      <4> QED
        BY <4>3, <4>4
    <3> QED
      BY <3>1, <3>2
  <2>2. g = [n \in 0 .. MaxPath |-> g[n]]
    OBVIOUS
  <2>3. g = [n \in 0 .. MaxPath |-> [u \in Types |-> val(n, u)]]
    <3> HIDE DEF val
    <3> QED
      BY <2>1, <2>2
  <2> QED
    BY <2>3
<1>8. Rec(to)
  <2> HIDE DEF Rec
  <2> QED
    BY <1>7, Zenon
<1> HIDE DEF to
<1>9. ASSUME NEW u \in Types PROVE to[0][u] = IF Flat(u) THEN {<<>>} ELSE {}
  <2>1. 0 \in 0 .. MaxPath
    BY <1>2
  <2> QED
    BY <1>8, <2>1
<1>10. ASSUME NEW u \in Types, NEW n \in 1 .. MaxPath PROVE to[n][u] = Beyond(lower, u, to[n - 1])
  <2>1. n \in 0 .. MaxPath /\ n # 0
    BY <1>2
  <2> DEFINE val(m, v) ==
                IF Flat(v) THEN {<<>>}
                ELSE IF m = 0 THEN {}
                ELSE UNION {{<<i>> \o p : p \in to[m - 1][Parts[v][i]]} :
                            i \in {j \in DOMAIN Parts[v] : lower \/ Upper[v][j]}}
  <2>2. to = [m \in 0 .. MaxPath |-> [v \in Types |-> val(m, v)]]
    BY <1>8
  <2>3. to[n][u] = val(n, u)
    <3> HIDE DEF val
    <3> QED
      BY <2>1, <2>2
  <2> QED
    BY <2>1, <2>3, Zenon DEF Beyond, Through, Usable
<1>11. LeavesTo(lower, to)
  BY <1>1, <1>9, <1>10 DEF LeavesTo
<1> QED
  BY <1>11

(* A value has finitely many leaves. *)
LEMMA LeavesFinite ==
  ASSUME NEW lower \in BOOLEAN, NEW t \in Types
  PROVE  IsFiniteSet(Leaves(lower, t))
<1>1. PICK to : LeavesTo(lower, to)
  BY LeavesAre
<1>2. MaxPath \in Nat
  BY GraphAssumption
<1> DEFINE P == {n \in Nat : n <= MaxPath => \A u \in Types : IsFiniteSet(to[n][u])}
<1>3. 0 \in P
  <2>1. ASSUME NEW u \in Types PROVE IsFiniteSet(to[0][u])
    <3>1. to[0][u] = {<<>>} \/ to[0][u] = {}
      BY <1>1, Zenon DEF LeavesTo
    <3>2. IsFiniteSet({}) /\ IsFiniteSet({<<>>})
      BY FS_EmptySet, FS_Singleton
    <3> QED
      BY <3>1, <3>2, Zenon
  <2> QED
    BY <2>1
<1>4. ASSUME NEW n \in Nat, n \in P PROVE n + 1 \in P
  <2> SUFFICES ASSUME n + 1 <= MaxPath, NEW u \in Types PROVE IsFiniteSet(to[n + 1][u])
    OBVIOUS
  <2>1. n + 1 \in 1 .. MaxPath /\ (n + 1) - 1 = n
    BY <1>2
  <2>2. to[n + 1][u] = Beyond(lower, u, to[n])
    BY <1>1, <2>1 DEF LeavesTo
  <2>3. \A v \in Types : IsFiniteSet(to[n][v])
    BY <1>2, <1>4
  <2> DEFINE I == {j \in DOMAIN Parts[u] : lower \/ Upper[u][j]}
             f == [i \in I |-> {<<i>> \o p : p \in to[n][Parts[u][i]]}]
  <2>4. ASSUME NEW i \in I PROVE IsFiniteSet(f[i])
    <3> DEFINE S == to[n][Parts[u][i]]
               g == [p \in S |-> <<i>> \o p]
    <3>1. Parts[u][i] \in Types
      BY GraphAssumption
    <3>2. IsFiniteSet(S)
      BY <2>3, <3>1
    <3>3. f[i] = {g[p] : p \in S}
      OBVIOUS
    <3> HIDE DEF f, g, S
    <3> QED
      BY <3>2, <3>3, ImageFinite
  <2>5. IsFiniteSet(I)
    <3>1. I \subseteq 1 .. Len(Parts[u]) /\ Len(Parts[u]) \in Nat
      BY GraphAssumption
    <3>2. IsFiniteSet(1 .. Len(Parts[u]))
      BY <3>1, FS_Interval
    <3> QED
      BY <3>1, <3>2, FS_Subset
  <2>6. Through(lower, u, to[n]) = UNION {f[i] : i \in I}
    <3>1. \A x : \A i \in I : x \in f[i] <=> \E p \in to[n][Parts[u][i]] : x = Along(i, p)
      BY DEF Along
    <3> HIDE DEF f
    <3>2. \A x : x \in Through(lower, u, to[n]) <=> \E i \in I : x \in f[i]
      <4>1. I = Usable(lower, u)
        BY DEF Usable
      <4> HIDE DEF I
      <4> QED
        BY <3>1, <4>1, ThroughIs
    <3>3. \A x : x \in UNION {f[i] : i \in I} <=> \E i \in I : x \in f[i]
      OBVIOUS
    <3> QED
      BY <3>2, <3>3
  <2>7. IsFiniteSet(UNION {f[i] : i \in I})
    <3> HIDE DEF f, I
    <3>1. IsFiniteSet({f[i] : i \in I})
      BY <2>5, ImageFinite
    <3>2. \A T \in {f[i] : i \in I} : IsFiniteSet(T)
      BY <2>4
    <3> HIDE DEF f, I
    <3> QED
      BY <3>1, <3>2, FS_UNION
  <2>8. IsFiniteSet({<<>>})
    BY FS_Singleton
  <2> QED
    BY <2>2, <2>6, <2>7, <2>8 DEF Beyond
<1>5. Nat \subseteq P
  <2> HIDE DEF P
  <2> QED
    BY <1>3, <1>4, CountUp
<1>6. IsFiniteSet(to[MaxPath][t])
  BY <1>2, <1>5
<1> QED
  BY <1>1, <1>6 DEF LeavesTo

\* g has the types that the path p from u comes to, and they are all in C.
Walk(C, u, p, g) ==
    /\ g \in [0 .. Len(p) -> C] /\ g[0] = u
    /\ \A k \in 1 .. Len(p) : p[k] \in DOMAIN Parts[g[k - 1]] /\ g[k] = Parts[g[k - 1]][p[k]]

(* One step ahead of a walk is a walk. *)
LEMMA WalkStep ==
  ASSUME NEW C, NEW u \in C, NEW i \in DOMAIN Parts[u], i \in Nat, NEW q \in Seq(Nat), NEW g,
         Walk(C, Parts[u][i], q, g)
  PROVE  Along(i, q) \in Seq(Nat) /\ \E h : Walk(C, u, Along(i, q), h)
<1> DEFINE p == Along(i, q)
           h == [k \in 0 .. Len(p) |-> IF k = 0 THEN u ELSE g[k - 1]]
<1>1. /\ p \in Seq(Nat) /\ Len(q) \in Nat /\ Len(p) = Len(q) + 1 /\ p[1] = i
      /\ \A k \in 2 .. Len(q) + 1 : p[k] = q[k - 1]
  <2>1. <<i>> \in Seq(Nat) /\ Len(<<i>>) = 1 /\ <<i>>[1] = i /\ Len(q) \in Nat
    OBVIOUS
  <2> QED
    BY <2>1, ConcatProperties DEF Along
<1> HIDE DEF p
<1>2. \A k \in 0 .. Len(q) + 1 : h[k] = IF k = 0 THEN u ELSE g[k - 1]
  BY <1>1
<1>3. h \in [0 .. Len(p) -> C]
  <2>1. ASSUME NEW k \in 0 .. Len(p), k # 0 PROVE g[k - 1] \in C
    <3>1. k - 1 \in 0 .. Len(q)
      BY <1>1, <2>1
    <3> QED
      BY <3>1 DEF Walk
  <2> QED
    BY <2>1
<1> HIDE DEF h
<1>4. ASSUME NEW k \in 1 .. Len(p) PROVE p[k] \in DOMAIN Parts[h[k - 1]] /\ h[k] = Parts[h[k - 1]][p[k]]
  <2>1. CASE k = 1
    <3>1. 0 \in 0 .. Len(q) + 1 /\ 1 \in 0 .. Len(q) + 1 /\ 1 - 1 = 0 /\ 1 # 0
      BY <1>1
    <3>2. h[1] = g[0] /\ h[0] = u /\ k - 1 = 0
      BY <1>2, <2>1, <3>1
    <3> QED
      BY <1>1, <2>1, <3>2 DEF Walk
  <2>2. CASE k # 1
    <3>1. k \in 2 .. Len(q) + 1 /\ k - 1 \in 1 .. Len(q) /\ k - 1 \in 0 .. Len(q) + 1 /\ k \in 0 .. Len(q) + 1
      BY <1>1, <2>2
    <3>2. h[k] = g[k - 1] /\ h[k - 1] = g[(k - 1) - 1] /\ p[k] = q[k - 1]
      BY <1>1, <1>2, <3>1
    <3> QED
      BY <3>1, <3>2 DEF Walk
  <2> QED
    BY <2>1, <2>2
<1>5. Walk(C, u, p, h)
  BY <1>1, <1>2, <1>3, <1>4 DEF Walk
<1>6. \E f : Walk(C, u, p, f)
  BY <1>5, Zenon
<1> QED
  BY <1>1, <1>6 DEF p

(* The way to a leaf stays among types that have their parts among them. *)
LEMMA LeavesWalk ==
  ASSUME NEW C \in SUBSET Types, \A u \in C : \A i \in DOMAIN Parts[u] : Parts[u][i] \in C
  PROVE  \A u \in C : \A p \in Leaves(TRUE, u) : p \in Seq(Nat) /\ \E g : Walk(C, u, p, g)
<1>1. PICK a : LeavesTo(TRUE, a)
  BY LeavesAre
<1>2. MaxPath \in Nat
  BY GraphAssumption
<1> DEFINE Good(u, p) == p \in Seq(Nat) /\ \E g : Walk(C, u, p, g)
           P == {n \in Nat : n <= MaxPath => \A u \in C : \A p \in a[n][u] : Good(u, p)}
<1>3. ASSUME NEW u \in C PROVE Good(u, <<>>)
  <2> DEFINE g == [k \in 0 .. 0 |-> u]
  <2>1. Walk(C, u, <<>>, g)
    BY DEF Walk
  <2> HIDE DEF g
  <2>2. \E h : Walk(C, u, <<>>, h)
    BY <2>1, Zenon
  <2> QED
    BY <2>2
<1> HIDE DEF Good
<1>4. 0 \in P
  <2>1. ASSUME NEW u \in C PROVE a[0][u] \subseteq {<<>>}
    <3>1. a[0][u] = IF Kind[u] \notin {"struct", "ptr"} THEN {<<>>} ELSE {}
      BY <1>1 DEF LeavesTo
    <3> QED
      BY <3>1
  <2> QED
    BY <1>3, <2>1
<1>5. ASSUME NEW n \in Nat, n \in P PROVE n + 1 \in P
  <2> SUFFICES ASSUME n + 1 <= MaxPath, NEW u \in C, NEW p \in a[n + 1][u] PROVE Good(u, p)
    OBVIOUS
  <2>1. n + 1 \in 1 .. MaxPath /\ (n + 1) - 1 = n /\ u \in Types
    BY <1>2
  <2>2. a[n + 1][u] = Beyond(TRUE, u, a[n])
    BY <1>1, <2>1 DEF LeavesTo
  <2>3. CASE p \in {<<>>}
    BY <1>3, <2>3
  <2>4. CASE p \in Through(TRUE, u, a[n])
    <3>1. PICK i \in Usable(TRUE, u) : \E q \in a[n][Parts[u][i]] : p = Along(i, q)
      <4> DEFINE yes == TRUE
      <4> HIDE DEF yes
      <4>1. p \in Through(yes, u, a[n])
        BY <2>4 DEF yes
      <4>2. \E i \in Usable(yes, u) : \E q \in a[n][Parts[u][i]] : p = Along(i, q)
        BY <4>1, ThroughIs
      <4> QED
        BY <4>2 DEF yes
    <3>2. PICK q \in a[n][Parts[u][i]] : p = Along(i, q)
      BY <3>1
    <3>3. i \in DOMAIN Parts[u] /\ i \in Nat /\ Parts[u][i] \in C
      BY <2>1, GraphAssumption DEF Usable
    <3>4. Good(Parts[u][i], q)
      BY <1>2, <1>5, <3>2, <3>3
    <3>5. PICK g : Walk(C, Parts[u][i], q, g)
      BY <3>4 DEF Good
    <3>6. q \in Seq(Nat)
      BY <3>4 DEF Good
    <3>7. Along(i, q) \in Seq(Nat) /\ \E h : Walk(C, u, Along(i, q), h)
      BY <3>3, <3>5, <3>6, WalkStep
    <3> QED
      BY <3>2, <3>7 DEF Good
  <2> QED
    BY <2>2, <2>3, <2>4 DEF Beyond
<1>6. Nat \subseteq P
  <2> HIDE DEF P
  <2> QED
    BY <1>4, <1>5, CountUp
<1>7. \A u \in C : \A p \in a[MaxPath][u] : Good(u, p)
  BY <1>2, <1>6
<1>8. \A u : Leaves(TRUE, u) = a[MaxPath][u]
  BY <1>1, Zenon DEF LeavesTo
<1> QED
  BY <1>7, <1>8 DEF Good

(* TypesOn has the types of a walk. *)
LEMMA TypesOnWalk ==
  ASSUME NEW C, NEW u, NEW p \in Seq(Nat), NEW g, Walk(C, u, p, g)
  PROVE  \A k \in 0 .. Len(p) : TypesOn(u, p)[k] = g[k]
<1> DEFINE Rec(f) == f = [k \in 0 .. Len(p) |-> IF k = 0 THEN u ELSE Parts[f[k - 1]][p[k]]]
           f == CHOOSE h : Rec(h)
<1>1. Len(p) \in Nat
  OBVIOUS
<1>2. Rec(g)
  <2>1. g = [k \in 0 .. Len(p) |-> g[k]]
    BY DEF Walk
  <2>2. \A k \in 0 .. Len(p) : g[k] = IF k = 0 THEN u ELSE Parts[g[k - 1]][p[k]]
    BY <1>1 DEF Walk
  <2> QED
    BY <2>1, <2>2
<1>3. Rec(f)
  <2> HIDE DEF Rec
  <2> QED
    BY <1>2, Zenon
<1>4. TypesOn(u, p) = f
  BY DEF TypesOn
<1> HIDE DEF f
<1>5. \A k \in 0 .. Len(p) : f[k] = IF k = 0 THEN u ELSE Parts[f[k - 1]][p[k]]
  BY <1>3
<1> DEFINE P == {k \in Nat : k <= Len(p) => f[k] = g[k]}
<1>6. 0 \in P
  BY <1>1, <1>5 DEF Walk
<1>7. ASSUME NEW n \in Nat, n \in P PROVE n + 1 \in P
  <2> SUFFICES ASSUME n + 1 <= Len(p) PROVE f[n + 1] = g[n + 1]
    OBVIOUS
  <2>1. n + 1 \in 1 .. Len(p) /\ n + 1 \in 0 .. Len(p) /\ (n + 1) - 1 = n /\ n + 1 # 0
    BY <1>1
  <2>2. f[n] = g[n]
    BY <1>1, <1>7
  <2>3. f[n + 1] = Parts[f[n]][p[n + 1]]
    BY <1>5, <2>1
  <2>4. g[n + 1] = Parts[g[n]][p[n + 1]]
    BY <2>1 DEF Walk
  <2> QED
    BY <2>2, <2>3, <2>4
<1>8. Nat \subseteq P
  <2> HIDE DEF P
  <2> QED
    BY <1>6, <1>7, CountUp
<1> QED
  BY <1>1, <1>4, <1>8

\* The lower-case fields of a type, and of the types of C.
LowerAt(t) == {i \in DOMAIN Upper[t] : ~Upper[t][i]}
LowerPairs == [t \in Types |-> {<<t, i>> : i \in LowerAt(t)}]
LowerSet(C) == UNION {LowerPairs[t] : t \in C}

(* The lower-case fields on the way to a leaf are fields of those types. *)
LEMMA LowerFieldsIn ==
  ASSUME NEW C \in SUBSET Types, \A u \in C : \A i \in DOMAIN Parts[u] : Parts[u][i] \in C
  PROVE  \A u \in C : \A p \in Leaves(TRUE, u) : LowerFields(u, p) \subseteq LowerSet(C)
<1> SUFFICES ASSUME NEW u \in C, NEW p \in Leaves(TRUE, u), NEW x \in LowerFields(u, p)
             PROVE  x \in LowerSet(C)
  OBVIOUS
<1>1. p \in Seq(Nat) /\ \E g : Walk(C, u, p, g)
  BY LeavesWalk
<1>2. PICK g : Walk(C, u, p, g)
  BY <1>1
<1> DEFINE f == TypesOn(u, p)
<1>3. PICK k \in 1 .. Len(p) : ~Upper[f[k - 1]][p[k]] /\ x = <<f[k - 1], p[k]>>
  BY DEF LowerFields
<1> HIDE DEF f
<1>4. k - 1 \in 0 .. Len(p)
  BY <1>1, <1>3
<1>5. f[k - 1] = g[k - 1]
  BY <1>1, <1>2, <1>4, TypesOnWalk DEF f
<1>6. g[k - 1] \in C /\ p[k] \in DOMAIN Parts[g[k - 1]]
  BY <1>2, <1>3, <1>4 DEF Walk
<1>7. DOMAIN Parts[g[k - 1]] = DOMAIN Upper[g[k - 1]]
  BY <1>6, GraphAssumption
<1>8. x \in LowerPairs[g[k - 1]]
  BY <1>3, <1>5, <1>6, <1>7 DEF LowerPairs, LowerAt
<1> QED
  BY <1>6, <1>8 DEF LowerSet

(* They are as many as LowerCase says. *)
LEMMA LowerSetCount ==
  ASSUME NEW C \in SUBSET Types
  PROVE  IsFiniteSet(LowerSet(C)) /\ Cardinality(LowerSet(C)) <= SumOver([t \in Types |-> LowerCase(t)], C)
<1> DEFINE w == [t \in Types |-> LowerCase(t)]
           G == LowerPairs
<1>1. IsFiniteSet(C)
  BY GraphAssumption, FS_Subset
<1>2. ASSUME NEW t \in C PROVE w[t] \in Nat /\ IsFiniteSet(G[t]) /\ Cardinality(G[t]) <= w[t]
  <2>1. w[t] = Cardinality(LowerAt(t)) /\ G[t] = {<<t, i>> : i \in LowerAt(t)}
    BY DEF LowerPairs, LowerCase, LowerAt
  <2>2. IsFiniteSet(LowerAt(t))
    <3>1. Len(Upper[t]) \in Nat /\ DOMAIN Upper[t] = 1 .. Len(Upper[t])
      BY GraphAssumption
    <3>2. IsFiniteSet(1 .. Len(Upper[t])) /\ LowerAt(t) \subseteq 1 .. Len(Upper[t])
      BY <3>1, FS_Interval DEF LowerAt
    <3> QED
      BY <3>2, FS_Subset
  <2>3. Cardinality(LowerAt(t)) \in Nat
    BY <2>2, FS_CardinalityType
  <2> QED
    BY <2>1, <2>2, <2>3, PairsCount
<1> HIDE DEF w, G
<1>3. IsFiniteSet(UNION {G[t] : t \in C}) /\ Cardinality(UNION {G[t] : t \in C}) <= SumOver(w, C)
  BY <1>1, <1>2, CoverCount
<1> QED
  BY <1>3 DEF w, G, LowerSet

-----------------------------------------------------------------------------
(* Checking types, complaining                                             *)

\* Threads have nothing to check between the stages of a call.
QuietInv ==
    \A c \in Calls :
        /\ stage[c] \in {"start", "sent", "done"} => ~Busy(Client(c))
        /\ hstage[c] = "none" => ~Busy(Handler(c))

\* A type is checked, or a thread is going to.
Seen(t) == t \in checked \/ \E th \in CallThreads : \E i \in DOMAIN work[th] : work[th][i] = Check(t)

SeenInv ==
    /\ \A t \in checked : \A i \in DOMAIN Parts[t] : Seen(Parts[t][i])
    /\ \A c \in Calls :
        /\ stage[c] # "start" => Seen(ArgsType)
        /\ stage[c] \in {"decoding", "done"} => Seen(ReplyType)

Decoded == {c \in Calls : stage[c] \in {"decoding", "done"}}
PendingOf == [th \in CallThreads |-> Cardinality(Cries(work[th]))]
LowerOf == [t \in Types |-> LowerCase(t)]
StaleOf == [c \in Calls |-> Cardinality(NonDefault(ReplyType, old[c]))]

\* Every complaint has been made or is going to be, once.
CriesInv ==
    errorCount + SumOver(PendingOf, CallThreads) = SumOver(LowerOf, checked) + SumOver(StaleOf, Decoded)

\* What arguments and replies are made of.
ValueInv ==
    /\ DOMAIN argsWire = Calls /\ DOMAIN replyWire = Calls /\ DOMAIN got = Calls /\ DOMAIN wrote = Calls
    /\ \A c \in Calls :
        /\ args[c] \in ArgValues /\ old[c] \in OldReplies
        /\ cpc[c] # "idle" => argsWire[c] = GobEncode(ArgsType, args[c])
        /\ ran[c] > 0 => got[c] = argsWire[c] /\ wrote[c] \in ReplyValues
        /\ hpc[c] = "returned" => replyWire[c] = GobEncode(ReplyType, wrote[c])

ThreadsAre == /\ IsFiniteSet(CallThreads)
              /\ \A c \in Calls : Client(c) \in CallThreads /\ Handler(c) \in CallThreads
              /\ Main \in CallThreads
              /\ \A c, d \in Calls : /\ Client(c) # Handler(d) /\ Main # Client(c) /\ Main # Handler(c)
                                     /\ (Client(c) = Client(d) => c = d)
                                     /\ (Handler(c) = Handler(d) => c = d)

(* The goroutines are finitely many, and different ones. *)
LEMMA Goroutines == ThreadsAre
<1> DEFINE f == [c \in Calls |-> Client(c)]
           g == [c \in Calls |-> Handler(c)]
           A == {f[c] : c \in Calls}
           B == {g[c] : c \in Calls}
<1>1. CallThreads = (A \cup B) \cup {Main}
  BY DEF CallThreads
<1>2. IsFiniteSet(A) /\ IsFiniteSet(B)
  <2> HIDE DEF f, g
  <2> QED
    BY CallAssumption, ImageFinite
<1>3. IsFiniteSet(CallThreads)
  <2> HIDE DEF A, B
  <2>1. IsFiniteSet(A \cup B)
    BY <1>2, FS_Union
  <2> QED
    BY <1>1, <2>1, FS_AddElement
<1>4. \A c \in Calls : Client(c) \in CallThreads /\ Handler(c) \in CallThreads
  BY DEF CallThreads
<1>5. Main \in CallThreads
  BY DEF CallThreads
<1>6. ASSUME NEW c \in Calls, NEW d \in Calls
      PROVE  /\ Client(c) # Handler(d) /\ Main # Client(c) /\ Main # Handler(c)
             /\ (Client(c) = Client(d) => c = d) /\ (Handler(c) = Handler(d) => c = d)
  BY DEF Client, Handler, Main
<1> QED
  BY <1>3, <1>4, <1>5, <1>6 DEF ThreadsAre

(* There are finitely many values to complain about. *)
LEMMA StaleIsNat ==
  ASSUME NEW v \in OldReplies
  PROVE  IsFiniteSet(NonDefault(ReplyType, v)) /\ Cardinality(NonDefault(ReplyType, v)) \in Nat
<1>1. v \subseteq Leaves(TRUE, ReplyType) /\ ReplyType \in Types
  BY CallAssumption
<1>2. IsFiniteSet(Leaves(TRUE, ReplyType))
  BY <1>1, LeavesFinite
<1>3. NonDefault(ReplyType, v) \subseteq Leaves(TRUE, ReplyType)
  BY <1>1 DEF NonDefault
<1> QED
  BY <1>2, <1>3, FS_Subset, FS_CardinalityType

(* What replacing the work of a thread does to the complaints to come. *)
LEMMA WorkCount ==
  ASSUME GobTypeOK, NEW th \in CallThreads, NEW s \in Seq(Tasks), work' = [work EXCEPT ![th] = s]
  PROVE  /\ work' \in [Threads -> Seq(Tasks)]
         /\ SumOver(PendingOf, CallThreads) \in Nat /\ SumOver(PendingOf', CallThreads) \in Nat
         /\ Cardinality(Cries(work[th])) \in Nat /\ Cardinality(Cries(s)) \in Nat
         /\ SumOver(PendingOf', CallThreads) + Cardinality(Cries(work[th])) =
                SumOver(PendingOf, CallThreads) + Cardinality(Cries(s))
<1>1. CallThreads \subseteq Threads /\ IsFiniteSet(CallThreads)
  BY CallAssumption, Goroutines DEF ThreadsAre
<1>2. \A x \in CallThreads : /\ work[x] \in Seq(Tasks) /\ work'[x] \in Seq(Tasks)
                             /\ (x # th => work'[x] = work[x])
  BY <1>1 DEF GobTypeOK
<1>3. work' \in [Threads -> Seq(Tasks)] /\ work'[th] = s
  BY <1>1 DEF GobTypeOK
<1> DEFINE w == PendingOf
           v == [x \in CallThreads |-> Cardinality(Cries(work'[x]))]
<1>4. \A x \in CallThreads : w[x] = Cardinality(Cries(work[x])) /\ v[x] = Cardinality(Cries(work'[x]))
  BY DEF PendingOf
<1>5. PendingOf' = v
  BY DEF PendingOf, Cries
<1> HIDE DEF w, v
<1>6. \A x \in CallThreads : w[x] \in Nat /\ v[x] \in Nat /\ (x # th => w[x] = v[x])
  BY <1>2, <1>4, CriesFinite
<1>7. SumOver(v, CallThreads) + w[th] = SumOver(w, CallThreads) + v[th]
  BY <1>1, <1>6, SumChange
<1>8. SumOver(v, CallThreads) \in Nat /\ SumOver(w, CallThreads) \in Nat
  BY <1>1, <1>6, SumRemove
<1> QED
  BY <1>3, <1>4, <1>5, <1>6, <1>7, <1>8 DEF w

(* The sums of the other side. *)
LEMMA OtherSums ==
  ASSUME GobTypeOK, ValueInv
  PROVE  /\ SumOver(LowerOf, checked) \in Nat /\ SumOver(StaleOf, Decoded) \in Nat
         /\ \A t \in Types \ checked : SumOver(LowerOf, checked \cup {t}) = SumOver(LowerOf, checked) + LowerCase(t)
         /\ \A c \in Calls \ Decoded :
                SumOver(StaleOf, Decoded \cup {c}) =
                    SumOver(StaleOf, Decoded) + Cardinality(NonDefault(ReplyType, old[c]))
<1>1. IsFiniteSet(checked) /\ IsFiniteSet(Decoded) /\ checked \subseteq Types /\ Decoded \subseteq Calls
  BY GraphAssumption, CallAssumption, FS_Subset DEF GobTypeOK, Decoded
<1>2. \A t \in Types : LowerOf[t] = LowerCase(t) /\ LowerOf[t] \in Nat
  BY PartsAre DEF LowerOf
<1>3. \A c \in Calls : StaleOf[c] = Cardinality(NonDefault(ReplyType, old[c])) /\ StaleOf[c] \in Nat
  BY StaleIsNat DEF StaleOf, ValueInv
<1>4. SumOver(LowerOf, checked) \in Nat /\ SumOver(StaleOf, Decoded) \in Nat
  <2>1. /\ \A t \in checked : LowerOf[t] \in Nat
        /\ \A c \in Decoded : StaleOf[c] \in Nat
    BY <1>1, <1>2, <1>3
  <2> QED
    BY <1>1, <2>1, SumRemove
<1>5. ASSUME NEW t \in Types \ checked
      PROVE  SumOver(LowerOf, checked \cup {t}) = SumOver(LowerOf, checked) + LowerCase(t)
  <2>1. t \notin checked /\ \A y \in checked \cup {t} : LowerOf[y] \in Nat
    BY <1>1, <1>2
  <2>2. SumOver(LowerOf, checked \cup {t}) = SumOver(LowerOf, checked) + LowerOf[t]
    BY <1>1, <2>1, SumAdd
  <2> QED
    BY <1>2, <2>2
<1>6. ASSUME NEW c \in Calls \ Decoded
      PROVE  SumOver(StaleOf, Decoded \cup {c}) =
                 SumOver(StaleOf, Decoded) + Cardinality(NonDefault(ReplyType, old[c]))
  <2>1. c \notin Decoded /\ \A y \in Decoded \cup {c} : StaleOf[y] \in Nat
    BY <1>1, <1>3
  <2>2. SumOver(StaleOf, Decoded \cup {c}) = SumOver(StaleOf, Decoded) + StaleOf[c]
    BY <1>1, <2>1, SumAdd
  <2> QED
    BY <1>3, <2>2
<1> QED
  BY <1>4, <1>5, <1>6

GobInv == GobTypeOK /\ QuietInv /\ SeenInv /\ CriesInv

\* The stages of the calls, as far as the work of the threads depends on them,
\* if s is given to th.
StagesKeep(th, s) ==
    \A d \in Calls :
        /\ stage'[d] \in {"start", "sent", "done"} =>
               th # Client(d) /\ (stage[d] \in {"start", "sent", "done"} \/ ~Busy(Client(d)))
        /\ hstage'[d] = "none" => th # Handler(d) /\ (hstage[d] = "none" \/ ~Busy(Handler(d)))
        /\ stage'[d] # "start" => stage[d] # "start" \/ \E i \in DOMAIN s : s[i] = Check(ArgsType)
        /\ stage'[d] \in {"decoding", "done"} =>
               stage[d] \in {"decoding", "done"} \/ \E i \in DOMAIN s : s[i] = Check(ReplyType)

(* Nothing is checked in a step that leaves the work alone. *)
LEMMA GobIdle ==
  ASSUME GobInv, UNCHANGED <<gobVars, old>>, Decoded' = Decoded, StagesKeep(<<>>, <<>>)
  PROVE  GobInv'
<1>1. UNCHANGED <<checked, errorCount, work, old>>
  BY DEF gobVars
<1>2. GobTypeOK'
  BY <1>1 DEF GobInv, GobTypeOK
<1>3. \A t : Seen(t)' = Seen(t)
  BY <1>1 DEF Seen
<1>4. CriesInv'
  <2>1. PendingOf' = PendingOf /\ StaleOf' = StaleOf
    BY <1>1 DEF PendingOf, StaleOf
  <2> QED
    BY <1>1, <2>1 DEF GobInv, CriesInv
<1>5. QuietInv'
  BY <1>1 DEF GobInv, QuietInv, StagesKeep, Busy
<1>6. SeenInv'
  BY <1>1, <1>3 DEF GobInv, SeenInv, StagesKeep
<1> QED
  BY <1>2, <1>4, <1>5, <1>6 DEF GobInv

(* What a thread is given to do. *)
LEMMA GobFill ==
  ASSUME GobInv, NEW th \in CallThreads, NEW s \in Seq(Tasks), ~Busy(th), Todo(th, s),
         UNCHANGED <<checked, errorCount, old>>, StagesKeep(th, s),
         SumOver(LowerOf, checked) \in Nat, SumOver(StaleOf, Decoded) \in Nat,
         SumOver(StaleOf, Decoded') = SumOver(StaleOf, Decoded) + Cardinality(Cries(s))
  PROVE  GobInv'
<1>1. work' = [work EXCEPT ![th] = s] /\ work[th] = <<>>
  BY DEF Todo, Busy
<1>2. CallThreads \subseteq Threads /\ DOMAIN work = Threads
  BY CallAssumption DEF GobInv, GobTypeOK
<1>3. work'[th] = s /\ \A x \in CallThreads : x # th => work'[x] = work[x]
  BY <1>1, <1>2
<1>4. GobTypeOK'
  BY <1>1, WorkCount DEF GobInv, GobTypeOK
<1>5. CriesInv'
  <2>1. StaleOf' = StaleOf /\ LowerOf' = LowerOf /\ CallThreads' = CallThreads
    BY DEF StaleOf, LowerOf
  <2>2. Cardinality(Cries(work[th])) = 0
    BY <1>1, CriesNone
  <2>3. /\ SumOver(PendingOf', CallThreads) = SumOver(PendingOf, CallThreads) + Cardinality(Cries(s))
        /\ SumOver(PendingOf, CallThreads) \in Nat /\ Cardinality(Cries(s)) \in Nat
    <3>1. /\ SumOver(PendingOf', CallThreads) \in Nat /\ SumOver(PendingOf, CallThreads) \in Nat
          /\ Cardinality(Cries(s)) \in Nat
          /\ SumOver(PendingOf', CallThreads) + Cardinality(Cries(work[th])) =
                SumOver(PendingOf, CallThreads) + Cardinality(Cries(s))
      BY <1>1, WorkCount DEF GobInv
    <3> QED
      BY <2>2, <3>1
  <2>4. errorCount \in Nat /\ errorCount' = errorCount /\ checked' = checked
    BY DEF GobInv, GobTypeOK
  <2>5. errorCount + SumOver(PendingOf, CallThreads) = SumOver(LowerOf, checked) + SumOver(StaleOf, Decoded)
    BY DEF GobInv, CriesInv
  <2>6. errorCount + SumOver(PendingOf', CallThreads) = SumOver(LowerOf, checked) + SumOver(StaleOf, Decoded')
    BY <2>3, <2>4, <2>5
  <2> QED
    BY <2>1, <2>4, <2>6 DEF CriesInv
<1>6. QuietInv'
  <2> SUFFICES ASSUME NEW d \in Calls
               PROVE  /\ stage'[d] \in {"start", "sent", "done"} => work'[Client(d)] = <<>>
                      /\ hstage'[d] = "none" => work'[Handler(d)] = <<>>
    BY DEF QuietInv, Busy
  <2>1. Client(d) \in CallThreads /\ Handler(d) \in CallThreads
    BY Goroutines DEF ThreadsAre
  <2> QED
    BY <1>3, <2>1 DEF GobInv, QuietInv, StagesKeep, Busy
<1>7. ASSUME NEW t, Seen(t) \/ \E i \in DOMAIN s : s[i] = Check(t) PROVE Seen(t)'
  <2>1. CASE t \in checked
    BY <2>1 DEF Seen
  <2>2. CASE \E i \in DOMAIN s : s[i] = Check(t)
    BY <1>3, <2>2 DEF Seen
  <2>3. CASE t \notin checked /\ Seen(t)
    <3>1. PICK x \in CallThreads : \E i \in DOMAIN work[x] : work[x][i] = Check(t)
      BY <2>3 DEF Seen
    <3>2. x # th
      BY <1>1, <3>1
    <3> QED
      BY <1>3, <3>1, <3>2 DEF Seen
  <2> QED
    BY <1>7, <2>1, <2>2, <2>3
<1>8. SeenInv'
  <2>1. \A t \in checked' : \A i \in DOMAIN Parts[t] : Seen(Parts[t][i])'
    BY <1>7 DEF GobInv, SeenInv
  <2>2. ASSUME NEW c \in Calls
        PROVE  /\ stage'[c] # "start" => Seen(ArgsType)'
               /\ stage'[c] \in {"decoding", "done"} => Seen(ReplyType)'
    BY <1>7 DEF GobInv, SeenInv, StagesKeep
  <2> QED
    BY <2>1, <2>2 DEF SeenInv
<1> QED
  BY <1>4, <1>5, <1>6, <1>8 DEF GobInv

(* A type is found or marked. *)
LEMMA GobCheck ==
  ASSUME GobInv, ValueInv, NEW th \in CallThreads, checkType(th), UNCHANGED <<stage, hstage, old>>
  PROVE  GobInv'
<1>1. CallThreads \subseteq Threads /\ DOMAIN work = Threads /\ work[th] \in Seq(Tasks) /\ checked \subseteq Types
  BY CallAssumption DEF GobInv, GobTypeOK
<1> DEFINE t == Head(work[th]).type
           rest == Tail(work[th])
           more == IF t \in checked THEN <<>> ELSE PartsOf(t)
           s == more \o rest
<1>2. /\ work[th] # <<>> /\ Head(work[th]).do = "check" /\ checked' = checked \cup {t}
      /\ work' = [work EXCEPT ![th] = s] /\ errorCount' = errorCount
  BY DEF checkType, Busy, Todo
<1>3. /\ Head(work[th]) \in Tasks /\ rest \in Seq(Tasks) /\ work[th] = <<Head(work[th])>> \o rest
      /\ Cardinality(Cries(work[th])) =
            (IF Head(work[th]) = Complain THEN 1 ELSE 0) + Cardinality(Cries(rest))
  BY <1>1, <1>2, CriesTail
<1>4. t \in Types /\ Head(work[th]) = Check(t) /\ Head(work[th]) # Complain
  BY <1>2, <1>3, CheckIsNot DEF Tasks, Complain
<1>5. /\ more \in Seq(Tasks) /\ Cardinality(Cries(more)) = IF t \in checked THEN 0 ELSE LowerCase(t)
      /\ LowerCase(t) \in Nat
  BY <1>4, PartsAre, CriesNone
<1>6. /\ t \notin checked => more = PartsOf(t)
      /\ \A i \in DOMAIN Parts[t] : \E j \in DOMAIN PartsOf(t) : PartsOf(t)[j] = Check(Parts[t][i])
  BY <1>4, PartsAre
<1> HIDE DEF t, more, rest
<1>7. /\ s \in Seq(Tasks) /\ Cardinality(Cries(s)) = Cardinality(Cries(more)) + Cardinality(Cries(rest))
      /\ Len(more) \in Nat /\ Len(rest) \in Nat /\ DOMAIN s = 1 .. Len(more) + Len(rest)
      /\ DOMAIN more = 1 .. Len(more) /\ DOMAIN rest = 1 .. Len(rest)
      /\ \A i \in 1 .. Len(more) + Len(rest) : s[i] = IF i <= Len(more) THEN more[i] ELSE rest[i - Len(more)]
  BY <1>3, <1>5, CriesConcat, ConcatProperties, LenProperties
<1> HIDE DEF s
<1>8. /\ \A i \in DOMAIN more : \E j \in DOMAIN s : s[j] = more[i]
      /\ \A i \in DOMAIN rest : \E j \in DOMAIN s : s[j] = rest[i]
  <2>1. ASSUME NEW i \in DOMAIN more PROVE \E j \in DOMAIN s : s[j] = more[i]
    BY <1>7
  <2>2. ASSUME NEW i \in DOMAIN rest PROVE \E j \in DOMAIN s : s[j] = rest[i]
    <3>1. /\ i + Len(more) \in 1 .. Len(more) + Len(rest) /\ ~(i + Len(more) <= Len(more))
          /\ (i + Len(more)) - Len(more) = i
      BY <1>7
    <3>2. i + Len(more) \in DOMAIN s /\ s[i + Len(more)] = rest[i]
      BY <1>7, <3>1
    <3> QED
      BY <3>2
  <2> QED
    BY <2>1, <2>2
<1>9. work'[th] = s /\ \A x \in CallThreads : x # th => work'[x] = work[x]
  BY <1>1, <1>2
<1>10. GobTypeOK'
  BY <1>2, <1>4, <1>7, WorkCount DEF GobInv, GobTypeOK
<1>11. CriesInv'
  <2>1. StaleOf' = StaleOf /\ LowerOf' = LowerOf /\ CallThreads' = CallThreads /\ Decoded' = Decoded
    BY DEF StaleOf, LowerOf, Decoded
  <2> DEFINE P == SumOver(PendingOf, CallThreads)
             Q == SumOver(PendingOf', CallThreads)
             L == SumOver(LowerOf, checked)
             M == SumOver(LowerOf, checked')
             S == SumOver(StaleOf, Decoded)
             k == Cardinality(Cries(more))
             n == Cardinality(Cries(rest))
  <2>2. /\ P \in Nat /\ Q \in Nat /\ Q + Cardinality(Cries(work[th])) = P + Cardinality(Cries(s))
        /\ Cardinality(Cries(work[th])) \in Nat
    BY <1>2, <1>7, WorkCount DEF GobInv
  <2>3. k \in Nat /\ n \in Nat /\ Cardinality(Cries(work[th])) = n /\ Cardinality(Cries(s)) = k + n
    BY <1>3, <1>4, <1>5, <1>7, CriesFinite
  <2>4. L \in Nat /\ S \in Nat /\ M = L + k
    <3>1. CASE t \in checked
      <4>1. checked' = checked /\ k = 0
        BY <1>2, <1>5, <3>1
      <4> QED
        BY <4>1, OtherSums DEF GobInv
    <3>2. CASE t \notin checked
      <4>1. checked' = checked \cup {t} /\ k = LowerCase(t) /\ t \in Types \ checked
        BY <1>2, <1>4, <1>5, <3>2
      <4> QED
        BY <4>1, OtherSums DEF GobInv
    <3> QED
      BY <3>1, <3>2
  <2>5. errorCount + P = L + S /\ errorCount \in Nat
    BY DEF GobInv, CriesInv, GobTypeOK
  <2> HIDE DEF P, Q, L, M, S, k, n
  <2>6. errorCount + Q = M + S
    BY <2>2, <2>3, <2>4, <2>5
  <2> QED
    BY <1>2, <2>1, <2>6 DEF CriesInv, Q, M, S
<1>12. QuietInv'
  <2> SUFFICES ASSUME NEW d \in Calls
               PROVE  /\ stage'[d] \in {"start", "sent", "done"} => work'[Client(d)] = <<>>
                      /\ hstage'[d] = "none" => work'[Handler(d)] = <<>>
    BY DEF QuietInv, Busy
  <2>1. Client(d) \in CallThreads /\ Handler(d) \in CallThreads
    BY Goroutines DEF ThreadsAre
  <2> QED
    BY <1>2, <1>9, <2>1 DEF GobInv, QuietInv, Busy
<1>13. ASSUME NEW u, Seen(u) PROVE Seen(u)'
  <2>1. CASE u \in checked'
    BY <2>1 DEF Seen
  <2>2. CASE u \notin checked'
    <3>1. u \notin checked /\ u # t
      BY <1>2, <2>2
    <3>2. PICK x \in CallThreads : \E i \in DOMAIN work[x] : work[x][i] = Check(u)
      BY <1>13, <3>1 DEF Seen
    <3>3. CASE x # th
      BY <1>9, <3>2, <3>3 DEF Seen
    <3>4. CASE x = th
      <4>1. PICK i \in DOMAIN work[th] : work[th][i] = Check(u)
        BY <3>2, <3>4
      <4>2. Check(u) # Check(t)
        BY <3>1, CheckIsNot
      <4>3. /\ Len(work[th]) \in Nat /\ DOMAIN work[th] = 1 .. Len(work[th])
            /\ Head(work[th]) = work[th][1] /\ Len(rest) = Len(work[th]) - 1
            /\ \A j \in 1 .. Len(rest) : rest[j] = work[th][j + 1]
        BY <1>1, <1>2, HeadTailProperties, LenProperties DEF rest
      <4>4. i # 1
        BY <1>4, <4>1, <4>2, <4>3
      <4>5. i - 1 \in 1 .. Len(rest) /\ (i - 1) + 1 = i
        BY <4>1, <4>3, <4>4
      <4>6. rest[i - 1] = Check(u)
        BY <4>1, <4>3, <4>5
      <4>7. \E j \in DOMAIN s : s[j] = Check(u)
        BY <1>7, <1>8, <4>5, <4>6
      <4> QED
        BY <1>9, <4>7 DEF Seen
    <3> QED
      BY <3>3, <3>4
  <2> QED
    BY <2>1, <2>2
<1>14. SeenInv'
  <2>1. ASSUME NEW u \in checked', NEW i \in DOMAIN Parts[u] PROVE Seen(Parts[u][i])'
    <3>1. CASE u \in checked
      BY <1>13, <2>1, <3>1 DEF GobInv, SeenInv
    <3>2. CASE u \notin checked
      <4>1. u = t /\ t \notin checked
        BY <1>2, <2>1, <3>2
      <4>2. \E j \in DOMAIN more : more[j] = Check(Parts[u][i])
        BY <1>6, <2>1, <4>1
      <4>3. \E j \in DOMAIN s : s[j] = Check(Parts[u][i])
        BY <1>8, <4>2
      <4> QED
        BY <1>9, <4>3 DEF Seen
    <3> QED
      BY <3>1, <3>2
  <2>2. ASSUME NEW c \in Calls
        PROVE  /\ stage'[c] # "start" => Seen(ArgsType)'
               /\ stage'[c] \in {"decoding", "done"} => Seen(ReplyType)'
    BY <1>13 DEF GobInv, SeenInv
  <2> QED
    BY <2>1, <2>2 DEF SeenInv
<1> QED
  BY <1>10, <1>11, <1>12, <1>14 DEF GobInv

(* A complaint is made. *)
LEMMA GobComplain ==
  ASSUME GobInv, NEW th \in CallThreads, complain(th), UNCHANGED <<stage, hstage, old>>,
         SumOver(LowerOf, checked) \in Nat, SumOver(StaleOf, Decoded) \in Nat
  PROVE  GobInv'
<1>1. CallThreads \subseteq Threads /\ DOMAIN work = Threads /\ work[th] \in Seq(Tasks)
  BY CallAssumption DEF GobInv, GobTypeOK
<1> DEFINE rest == Tail(work[th])
<1>2. /\ work[th] # <<>> /\ Head(work[th]) = Complain /\ errorCount' = errorCount + 1
      /\ work' = [work EXCEPT ![th] = rest] /\ checked' = checked
  BY DEF complain, Busy, Todo
<1>3. rest \in Seq(Tasks) /\ Cardinality(Cries(work[th])) = 1 + Cardinality(Cries(rest))
  BY <1>1, <1>2, CriesTail
<1>4. /\ Len(work[th]) \in Nat /\ DOMAIN work[th] = 1 .. Len(work[th])
      /\ Head(work[th]) = work[th][1] /\ Len(rest) = Len(work[th]) - 1
      /\ \A j \in 1 .. Len(rest) : rest[j] = work[th][j + 1] /\ DOMAIN rest = 1 .. Len(rest)
  BY <1>1, <1>2, <1>3, HeadTailProperties, LenProperties
<1> HIDE DEF rest
<1>5. work'[th] = rest /\ \A x \in CallThreads : x # th => work'[x] = work[x]
  BY <1>1, <1>2
<1>6. GobTypeOK'
  <2>1. work' \in [Threads -> Seq(Tasks)]
    BY <1>2, <1>3, WorkCount DEF GobInv
  <2> QED
    BY <1>2, <2>1 DEF GobInv, GobTypeOK
<1>7. CriesInv'
  <2>1. StaleOf' = StaleOf /\ LowerOf' = LowerOf /\ CallThreads' = CallThreads /\ Decoded' = Decoded
    BY DEF StaleOf, LowerOf, Decoded
  <2> DEFINE P == SumOver(PendingOf, CallThreads)
             Q == SumOver(PendingOf', CallThreads)
             L == SumOver(LowerOf, checked)
             S == SumOver(StaleOf, Decoded)
             n == Cardinality(Cries(rest))
  <2>2. P \in Nat /\ Q \in Nat /\ Q + Cardinality(Cries(work[th])) = P + n /\ n \in Nat
    BY <1>2, <1>3, WorkCount DEF GobInv
  <2>3. errorCount + P = L + S /\ errorCount \in Nat /\ L \in Nat /\ S \in Nat
    BY DEF GobInv, CriesInv, GobTypeOK
  <2>4. Cardinality(Cries(work[th])) = 1 + n
    BY <1>3
  <2> HIDE DEF P, Q, L, S, n
  <2>5. (errorCount + 1) + Q = L + S
    BY <2>2, <2>3, <2>4
  <2> QED
    BY <1>2, <2>1, <2>5 DEF CriesInv, Q, L, S
<1>8. QuietInv'
  <2> SUFFICES ASSUME NEW d \in Calls
               PROVE  /\ stage'[d] \in {"start", "sent", "done"} => work'[Client(d)] = <<>>
                      /\ hstage'[d] = "none" => work'[Handler(d)] = <<>>
    BY DEF QuietInv, Busy
  <2>1. Client(d) \in CallThreads /\ Handler(d) \in CallThreads
    BY Goroutines DEF ThreadsAre
  <2> QED
    BY <1>2, <1>5, <2>1 DEF GobInv, QuietInv, Busy
<1>9. ASSUME NEW u, Seen(u) PROVE Seen(u)'
  <2>1. CASE u \in checked
    BY <1>2, <2>1 DEF Seen
  <2>2. CASE u \notin checked
    <3>1. PICK x \in CallThreads : \E i \in DOMAIN work[x] : work[x][i] = Check(u)
      BY <1>9, <2>2 DEF Seen
    <3>2. CASE x # th
      BY <1>5, <3>1, <3>2 DEF Seen
    <3>3. CASE x = th
      <4>1. PICK i \in DOMAIN work[th] : work[th][i] = Check(u)
        BY <3>1, <3>3
      <4>2. i # 1
        BY <1>2, <1>4, <4>1, CheckIsNot
      <4>3. i - 1 \in 1 .. Len(rest) /\ (i - 1) + 1 = i
        BY <1>4, <4>1, <4>2
      <4>4. i - 1 \in DOMAIN rest /\ rest[i - 1] = Check(u)
        BY <1>4, <4>1, <4>3
      <4> QED
        BY <1>5, <4>4 DEF Seen
    <3> QED
      BY <3>2, <3>3
  <2> QED
    BY <2>1, <2>2
<1>10. SeenInv'
  <2>1. ASSUME NEW u \in checked', NEW i \in DOMAIN Parts[u] PROVE Seen(Parts[u][i])'
    BY <1>2, <1>9, <2>1 DEF GobInv, SeenInv
  <2>2. ASSUME NEW c \in Calls
        PROVE  /\ stage'[c] # "start" => Seen(ArgsType)'
               /\ stage'[c] \in {"decoding", "done"} => Seen(ReplyType)'
    BY <1>9 DEF GobInv, SeenInv
  <2> QED
    BY <2>1, <2>2 DEF SeenInv
<1> QED
  BY <1>6, <1>7, <1>8, <1>10 DEF GobInv

(* What Encode() and Decode() begin with. *)
LEMMA Beginnings ==
  ASSUME NEW t \in Types, NEW n \in Nat
  PROVE  /\ <<Check(t)>> \in Seq(Tasks) /\ Cardinality(Cries(<<Check(t)>>)) = 0
         /\ \E i \in DOMAIN <<Check(t)>> : <<Check(t)>>[i] = Check(t)
         /\ LET s == <<Check(t)>> \o [i \in 1 .. n |-> Complain]
            IN  /\ s \in Seq(Tasks) /\ Cardinality(Cries(s)) = n
                /\ \E i \in DOMAIN s : s[i] = Check(t)
<1> DEFINE a == <<Check(t)>>
           b == [i \in 1 .. n |-> Complain]
<1>1. Check(t) \in Tasks /\ Check(t) # Complain
  BY CheckIsNot DEF Tasks
<1>2. a \in Seq(Tasks) /\ Cardinality(Cries(a)) = 0
  BY <1>1, CriesOne
<1>3. b \in Seq(Tasks) /\ Cardinality(Cries(b)) = n
  BY CriesAll
<1>4. Len(a) = 1 /\ a[1] = Check(t) /\ 1 \in DOMAIN a
  OBVIOUS
<1> HIDE DEF a, b
<1>5. a \o b \in Seq(Tasks) /\ Cardinality(Cries(a \o b)) = n
  BY <1>2, <1>3, CriesConcat
<1>6. 1 \in DOMAIN (a \o b) /\ (a \o b)[1] = Check(t)
  BY <1>2, <1>3, <1>4, ConcatProperties, LenProperties
<1>7. \E i \in DOMAIN (a \o b) : (a \o b)[i] = Check(t)
  BY <1>6
<1> QED
  BY <1>2, <1>4, <1>5, <1>7 DEF a, b

RpcInv == OnceInv /\ GobInv /\ ValueInv

(* The steps that give a thread something to check. *)
LEMMA GobGiven ==
  ASSUME RpcInv, NEW c \in Calls,
         \/ CallDecode(c) \/ CallEncode(c)
         \/ \E name \in Called : ServerDispatch(c, name)
         \/ \E answer \in ReplyValues : ServiceCall(c, answer)
  PROVE  GobInv'
<1>0. /\ Client(c) \in CallThreads /\ Handler(c) \in CallThreads
      /\ \A d \in Calls : /\ Client(c) # Handler(d) /\ Handler(c) # Client(d)
                          /\ (Client(c) = Client(d) => c = d) /\ (Handler(c) = Handler(d) => c = d)
  BY Goroutines DEF ThreadsAre
<1>1. /\ GobInv /\ QuietInv /\ DOMAIN stage = Calls /\ DOMAIN hstage = Calls
      /\ SumOver(LowerOf, checked) \in Nat /\ SumOver(StaleOf, Decoded) \in Nat
  BY OtherSums DEF RpcInv, GobInv, OnceInv
<1>2. ArgsType \in Types /\ ReplyType \in Types /\ DecodeType \in Types /\ 0 \in Nat
  BY CallAssumption
<1>3. CASE CallEncode(c)
  <2> DEFINE s == <<Check(ArgsType)>>
  <2>1. /\ stage[c] = "start" /\ stage' = [stage EXCEPT ![c] = "encoding"] /\ Todo(Client(c), s)
        /\ UNCHANGED <<checked, errorCount, hstage, old>>
    BY <1>3 DEF CallEncode, Stage, checkValue, dataVars
  <2>2. s \in Seq(Tasks) /\ Cardinality(Cries(s)) = 0 /\ \E i \in DOMAIN s : s[i] = Check(ArgsType)
    BY <1>2, Beginnings
  <2> HIDE DEF s
  <2>3. ~Busy(Client(c))
    BY <1>1, <2>1 DEF QuietInv
  <2>4. StagesKeep(Client(c), s)
    BY <1>0, <1>1, <2>1, <2>2 DEF StagesKeep
  <2>5. Decoded' = Decoded
    BY <1>1, <2>1 DEF Decoded
  <2> QED
    BY <1>0, <1>1, <2>1, <2>2, <2>3, <2>4, <2>5, GobFill
<1>4. CASE CallDecode(c)
  <2> DEFINE n == Cardinality(NonDefault(ReplyType, old[c]))
             s == <<Check(ReplyType)>> \o [i \in 1 .. n |-> Complain]
  <2>1. /\ stage[c] = "sent" /\ stage' = [stage EXCEPT ![c] = "decoding"] /\ Todo(Client(c), s)
        /\ UNCHANGED <<checked, errorCount, hstage, old>>
    BY <1>4 DEF CallDecode, Stage, checkDecode, dataVars
  <2>2. n \in Nat
    BY StaleIsNat DEF RpcInv, ValueInv
  <2> HIDE DEF n
  <2>3. s \in Seq(Tasks) /\ Cardinality(Cries(s)) = n /\ \E i \in DOMAIN s : s[i] = Check(ReplyType)
    BY <1>2, <2>2, Beginnings
  <2> HIDE DEF s
  <2>4. ~Busy(Client(c))
    BY <1>1, <2>1 DEF QuietInv
  <2>5. StagesKeep(Client(c), s)
    BY <1>0, <1>1, <2>1, <2>3 DEF StagesKeep
  <2>6. Decoded' = Decoded \cup {c} /\ c \in Calls \ Decoded
    BY <1>1, <2>1 DEF Decoded
  <2>7. SumOver(StaleOf, Decoded') = SumOver(StaleOf, Decoded) + Cardinality(Cries(s))
    BY <2>3, <2>6, OtherSums DEF RpcInv, GobInv, n
  <2> QED
    BY <1>0, <1>1, <2>1, <2>3, <2>4, <2>5, <2>7, GobFill
<1>5. ASSUME NEW name \in Called, ServerDispatch(c, name) PROVE GobInv'
  <2> DEFINE n == Cardinality(NonDefault(DecodeType, {}))
             s == <<Check(DecodeType)>> \o [i \in 1 .. n |-> Complain]
  <2>1. /\ hstage[c] = "none" /\ UNCHANGED <<checked, errorCount, stage, old>>
        /\ \/ hstage' = [hstage EXCEPT ![c] = "decode"] /\ Todo(Handler(c), s)
           \/ UNCHANGED <<hstage, work>>
    BY <1>5 DEF ServerDispatch, checkDecode, dataVars
  <2>2. n \in Nat /\ n = 0
    <3>1. NonDefault(DecodeType, {}) = {}
      BY DEF NonDefault
    <3> QED
      BY <3>1, FS_EmptySet
  <2> HIDE DEF n
  <2>3. s \in Seq(Tasks) /\ Cardinality(Cries(s)) = 0
    BY <1>2, <2>2, Beginnings
  <2> HIDE DEF s
  <2>4. Decoded' = Decoded
    BY <2>1 DEF Decoded
  <2>5. CASE UNCHANGED <<hstage, work>>
    <3>1. StagesKeep(<<>>, <<>>)
      BY <2>1, <2>5 DEF StagesKeep, Client, Handler
    <3> QED
      BY <1>1, <2>1, <2>4, <2>5, <3>1, GobIdle DEF gobVars
  <2>6. CASE hstage' = [hstage EXCEPT ![c] = "decode"] /\ Todo(Handler(c), s)
    <3>1. ~Busy(Handler(c))
      BY <1>1, <2>1 DEF QuietInv
    <3>2. StagesKeep(Handler(c), s)
      BY <1>0, <1>1, <2>1, <2>6 DEF StagesKeep
    <3> QED
      BY <1>0, <1>1, <2>1, <2>3, <2>4, <2>6, <3>1, <3>2, GobFill
  <2> QED
    BY <2>1, <2>5, <2>6
<1>6. ASSUME NEW answer \in ReplyValues, ServiceCall(c, answer) PROVE GobInv'
  <2> DEFINE s == <<Check(ReplyType)>>
  <2>1. /\ hstage[c] = "decode" /\ hstage' = [hstage EXCEPT ![c] = "encode"] /\ Todo(Handler(c), s)
        /\ UNCHANGED <<checked, errorCount, stage, old>> /\ ~Busy(Handler(c))
    BY <1>6 DEF ServiceCall, checkValue
  <2>2. s \in Seq(Tasks) /\ Cardinality(Cries(s)) = 0
    BY <1>2, Beginnings
  <2> HIDE DEF s
  <2>3. StagesKeep(Handler(c), s)
    BY <1>0, <1>1, <2>1 DEF StagesKeep
  <2>4. Decoded' = Decoded
    BY <2>1 DEF Decoded
  <2> QED
    BY <1>0, <1>1, <2>1, <2>2, <2>3, <2>4, GobFill
<1> QED
  BY <1>3, <1>4, <1>5, <1>6

(* The other steps of a call check nothing. *)
LEMMA GobStill ==
  ASSUME RpcInv, NEW c \in Calls,
         \/ CallReturn(c) \/ ServiceReturn(c) \/ \E e \in Ends : CallRequest(c, e)
  PROVE  GobInv'
<1>1. GobInv /\ DOMAIN stage = Calls /\ DOMAIN hstage = Calls
  BY DEF RpcInv, OnceInv
<1>2. UNCHANGED <<gobVars, old>>
  BY DEF CallReturn, ServiceReturn, CallRequest, dataVars
<1>3. \/ /\ stage[c] = "decoding" /\ stage' = [stage EXCEPT ![c] = "done"]
         /\ ~Busy(Client(c)) /\ UNCHANGED hstage
      \/ /\ stage[c] = "encoding" /\ stage' = [stage EXCEPT ![c] = "sent"]
         /\ ~Busy(Client(c)) /\ UNCHANGED hstage
      \/ /\ hstage' = [hstage EXCEPT ![c] = "none"] /\ ~Busy(Handler(c)) /\ UNCHANGED stage
  BY DEF CallReturn, ServiceReturn, CallRequest, Stage
<1>4. StagesKeep(<<>>, <<>>)
  <2>1. \A d : <<>> # Client(d) /\ <<>> # Handler(d)
    BY DEF Client, Handler
  <2> QED
    BY <1>1, <1>3, <2>1 DEF StagesKeep
<1>5. Decoded' = Decoded
  BY <1>1, <1>3 DEF Decoded
<1> QED
  BY <1>1, <1>2, <1>4, <1>5, GobIdle

(* Every step. *)
LEMMA GobNext == RpcInv /\ [RpcNext]_rpcVars => GobInv'
<1> SUFFICES ASSUME RpcInv, [RpcNext]_rpcVars PROVE GobInv'
  OBVIOUS
<1>1. /\ GobInv /\ ValueInv
      /\ SumOver(LowerOf, checked) \in Nat /\ SumOver(StaleOf, Decoded) \in Nat
  BY OtherSums DEF RpcInv, GobInv
<1>2. CASE UNCHANGED <<gobVars, old, stage, hstage>>
  <2>1. Decoded' = Decoded
    BY <1>2 DEF Decoded
  <2>2. StagesKeep(<<>>, <<>>)
    BY <1>2 DEF StagesKeep, Client, Handler
  <2> QED
    BY <1>1, <1>2, <2>1, <2>2, GobIdle
<1>3. CASE UNCHANGED rpcVars \/ Owner \/ (LoopExit /\ KeepData)
  BY <1>2, <1>3 DEF rpcVars, Owner, KeepData, dataVars
<1>4. ASSUME NEW t \in Registered, Register(t) PROVE GobInv'
  <2> DEFINE s == <<Check(t)>>
  <2>1. ~Busy(Main) /\ Todo(Main, s) /\ UNCHANGED <<checked, errorCount, stage, hstage, old>>
    BY <1>4 DEF Register, checkValue, dataVars
  <2>2. s \in Seq(Tasks) /\ Cardinality(Cries(s)) = 0
    BY CallAssumption, Beginnings
  <2> HIDE DEF s
  <2>3. Main \in CallThreads /\ \A d \in Calls : Main # Client(d) /\ Main # Handler(d)
    BY Goroutines DEF ThreadsAre
  <2>4. StagesKeep(Main, s)
    BY <2>1, <2>3 DEF StagesKeep
  <2>5. Decoded' = Decoded
    BY <2>1 DEF Decoded
  <2> QED
    BY <1>1, <2>1, <2>2, <2>3, <2>4, <2>5, GobFill
<1>5. ASSUME NEW th \in CallThreads, CheckStep(th) PROVE GobInv'
  <2>1. (checkType(th) \/ complain(th)) /\ UNCHANGED <<stage, hstage, old>>
    BY <1>5 DEF CheckStep, GobStep, dataVars
  <2> QED
    BY <1>1, <2>1, GobCheck, GobComplain
<1>6. ASSUME NEW c \in Calls,
             \/ CallStep(c) \/ CallEncode(c) \/ \E e \in Ends : CallRequest(c, e)
             \/ \E answer \in ReplyValues : ServiceCall(c, answer)
      PROVE  GobInv'
  <2>1. \/ CheckStep(Client(c)) \/ CheckStep(Handler(c))
        \/ NetStep(c) \/ CountedDispatch(c)
        \/ CallReturn(c) \/ ServiceReturn(c) \/ \E e \in Ends : CallRequest(c, e)
        \/ CallDecode(c) \/ CallEncode(c) \/ \E name \in Called : ServerDispatch(c, name)
        \/ \E answer \in ReplyValues : ServiceCall(c, answer)
    BY <1>6, Zenon DEF CallStep
  <2>2. CASE NetStep(c) \/ CountedDispatch(c)
    BY <1>2, <2>2 DEF NetStep, CountedDispatch, KeepData, dataVars
  <2>3. Client(c) \in CallThreads /\ Handler(c) \in CallThreads
    BY Goroutines DEF ThreadsAre
  <2> QED
    BY <1>5, <2>1, <2>2, <2>3, GobGiven, GobStill, Zenon
<1>7. Main \in CallThreads
  BY Goroutines DEF ThreadsAre
<1> QED
  BY <1>3, <1>4, <1>5, <1>6, <1>7, Zenon DEF RpcNext

(* The steps that move values. *)
LEMMA ValueNext == RpcInv /\ [RpcNext]_rpcVars => ValueInv'
<1> SUFFICES ASSUME RpcInv, [RpcNext]_rpcVars PROVE ValueInv'
  OBVIOUS
<1>1. /\ ValueInv /\ OnceInv /\ DOMAIN cpc = Calls /\ DOMAIN hpc = Calls /\ DOMAIN ran = Calls
      /\ \A c \in Calls : OnceAt(stage[c], cpc[c], hpc[c], hstage[c], ran[c])
  BY DEF RpcInv, OnceInv
<1>2. CASE UNCHANGED <<dataVars, cpc, hpc>>
  BY <1>1, <1>2 DEF ValueInv, dataVars
<1>3. CASE UNCHANGED rpcVars \/ Owner \/ (LoopExit /\ KeepData) \/ (\E t \in Registered : Register(t))
  BY <1>2, <1>3 DEF rpcVars, netVars, callVars, Owner, LoopExit, KeepData, Register
<1>4. CASE \E th : CheckStep(th)
  BY <1>2, <1>4 DEF CheckStep, netVars, callVars
<1>5. ASSUME NEW c \in Calls,
             \/ CallStep(c) \/ CallEncode(c) \/ \E e \in Ends : CallRequest(c, e)
             \/ \E answer \in ReplyValues : ServiceCall(c, answer)
      PROVE  ValueInv'
  <2>1. CASE CallDecode(c) \/ CallReturn(c) \/ CallEncode(c) \/ \E name \in Called : ServerDispatch(c, name)
    BY <1>2, <2>1 DEF CallDecode, CallReturn, CallEncode, ServerDispatch, netVars, callVars
  <2>2. CASE NetStep(c) \/ CountedDispatch(c)
    <3>1. UNCHANGED dataVars
      BY <2>2 DEF NetStep, CountedDispatch, KeepData
    <3>2. cpc[c] # "idle" /\ \A d \in Calls : d # c => cpc'[d] = cpc[d]
      BY <1>1, <2>2 DEF NetStep, CountedDispatch, CallAborted, Accept, Refuse, DropRequest, StartHandler,
          GetReply, PollDead, CheckReply, DropReply, DelayReply, Deliver, FailReply, Dispatch, Goto
    <3>3. \A d \in Calls : hpc'[d] = "returned" => hpc[d] = "returned"
      BY <1>1, <2>2 DEF NetStep, CountedDispatch, CallAborted, Accept, Refuse, DropRequest, StartHandler,
          GetReply, PollDead, CheckReply, DropReply, DelayReply, Deliver, FailReply, Dispatch, KeepRest
    <3> QED
      BY <1>1, <3>1, <3>2, <3>3 DEF ValueInv, dataVars
  <2>3. CASE \E e \in Ends : CallRequest(c, e)
    <3>1. /\ cpc[c] = "idle" /\ cpc' = [cpc EXCEPT ![c] = "sending"]
          /\ argsWire' = [argsWire EXCEPT ![c] = GobEncode(ArgsType, args[c])]
          /\ UNCHANGED <<hpc, args, old, replyWire, got, wrote, ran>>
      BY <2>3 DEF CallRequest, CallSend, Goto
    <3>2. ran[c] = 0
      BY <1>1, <3>1 DEF OnceAt
    <3> QED
      BY <1>1, <3>1, <3>2 DEF ValueInv
  <2>4. ASSUME NEW answer \in ReplyValues, ServiceCall(c, answer) PROVE ValueInv'
    <3>1. /\ hpc[c] = "running" /\ got' = [got EXCEPT ![c] = GobDecode(argsWire[c], {})]
          /\ wrote' = [wrote EXCEPT ![c] = answer] /\ ran' = [ran EXCEPT ![c] = ran[c] + 1]
          /\ UNCHANGED <<cpc, hpc, args, old, argsWire, replyWire>>
      BY <2>4 DEF ServiceCall, netVars, callVars
    <3>2. GobDecode(argsWire[c], {}) = argsWire[c]
      BY DEF GobDecode
    <3>3. \A d \in Calls : ran'[d] > 0 => ran[d] > 0 \/ d = c
      BY <1>1, <3>1
    <3> QED
      BY <1>1, <3>1, <3>2, <3>3 DEF ValueInv
  <2>5. CASE ServiceReturn(c)
    <3>1. /\ hpc' = [hpc EXCEPT ![c] = "returned"]
          /\ replyWire' = [replyWire EXCEPT ![c] = GobEncode(ReplyType, wrote[c])]
          /\ UNCHANGED <<cpc, args, old, argsWire, got, wrote, ran>>
      BY <2>5 DEF ServiceReturn
    <3> QED
      BY <1>1, <3>1 DEF ValueInv
  <2> QED
    BY <1>4, <1>5, <2>1, <2>2, <2>3, <2>4, <2>5, Zenon DEF CallStep
<1> QED
  BY <1>3, <1>4, <1>5, Zenon DEF RpcNext

(* Threads that have nothing to do have nothing to complain about. *)
LEMMA NobodyPending ==
  ASSUME \A th \in CallThreads : work[th] = <<>>
  PROVE  SumOver(PendingOf, CallThreads) = 0
<1>3. \A th \in CallThreads : PendingOf[th] = 0
  BY CriesNone DEF PendingOf
<1> DEFINE w == PendingOf
           P == {n \in Nat : \A D \in SUBSET CallThreads : Cardinality(D) = n => SumOver(w, D) = 0}
<1>4. IsFiniteSet(CallThreads) /\ \A D \in SUBSET CallThreads : IsFiniteSet(D) /\ Cardinality(D) \in Nat
  BY Goroutines, FS_Subset, FS_CardinalityType DEF ThreadsAre
<1> HIDE DEF w
<1>5. 0 \in P
  <2>1. \A D \in SUBSET CallThreads : Cardinality(D) = 0 => D = {}
    BY <1>4, FS_EmptySet
  <2> QED
    BY <2>1, SumEmpty
<1>6. ASSUME NEW n \in Nat, n \in P PROVE n + 1 \in P
  <2> SUFFICES ASSUME NEW D \in SUBSET CallThreads, Cardinality(D) = n + 1 PROVE SumOver(w, D) = 0
    OBVIOUS
  <2>1. D # {}
    BY FS_EmptySet
  <2>2. PICK x \in D : TRUE
    BY <2>1
  <2>3. Cardinality(D \ {x}) = n /\ D \ {x} \in SUBSET CallThreads
    BY <1>4, <2>2, FS_RemoveElement
  <2>4. SumOver(w, D \ {x}) = 0
    BY <1>6, <2>3
  <2>5. \A y \in D : w[y] \in Nat /\ w[y] = 0
    BY <1>3 DEF w
  <2>6. SumOver(w, D) = w[x] + SumOver(w, D \ {x})
    BY <1>4, <2>2, <2>5, SumRemove
  <2> QED
    BY <2>2, <2>4, <2>5, <2>6
<1>7. Nat \subseteq P
  <2> HIDE DEF P
  <2> QED
    BY <1>5, <1>6, CountUp
<1> QED
  BY <1>4, <1>7 DEF w

LEMMA RpcInvInit == RpcInit => RpcInv
<1> SUFFICES ASSUME RpcInit PROVE RpcInv
  OBVIOUS
<1>1. OnceInv
  BY OnceInit
<1>2. ValueInv
  BY DEF RpcInit, LabrpcInit, ValueInv
<1>3. GobTypeOK
  BY DEF RpcInit, GobInit, GobTypeOK
<1>4. \A th \in CallThreads : work[th] = <<>>
  BY CallAssumption DEF RpcInit, GobInit
<1>5. QuietInv
  BY <1>4, Goroutines DEF QuietInv, Busy, ThreadsAre
<1>6. SeenInv
  BY DEF RpcInit, GobInit, SeenInv
<1>7. CriesInv
  <2>1. checked = {} /\ Decoded = {} /\ errorCount = 0
    BY DEF RpcInit, GobInit, Decoded
  <2>2. SumOver(LowerOf, checked) = 0 /\ SumOver(StaleOf, Decoded) = 0
    BY <2>1, SumEmpty
  <2>3. SumOver(PendingOf, CallThreads) = 0
    BY <1>4, NobodyPending
  <2> QED
    BY <2>1, <2>2, <2>3 DEF CriesInv
<1> QED
  BY <1>1, <1>2, <1>3, <1>5, <1>6, <1>7 DEF RpcInv, GobInv

(* The invariant of the calls. *)
THEOREM RpcInvariance == RpcSpec => []RpcInv
<1>1. RpcInv /\ [RpcNext]_rpcVars => RpcInv'
  BY OnceNext, GobNext, ValueNext DEF RpcInv
<1> QED
  BY <1>1, RpcInvInit, PTL DEF RpcSpec

(* The sums of ComplainsOnce are those of the invariant. *)
LEMMA CountsAre ==
  /\ MapThenSumSet(Pending, CallThreads) = SumOver(PendingOf, CallThreads)
  /\ checked \subseteq Types => MapThenSumSet(LowerCase, checked) = SumOver(LowerOf, checked)
  /\ MapThenSumSet(LAMBDA c : Cardinality(NonDefault(ReplyType, old[c])), Decoded) = SumOver(StaleOf, Decoded)
<1>1. MapThenSumSet(Pending, CallThreads) = SumOver(PendingOf, CallThreads)
  <2> DEFINE Rec(g) == g = [s \in SUBSET CallThreads |->
                               IF s = {} THEN 0
                               ELSE Pending(CHOOSE x \in s : TRUE) + g[s \ {CHOOSE x \in s : TRUE}]]
  <2>1. MapThenSumSet(Pending, CallThreads) = (CHOOSE g : Rec(g))[CallThreads]
    BY DEF MapThenSumSet, MapThenFoldSet
  <2>2. \A s \in SUBSET CallThreads : s # {} => PendingOf[Pick(s)] = Pending(CHOOSE x \in s : TRUE)
    BY DEF Pick, PendingOf, Pending, Cries
  <2>3. \A g : Rec(g) <=> SumsOf(g, CallThreads, PendingOf)
    BY <2>2 DEF SumsOf, Pick
  <2> HIDE DEF Rec
  <2>4. (CHOOSE g : Rec(g)) = (CHOOSE g : SumsOf(g, CallThreads, PendingOf))
    BY <2>3
  <2> QED
    BY <2>1, <2>4 DEF SumOver
<1>2. ASSUME checked \subseteq Types PROVE MapThenSumSet(LowerCase, checked) = SumOver(LowerOf, checked)
  <2> DEFINE Rec(g) == g = [s \in SUBSET checked |->
                               IF s = {} THEN 0
                               ELSE LowerCase(CHOOSE x \in s : TRUE) + g[s \ {CHOOSE x \in s : TRUE}]]
  <2>1. MapThenSumSet(LowerCase, checked) = (CHOOSE g : Rec(g))[checked]
    BY DEF MapThenSumSet, MapThenFoldSet
  <2>2. \A s \in SUBSET checked : s # {} => LowerOf[Pick(s)] = LowerCase(CHOOSE x \in s : TRUE)
    BY <1>2 DEF Pick, LowerOf
  <2>3. \A g : Rec(g) <=> SumsOf(g, checked, LowerOf)
    BY <2>2 DEF SumsOf, Pick
  <2> HIDE DEF Rec
  <2>4. (CHOOSE g : Rec(g)) = (CHOOSE g : SumsOf(g, checked, LowerOf))
    BY <2>3
  <2> QED
    BY <2>1, <2>4 DEF SumOver
<1>3. MapThenSumSet(LAMBDA c : Cardinality(NonDefault(ReplyType, old[c])), Decoded) = SumOver(StaleOf, Decoded)
  <2> DEFINE Rec(g) == g = [s \in SUBSET Decoded |->
                               IF s = {} THEN 0
                               ELSE Cardinality(NonDefault(ReplyType, old[CHOOSE x \in s : TRUE]))
                                        + g[s \ {CHOOSE x \in s : TRUE}]]
  <2>1. MapThenSumSet(LAMBDA c : Cardinality(NonDefault(ReplyType, old[c])), Decoded)
            = (CHOOSE g : Rec(g))[Decoded]
    BY DEF MapThenSumSet, MapThenFoldSet
  <2>2. \A s \in SUBSET Decoded : s # {} =>
            StaleOf[Pick(s)] = Cardinality(NonDefault(ReplyType, old[CHOOSE x \in s : TRUE]))
    BY DEF Pick, StaleOf, Decoded
  <2>3. \A g : Rec(g) <=> SumsOf(g, Decoded, StaleOf)
    BY <2>2 DEF SumsOf, Pick
  <2> HIDE DEF Rec
  <2>4. (CHOOSE g : Rec(g)) = (CHOOSE g : SumsOf(g, Decoded, StaleOf))
    BY <2>3
  <2> QED
    BY <2>1, <2>4 DEF SumOver
<1> QED
  BY <1>1, <1>2, <1>3

(* "only complain once": for any types, any number of calls and any           *)
(* interleaving of the goroutines that check them, a lower-case field is      *)
(* counted once per type and a stale value once per Decode().                 *)
THEOREM ComplaintsAreCountedOnce == RpcSpec => []ComplainsOnce
<1>1. RpcInv => ComplainsOnce
  <2> SUFFICES ASSUME RpcInv PROVE ComplainsOnce
    OBVIOUS
  <2>1. checked \subseteq Types /\ CriesInv
    BY DEF RpcInv, GobInv, GobTypeOK
  <2>2. ComplainsOnce <=> errorCount + MapThenSumSet(Pending, CallThreads) =
            MapThenSumSet(LowerCase, checked)
              + MapThenSumSet(LAMBDA c : Cardinality(NonDefault(ReplyType, old[c])), Decoded)
    BY DEF ComplainsOnce, Decoded
  <2> QED
    BY <2>1, <2>2, CountsAre DEF CriesInv
<1> QED
  BY <1>1, RpcInvariance, PTL

\* The stale leaves of a call.
StalePairs == [c \in Calls |-> {<<c, p>> : p \in NonDefault(ReplyType, old[c])}]

(* The values that are lost belong to types that have been seen. *)
LEMMA DifferAre ==
  ASSUME RpcInv, NEW c \in Calls
  PROVE  /\ ArgsDiffer(c) \subseteq Leaves(TRUE, ArgsType)
         /\ ArgsDiffer(c) # {} => Seen(ArgsType)
         /\ ReplyDiffers(c) \subseteq Leaves(TRUE, ReplyType)
         /\ ReplyDiffers(c) # {} => Seen(ReplyType) /\ c \in Decoded
<1>1. /\ OnceAt(stage[c], cpc[c], hpc[c], hstage[c], ran[c]) /\ SeenInv
      /\ args[c] \in ArgValues /\ old[c] \in OldReplies
      /\ cpc[c] # "idle" => argsWire[c] = GobEncode(ArgsType, args[c])
      /\ ran[c] > 0 => got[c] = argsWire[c] /\ wrote[c] \in ReplyValues
      /\ hpc[c] = "returned" => replyWire[c] = GobEncode(ReplyType, wrote[c])
  BY DEF RpcInv, OnceInv, ValueInv, GobInv
<1>2. /\ args[c] \subseteq Leaves(TRUE, ArgsType) /\ old[c] \subseteq Leaves(TRUE, ReplyType)
      /\ wrote[c] \in ReplyValues => wrote[c] \subseteq Leaves(TRUE, ReplyType)
  BY <1>1, CallAssumption
<1>3. ASSUME ran[c] > 0 PROVE ArgsDiffer(c) \subseteq Leaves(TRUE, ArgsType) /\ Seen(ArgsType)
  <2>1. cpc[c] # "idle" /\ stage[c] # "start"
    BY <1>1, <1>3 DEF OnceAt
  <2>2. got[c] = args[c] \cap Leaves(FALSE, ArgsType)
    <3>1. got[c] = argsWire[c] /\ argsWire[c] = GobEncode(ArgsType, args[c])
      BY <1>1, <1>3, <2>1
    <3> QED
      BY <3>1 DEF GobEncode
  <2>3. got[c] \subseteq args[c]
    BY <2>2
  <2>4. ArgsDiffer(c) \subseteq args[c]
    BY <2>3 DEF ArgsDiffer, Differ
  <2>5. Seen(ArgsType)
    BY <1>1, <2>1, Zenon DEF SeenInv
  <2> QED
    BY <1>2, <2>4, <2>5
<1>4. ~(ran[c] > 0) => ArgsDiffer(c) = {}
  BY DEF ArgsDiffer
<1>5. ASSUME stage[c] = "done"
      PROVE  ReplyDiffers(c) \subseteq Leaves(TRUE, ReplyType) /\ Seen(ReplyType) /\ c \in Decoded
  <2>1. hpc[c] = "returned" /\ ran[c] > 0 /\ c \in Decoded
    BY <1>1, <1>5 DEF OnceAt, Decoded
  <2>2. Reply(c) = (wrote[c] \cap Leaves(FALSE, ReplyType)) \cup old[c]
    <3>1. replyWire[c] = GobEncode(ReplyType, wrote[c])
      BY <1>1, <2>1
    <3> QED
      BY <3>1 DEF Reply, GobDecode, GobEncode
  <2>3. Reply(c) \subseteq wrote[c] \cup old[c]
    BY <2>2
  <2>4. ReplyDiffers(c) \subseteq wrote[c] \cup old[c]
    BY <2>3 DEF ReplyDiffers, Differ
  <2>5. wrote[c] \cup old[c] \subseteq Leaves(TRUE, ReplyType)
    BY <1>1, <1>2, <2>1
  <2>6. Seen(ReplyType)
    BY <1>1, <1>5, Zenon DEF SeenInv
  <2> QED
    BY <2>1, <2>4, <2>5, <2>6
<1>6. stage[c] # "done" => ReplyDiffers(c) = {}
  BY DEF ReplyDiffers
<1> QED
  BY <1>3, <1>4, <1>5, <1>6

(* "so this wrapper warns": for any types and any number of calls, once       *)
(* nobody is at it, errorCount is at least the number of lower-case fields    *)
(* through which something got lost and of stale leaves that checkDefault1()  *)
(* reaches: every one of them has been counted by itself.                     *)
THEOREM LossesAreReported == RpcSpec => []LossIsReported
<1>1. RpcInv => LossIsReported
  <2> SUFFICES ASSUME RpcInv, \A th \in CallThreads : work[th] = <<>>
               PROVE  errorCount >= Cardinality(Losses)
    BY DEF LossIsReported, Busy
  <2>1. checked \in SUBSET Types /\ errorCount \in Nat /\ GobTypeOK /\ ValueInv /\ CriesInv /\ SeenInv
    BY DEF RpcInv, GobInv, GobTypeOK
  <2>2. \A t : Seen(t) => t \in checked
    BY DEF Seen
  <2>3. \A t \in checked : \A i \in DOMAIN Parts[t] : Parts[t][i] \in checked
    BY <2>1, <2>2 DEF SeenInv
  <2>4. /\ errorCount = SumOver(LowerOf, checked) + SumOver(StaleOf, Decoded)
        /\ SumOver(LowerOf, checked) \in Nat /\ SumOver(StaleOf, Decoded) \in Nat
    <3>1. SumOver(PendingOf, CallThreads) = 0
      BY NobodyPending
    <3> QED
      BY <2>1, <3>1, OtherSums DEF CriesInv
  <2> DEFINE L == LowerSet(checked)
             S == UNION {StalePairs[c] : c \in Decoded}
  <2>5. Losses \subseteq L \cup S
    <3>1. ASSUME NEW x \in LossyFields(ArgsType, UNION {ArgsDiffer(c) : c \in Calls}) PROVE x \in L
      <4>1. PICK c \in Calls : \E p \in ArgsDiffer(c) : x \in LowerFields(ArgsType, p)
        BY <3>1 DEF LossyFields
      <4>2. PICK p \in ArgsDiffer(c) : x \in LowerFields(ArgsType, p)
        BY <4>1
      <4>3. p \in Leaves(TRUE, ArgsType) /\ ArgsType \in checked
        BY <2>2, <4>2, DifferAre
      <4> QED
        BY <2>1, <2>3, <4>2, <4>3, LowerFieldsIn
    <3>2. ASSUME NEW x \in LossyFields(ReplyType, UNION {ReplyDiffers(c) : c \in Calls}) PROVE x \in L
      <4>1. PICK c \in Calls : \E p \in ReplyDiffers(c) : x \in LowerFields(ReplyType, p)
        BY <3>2 DEF LossyFields
      <4>2. PICK p \in ReplyDiffers(c) : x \in LowerFields(ReplyType, p)
        BY <4>1
      <4>3. p \in Leaves(TRUE, ReplyType) /\ ReplyType \in checked
        BY <2>2, <4>2, DifferAre
      <4> QED
        BY <2>1, <2>3, <4>2, <4>3, LowerFieldsIn
    <3>3. ASSUME NEW x \in UNION {StaleLeaves(c) : c \in Calls} PROVE x \in S
      <4>1. PICK c \in Calls : x \in StaleLeaves(c)
        BY <3>3
      <4>2. PICK p \in ReplyDiffers(c) \cap NonDefault(ReplyType, old[c]) : x = <<c, p>>
        BY <4>1 DEF StaleLeaves
      <4>3. c \in Decoded
        BY <4>2, DifferAre
      <4>4. x \in StalePairs[c]
        BY <4>2 DEF StalePairs
      <4> QED
        BY <4>3, <4>4
    <3> HIDE DEF L, S
    <3> QED
      BY <3>1, <3>2, <3>3 DEF Losses
  <2>6. IsFiniteSet(L) /\ Cardinality(L) <= SumOver(LowerOf, checked)
    BY <2>1, LowerSetCount DEF LowerOf
  <2>7. IsFiniteSet(S) /\ Cardinality(S) <= SumOver(StaleOf, Decoded)
    <3> DEFINE w == StaleOf
               G == StalePairs
    <3>1. IsFiniteSet(Decoded)
      BY CallAssumption, FS_Subset DEF Decoded
    <3>2. ASSUME NEW c \in Decoded PROVE w[c] \in Nat /\ IsFiniteSet(G[c]) /\ Cardinality(G[c]) <= w[c]
      <4>1. c \in Calls /\ old[c] \in OldReplies
        BY <2>1 DEF Decoded, ValueInv
      <4> DEFINE T == NonDefault(ReplyType, old[c])
      <4>2. w[c] = Cardinality(T) /\ G[c] = {<<c, p>> : p \in T}
        BY <4>1 DEF StaleOf, StalePairs
      <4>3. IsFiniteSet(T) /\ Cardinality(T) \in Nat
        BY <4>1, StaleIsNat
      <4> HIDE DEF T, w, G
      <4>4. IsFiniteSet(G[c]) /\ Cardinality(G[c]) <= Cardinality(T)
        BY <4>2, <4>3, PairsCount
      <4> QED
        BY <4>2, <4>3, <4>4
    <3> HIDE DEF w, G
    <3>3. IsFiniteSet(UNION {G[c] : c \in Decoded}) /\ Cardinality(UNION {G[c] : c \in Decoded}) <= SumOver(w, Decoded)
      BY <3>1, <3>2, CoverCount
    <3> QED
      BY <3>3 DEF w, G
  <2> HIDE DEF L, S
  <2>8. /\ IsFiniteSet(L \cup S) /\ Cardinality(L \cup S) = Cardinality(L) + Cardinality(S) - Cardinality(L \cap S)
        /\ Cardinality(L) \in Nat /\ Cardinality(S) \in Nat /\ Cardinality(L \cap S) \in Nat
    BY <2>6, <2>7, FS_Union, FS_Subset, FS_CardinalityType
  <2>9. Cardinality(Losses) <= Cardinality(L \cup S) /\ Cardinality(Losses) \in Nat
    BY <2>5, <2>8, FS_Subset, FS_CardinalityType
  <2> QED
    BY <2>4, <2>6, <2>7, <2>8, <2>9
<1> QED
  BY <1>1, RpcInvariance, PTL
=============================================================================

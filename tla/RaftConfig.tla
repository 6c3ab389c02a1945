----------------------------- MODULE RaftConfig -----------------------------
(***************************************************************************)
(* lab2/raft/config.go: the harness that starts, crashes, restarts,        *)
(* connects and disconnects Raft peers on the simulated network, and       *)
(* carries their persistent state from one incarnation to the next.  One   *)
(* thread, the test, runs its operations; calls and handlers of every      *)
(* incarnation, killed ones included, go on concurrently with it.          *)
(*                                                                         *)
(* Raft itself (raft.go) is left to be written in the repository; external *)
(* here.  Its RPC handlers are modelled as the harness requires them: a    *)
(* handler saves its update in the Persister of its incarnation, in either *)
(* of the two ways the Persister offers, before it returns.                *)
(*                                                                         *)
(* cfg.saved[i] is the very Persister given to the running incarnation     *)
(* (owned[i] = FALSE) or an object nobody else refers to (owned[i] = TRUE, *)
(* contents saved[i]).                                                     *)
(***************************************************************************)
EXTENDS Labrpc, Persister

VARIABLES
    dpc,        \* control point of the test thread
    dnode,      \* the node it is working on
    dstart,     \* crash1() was called by start1()
    todo,       \* client ends connect()/disconnect() has yet to enable/disable
    raftlog,    \* local variable of crash1()
    connected,  \* cfg.connected
    endnames,   \* cfg.endnames, as the incarnation the ends belong to (0: nil)
    rafts,      \* cfg.rafts[i] # nil
    inc,        \* incarnations of the node made so far
    disk,       \* contents of the Persister given to each incarnation
    saved,      \* contents of cfg.saved[i] where the harness owns it
    owned       \* see above

driverVars == <<dpc, dnode, dstart, todo, raftlog>>
linkVars == <<connected, endnames>>
storeVars == <<rafts, inc, disk, saved, owned>>
cfgVars == <<driverVars, linkVars, storeVars>>
vars == <<netVars, cfgVars>>

TypeOK ==
    /\ LabrpcTypeOK
    /\ dpc \in {"idle", "connect", "disconnect", "crash", "delete", "copy", "kill",
                "readState", "readSnapshot", "ends", "make", "add", "over"}
    /\ dnode \in Nodes
    /\ dstart \in BOOLEAN
    /\ todo \in SUBSET Ends
    /\ raftlog \in SUBSET Calls
    /\ connected \in [Nodes -> BOOLEAN]
    /\ endnames \in [Nodes -> Incs \cup {0}]
    /\ rafts \in [Nodes -> BOOLEAN]
    /\ inc \in [Nodes -> Incs \cup {0}]
    /\ disk \in [Nodes -> [Incs -> PersisterType(Calls)]]
    /\ saved \in [Nodes -> PersisterType(Calls)]
    /\ owned \in [Nodes -> BOOLEAN]

\* make_config() before its loop over start1(): the test may then start and
\* connect the nodes in any order.
Init ==
    /\ LabrpcInit
    /\ dpc = "idle" /\ dnode \in Nodes /\ dstart = FALSE /\ todo = {} /\ raftlog = {}
    /\ connected = [i \in Nodes |-> FALSE]
    /\ endnames = [i \in Nodes |-> 0]
    /\ rafts = [i \in Nodes |-> FALSE]
    /\ inc = [i \in Nodes |-> 0]
    /\ disk = [i \in Nodes |-> [k \in Incs |-> MakePersister]]
    /\ saved = [i \in Nodes |-> MakePersister]
    /\ owned = [i \in Nodes |-> TRUE]

\* The client ends in use from node i and to node i.
Outgoing(i) == {e \in Ends : e[1] = i /\ e[2] = endnames[i]}
Incoming(i) == {e \in Ends : e[3] = i /\ e[2] = endnames[e[1]]}

\* *cfg.saved[i]
Saved(i) == IF owned[i] THEN saved[i] ELSE disk[i][inc[i]]

-----------------------------------------------------------------------------
(* connect(i) and disconnect(i): a flag, then one Enable() after another.  *)

\* Mutant of Connect: the loop over the incoming ClientEnds is missing.
ConnectOutgoing(i) ==
    /\ dpc = "idle" /\ rafts[i]
    /\ dpc' = "connect"
    /\ dnode' = i
    /\ connected' = [connected EXCEPT ![i] = TRUE]
    /\ todo' = {e \in Outgoing(i) : connected'[e[3]]}
    /\ UNCHANGED <<netVars, dstart, raftlog, endnames, storeVars>>

Connect(i) ==
    /\ dpc = "idle" /\ rafts[i]
    /\ dpc' = "connect"
    /\ dnode' = i
    /\ connected' = [connected EXCEPT ![i] = TRUE]
    /\ todo' = {e \in Outgoing(i) : connected'[e[3]]} \cup
               {e \in Incoming(i) : connected'[e[1]]}
    /\ UNCHANGED <<netVars, dstart, raftlog, endnames, storeVars>>

ConnectStep ==
    /\ dpc = "connect"
    /\ \E e \in todo : Enable({e}, TRUE) /\ todo' = todo \ {e}
    /\ UNCHANGED <<servers, flagVars, netDone, loopDone, callVars,
                   dpc, dnode, dstart, raftlog, linkVars, storeVars>>

ConnectDone ==
    /\ dpc = "connect" /\ todo = {}
    /\ dpc' = "idle"
    /\ UNCHANGED <<netVars, dnode, dstart, todo, raftlog, linkVars, storeVars>>

\* Mutant of StartDisconnect: the loop over the outgoing ClientEnds is missing.
StartDisconnectIncoming(i, then) ==
    /\ dpc = "idle"
    /\ dpc' = then
    /\ dnode' = i
    /\ connected' = [connected EXCEPT ![i] = FALSE]
    /\ todo' = Incoming(i)
    /\ UNCHANGED <<netVars, raftlog, endnames, storeVars>>

\* disconnect(i) called by the test, or as the first thing crash1(i) does.
StartDisconnect(i, then) ==
    /\ dpc = "idle"
    /\ dpc' = then
    /\ dnode' = i
    /\ connected' = [connected EXCEPT ![i] = FALSE]
    /\ todo' = Outgoing(i) \cup Incoming(i)
    /\ UNCHANGED <<netVars, raftlog, endnames, storeVars>>

Disconnect(i) == StartDisconnect(i, "disconnect") /\ rafts[i] /\ dstart' = FALSE

DisconnectStep ==
    /\ dpc \in {"disconnect", "crash"}
    /\ \E e \in todo : Enable({e}, FALSE) /\ todo' = todo \ {e}
    /\ UNCHANGED <<servers, flagVars, netDone, loopDone, callVars,
                   dpc, dnode, dstart, raftlog, linkVars, storeVars>>

DisconnectDone ==
    /\ dpc \in {"disconnect", "crash"} /\ todo = {}
    /\ dpc' = IF dpc = "crash" THEN "delete" ELSE "idle"
    /\ UNCHANGED <<netVars, dnode, dstart, todo, raftlog, linkVars, storeVars>>

-----------------------------------------------------------------------------
(* crash1(i), called by the test or by start1(i).                          *)

Crash(i) == StartDisconnect(i, "crash") /\ rafts[i] /\ dstart' = FALSE

Start(i) == StartDisconnect(i, "crash") /\ inc[i] < MaxIncarnation /\ dstart' = TRUE

CrashDelete ==
    /\ dpc = "delete"
    /\ DeleteServer(dnode)
    /\ dpc' = "copy"
    /\ UNCHANGED <<enabled, flagVars, netDone, loopDone, callVars,
                   dnode, dstart, todo, raftlog, linkVars, storeVars>>

\* Mutant of CrashCopy: the Persister is not copied before it is read.
CrashCopySkipped ==
    /\ dpc = "copy"
    /\ dpc' = "kill"
    /\ UNCHANGED <<netVars, dnode, dstart, todo, raftlog, linkVars, storeVars>>

\* cfg.saved[i] = cfg.saved[i].Copy()
CrashCopy ==
    /\ dpc = "copy"
    /\ saved' = [saved EXCEPT ![dnode] = Copy(Saved(dnode))]
    /\ owned' = [owned EXCEPT ![dnode] = TRUE]
    /\ dpc' = "kill"
    /\ UNCHANGED <<netVars, dnode, dstart, todo, raftlog, linkVars, rafts, inc, disk>>

\* rf.Kill() only sets a flag: the killed incarnation's threads go on.
CrashKill ==
    /\ dpc = "kill"
    /\ rafts' = [rafts EXCEPT ![dnode] = FALSE]
    /\ dpc' = "readState"
    /\ UNCHANGED <<netVars, dnode, dstart, todo, raftlog, linkVars, inc, disk, saved, owned>>

CrashReadState ==
    /\ dpc = "readState"
    /\ raftlog' = ReadRaftState(Saved(dnode))
    /\ dpc' = "readSnapshot"
    /\ UNCHANGED <<netVars, dnode, dstart, todo, linkVars, storeVars>>

\* ReadSnapshot, and the fresh Persister with both halves in it.
CrashReadSnapshot ==
    /\ dpc = "readSnapshot"
    /\ saved' = [saved EXCEPT ![dnode] =
                   SaveStateAndSnapshot(MakePersister, raftlog, ReadSnapshot(Saved(dnode)))]
    /\ owned' = [owned EXCEPT ![dnode] = TRUE]
    /\ raftlog' = {}
    /\ dpc' = IF dstart THEN "ends" ELSE "idle"
    /\ UNCHANGED <<netVars, dnode, dstart, todo, linkVars, rafts, inc, disk>>

-----------------------------------------------------------------------------
(* start1(i), after its crash1(i)                                          *)

\* Fresh names, MakeEnd() and Connect() for each: created disabled, and in
\* nobody's hands before Make().
StartEnds ==
    /\ dpc = "ends"
    /\ endnames' = [endnames EXCEPT ![dnode] = inc[dnode] + 1]
    /\ dpc' = "make"
    /\ UNCHANGED <<netVars, dnode, dstart, todo, raftlog, connected, storeVars>>

\* Copy() once more, Make() with the copy, and cfg.rafts[i] = rf.
StartMake ==
    /\ dpc = "make"
    /\ inc' = [inc EXCEPT ![dnode] = @ + 1]
    /\ disk' = [disk EXCEPT ![dnode][inc[dnode] + 1] = Copy(Saved(dnode))]
    /\ owned' = [owned EXCEPT ![dnode] = FALSE]
    /\ rafts' = [rafts EXCEPT ![dnode] = TRUE]
    /\ dpc' = "add"
    /\ UNCHANGED <<netVars, dnode, dstart, todo, raftlog, linkVars, saved>>

StartAddServer ==
    /\ dpc = "add"
    /\ AddServer(dnode, inc[dnode])
    /\ dpc' = "idle"
    /\ UNCHANGED <<enabled, flagVars, netDone, loopDone, callVars,
                   dnode, dstart, todo, raftlog, linkVars, storeVars>>

-----------------------------------------------------------------------------
(* setunreliable(), setlongreordering(), cleanup()                         *)

SetFlags ==
    /\ dpc = "idle"
    /\ \E yes \in BOOLEAN :
        \/ Reliable(yes) /\ UNCHANGED longReordering
        \/ LongReordering(yes) /\ UNCHANGED reliable
    /\ UNCHANGED <<enabled, servers, netDone, loopDone, callVars, cfgVars>>

\* Kill every Raft that runs, then net.Cleanup().
CleanupConfig ==
    /\ dpc = "idle"
    /\ Cleanup
    /\ dpc' = "over"
    /\ UNCHANGED <<enabled, servers, flagVars, loopDone, callVars,
                   dnode, dstart, todo, raftlog, linkVars, storeVars>>

-----------------------------------------------------------------------------
(* Raft peers (external): calls they make, handlers they run.              *)

\* Any incarnation made so far, also a killed one, uses one of its ends.
PeerCall(c, e) ==
    /\ e[2] <= inc[e[1]]
    /\ CallSend(c, e)
    /\ UNCHANGED cfgVars

HandlerStore(c, ps) ==
    /\ hpc[c] = "running"
    /\ hpc' = [hpc EXCEPT ![c] = "saved"]
    /\ disk' = [disk EXCEPT ![Dest(c)][cserver[c]] = ps]
    /\ UNCHANGED <<cpc, cend, cserver, creliable, clong,
                   driverVars, linkVars, rafts, inc, saved, owned>>
    /\ KeepNet

HandlerSave(c) ==
    LET ps == disk[Dest(c)][cserver[c]]
        state == ps.raftstate \cup {c}
    IN  \/ HandlerStore(c, SaveRaftState(ps, state))
        \/ HandlerStore(c, SaveStateAndSnapshot(ps, state, state))

HandlerReturn(c) ==
    /\ hpc[c] = "saved"
    /\ hpc' = [hpc EXCEPT ![c] = "returned"]
    /\ UNCHANGED <<cpc, cend, cserver, creliable, clong, cfgVars>>
    /\ KeepNet

-----------------------------------------------------------------------------
DriverStep ==
    \/ ConnectStep \/ ConnectDone \/ DisconnectStep \/ DisconnectDone
    \/ CrashDelete \/ CrashCopy \/ CrashKill \/ CrashReadState \/ CrashReadSnapshot
    \/ StartEnds \/ StartMake \/ StartAddServer

Next ==
    \/ DriverStep
    \/ \E i \in Nodes : Connect(i) \/ Disconnect(i) \/ Crash(i) \/ Start(i)
    \/ SetFlags \/ CleanupConfig
    \/ \E c \in Calls : \E e \in Ends : PeerCall(c, e)
    \/ \E c \in Calls : RpcStep(c) /\ UNCHANGED cfgVars
    \/ \E c \in Calls : HandlerSave(c) \/ HandlerReturn(c)
    \/ LoopExit /\ UNCHANGED cfgVars

Spec == Init /\ [][Next]_vars

-----------------------------------------------------------------------------
(* Properties                                                              *)

\* A client that got a positive reply can rely on it: the update is in the
\* state that the harness holds for the node and will pass to Make(), however
\* many crashes and restarts overlap with the call (labrpc.go's comment on the
\* second isServerDead(), crash1()'s order of DeleteServer() and Copy()).
AckedPersisted ==
    \A c \in Calls : cpc[c] = "true" => c \in Saved(Dest(c)).raftstate

\* "Save both Raft state and K/V snapshot as a single atomic action, to help
\* avoid them getting out of sync": the pair the harness carries over is never
\* one half from before and one from after a save, although crash1() reads the
\* two halves separately while the old incarnation may go on saving.
NeverTorn ==
    \A i \in Nodes : Saved(i).snapshot \subseteq Saved(i).raftstate

\* Between two operations of the test a link works in both directions exactly
\* if both of its nodes are connected.
LinksMatchConnected ==
    dpc = "idle" => \A i \in Nodes : \A e \in Outgoing(i) :
        enabled[e] = (connected[i] /\ connected[e[3]])

\* "so that old crashed instance's ClientEnds can't send": the end of an
\* incarnation that has been replaced is disabled for ever.
OldEndsDisabled ==
    \A e \in Ends : e[2] < endnames[e[1]] => ~enabled[e]
=============================================================================

------------------------------- MODULE Labrpc -------------------------------
(***************************************************************************)
(* lab2/labrpc/labrpc.go: the simulated network.                           *)
(*                                                                         *)
(* ClientEnd.Call() hands a request to the network's dispatch loop, which  *)
(* starts processReq() in a goroutine of its own; that one looks up the    *)
(* client end, may drop the request, runs the handler in yet another       *)
(* goroutine, polls whether the server was deleted meanwhile, and answers. *)
(* A call slot c \in Calls stands for one Call(); its arguments, reply     *)
(* bytes and the statistics counters are left out.                         *)
(*                                                                         *)
(* A server name is a node; the *Server registered under it is identified  *)
(* by the incarnation of the node that made it (0: none).  A client end    *)
(* <<i, k, j>> is the one incarnation k of node i uses to talk to node j.  *)
(***************************************************************************)
EXTENDS Naturals

CONSTANTS Nodes,          \* server names
          Calls,          \* the RPCs of a behaviour
          MaxIncarnation  \* bound: times a node is started

ASSUME IncarnationAssumption == MaxIncarnation \in Nat

Incs == 1 .. MaxIncarnation
Ends == Nodes \X Incs \X Nodes
NoEnd == <<>>

VARIABLES
    enabled,         \* rn.enabled
    servers,         \* rn.servers
    reliable,        \* rn.reliable
    longReordering,  \* rn.longReordering
    netDone,         \* rn.done is closed
    loopDone,        \* the dispatch loop has returned
    cpc,             \* control point of each Call() / processReq()
    cend,            \* req.endname
    cserver,         \* server, as processReq() read it
    creliable,       \* reliable, as processReq() read it
    clong,           \* longreordering, as processReq() read it
    hpc              \* control point of the handler goroutine

flagVars == <<reliable, longReordering>>
callVars == <<cpc, cend, cserver, creliable, clong, hpc>>
netVars == <<enabled, servers, flagVars, netDone, loopDone, callVars>>

LabrpcTypeOK ==
    /\ enabled \in [Ends -> BOOLEAN]
    /\ servers \in [Nodes -> Incs \cup {0}]
    /\ reliable \in BOOLEAN /\ longReordering \in BOOLEAN
    /\ netDone \in BOOLEAN /\ loopDone \in BOOLEAN
    /\ cpc \in [Calls -> {"idle", "sending", "sent", "accepted", "waiting", "got",
                          "replying", "delayed", "failing", "true", "false"}]
    /\ cend \in [Calls -> Ends \cup {NoEnd}]
    /\ cserver \in [Calls -> Incs \cup {0}]
    /\ creliable \in [Calls -> BOOLEAN]
    /\ clong \in [Calls -> BOOLEAN]
    /\ hpc \in [Calls -> {"none", "running", "saved", "returned"}]

\* MakeNetwork(): reliable, no ends, no servers.  An end that MakeEnd() has
\* not created yet is not distinguished from a disabled one.
LabrpcInit ==
    /\ enabled = [e \in Ends |-> FALSE]
    /\ servers = [i \in Nodes |-> 0]
    /\ reliable = TRUE /\ longReordering = FALSE
    /\ netDone = FALSE /\ loopDone = FALSE
    /\ cpc = [c \in Calls |-> "idle"]
    /\ cend = [c \in Calls |-> NoEnd]
    /\ cserver = [c \in Calls |-> 0]
    /\ creliable = [c \in Calls |-> TRUE]
    /\ clong = [c \in Calls |-> FALSE]
    /\ hpc = [c \in Calls |-> "none"]

-----------------------------------------------------------------------------
(* ClientEnd.Call() and the dispatch loop of MakeNetwork()                 *)

Goto(c, from, to) ==
    /\ cpc[c] = from
    /\ cpc' = [cpc EXCEPT ![c] = to]

KeepNet == UNCHANGED <<enabled, servers, flagVars, netDone, loopDone>>
KeepRest == KeepNet /\ UNCHANGED <<cend, cserver, creliable, clong, hpc>>

CallSend(c, e) ==
    /\ Goto(c, "idle", "sending")
    /\ cend' = [cend EXCEPT ![c] = e]
    /\ KeepNet /\ UNCHANGED <<cserver, creliable, clong, hpc>>

CallAborted(c) ==
    /\ netDone
    /\ Goto(c, "sending", "false")
    /\ KeepRest

Dispatch(c) ==
    /\ ~loopDone
    /\ Goto(c, "sending", "sent")
    /\ KeepRest

LoopExit ==
    /\ netDone /\ ~loopDone
    /\ loopDone' = TRUE
    /\ UNCHANGED <<enabled, servers, flagVars, netDone, callVars>>

-----------------------------------------------------------------------------
(* processReq()                                                            *)

Dest(c) == cend[c][3]

\* readEndnameInfo() finds the end enabled and a server behind it.
Accept(c) ==
    /\ Goto(c, "sent", "accepted")
    /\ enabled[cend[c]] /\ servers[Dest(c)] # 0
    /\ cserver' = [cserver EXCEPT ![c] = servers[Dest(c)]]
    /\ creliable' = [creliable EXCEPT ![c] = reliable]
    /\ clong' = [clong EXCEPT ![c] = longReordering]
    /\ KeepNet /\ UNCHANGED <<cend, hpc>>

Refuse(c) ==
    /\ Goto(c, "sent", "failing")
    /\ ~(enabled[cend[c]] /\ servers[Dest(c)] # 0)
    /\ KeepRest

DropRequest(c) ==
    /\ ~creliable[c]
    /\ Goto(c, "accepted", "failing")
    /\ KeepRest

StartHandler(c) ==
    /\ Goto(c, "accepted", "waiting")
    /\ hpc' = [hpc EXCEPT ![c] = "running"]
    /\ KeepNet /\ UNCHANGED <<cend, cserver, creliable, clong>>

IsServerDead(c) == ~enabled[cend[c]] \/ servers[Dest(c)] # cserver[c]

\* reply = <-ech
GetReply(c) ==
    /\ hpc[c] = "returned"
    /\ Goto(c, "waiting", "got")
    /\ KeepRest

\* Mutant of PollDead: only a replaced server counts as dead, not a disabled end.
PollReplaced(c) ==
    /\ Goto(c, "waiting", "failing")
    /\ servers[Dest(c)] # cserver[c]
    /\ KeepRest

\* Mutant of PollDead: the request is sent again instead of failed.
PollRetry(c) ==
    /\ Goto(c, "waiting", "sent")
    /\ IsServerDead(c)
    /\ KeepRest

\* The 100 ms timer fires and finds the server dead; ech is drained.
PollDead(c) ==
    /\ Goto(c, "waiting", "failing")
    /\ IsServerDead(c)
    /\ KeepRest

\* Mutant of CheckReply: the second isServerDead(), after the handler
\* returned, is left out.
CheckReplyBlindly(c) ==
    /\ Goto(c, "got", "replying")
    /\ KeepRest

\* "do not reply if DeleteServer() has been called"
CheckReply(c) ==
    /\ \/ Goto(c, "got", "failing") /\ IsServerDead(c)
       \/ Goto(c, "got", "replying") /\ ~IsServerDead(c)
    /\ KeepRest

DropReply(c) ==
    /\ ~creliable[c]
    /\ Goto(c, "replying", "failing")
    /\ KeepRest

DelayReply(c) ==
    /\ clong[c]
    /\ Goto(c, "replying", "delayed")
    /\ KeepRest

\* req.replyCh <- reply, at once or from the timer: Call() returns true.
Deliver(c) ==
    /\ Goto(c, "replying", "true") \/ Goto(c, "delayed", "true")
    /\ KeepRest

\* req.replyCh <- replyMsg{false, nil}: Call() returns false.
FailReply(c) ==
    /\ Goto(c, "failing", "false")
    /\ KeepRest

\* The steps of the network and of Call() once it is under way.
RpcStep(c) ==
    \/ CallAborted(c) \/ Dispatch(c)
    \/ Accept(c) \/ Refuse(c) \/ DropRequest(c) \/ StartHandler(c)
    \/ GetReply(c) \/ PollDead(c) \/ CheckReply(c)
    \/ DropReply(c) \/ DelayReply(c) \/ Deliver(c) \/ FailReply(c)

-----------------------------------------------------------------------------
(* The network's control operations                                        *)

Enable(E, on) == enabled' = [e \in Ends |-> IF e \in E THEN on ELSE enabled[e]]
DeleteServer(i) == servers' = [servers EXCEPT ![i] = 0]
AddServer(i, k) == servers' = [servers EXCEPT ![i] = k]
Reliable(yes) == reliable' = yes
LongReordering(yes) == longReordering' = yes
Cleanup == netDone' = TRUE
=============================================================================

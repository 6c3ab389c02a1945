----------------------------- MODULE LabrpcCall -----------------------------
(***************************************************************************)
(* ClientEnd.Call() from end to end: Labrpc's network, the dispatch to a   *)
(* method of a service, and what labgob makes of arguments and replies.    *)
(* The network's owner, config.go or any other test, makes, connects and   *)
(* enables client ends and adds and deletes servers in any order.          *)
(*                                                                         *)
(* A call's two goroutines, the caller's and the handler's, check types    *)
(* concurrently with each other and with every other call.  Methods are    *)
(* external: they read their arguments and write some reply.               *)
(***************************************************************************)
EXTENDS Labrpc, Labgob

CONSTANTS ArgsType, ReplyType,  \* pointers to the structs a method takes
          DecodeType,           \* reflect.New(req.argsType): pointer to ArgsType
          Methods,              \* what reflection says of the receiver's methods
          Called,               \* names that calls ask for
          Registered,           \* types that are registered
          MaxChanges,           \* bound on the owner's operations
          ArgValues, ReplyValues, OldReplies

Client(c) == <<"client", c>>
Handler(c) == <<"handler", c>>
Main == <<"main">>
CallThreads == {Client(c) : c \in Calls} \cup {Handler(c) : c \in Calls} \cup {Main}

\* Arguments and replies are values of the types that the calls are made with.
ASSUME CallAssumption ==
    /\ IsFiniteSet(Calls) /\ CallThreads \subseteq Threads
    /\ {ArgsType, ReplyType, DecodeType} \cup Registered \subseteq Types
    /\ ArgValues \subseteq SUBSET Leaves(TRUE, ArgsType)
    /\ ReplyValues \cup OldReplies \subseteq SUBSET Leaves(TRUE, ReplyType)

VARIABLES
    made, connections,  \* keys of rn.ends; ends connected to their server
    changes,            \* operations of the owner so far
    count,              \* rn.count
    scount,             \* count of each *Server
    fatal,              \* log.Fatalf() or a panic has ended the process
    stage,              \* the caller: start, encoding, sent, decoding, done
    hstage,             \* the handler: none, decode, encode
    args, old,          \* *args and *reply when Call() is made
    argsWire, replyWire,
    got, wrote,         \* what the method received and answered
    ran                 \* history: executions of the method

ownerVars == <<made, connections, changes>>
statVars == <<count, scount>>
dataVars == <<args, old, argsWire, replyWire, got, wrote, ran>>
rpcVars == <<netVars, gobVars, ownerVars, statVars, fatal, stage, hstage, dataVars>>

RpcTypeOK ==
    /\ LabrpcTypeOK /\ GobTypeOK
    /\ made \in SUBSET Ends /\ connections \in SUBSET made
    /\ changes \in 0 .. MaxChanges
    /\ count \in 0 .. Cardinality(Calls)
    /\ scount \in [Nodes -> [Incs -> 0 .. Cardinality(Calls)]]
    /\ fatal \in BOOLEAN
    /\ stage \in [Calls -> {"start", "encoding", "sent", "decoding", "done"}]
    /\ hstage \in [Calls -> {"none", "decode", "encode"}]
    /\ \A c \in Calls :
        /\ args[c] \subseteq Leaves(TRUE, ArgsType)
        /\ argsWire[c] \cup got[c] \subseteq Leaves(FALSE, ArgsType)
        /\ old[c] \cup wrote[c] \subseteq Leaves(TRUE, ReplyType)
        /\ replyWire[c] \subseteq Leaves(FALSE, ReplyType)
    /\ ran \in [Calls -> Nat]

RpcInit ==
    /\ LabrpcInit /\ GobInit
    /\ made = {} /\ connections = {} /\ changes = 0
    /\ count = 0 /\ scount = [i \in Nodes |-> [k \in Incs |-> 0]]
    /\ fatal = FALSE
    /\ stage = [c \in Calls |-> "start"] /\ hstage = [c \in Calls |-> "none"]
    /\ args \in [Calls -> ArgValues] /\ old \in [Calls -> OldReplies]
    /\ argsWire = [c \in Calls |-> {}] /\ replyWire = [c \in Calls |-> {}]
    /\ got = [c \in Calls |-> {}] /\ wrote = [c \in Calls |-> {}]
    /\ ran = [c \in Calls |-> 0]

-----------------------------------------------------------------------------
(* The owner of the network                                                *)

MakeEnd(e) ==
    /\ e \notin made
    /\ made' = made \cup {e}
    /\ Enable({e}, FALSE)
    /\ UNCHANGED <<servers, flagVars, netDone, connections>>

ConnectEnd(e) ==
    /\ e \in made \ connections
    /\ connections' = connections \cup {e}
    /\ UNCHANGED <<enabled, servers, flagVars, netDone, made>>

OwnerEnable(e, on) ==
    /\ e \in made /\ enabled[e] # on
    /\ Enable({e}, on)
    /\ UNCHANGED <<servers, flagVars, netDone, made, connections>>

\* Each *Server has one service; a deleted one may be added again.
OwnerServer(i) ==
    /\ \/ servers[i] # 0 /\ DeleteServer(i)
       \/ \E k \in Incs : servers[i] < k /\ AddServer(i, k)
    /\ UNCHANGED <<enabled, flagVars, netDone, made, connections>>

OwnerFlags ==
    /\ \/ Reliable(~reliable) /\ UNCHANGED <<longReordering, netDone>>
       \/ LongReordering(~longReordering) /\ UNCHANGED <<reliable, netDone>>
       \/ Cleanup /\ ~netDone /\ UNCHANGED flagVars
    /\ UNCHANGED <<enabled, servers, made, connections>>

Owner ==
    /\ changes < MaxChanges
    /\ changes' = changes + 1
    /\ \/ \E e \in Ends : MakeEnd(e) \/ ConnectEnd(e) \/ \E on \in BOOLEAN : OwnerEnable(e, on)
       \/ \E i \in Nodes : OwnerServer(i)
       \/ OwnerFlags
    /\ UNCHANGED <<loopDone, callVars, gobVars, statVars, fatal, stage, hstage, dataVars>>

\* labgob.Register() and RegisterName() of a type that interfaces hold.
Register(t) ==
    /\ ~Busy(Main) /\ t \notin checked
    /\ checkValue(Main, t)
    /\ UNCHANGED <<netVars, checked, errorCount, ownerVars, statVars, fatal, stage, hstage, dataVars>>

-----------------------------------------------------------------------------
(* Call(), the caller's goroutine                                          *)

KeepOthers == UNCHANGED <<ownerVars, statVars, fatal>>
Stage(c, from, to) == stage[c] = from /\ stage' = [stage EXCEPT ![c] = to]

CallEncode(c) ==
    /\ Stage(c, "start", "encoding")
    /\ checkValue(Client(c), ArgsType)
    /\ KeepOthers /\ UNCHANGED <<netVars, checked, errorCount, hstage, dataVars>>

CallRequest(c, e) ==
    /\ Stage(c, "encoding", "sent") /\ ~Busy(Client(c)) /\ e \in made
    /\ CallSend(c, e)
    /\ argsWire' = [argsWire EXCEPT ![c] = GobEncode(ArgsType, args[c])]
    /\ KeepOthers /\ UNCHANGED <<gobVars, hstage, args, old, replyWire, got, wrote, ran>>

\* rep.ok: decode into *reply, unless checkDefault() panics.
CallDecode(c) ==
    /\ Stage(c, "sent", "decoding") /\ cpc[c] = "true"
    /\ checkDecode(Client(c), ReplyType, old[c])
    /\ fatal' = Panics(ReplyType)
    /\ UNCHANGED <<netVars, checked, errorCount, ownerVars, statVars, hstage, dataVars>>

CallReturn(c) ==
    /\ Stage(c, "decoding", "done") /\ ~Busy(Client(c))
    /\ KeepOthers /\ UNCHANGED <<netVars, gobVars, hstage, dataVars>>

\* *reply once Call() has returned true.
Reply(c) == GobDecode(replyWire[c], old[c])

-----------------------------------------------------------------------------
(* The network, with its count and its connections                         *)

KeepData == UNCHANGED <<gobVars, ownerVars, fatal, stage, hstage, dataVars>>

CountedDispatch(c) ==
    /\ Dispatch(c)
    /\ count' = count + 1
    /\ KeepData /\ UNCHANGED scount

\* readEndnameInfo() of an end without a connection finds no server.
Connected(c) == cend[c] \in connections

NetStep(c) ==
    /\ \/ CallAborted(c)
       \/ Connected(c) /\ Accept(c)
       \/ Refuse(c)
       \/ ~Connected(c) /\ Goto(c, "sent", "failing") /\ KeepRest
       \/ DropRequest(c) \/ StartHandler(c) \/ GetReply(c) \/ PollDead(c)
       \/ CheckReply(c) \/ DropReply(c) \/ DelayReply(c) \/ Deliver(c) \/ FailReply(c)
    /\ KeepData /\ UNCHANGED statVars

-----------------------------------------------------------------------------
(* Server.dispatch() and Service.dispatch(), the handler's goroutine       *)

\* MakeService() keeps the methods that look like handlers.
Suitable(m) == m.exported /\ m.ins = 3 /\ m.ptr /\ m.outs = 0
ServiceMethods == {m.name : m \in {x \in Methods : Suitable(x)}}

\* Count, look the service and the method up, begin to decode into new arguments;
\* log.Fatalf() if there is no such method, and a panic if checkDefault() panics.
ServerDispatch(c, name) ==
    /\ hpc[c] = "running" /\ hstage[c] = "none"
    /\ scount' = [scount EXCEPT ![Dest(c)][cserver[c]] = @ + 1]
    /\ IF name \in ServiceMethods /\ ~Panics(DecodeType)
       THEN /\ hstage' = [hstage EXCEPT ![c] = "decode"]
            /\ checkDecode(Handler(c), DecodeType, {})
            /\ UNCHANGED fatal
       ELSE fatal' = TRUE /\ UNCHANGED <<hstage, work>>
    /\ UNCHANGED <<netVars, checked, errorCount, ownerVars, count, stage, dataVars>>

\* Decode the arguments, call the method, begin to encode its reply.
ServiceCall(c, answer) ==
    /\ hpc[c] = "running" /\ hstage[c] = "decode" /\ ~Busy(Handler(c))
    /\ hstage' = [hstage EXCEPT ![c] = "encode"]
    /\ got' = [got EXCEPT ![c] = GobDecode(argsWire[c], {})]
    /\ wrote' = [wrote EXCEPT ![c] = answer]
    /\ ran' = [ran EXCEPT ![c] = @ + 1]
    /\ checkValue(Handler(c), ReplyType)
    /\ KeepOthers /\ UNCHANGED <<netVars, checked, errorCount, stage, args, old, argsWire, replyWire>>

ServiceReturn(c) ==
    /\ hpc[c] = "running" /\ hstage[c] = "encode" /\ ~Busy(Handler(c))
    /\ hstage' = [hstage EXCEPT ![c] = "none"]
    /\ hpc' = [hpc EXCEPT ![c] = "returned"]
    /\ replyWire' = [replyWire EXCEPT ![c] = GobEncode(ReplyType, wrote[c])]
    /\ KeepNet /\ KeepOthers
    /\ UNCHANGED <<cpc, cend, cserver, creliable, clong, gobVars, stage,
                   args, old, argsWire, got, wrote, ran>>

-----------------------------------------------------------------------------
CheckStep(th) ==
    /\ GobStep(th)
    /\ UNCHANGED <<netVars, ownerVars, statVars, fatal, stage, hstage, dataVars>>

\* What a call does by itself, except for the method it calls.
CallStep(c) ==
    \/ CheckStep(Client(c)) \/ CheckStep(Handler(c))
    \/ CallDecode(c) \/ CallReturn(c) \/ CountedDispatch(c) \/ NetStep(c) \/ ServiceReturn(c)
    \/ \E name \in Called : ServerDispatch(c, name)

RpcNext ==
    /\ ~fatal
    /\ \/ Owner
       \/ \E t \in Registered : Register(t)
       \/ CheckStep(Main)
       \/ \E c \in Calls : CallStep(c) \/ CallEncode(c) \/ \E e \in Ends : CallRequest(c, e)
       \/ \E c \in Calls, answer \in ReplyValues : ServiceCall(c, answer)
       \/ LoopExit /\ KeepData /\ UNCHANGED statVars

RpcSpec == RpcInit /\ [][RpcNext]_rpcVars

\* Goroutines run on; a method need not return.
Fairness ==
    /\ \A c \in Calls :
        /\ WF_rpcVars(~fatal /\ CheckStep(Client(c))) /\ WF_rpcVars(~fatal /\ CheckStep(Handler(c)))
        /\ WF_rpcVars(~fatal /\ (CallDecode(c) \/ CallReturn(c)))
        /\ WF_rpcVars(~fatal /\ \E e \in Ends : CallRequest(c, e))
        /\ WF_rpcVars(~fatal /\ (CountedDispatch(c) \/ NetStep(c)))
        /\ WF_rpcVars(~fatal /\ (ServiceReturn(c) \/ \E name \in Called : ServerDispatch(c, name)))
    /\ WF_rpcVars(~fatal /\ CheckStep(Main))

RpcFairSpec == RpcSpec /\ Fairness

-----------------------------------------------------------------------------
(* Properties                                                              *)

\* What went wrong with the values of the calls: the lower-case fields through
\* which a leaf got lost or was left as it was in *reply, and the stale leaves of
\* *reply that checkDefault1() reaches (no lists, no maps, nothing deeper than 3).
Differ(A, B) == (A \ B) \cup (B \ A)
LossyFields(t, leaves) == UNION {LowerFields(t, p) : p \in leaves}
ArgsDiffer(c) == IF ran[c] > 0 THEN Differ(args[c], got[c]) ELSE {}
ReplyDiffers(c) == IF stage[c] = "done" THEN Differ(wrote[c], Reply(c)) ELSE {}
StaleLeaves(c) == {<<c, p>> : p \in ReplyDiffers(c) \cap NonDefault(ReplyType, old[c])}
Losses ==
    LossyFields(ArgsType, UNION {ArgsDiffer(c) : c \in Calls})
      \cup LossyFields(ReplyType, UNION {ReplyDiffers(c) : c \in Calls})
      \cup UNION {StaleLeaves(c) : c \in Calls}

\* "so this wrapper warns": each of them has been counted, every lower-case field
\* by itself and every stale leaf of every call.  (A thread that skips a checked
\* type may be ahead of the one that is still looking at it, so a count may be
\* missing while some thread is at it.)
LossIsReported ==
    errorCount >= Cardinality(Losses) \/ \E th \in CallThreads : Busy(th)

\* "only complain once": a lower-case field is counted once per type and a stale
\* value once per Decode(), however many threads come across the type at once.
ComplainsOnce ==
    LET decoded == {c \in Calls : stage[c] \in {"decoding", "done"}}
    IN  errorCount + MapThenSumSet(Pending, CallThreads) =
            MapThenSumSet(LowerCase, checked)
              + MapThenSumSet(LAMBDA c : Cardinality(NonDefault(ReplyType, old[c])), decoded)

\* Call() is at most once: AtMostOnceRpc.
Phase(c) ==
    IF stage[c] = "start" THEN "idle"
    ELSE IF stage[c] = "done" THEN "ok"
    ELSE IF cpc[c] = "false" THEN "failed" ELSE "pending"

Rpc == INSTANCE AtMostOnceRpc WITH phase <- [c \in Calls |-> Phase(c)], runs <- ran
AtMostOnce == Rpc!Spec

\* Call() returns unless its method has not returned at a live server, whatever
\* the types are (recursive ones too), however ends and servers come and go, and
\* also when Cleanup() is called meanwhile.
CallReturns ==
    \A c \in Calls :
        []<>(\/ fatal \/ stage[c] \in {"start", "done"} \/ cpc[c] = "false" \/ made = {}
             \/ cpc[c] = "waiting" /\ hstage[c] = "decode" /\ ~Busy(Handler(c)) /\ ~IsServerDead(c))
=============================================================================

--------------------------- MODULE TestClientPool ---------------------------
(***************************************************************************)
(* lab4/kv/test/test_clientpool.go: clients that reach servers of the same *)
(* process, answer in their place, fail or delay requests on demand, and   *)
(* count the requests.                                                     *)
(*                                                                         *)
(* A request holds the read lock of its TestClient from its beginning to   *)
(* its end, injected sleep and server included; every override takes the   *)
(* write lock.  The pool's own mutex is only ever written by the one       *)
(* thread of the test, so a method of the pool is one step, up to the      *)
(* TestClient's lock if it goes on to take that.                           *)
(***************************************************************************)
EXTENDS Naturals, FiniteSets

CONSTANTS Callers,    \* threads that send requests: Kv's callers and servers
          Tester,     \* the thread of the test
          NoThread,
          Targets,    \* keys of cp.nodes
          Methods,    \* methods of TestClient called
          MaxSent     \* bound on the requests between two resets of the count

ASSUME PoolThreadsAssumption ==
    /\ Tester \notin Callers /\ NoThread \notin Callers \cup {Tester}
ASSUME MethodsAssumption == Methods \subseteq {"Get", "Set", "Delete", "GetShardContents"}
ASSUME SentAssumption == MaxSent \in Nat

VARIABLES
    setUp,            \* cp.nodes is there
    serverImpls,      \* the TestClients have servers
    getClientErrors,  \* keys of cp.getClientErrors
    overrides,        \* per TestClient: the fields that are not nil
    clientMutex,      \* its mutex
    requestsSent,     \* its count
    request,          \* per caller: control point, arguments, answer
    override          \* <<client, what>> while the test waits for a client's lock

poolVars == <<setUp, serverImpls, getClientErrors, overrides, clientMutex, requestsSent,
              request, override>>

CM == INSTANCE RWMutex WITH Threads <- Callers \cup {Tester}, Nobody <- NoThread

\* latencyInjection is left out: any request may take any time.
Fields == Methods \cup {"err"}
Answers == {"none", "no client", "error", "override", "server", "panic"}
Done(answer) == [pc |-> "idle", answer |-> answer]

PoolTypeOK ==
    /\ setUp \in BOOLEAN /\ serverImpls \in BOOLEAN
    /\ getClientErrors \in SUBSET Targets
    /\ overrides \in [Targets -> SUBSET Fields]
    /\ clientMutex \in [Targets -> CM!RWMutexType]
    /\ requestsSent \in [Targets -> 0 .. MaxSent]
    /\ request \in [Callers ->
            {Done(answer) : answer \in Answers}
            \cup [pc : {"rlock", "queued", "inside", "sleeping", "serving"},
                  node : Targets, method : Methods]]
    /\ override = <<>> \/ override \in Targets \X (Fields \cup {"clear"})

PoolInit ==
    /\ setUp = FALSE /\ serverImpls = FALSE
    /\ getClientErrors = {}
    /\ overrides = [n \in Targets |-> {}]
    /\ clientMutex = [n \in Targets |-> CM!Unlocked]
    /\ requestsSent = [n \in Targets |-> 0]
    /\ request = [t \in Callers |-> Done("none")]
    /\ override = <<>>

-----------------------------------------------------------------------------
(* The test                                                                *)

TesterIdle == override = <<>>

\* Setup, by MakeTestSetup or MakeTestSetupWithoutServers.  A server's constructor
\* may call GetClient before, but has returned.
Setup ==
    /\ TesterIdle /\ ~setUp
    /\ setUp' = TRUE
    /\ serverImpls' \in BOOLEAN
    /\ UNCHANGED <<getClientErrors, overrides, clientMutex, requestsSent, request, override>>

\* OverrideGetClientError, ClearGetClientErrors
OverrideGetClientErrors ==
    /\ TesterIdle
    /\ \/ \E n \in Targets : getClientErrors' = getClientErrors \cup {n}
       \/ getClientErrors' = {}
    /\ UNCHANGED <<setUp, serverImpls, overrides, clientMutex, requestsSent, request, override>>

ClearRequestsSent(n) ==
    /\ TesterIdle /\ setUp
    /\ requestsSent' = [requestsSent EXCEPT ![n] = 0]
    /\ UNCHANGED <<setUp, serverImpls, getClientErrors, overrides, clientMutex, request, override>>

\* It takes the pool's lock, but not the one that requests hold.
ClearServerImpls ==
    /\ TesterIdle /\ setUp
    /\ serverImpls' = FALSE
    /\ UNCHANGED <<setUp, getClientErrors, overrides, clientMutex, requestsSent, request, override>>

\* OverrideRpcError, Override*Response and ClearRpcOverrides call c.mutex.Lock() ...
OverrideLock(n, op) ==
    /\ TesterIdle /\ setUp
    /\ CM!CanAnnounce(clientMutex[n])
    /\ clientMutex' = [clientMutex EXCEPT ![n] = CM!Announce(@, Tester)]
    /\ override' = <<n, op>>
    /\ UNCHANGED <<setUp, serverImpls, getClientErrors, overrides, requestsSent, request>>

\* ... and go on when the requests under way have ended.  ClearOverrides leaves
\* setResponse and deleteResponse as they are.
Override ==
    \E n \in Targets, op \in Fields \cup {"clear"} :
        /\ override = <<n, op>>
        /\ CM!HasLock(clientMutex[n], Tester)
        /\ overrides' = [overrides EXCEPT ![n] = IF op = "clear" THEN @ \cap {"Set", "Delete"}
                                                ELSE @ \cup {op}]
        /\ clientMutex' = [clientMutex EXCEPT ![n] = CM!Unlock(@)]
        /\ override' = <<>>
        /\ UNCHANGED <<setUp, serverImpls, getClientErrors, requestsSent, request>>

-----------------------------------------------------------------------------
(* Callers                                                                 *)

At(t, pc) == request[t].pc = pc
GoOn(t, pc) == request' = [request EXCEPT ![t].pc = pc]
Answered(t, answer) == request' = [request EXCEPT ![t] = Done(answer)]
RUnlockClient(t) ==
    clientMutex' = [clientMutex EXCEPT ![request[t].node] = CM!RUnlock(@, t)]
KeepSettings == UNCHANGED <<setUp, serverImpls, getClientErrors, overrides, override>>

UnderWay(n) == {t \in Callers : ~At(t, "idle") /\ request[t].node = n}

\* GetClient, and the call of a method on what it returns.
CallMethod(t, n, m) ==
    /\ At(t, "idle")
    /\ requestsSent[n] + Cardinality(UnderWay(n)) < MaxSent
    /\ IF ~setUp \/ n \in getClientErrors
       THEN Answered(t, "no client")
       ELSE request' = [request EXCEPT ![t] = [pc |-> "rlock", node |-> n, method |-> m]]
    /\ KeepSettings /\ UNCHANGED <<clientMutex, requestsSent>>

\* c.mutex.RLock(): at once, or behind the test's Lock().
EnterClient(t) ==
    LET n == request[t].node
    IN  /\ \/ /\ At(t, "rlock") /\ CM!CanRLock(clientMutex[n])
              /\ clientMutex' = [clientMutex EXCEPT ![n] = CM!RLock(@, t)]
              /\ GoOn(t, "inside")
           \/ /\ At(t, "rlock") /\ ~CM!CanRLock(clientMutex[n])
              /\ clientMutex' = [clientMutex EXCEPT ![n] = CM!RLockQueue(@, t)]
              /\ GoOn(t, "queued")
           \/ /\ At(t, "queued") /\ t \in clientMutex[n].readers
              /\ GoOn(t, "inside")
              /\ UNCHANGED clientMutex
        /\ KeepSettings /\ UNCHANGED requestsSent

CountRequest(t) ==
    /\ At(t, "inside")
    /\ requestsSent' = [requestsSent EXCEPT ![request[t].node] = @ + 1]
    /\ KeepSettings

\* Mutant of CheckError: the early return keeps the read lock.
CheckErrorLocked(t) ==
    /\ CountRequest(t)
    /\ IF "err" \in overrides[request[t].node] THEN Answered(t, "error") ELSE GoOn(t, "sleeping")
    /\ UNCHANGED clientMutex

\* Mutant of CheckError: no lock during the injected sleep.
CheckErrorUnlocked(t) ==
    /\ CountRequest(t)
    /\ IF "err" \in overrides[request[t].node] THEN Answered(t, "error") ELSE GoOn(t, "sleeping")
    /\ RUnlockClient(t)

\* The beginning of a method: count the request, then the injected error.
CheckError(t) ==
    /\ CountRequest(t)
    /\ \/ /\ "err" \in overrides[request[t].node]
          /\ Answered(t, "error") /\ RUnlockClient(t)
       \/ /\ "err" \notin overrides[request[t].node]
          /\ GoOn(t, "sleeping") /\ UNCHANGED clientMutex

\* After the injected sleep, if there is one: the overridden response, or the server;
\* a server that is nil panics.
UseResponse(t) ==
    /\ At(t, "sleeping")
    /\ \/ /\ request[t].method \in overrides[request[t].node]
          /\ Answered(t, "override") /\ RUnlockClient(t)
       \/ /\ request[t].method \notin overrides[request[t].node]
          /\ serverImpls /\ GoOn(t, "serving") /\ UNCHANGED clientMutex
       \/ /\ request[t].method \notin overrides[request[t].node]
          /\ ~serverImpls /\ Answered(t, "panic") /\ RUnlockClient(t)
    /\ KeepSettings /\ UNCHANGED requestsSent

\* A method of KvServerImpl (left to be written) returns.
ServerReturns(t) ==
    /\ At(t, "serving")
    /\ Answered(t, "server") /\ RUnlockClient(t)
    /\ KeepSettings /\ UNCHANGED requestsSent

-----------------------------------------------------------------------------
RequestStep(t) == EnterClient(t) \/ CheckError(t) \/ UseResponse(t) \/ ServerReturns(t)

\* Nobody recovers from a panic: the process has ended.
Panicked == \E t \in Callers : request[t] = Done("panic")

PoolNext ==
    /\ ~Panicked
    /\ \/ Setup \/ OverrideGetClientErrors \/ ClearServerImpls \/ Override
       \/ \E n \in Targets : ClearRequestsSent(n)
       \/ \E n \in Targets, op \in Fields \cup {"clear"} : OverrideLock(n, op)
       \/ \E t \in Callers, n \in Targets, m \in Methods : CallMethod(t, n, m)
       \/ \E t \in Callers : RequestStep(t)

\* Goroutines run on; sleeps and servers come to an end.
PoolFairness ==
    /\ WF_poolVars(~Panicked /\ Override)
    /\ \A t \in Callers : WF_poolVars(~Panicked /\ RequestStep(t))

-----------------------------------------------------------------------------
(* Properties                                                              *)

\* A request is answered as the overrides in force at its end say, also if the
\* test changed them while it was on its way or asleep: once OverrideRpcError()
\* has returned no request succeeds on that node, once ClearRpcOverrides() has
\* returned none fails (the tests rely on both without waiting for requests).
AnswerIsCurrent ==
    [][\A t \in Callers :
        (~At(t, "idle") /\ request'[t].pc = "idle") =>
            LET now == overrides[request[t].node]
            IN  request'[t].answer \in IF "err" \in now THEN {"error"}
                                       ELSE IF request[t].method \in now THEN {"override"}
                                       ELSE {"server", "panic"}]_poolVars

\* An override is not held up for ever by requests that keep coming, sleep or
\* fail, and the requests that queue up behind it are served, as long as none goes to
\* a server that is not there.
PoolCallsReturn ==
    /\ (~TesterIdle) ~> (TesterIdle \/ Panicked)
    /\ \A t \in Callers : (~At(t, "idle")) ~> (At(t, "idle") \/ Panicked)
=============================================================================

---------------------------- MODULE KvTestProofs ----------------------------
(***************************************************************************)
(* For any number of clients, callers, nodes and shards: the test's        *)
(* clients answer as the overrides say, and the workflows publish valid    *)
(* assignments only, keep a shard's data and leave the result they         *)
(* promise.                                                                *)
(***************************************************************************)
EXTENDS KvTest, FiniteSetTheorems, TLAPS

-----------------------------------------------------------------------------
(* The test's clients                                                      *)

\* A request under way: what its caller has of it.
Active == [pc : {"rlock", "queued", "inside", "sleeping", "serving"},
           node : Targets, method : Methods]

\* The part of PoolTypeOK the argument needs.
PoolShape ==
    /\ overrides \in [Targets -> SUBSET Fields]
    /\ clientMutex \in [Targets -> CM!RWMutexType]
    /\ request \in [Callers -> {Done(answer) : answer \in Answers} \cup Active]

\* A request that is past RLock() is among the readers of its client, one that
\* queues is known to the mutex, and one that got past the injected error (or
\* past the overridden response) will not meet one: the overrides it has looked
\* at cannot change.
RequestInv ==
    \A t \in Callers :
        LET n == request[t].node
        IN  /\ request[t].pc \in {"inside", "sleeping", "serving"} => t \in clientMutex[n].readers
            /\ request[t].pc = "queued" => t \in clientMutex[n].queued \cup clientMutex[n].readers
            /\ request[t].pc \in {"sleeping", "serving"} => "err" \notin overrides[n]
            /\ request[t].pc = "serving" => request[t].method \notin overrides[n]

PoolInv == PoolShape /\ RequestInv

\* What AnswerIsCurrent says of one step.
AnswersAsSet ==
    \A t \in Callers :
        (~At(t, "idle") /\ request'[t].pc = "idle") =>
            LET now == overrides[request[t].node]
            IN  request'[t].answer \in IF "err" \in now THEN {"error"}
                                       ELSE IF request[t].method \in now THEN {"override"}
                                       ELSE {"server", "panic"}

(* No request is under way at first. *)
LEMMA PoolInitInv == PoolInit => PoolInv
BY DEF PoolInit, PoolInv, PoolShape, RequestInv, Done, Answers, CM!RWMutexType, CM!Unlocked

(* What a record of a caller looks like. *)
LEMMA RequestShape ==
    ASSUME PoolShape, NEW t \in Callers
    PROVE  /\ request[t].pc # "idle" => request[t] \in Active
           /\ request[t].pc \in {"idle", "rlock", "queued", "inside", "sleeping", "serving"}
BY DEF PoolShape, Active, Done

(* An answered request, and one that has moved on. *)
LEMMA RequestFields ==
    /\ \A answer \in Answers : /\ Done(answer).pc = "idle" /\ Done(answer).answer = answer
                                /\ Done(answer) \in {Done(x) : x \in Answers}
    /\ \A q \in Active, pc \in {"rlock", "queued", "inside", "sleeping", "serving"} :
        LET r == [q EXCEPT !.pc = pc]
        IN  r \in Active /\ r.pc = pc /\ r.node = q.node /\ r.method = q.method
<1>1. \A answer \in Answers : Done(answer).pc = "idle" /\ Done(answer).answer = answer
  BY DEF Done
<1>2. \A answer \in Answers : Done(answer) \in {Done(x) : x \in Answers}
  OBVIOUS
<1>3. QED
  BY <1>1, <1>2 DEF Active

(* A step of one request that moves it on or answers it. *)
LEMMA OneRequestMoves ==
    ASSUME PoolInv, NEW t \in Callers, NEW r,
           r \in {Done(answer) : answer \in Answers} \cup Active,
           request' = [request EXCEPT ![t] = r]
    PROVE  /\ request' \in [Callers -> {Done(answer) : answer \in Answers} \cup Active]
           /\ request'[t] = r
           /\ \A u \in Callers : u # t => request'[u] = request[u]
BY DEF PoolInv, PoolShape

(* A request takes its next step. *)
LEMMA RequestStepInv ==
    ASSUME PoolInv, NEW t \in Callers, RequestStep(t)
    PROVE  PoolInv' /\ AnswersAsSet
<1> DEFINE n == request[t].node
<1>1. ~At(t, "idle")
  BY DEF RequestStep, EnterClient, CheckError, CountRequest, UseResponse, ServerReturns, At
<1>2. request[t] \in Active /\ n \in Targets /\ request[t].method \in Methods
  BY <1>1, RequestShape DEF PoolInv, At, Active
<1>3. clientMutex \in [Targets -> CM!RWMutexType] /\ clientMutex[n] \in CM!RWMutexType
  BY <1>2 DEF PoolInv, PoolShape
<1>4. overrides' = overrides
  BY DEF RequestStep, EnterClient, CheckError, CountRequest, UseResponse, ServerReturns,
         KeepSettings
<1>5. PICK r \in {Done(answer) : answer \in Answers} \cup Active :
        /\ request' = [request EXCEPT ![t] = r]
        /\ \/ r = [request[t] EXCEPT !.pc = "inside"] /\ t \in clientMutex'[n].readers
           \/ r = [request[t] EXCEPT !.pc = "queued"] /\ t \in clientMutex'[n].queued
           \/ /\ r = [request[t] EXCEPT !.pc = "sleeping"] /\ "err" \notin overrides[n]
              /\ At(t, "inside") /\ UNCHANGED clientMutex
           \/ /\ r = [request[t] EXCEPT !.pc = "serving"] /\ request[t].method \notin overrides[n]
              /\ At(t, "sleeping") /\ UNCHANGED clientMutex
           \/ r = Done("error") /\ "err" \in overrides[n]
           \/ r = Done("override") /\ At(t, "sleeping") /\ request[t].method \in overrides[n]
           \/ r = Done("panic") /\ At(t, "sleeping") /\ request[t].method \notin overrides[n]
           \/ r = Done("server") /\ At(t, "serving")
  <2>1. CASE EnterClient(t)
    <3>1. CASE At(t, "rlock") /\ CM!CanRLock(clientMutex[n])
      <4>1. clientMutex' = [clientMutex EXCEPT ![n] = CM!RLock(@, t)] /\ GoOn(t, "inside")
        BY <2>1, <3>1 DEF EnterClient, At
      <4>2. t \in clientMutex'[n].readers
        BY <1>2, <1>3, <4>1 DEF CM!RLock, CM!RWMutexType
      <4>3. QED
        BY <1>2, <4>1, <4>2, RequestFields DEF GoOn
    <3>2. CASE At(t, "rlock") /\ ~CM!CanRLock(clientMutex[n])
      <4>1. clientMutex' = [clientMutex EXCEPT ![n] = CM!RLockQueue(@, t)] /\ GoOn(t, "queued")
        BY <2>1, <3>2 DEF EnterClient, At
      <4>2. t \in clientMutex'[n].queued
        BY <1>2, <1>3, <4>1 DEF CM!RLockQueue, CM!RWMutexType
      <4>3. QED
        BY <1>2, <4>1, <4>2, RequestFields DEF GoOn
    <3>3. CASE At(t, "queued")
      <4>1. t \in clientMutex'[n].readers /\ GoOn(t, "inside")
        BY <2>1, <3>3 DEF EnterClient, At
      <4>2. QED
        BY <1>2, <4>1, RequestFields DEF GoOn
    <3>4. QED
      BY <2>1, <3>1, <3>2, <3>3 DEF EnterClient
  <2>2. CASE CheckError(t)
    BY <1>2, <2>2 DEF CheckError, CountRequest, GoOn, Answered, Active, Answers, At
  <2>3. CASE UseResponse(t)
    BY <1>2, <2>3 DEF UseResponse, GoOn, Answered, Active, Answers, At
  <2>4. CASE ServerReturns(t)
    BY <1>2, <2>4 DEF ServerReturns, Answered, Answers, At
  <2>5. QED
    BY <2>1, <2>2, <2>3, <2>4 DEF RequestStep
<1>6. /\ clientMutex' \in [Targets -> CM!RWMutexType]
      /\ \A m \in Targets, u \in Callers : u # t =>
            /\ u \in clientMutex[m].readers => u \in clientMutex'[m].readers
            /\ u \in clientMutex[m].queued => u \in clientMutex'[m].queued
  <2>1. \/ UNCHANGED clientMutex
        \/ clientMutex' = [clientMutex EXCEPT ![n] = CM!RLock(@, t)]
        \/ clientMutex' = [clientMutex EXCEPT ![n] = CM!RLockQueue(@, t)]
        \/ clientMutex' = [clientMutex EXCEPT ![n] = CM!RUnlock(@, t)]
    BY DEF RequestStep, EnterClient, CheckError, UseResponse, ServerReturns, RUnlockClient
  <2>2. QED
    BY <1>2, <1>3, <2>1 DEF CM!RLock, CM!RLockQueue, CM!RUnlock, CM!RWMutexType
<1>7. /\ request' \in [Callers -> {Done(answer) : answer \in Answers} \cup Active]
      /\ request'[t] = r
      /\ \A u \in Callers : u # t => request'[u] = request[u]
  BY <1>5, OneRequestMoves
<1>8. PoolShape'
  BY <1>4, <1>6, <1>7 DEF PoolInv, PoolShape
<1>9. RequestInv'
  <2> SUFFICES ASSUME NEW u \in Callers
               PROVE  LET m == request'[u].node
                      IN  /\ request'[u].pc \in {"inside", "sleeping", "serving"}
                                => u \in clientMutex'[m].readers
                          /\ request'[u].pc = "queued"
                                => u \in clientMutex'[m].queued \cup clientMutex'[m].readers
                          /\ request'[u].pc \in {"sleeping", "serving"} => "err" \notin overrides'[m]
                          /\ request'[u].pc = "serving" => request'[u].method \notin overrides'[m]
    BY DEF RequestInv
  <2>1. CASE u # t
    <3>1. request'[u] = request[u]
      BY <1>7, <2>1
    <3>2. request[u].pc # "idle" => request[u].node \in Targets
      BY RequestShape DEF PoolInv, Active
    <3>3. QED
      BY <1>4, <1>6, <2>1, <3>1, <3>2 DEF PoolInv, RequestInv
  <2>2. CASE u = t
    <3>1. /\ Done("error").pc = "idle" /\ Done("override").pc = "idle"
          /\ Done("panic").pc = "idle" /\ Done("server").pc = "idle"
      BY RequestFields DEF Answers
    <3>2. CASE r.pc = "idle"
      BY <1>7, <2>2, <3>2
    <3>3. CASE r = [request[t] EXCEPT !.pc = "inside"] /\ t \in clientMutex'[n].readers
      BY <1>2, <1>7, <2>2, <3>3 DEF Active
    <3>4. CASE r = [request[t] EXCEPT !.pc = "queued"] /\ t \in clientMutex'[n].queued
      BY <1>2, <1>7, <2>2, <3>4 DEF Active
    <3>5. CASE /\ r = [request[t] EXCEPT !.pc = "sleeping"] /\ "err" \notin overrides[n]
               /\ At(t, "inside") /\ UNCHANGED clientMutex
      BY <1>2, <1>4, <1>7, <2>2, <3>5 DEF Active, PoolInv, RequestInv, At
    <3>6. CASE /\ r = [request[t] EXCEPT !.pc = "serving"]
               /\ request[t].method \notin overrides[n]
               /\ At(t, "sleeping") /\ UNCHANGED clientMutex
      BY <1>2, <1>4, <1>7, <2>2, <3>6 DEF Active, PoolInv, RequestInv, At
    <3>7. QED
      BY <1>5, <3>1, <3>2, <3>3, <3>4, <3>5, <3>6
  <2>3. QED
    BY <2>1, <2>2
<1>10. AnswersAsSet
  <2> SUFFICES ASSUME NEW u \in Callers, ~At(u, "idle"), request'[u].pc = "idle"
               PROVE  LET now == overrides[request[u].node]
                      IN  request'[u].answer \in IF "err" \in now THEN {"error"}
                                       ELSE IF request[u].method \in now THEN {"override"}
                                       ELSE {"server", "panic"}
    BY DEF AnswersAsSet
  <2>1. u = t
    BY <1>7 DEF At
  <2>2. \/ r = Done("error") /\ "err" \in overrides[n]
        \/ r = Done("override") /\ At(t, "sleeping") /\ request[t].method \in overrides[n]
        \/ r = Done("panic") /\ At(t, "sleeping") /\ request[t].method \notin overrides[n]
        \/ r = Done("server") /\ At(t, "serving")
    BY <1>2, <1>5, <1>7, <2>1 DEF Active
  <2>3. /\ At(t, "sleeping") \/ At(t, "serving") => "err" \notin overrides[n]
        /\ At(t, "serving") => request[t].method \notin overrides[n]
    BY DEF PoolInv, RequestInv, At
  <2>4. request'[u].answer = r.answer
    BY <1>7, <2>1
  <2>5. /\ Done("error").answer = "error" /\ Done("override").answer = "override"
        /\ Done("panic").answer = "panic" /\ Done("server").answer = "server"
    BY RequestFields DEF Answers
  <2>6. QED
    BY <2>1, <2>2, <2>3, <2>4, <2>5
<1>11. QED
  BY <1>8, <1>9, <1>10 DEF PoolInv

(* The test changes the overrides of a client that no request is inside of. *)
LEMMA OverrideStepInv ==
    ASSUME PoolInv, Override
    PROVE  PoolInv' /\ AnswersAsSet
<1>1. PICK n \in Targets, op \in Fields \cup {"clear"} :
        /\ override = <<n, op>>
        /\ CM!HasLock(clientMutex[n], Tester)
        /\ overrides' = [overrides EXCEPT ![n] = IF op = "clear" THEN @ \cap {"Set", "Delete"}
                                                ELSE @ \cup {op}]
        /\ clientMutex' = [clientMutex EXCEPT ![n] = CM!Unlock(@)]
        /\ override' = <<>>
        /\ UNCHANGED <<setUp, serverImpls, getClientErrors, requestsSent, request>>
  BY DEF Override
<1>2. clientMutex \in [Targets -> CM!RWMutexType] /\ overrides \in [Targets -> SUBSET Fields]
  BY DEF PoolInv, PoolShape
<1>3. PoolShape'
  <2>1. clientMutex' \in [Targets -> CM!RWMutexType]
    BY <1>1, <1>2 DEF CM!Unlock, CM!RWMutexType
  <2>2. overrides' \in [Targets -> SUBSET Fields]
    BY <1>1, <1>2, op = "clear" \/ op \in Fields
  <2>3. QED
    BY <1>1, <2>1, <2>2 DEF PoolInv, PoolShape
<1>4. clientMutex[n].readers = {}
  BY <1>1 DEF CM!HasLock
<1>5. RequestInv'
  <2>1. /\ \A m \in Targets : m # n => overrides'[m] = overrides[m] /\ clientMutex'[m] = clientMutex[m]
        /\ clientMutex'[n].readers = clientMutex[n].queued
    BY <1>1, <1>2 DEF CM!Unlock
  <2> SUFFICES ASSUME NEW u \in Callers, ~At(u, "idle")
               PROVE  LET m == request[u].node
                      IN  /\ request[u].pc \in {"inside", "sleeping", "serving"}
                                => u \in clientMutex'[m].readers
                          /\ request[u].pc = "queued"
                                => u \in clientMutex'[m].queued \cup clientMutex'[m].readers
                          /\ request[u].pc \in {"sleeping", "serving"} => "err" \notin overrides'[m]
                          /\ request[u].pc = "serving" => request[u].method \notin overrides'[m]
    BY <1>1 DEF RequestInv, At
  <2>2. request[u].node \in Targets
    BY RequestShape DEF PoolInv, Active, At
  <2>3. CASE request[u].node = n
    BY <1>4, <2>1, <2>3 DEF PoolInv, RequestInv
  <2>4. CASE request[u].node # n
    BY <2>1, <2>2, <2>4 DEF PoolInv, RequestInv
  <2>5. QED
    BY <2>3, <2>4
<1>6. AnswersAsSet
  BY <1>1 DEF AnswersAsSet, At
<1>7. QED
  BY <1>3, <1>5, <1>6 DEF PoolInv

(* Steps that leave the requests, the overrides and the readers alone. *)
LEMMA PoolQuietStep ==
    ASSUME PoolInv, request' = request, overrides' = overrides,
           clientMutex' \in [Targets -> CM!RWMutexType],
           \A m \in Targets : /\ clientMutex'[m].readers = clientMutex[m].readers
                              /\ clientMutex'[m].queued = clientMutex[m].queued
    PROVE  PoolInv' /\ AnswersAsSet
<1>1. PoolShape' /\ AnswersAsSet
  BY DEF PoolInv, PoolShape, AnswersAsSet, At
<1>2. \A u \in Callers : request[u].pc # "idle" => request[u].node \in Targets
  BY RequestShape DEF PoolInv, Active
<1>3. RequestInv'
  BY <1>2 DEF PoolInv, RequestInv
<1>4. QED
  BY <1>1, <1>3 DEF PoolInv

(* A caller asks for a client, and has it or not. *)
LEMMA CallMethodStep ==
    ASSUME PoolInv, NEW t \in Callers, NEW n \in Targets, NEW m \in Methods, CallMethod(t, n, m)
    PROVE  PoolInv' /\ AnswersAsSet
<1>1. PICK r \in {Done(answer) : answer \in Answers} \cup Active :
        request' = [request EXCEPT ![t] = r] /\ r.pc \in {"idle", "rlock"}
  <2>1. CASE request' = [request EXCEPT ![t] = Done("no client")]
    <3>1. "no client" \in Answers
      BY DEF Answers
    <3>2. Done("no client") \in {Done(answer) : answer \in Answers} /\ Done("no client").pc = "idle"
      BY <3>1, RequestFields
    <3>3. QED
      BY <2>1, <3>2
  <2>2. CASE request' = [request EXCEPT ![t] = [pc |-> "rlock", node |-> n, method |-> m]]
    <3> DEFINE q == [pc |-> "rlock", node |-> n, method |-> m]
    <3>1. q \in Active /\ q.pc = "rlock"
      BY DEF Active
    <3> HIDE DEF q
    <3>2. QED
      BY <2>2, <3>1 DEF q
  <2>3. QED
    BY <2>1, <2>2 DEF CallMethod, Answered
<1>2. /\ request' \in [Callers -> {Done(answer) : answer \in Answers} \cup Active]
      /\ request'[t] = r
      /\ \A u \in Callers : u # t => request'[u] = request[u]
  BY <1>1, OneRequestMoves
<1>3. UNCHANGED <<clientMutex, overrides>> /\ At(t, "idle")
  BY DEF CallMethod, KeepSettings
<1>4. PoolShape'
  BY <1>2, <1>3 DEF PoolInv, PoolShape
<1>5. RequestInv'
  BY <1>1, <1>2, <1>3 DEF PoolInv, RequestInv
<1>6. AnswersAsSet
  BY <1>2, <1>3 DEF AnswersAsSet, At
<1>7. QED
  BY <1>4, <1>5, <1>6 DEF PoolInv

(* Every step of the test's clients. *)
LEMMA PoolStepInv == PoolInv /\ [PoolNext]_poolVars => PoolInv' /\ AnswersAsSet
<1> SUFFICES ASSUME PoolInv, [PoolNext]_poolVars PROVE PoolInv' /\ AnswersAsSet
  OBVIOUS
<1>1. clientMutex \in [Targets -> CM!RWMutexType]
  BY DEF PoolInv, PoolShape
<1>2. CASE \/ Setup \/ OverrideGetClientErrors \/ ClearServerImpls
           \/ \E n \in Targets : ClearRequestsSent(n)
           \/ UNCHANGED poolVars
  <2>1. UNCHANGED <<request, overrides, clientMutex>>
    BY <1>2 DEF Setup, OverrideGetClientErrors, ClearServerImpls, ClearRequestsSent, poolVars
  <2>2. QED
    BY <1>1, <2>1, PoolQuietStep
<1>3. ASSUME NEW n \in Targets, NEW op \in Fields \cup {"clear"}, OverrideLock(n, op)
      PROVE  PoolInv' /\ AnswersAsSet
  <2>1. /\ UNCHANGED <<request, overrides>>
        /\ clientMutex' = [clientMutex EXCEPT ![n] = CM!Announce(@, Tester)]
    BY <1>3 DEF OverrideLock
  <2>2. clientMutex' \in [Targets -> CM!RWMutexType]
        /\ \A m \in Targets : /\ clientMutex'[m].readers = clientMutex[m].readers
                              /\ clientMutex'[m].queued = clientMutex[m].queued
    BY <1>1, <2>1 DEF CM!Announce, CM!RWMutexType
  <2>3. QED
    BY <2>1, <2>2, PoolQuietStep
<1>4. CASE Override
  BY <1>4, OverrideStepInv
<1>5. CASE \E t \in Callers, n \in Targets, m \in Methods : CallMethod(t, n, m)
  BY <1>5, CallMethodStep
<1>6. CASE \E t \in Callers : RequestStep(t)
  BY <1>6, RequestStepInv
<1>7. QED
  BY <1>2, <1>3, <1>4, <1>5, <1>6 DEF PoolNext

(* A request to a TestClient is answered as the overrides in force at its end  *)
(* say, whatever the test changed while it was queued, asleep or served.       *)
THEOREM AnswersAreCurrent == TestSpec => AnswerIsCurrent
<1>1. TestInit => PoolInv
  BY PoolInitInv DEF TestInit
<1>2. [TestNext]_testVars => [PoolNext]_poolVars
  BY DEF TestNext, testVars
<1>3. PoolInv /\ [TestNext]_testVars => PoolInv'
  BY <1>2, PoolStepInv
<1>4. PoolInv /\ [TestNext]_testVars => [AnswersAsSet]_poolVars
  BY <1>2, PoolStepInv
<1>5. QED
  BY <1>1, <1>3, <1>4, PTL DEF TestSpec, AnswerIsCurrent, AnswersAsSet

-----------------------------------------------------------------------------
(* Lists of nodes                                                          *)

\* A list the workflows may publish: nodes that exist, none twice.
Good(q) == q \in Seq(Nodes) /\ Cardinality(ToSet(q)) = Len(q)

(* The nodes of a list. *)
LEMMA ToSetFacts ==
    /\ \A q \in Seq(Nodes) : ToSet(q) \in SUBSET Nodes
    /\ ToSet(<<>>) = {} /\ Len(<<>>) = 0
    /\ \A x \in Nodes : ToSet(<<x>>) = {x} /\ Len(<<x>>) = 1 /\ <<x>> \in Seq(Nodes)
BY DEF ToSet

(* Sets of nodes are finite, and have as many elements as they have. *)
LEMMA NodeSets ==
    ASSUME NEW P \in SUBSET Nodes
    PROVE  IsFiniteSet(P) /\ Cardinality(P) \in Nat
BY SetsAssumption, FS_Subset, FS_CardinalityType

(* The nodes of two lists, one after the other. *)
LEMMA ToSetConcat ==
    ASSUME NEW a \in Seq(Nodes), NEW b \in Seq(Nodes)
    PROVE  /\ a \o b \in Seq(Nodes) /\ Len(a \o b) = Len(a) + Len(b)
           /\ ToSet(a \o b) = ToSet(a) \cup ToSet(b)
<1>1. a \o b \in Seq(Nodes) /\ Len(a \o b) = Len(a) + Len(b)
  OBVIOUS
<1>2. ASSUME NEW x \in ToSet(a \o b) PROVE x \in ToSet(a) \cup ToSet(b)
  <2>1. PICK i \in 1 .. Len(a) + Len(b) : x = (a \o b)[i]
    BY DEF ToSet
  <2>2. CASE i <= Len(a)
    BY <2>1, <2>2 DEF ToSet
  <2>3. CASE i > Len(a)
    <3>1. i - Len(a) \in 1 .. Len(b) /\ x = b[i - Len(a)]
      BY <2>1, <2>3
    <3>2. QED
      BY <3>1 DEF ToSet
  <2>4. QED
    BY <2>2, <2>3
<1>3. ASSUME NEW x \in ToSet(a) PROVE x \in ToSet(a \o b)
  <2>1. PICK i \in 1 .. Len(a) : x = a[i]
    BY DEF ToSet
  <2>2. i \in 1 .. Len(a \o b) /\ x = (a \o b)[i]
    BY <2>1
  <2>3. QED
    BY <2>2 DEF ToSet
<1>4. ASSUME NEW x \in ToSet(b) PROVE x \in ToSet(a \o b)
  <2>1. PICK i \in 1 .. Len(b) : x = b[i]
    BY DEF ToSet
  <2>2. i + Len(a) \in 1 .. Len(a \o b) /\ x = (a \o b)[i + Len(a)]
    BY <2>1
  <2>3. QED
    BY <2>2 DEF ToSet
<1>5. QED
  BY <1>1, <1>2, <1>3, <1>4

(* Two lists without a common node make a list without repetition. *)
LEMMA GoodConcat ==
    ASSUME NEW a, NEW b, Good(a), Good(b), ToSet(a) \cap ToSet(b) = {}
    PROVE  Good(a \o b)
<1>1. a \in Seq(Nodes) /\ b \in Seq(Nodes)
  BY DEF Good
<1>2. IsFiniteSet(ToSet(a)) /\ IsFiniteSet(ToSet(b))
  BY <1>1, ToSetFacts, NodeSets
<1>3. Cardinality(ToSet(a) \cup ToSet(b))
        = Cardinality(ToSet(a)) + Cardinality(ToSet(b)) - Cardinality(ToSet(a) \cap ToSet(b))
  BY <1>2, FS_Union
<1>4. Cardinality(ToSet(a) \cap ToSet(b)) = 0
  BY FS_EmptySet
<1>5. /\ a \o b \in Seq(Nodes) /\ Len(a \o b) = Len(a) + Len(b)
      /\ ToSet(a \o b) = ToSet(a) \cup ToSet(b)
  BY <1>1, ToSetConcat
<1>6. Len(a) \in Nat /\ Len(b) \in Nat
  BY <1>1
<1>7. Cardinality(ToSet(a \o b)) = Len(a \o b)
  BY <1>3, <1>4, <1>5, <1>6 DEF Good
<1>8. QED
  BY <1>5, <1>7 DEF Good

(* The empty list and a list of one node repeat nothing. *)
LEMMA GoodShort ==
    Good(<<>>) /\ \A x \in Nodes : Good(<<x>>)
<1>1. Cardinality(ToSet(<<>>)) = 0
  BY ToSetFacts, FS_EmptySet
<1>2. ASSUME NEW x \in Nodes PROVE Good(<<x>>)
  <2>1. Cardinality(ToSet(<<x>>)) = 1
    BY ToSetFacts, FS_Singleton
  <2>2. QED
    BY <2>1, ToSetFacts DEF Good
<1>3. QED
  BY <1>1, <1>2, ToSetFacts DEF Good

(* The community modules' SetToSeq lists each element of a finite set once. *)
LEMMA SetToSeqLists ==
    ASSUME NEW P \in SUBSET Nodes
    PROVE  Good(SetToSeq(P)) /\ ToSet(SetToSeq(P)) = P /\ Len(SetToSeq(P)) = Cardinality(P)
<1> DEFINE c == Cardinality(P)
           q == SetToSeq(P)
<1>1. IsFiniteSet(P) /\ c \in Nat
  BY NodeSets
<1>2. ExistsBijection(1 .. c, P)
  BY <1>1, FS_CardinalityType
<1>3. \E f \in [1 .. c -> P] : IsInjective(f)
  BY <1>2 DEF ExistsBijection, Bijection, Injection
<1>4. q \in [1 .. c -> P] /\ IsInjective(q)
  BY <1>3, Zenon DEF SetToSeq
<1>5. q \in Seq(Nodes) /\ Len(q) = c /\ DOMAIN q = 1 .. c
  BY <1>1, <1>4
<1>6. q \in Injection(1 .. c, P)
  BY <1>4 DEF Injection
<1>7. IsFiniteSet(1 .. c) /\ Cardinality(1 .. c) = c
  BY <1>1, FS_Interval
<1>8. q \in Surjection(1 .. c, P)
  BY <1>1, <1>6, <1>7, FS_Injection
<1>9. ToSet(q) = P
  BY <1>4, <1>5, <1>8 DEF Surjection, ToSet
<1>10. QED
  BY <1>5, <1>9 DEF Good

(* addReplicasForShard with num = 1 and no nodes given: one more node. *)
LEMMA AddOne ==
    ASSUME NEW nodes, Good(nodes), NEW r \in AddReplicas(nodes, 1, <<>>)
    PROVE  Good(r) /\ ToSet(nodes) \subseteq ToSet(r) /\ Len(r) = Len(nodes) + 1
<1> DEFINE rest == Nodes \ ToSet(nodes \o <<>>)
<1>1. nodes \in Seq(Nodes) /\ nodes \o <<>> = nodes /\ 1 - Len(<<>>) = 1
  BY DEF Good
<1>2. PICK P \in kSubset(1 - Len(<<>>), rest) : r = nodes \o <<>> \o SetToSeq(P)
  BY DEF AddReplicas
<1>3. P \in SUBSET Nodes /\ P \cap ToSet(nodes) = {} /\ Cardinality(P) = 1
  BY <1>1, <1>2 DEF kSubset
<1>4. r = nodes \o SetToSeq(P)
  BY <1>1, <1>2
<1>5. Good(SetToSeq(P)) /\ ToSet(SetToSeq(P)) = P /\ Len(SetToSeq(P)) = 1
  BY <1>3, SetToSeqLists
<1>6. Good(r)
  BY <1>3, <1>4, <1>5, GoodConcat
<1>7. Len(r) = Len(nodes) + 1 /\ ToSet(r) = ToSet(nodes) \cup P
  BY <1>1, <1>4, <1>5, ToSetConcat DEF Good
<1>8. QED
  BY <1>6, <1>7

(* addReplicasForShard with a given node: that node, which was not there. *)
LEMMA AddDst ==
    ASSUME NEW nodes, Good(nodes), NEW dst \in Nodes, NEW r \in AddReplicas(nodes, 1, <<dst>>)
    PROVE  Good(r) /\ dst \notin ToSet(nodes) /\ ToSet(r) = ToSet(nodes) \cup {dst}
<1> DEFINE rest == Nodes \ ToSet(nodes \o <<dst>>)
<1>1. nodes \in Seq(Nodes) /\ <<dst>> \in Seq(Nodes) /\ Len(<<dst>>) = 1 /\ ToSet(<<dst>>) = {dst}
  BY ToSetFacts DEF Good
<1>2. AddReplicas(nodes, 1, <<dst>>) # {}
  OBVIOUS
<1>3. ToSet(nodes) \cap ToSet(<<dst>>) = {}
  BY <1>2 DEF AddReplicas
<1>4. PICK P \in kSubset(1 - Len(<<dst>>), rest) : r = nodes \o <<dst>> \o SetToSeq(P)
  BY DEF AddReplicas
<1>5. P \in SUBSET Nodes /\ Cardinality(P) = 0
  BY <1>1, <1>4 DEF kSubset
<1>6. P = {}
  BY <1>5, NodeSets, FS_EmptySet
<1>7. Good(SetToSeq(P)) /\ ToSet(SetToSeq(P)) = {} /\ Len(SetToSeq(P)) = 0
  BY <1>5, <1>6, SetToSeqLists
<1>8. Good(nodes \o <<dst>>) /\ ToSet(nodes \o <<dst>>) = ToSet(nodes) \cup {dst}
  BY <1>1, <1>3, GoodShort, GoodConcat, ToSetConcat
<1>9. Good(r)
  BY <1>4, <1>7, <1>8, GoodConcat
<1>10. ToSet(r) = ToSet(nodes) \cup {dst}
  BY <1>4, <1>7, <1>8, ToSetConcat DEF Good
<1>11. QED
  BY <1>1, <1>3, <1>9, <1>10

(* dropReplicasForShard with num = 1 and a given node: all the others. *)
LEMMA DropOne ==
    ASSUME NEW nodes, Good(nodes), NEW x \in Nodes, NEW r \in DropReplicas(nodes, 1, <<x>>)
    PROVE  /\ Good(r) /\ x \in ToSet(nodes)
           /\ ToSet(r) = ToSet(nodes) \ {x} /\ Len(r) = Len(nodes) - 1
<1> DEFINE candidates == ToSet(nodes) \ ToSet(<<x>>)
<1>1. /\ nodes \in Seq(Nodes) /\ Len(<<x>>) = 1 /\ ToSet(<<x>>) = {x} /\ ToSet(nodes) \in SUBSET Nodes
      /\ Cardinality(ToSet(nodes)) = Len(nodes) /\ Len(nodes) \in Nat
  BY ToSetFacts DEF Good
<1>2. DropReplicas(nodes, 1, <<x>>) # {}
  OBVIOUS
<1>3. x \in ToSet(nodes) /\ candidates = ToSet(nodes) \ {x}
  BY <1>1, <1>2 DEF DropReplicas
<1>4. PICK P \in kSubset(Len(nodes) - 1, candidates) : r = SetToSeq(P)
  BY <1>2 DEF DropReplicas
<1>5. P \in SUBSET candidates /\ P \in SUBSET Nodes /\ Cardinality(P) = Len(nodes) - 1
  BY <1>1, <1>4 DEF kSubset
<1>6. IsFiniteSet(candidates) /\ Cardinality(candidates) = Len(nodes) - 1
  BY <1>1, <1>3, NodeSets, FS_RemoveElement
<1>7. P = candidates
  BY <1>5, <1>6, FS_Subset
<1>8. QED
  BY <1>3, <1>4, <1>5, <1>7, SetToSeqLists

(* dropReplicasForShard of as many nodes as there are leaves a list of none. *)
LEMMA DropAll ==
    ASSUME NEW nodes, Good(nodes), NEW r \in DropReplicas(nodes, Len(nodes), <<>>)
    PROVE  Good(r)
<1>1. PICK P \in kSubset(Len(nodes) - Len(nodes), ToSet(nodes) \ ToSet(<<>>)) : r = SetToSeq(P)
  BY DEF DropReplicas
<1>2. P \in SUBSET Nodes
  BY <1>1, ToSetFacts DEF kSubset, Good
<1>3. QED
  BY <1>1, <1>2, SetToSeqLists

-----------------------------------------------------------------------------
(* The workflows                                                           *)

\* Lists without repetition, and a shard's data on all its nodes or on none.
AssignmentInv ==
    /\ published \in [Shards -> Seq(Nodes)] /\ before \in [Shards -> Seq(Nodes)]
    /\ \A s \in Shards : Good(published[s])
    /\ holders \in [Shards -> SUBSET Nodes]
    /\ \A s \in Shards : holders[s] \in {{}, Hosts(s)}

DrainRecord == [name : {"DrainNode"}, result : {"running"}, node : Nodes, shards : SUBSET Shards]
MoveRecord == [name : {"MoveShard"}, result : {"running"}, shard : Shards, src : Nodes, dst : Nodes]

\* Between the two updates of DrainNode: its list of shards is still the node's,
\* each of them is where it was and has a replica more or one on every node, and
\* the others are untouched.
DrainInv ==
    (wf.name = "DrainNode" /\ wf.result = "running") =>
        /\ wf \in DrainRecord
        /\ wf.shards = ShardsForNode(wf.node)
        /\ \A s \in Shards \ wf.shards : published[s] = before[s]
        /\ \A s \in wf.shards :
            /\ Len(published[s]) = IF Len(before[s]) < NumNodes THEN Len(before[s]) + 1 ELSE NumNodes
            /\ Len(before[s]) >= 1 /\ wf.node \in ToSet(before[s])
            /\ ToSet(before[s]) \subseteq Hosts(s)

\* Between the two updates of MoveShard, MoveRandomShard's included: dst has
\* joined the nodes of the shard, and nothing else has changed.
MoveInv ==
    (wf.name = "MoveShard" /\ wf.result = "running") =>
        /\ wf \in MoveRecord
        /\ wf.src # wf.dst
        /\ Hosts(wf.shard) = ToSet(before[wf.shard]) \cup {wf.dst}
        /\ \A s \in Shards \ {wf.shard} : Hosts(s) = ToSet(before[s])

\* MoveRandomShard changes nothing while it draws.
SearchInv == Searching => before = published

WorkInv == AssignmentInv /\ DrainInv /\ MoveInv /\ SearchInv /\ WorkflowResult

\* What GracefulKeepsData says of one step.
KeepsData ==
    \A s \in Shards : (holders[s] # {} /\ holders'[s] = {}) => wf'.name \in {"RemoveNode", "DropShard"}

(* An assignment without repetition is valid. *)
LEMMA WorkInvValid == WorkInv => AlwaysValid
BY ToSetFacts DEF WorkInv, AssignmentInv, AlwaysValid, IsValid, Good

(* The first assignment, and who has the data. *)
LEMMA WorkInitInv == Init => WorkInv
<1> SUFFICES ASSUME Init PROVE WorkInv
  OBVIOUS
<1>1. ASSUME NEW s \in Shards PROVE Good(published[s])
  <2>1. PICK P \in SUBSET Nodes : published[s] = SetToSeq(P)
    BY DEF Init
  <2>2. QED
    BY <2>1, SetToSeqLists
<1>2. published \in [Shards -> Seq(Nodes)]
  <2>1. \A s \in Shards : published[s] \in Seq(Nodes)
    BY <1>1 DEF Good
  <2>2. published = [s \in Shards |-> published[s]]
    BY DEF Init
  <2>3. QED
    BY <2>1, <2>2
<1>3. AssignmentInv
  BY <1>1, <1>2, ToSetFacts DEF Init, AssignmentInv, Hosts
<1>4. wf.name = "none" /\ wf.result = "ok"
  BY DEF Init
<1>5. QED
  BY <1>3, <1>4 DEF WorkInv, DrainInv, MoveInv, SearchInv, Searching, Idle, WorkflowResult

(* UpdateShardMapping of lists without repetition. *)
LEMMA PublishStep ==
    ASSUME AssignmentInv, NEW m \in [Shards -> Seq(Nodes)], \A s \in Shards : Good(m[s]),
           Publish(m), before' \in [Shards -> Seq(Nodes)]
    PROVE  /\ AssignmentInv' /\ published' = m
           /\ \A s \in Shards : ToSet(m[s]) \cap holders[s] # {} => holders'[s] # {}
<1>1. /\ published' = m
      /\ holders' = [s \in Shards |-> IF ToSet(m[s]) \cap holders[s] = {} THEN {} ELSE ToSet(m[s])]
  BY DEF Publish
<1>2. \A s \in Shards : ToSet(m[s]) \in SUBSET Nodes
  BY ToSetFacts
<1>3. holders' \in [Shards -> SUBSET Nodes]
  BY <1>1, <1>2
<1>4. \A s \in Shards : holders'[s] \in {{}, ToSet(published'[s])}
  BY <1>1
<1>5. AssignmentInv'
  BY <1>1, <1>3, <1>4 DEF AssignmentInv, Hosts
<1>6. QED
  BY <1>1, <1>5

(* Every other step keeps the assignment or publishes such lists. *)
LEMMA WorkStepSame ==
    ASSUME AssignmentInv, UNCHANGED <<published, holders>>, before' \in {before, published}
    PROVE  AssignmentInv' /\ KeepsData
BY DEF AssignmentInv, KeepsData, Hosts

(* dropReplicasForShard of one node on some shards that have it. *)
LEMMA DropNodeFacts ==
    ASSUME AssignmentInv, NEW node \in Nodes, NEW shards \in SUBSET Shards,
           NEW m \in DropNodeFrom(node, shards)
    PROVE  /\ m \in [Shards -> Seq(Nodes)] /\ \A s \in Shards : Good(m[s])
           /\ \A s \in shards : /\ node \in Hosts(s) /\ ToSet(m[s]) = Hosts(s) \ {node}
                                /\ Len(m[s]) = Len(published[s]) - 1
           /\ \A s \in Shards \ shards : m[s] = published[s]
<1>1. \A s \in Shards : IF s \in shards THEN m[s] \in DropReplicas(published[s], 1, <<node>>)
                                        ELSE m[s] = published[s]
  BY DEF DropNodeFrom
<1>2. \A s \in shards : /\ Good(m[s]) /\ node \in Hosts(s) /\ ToSet(m[s]) = Hosts(s) \ {node}
                        /\ Len(m[s]) = Len(published[s]) - 1
  BY <1>1, DropOne DEF AssignmentInv, Hosts
<1>3. \A s \in Shards : Good(m[s])
  BY <1>1, <1>2 DEF AssignmentInv
<1>4. m \in [Shards -> Seq(Nodes)]
  <2>1. m = [s \in Shards |-> m[s]]
    BY DEF DropNodeFrom
  <2>2. \A s \in Shards : m[s] \in Seq(Nodes)
    BY <1>3 DEF Good
  <2>3. QED
    BY <2>1, <2>2
<1>5. QED
  BY <1>1, <1>2, <1>3, <1>4

(* RemoveNode *)
LEMMA RemoveNodeStep ==
    ASSUME WorkInv, NEW node \in Nodes, RemoveNode(node)
    PROVE  WorkInv' /\ KeepsData
<1>1. PICK m \in DropNodeFrom(node, ShardsForNode(node)) : Publish(m)
  BY DEF RemoveNode
<1>2. wf' = [name |-> "RemoveNode", result |-> "ok", node |-> node] /\ before' = published
  BY DEF RemoveNode, Begin
<1>3. m \in [Shards -> Seq(Nodes)] /\ \A s \in Shards : Good(m[s])
  BY DropNodeFacts DEF WorkInv, ShardsForNode
<1>4. AssignmentInv'
  BY <1>1, <1>2, <1>3, PublishStep DEF WorkInv, AssignmentInv
<1>5. wf'.name = "RemoveNode" /\ wf'.result = "ok"
  BY <1>2
<1>6. QED
  BY <1>4, <1>5 DEF WorkInv, DrainInv, MoveInv, SearchInv, Searching, Idle, WorkflowResult, KeepsData

(* DrainNode, up to its first update: no data is lost, and the node's shards *)
(* are the same.                                                            *)
LEMMA DrainCopyStep ==
    ASSUME WorkInv, NEW node \in Nodes, DrainCopy(node)
    PROVE  WorkInv' /\ KeepsData
<1> DEFINE shards == ShardsForNode(node)
           choices == [s \in Shards |-> IF s \in shards THEN ReplicasToAdd(s) ELSE {published[s]}]
<1>1. PICK m \in [Shards -> UNION {choices[s] : s \in Shards}] :
        (\A s \in Shards : m[s] \in choices[s]) /\ Publish(m)
  BY DEF DrainCopy
<1>2. wf' = [name |-> "DrainNode", result |-> "running", node |-> node, shards |-> shards]
      /\ before' = published
  BY DEF DrainCopy, Begin
<1>3. ASSUME NEW s \in Shards
      PROVE  /\ Good(m[s]) /\ Hosts(s) \subseteq ToSet(m[s])
             /\ s \notin shards => m[s] = published[s]
             /\ s \in shards => Len(m[s]) = IF Len(published[s]) < NumNodes
                                             THEN Len(published[s]) + 1 ELSE NumNodes
  <2>1. Good(published[s]) /\ Len(published[s]) \in Nat
    BY DEF WorkInv, AssignmentInv, Good
  <2>2. CASE m[s] = published[s] /\ s \notin shards
    BY <2>1, <2>2 DEF Hosts
  <2>3. CASE m[s] = published[s] /\ ~(Len(published[s]) < NumNodes)
    <3>1. Cardinality(Hosts(s)) <= NumNodes /\ Cardinality(Hosts(s)) = Len(published[s])
          /\ NumNodes \in Nat
      BY <2>1, ToSetFacts, SetsAssumption, FS_Subset, FS_CardinalityType DEF Good, Hosts, NumNodes
    <3>2. QED
      BY <1>1, <2>1, <2>3, <3>1 DEF Hosts
  <2>4. CASE /\ s \in shards /\ Len(published[s]) < NumNodes
             /\ m[s] \in AddReplicas(published[s], 1, <<>>)
    BY <2>1, <2>4, AddOne DEF Hosts
  <2>5. m[s] \in IF s \in shards THEN ReplicasToAdd(s) ELSE {published[s]}
    BY <1>1
  <2>6. QED
    BY <2>2, <2>3, <2>4, <2>5 DEF ReplicasToAdd
<1>4. m \in [Shards -> Seq(Nodes)]
  <2>1. \A s \in Shards : m[s] \in Seq(Nodes)
    BY <1>3 DEF Good
  <2>2. QED
    BY <2>1
<1>5. /\ AssignmentInv' /\ published' = m
      /\ \A s \in Shards : ToSet(m[s]) \cap holders[s] # {} => holders'[s] # {}
  BY <1>1, <1>2, <1>3, <1>4, PublishStep DEF WorkInv, AssignmentInv
<1>6. KeepsData
  <2>1. \A s \in Shards : holders[s] \subseteq ToSet(m[s])
    BY <1>3 DEF WorkInv, AssignmentInv
  <2>2. QED
    BY <1>5, <2>1 DEF KeepsData
<1>7. DrainInv'
  <2>1. shards \in SUBSET Shards /\ wf' \in DrainRecord
    BY <1>2 DEF ShardsForNode, DrainRecord
  <2>2. wf'.shards = shards /\ wf'.node = node
    BY <1>2
  <2>3. \A s \in Shards : node \in ToSet(m[s]) <=> node \in Hosts(s)
    BY <1>3 DEF ShardsForNode, Hosts
  <2>4. shards = {s \in Shards : node \in ToSet(published'[s])}
    BY <1>5, <2>3 DEF ShardsForNode
  <2>5. ASSUME NEW s \in shards
        PROVE  Len(published[s]) >= 1 /\ node \in ToSet(published[s])
    <3>1. node \in ToSet(published[s]) /\ published[s] \in Seq(Nodes)
      BY DEF ShardsForNode, Hosts, WorkInv, AssignmentInv
    <3>2. QED
      BY <3>1 DEF ToSet
  <2>6. QED
    BY <1>2, <1>3, <1>5, <2>1, <2>2, <2>4, <2>5 DEF DrainInv, ShardsForNode, Hosts
<1>8. wf'.name = "DrainNode" /\ wf'.result = "running"
  BY <1>2
<1>9. QED
  BY <1>5, <1>6, <1>7, <1>8 DEF WorkInv, MoveInv, SearchInv, Searching, Idle, WorkflowResult

(* DrainNode, from there to its end: the node is empty and, unless it is the  *)
(* only one, every shard that had its data somewhere still has.               *)
LEMMA DrainDropStep ==
    ASSUME WorkInv, DrainDrop
    PROVE  WorkInv' /\ (NumNodes # 1 => KeepsData)
<1>1. wf.name = "DrainNode" /\ wf.result = "running" /\ wf' = [wf EXCEPT !.result = "ok"]
      /\ before' = before
  BY DEF DrainDrop, Idle
<1>2. wf \in DrainRecord /\ wf.node \in Nodes /\ wf.shards \in SUBSET Shards
  BY <1>1 DEF WorkInv, DrainInv, DrainRecord
<1>3. wf'.name = "DrainNode" /\ wf'.result = "ok" /\ wf'.node = wf.node
  BY <1>1, <1>2 DEF DrainRecord
<1>4. PICK m \in DropNodeFrom(wf.node, wf.shards) : Publish(m)
  BY DEF DrainDrop
<1>5. /\ m \in [Shards -> Seq(Nodes)] /\ \A s \in Shards : Good(m[s])
      /\ \A s \in wf.shards : /\ wf.node \in Hosts(s) /\ ToSet(m[s]) = Hosts(s) \ {wf.node}
                              /\ Len(m[s]) = Len(published[s]) - 1
      /\ \A s \in Shards \ wf.shards : m[s] = published[s]
  BY <1>2, DropNodeFacts DEF WorkInv
<1>6. /\ AssignmentInv' /\ published' = m
      /\ \A s \in Shards : ToSet(m[s]) \cap holders[s] # {} => holders'[s] # {}
  BY <1>1, <1>4, <1>5, PublishStep DEF WorkInv, AssignmentInv
<1>7. WorkflowResult'
  <2>1. ASSUME NEW s \in Shards PROVE wf.node \notin ToSet(m[s])
    <3>1. CASE s \in wf.shards
      BY <1>5, <3>1
    <3>2. CASE s \notin wf.shards
      BY <1>1, <1>5, <3>2 DEF WorkInv, DrainInv, ShardsForNode, Hosts
    <3>3. QED
      BY <3>1, <3>2
  <2>2. ASSUME NEW s \in Shards
        PROVE  IF wf.node \in ToSet(before[s])
               THEN /\ ToSet(before[s]) \ {wf.node} \subseteq ToSet(m[s])
                    /\ Len(m[s]) = IF Len(before[s]) < NumNodes THEN Len(before[s]) ELSE NumNodes - 1
               ELSE m[s] = before[s]
    <3>1. Len(published[s]) \in Nat /\ Len(before[s]) \in Nat /\ NumNodes \in Nat
      BY SetsAssumption, FS_CardinalityType DEF WorkInv, AssignmentInv, NumNodes
    <3>2. CASE s \in wf.shards
      <4>1. /\ Len(published[s]) = IF Len(before[s]) < NumNodes THEN Len(before[s]) + 1 ELSE NumNodes
            /\ wf.node \in ToSet(before[s]) /\ ToSet(before[s]) \subseteq Hosts(s)
        BY <1>1, <3>2 DEF WorkInv, DrainInv
      <4>2. ToSet(m[s]) = Hosts(s) \ {wf.node} /\ Len(m[s]) = Len(published[s]) - 1
        BY <1>5, <3>2
      <4>3. Len(m[s]) = IF Len(before[s]) < NumNodes THEN Len(before[s]) ELSE NumNodes - 1
        BY <3>1, <4>1, <4>2
      <4>4. QED
        BY <4>1, <4>2, <4>3
    <3>3. CASE s \notin wf.shards
      BY <1>1, <1>5, <3>1, <3>3 DEF WorkInv, DrainInv, ShardsForNode, Hosts
    <3>4. QED
      BY <3>2, <3>3
  <2>3. QED
    BY <1>1, <1>3, <1>6, <2>1, <2>2 DEF WorkflowResult, ShardsForNode, Hosts
<1>8. ASSUME NumNodes # 1, NEW s \in Shards, holders[s] # {} PROVE holders'[s] # {}
  <2>1. holders[s] = Hosts(s)
    BY <1>8 DEF WorkInv, AssignmentInv
  <2>2. ToSet(m[s]) \cap Hosts(s) # {}
    <3>1. CASE s \in wf.shards
      <4>1. Len(published[s]) \in Nat /\ Len(before[s]) \in Nat /\ Hosts(s) \in SUBSET Nodes
            /\ Cardinality(Hosts(s)) = Len(published[s])
        BY ToSetFacts DEF WorkInv, AssignmentInv, Good, Hosts
      <4>2. NumNodes \in Nat /\ NumNodes # 0
        BY <1>2, SetsAssumption, FS_CardinalityType, FS_EmptySet DEF NumNodes
      <4>3. Len(published[s]) >= 2
        <5>1. /\ Len(published[s]) = IF Len(before[s]) < NumNodes THEN Len(before[s]) + 1 ELSE NumNodes
              /\ Len(before[s]) >= 1
          BY <1>1, <3>1 DEF WorkInv, DrainInv
        <5>2. QED
          BY <1>8, <4>1, <4>2, <5>1
      <4>4. Hosts(s) # {wf.node}
        <5>1. SUFFICES ASSUME Hosts(s) = {wf.node} PROVE FALSE
          OBVIOUS
        <5>2. Cardinality(Hosts(s)) = 1
          BY <5>1, FS_Singleton, Zenon
        <5>3. QED
          BY <4>1, <4>3, <5>2
      <4>5. QED
        BY <1>5, <3>1, <4>4
    <3>2. CASE s \notin wf.shards
      BY <1>5, <1>8, <2>1, <3>2 DEF Hosts
    <3>3. QED
      BY <3>1, <3>2
  <2>3. QED
    BY <1>6, <2>1, <2>2
<1>9. QED
  BY <1>3, <1>6, <1>7, <1>8
  DEF WorkInv, DrainInv, MoveInv, SearchInv, Searching, Idle, KeepsData

(* MoveShard with nothing to do, or with a destination it cannot add. *)
LEMMA MoveReturnsStep ==
    ASSUME WorkInv, NEW shard \in Shards, NEW src \in Nodes, NEW dst \in Nodes,
           MoveReturns(shard, src, dst)
    PROVE  WorkInv' /\ KeepsData
<1>1. UNCHANGED <<published, holders>> /\ before' = published
  BY DEF MoveReturns, Begin
<1>2. /\ wf'.name = "MoveShard" /\ wf'.result \in {"ok", "error"}
      /\ wf'.result = "ok" => wf'.src = wf'.dst
  BY DEF MoveReturns, Begin, MoveCall
<1>3. AssignmentInv' /\ KeepsData
  BY <1>1, WorkStepSame DEF WorkInv
<1>4. QED
  BY <1>2, <1>3 DEF WorkInv, DrainInv, MoveInv, SearchInv, Searching, Idle, WorkflowResult

(* A shard gets one more node, dst: what MoveShard and MoveRandomShard do up *)
(* to their first update.                                                   *)
LEMMA MoveCopies ==
    ASSUME WorkInv, NEW shard \in Shards, NEW src \in Nodes, NEW dst \in Nodes, src # dst,
           wf' = MoveCall(shard, src, dst, "running"), before' = published,
           NEW nodes \in AddReplicas(published[shard], 1, <<dst>>),
           Publish([published EXCEPT ![shard] = nodes])
    PROVE  WorkInv' /\ KeepsData
<1> DEFINE m == [published EXCEPT ![shard] = nodes]
<1>1. Good(nodes) /\ ToSet(nodes) = Hosts(shard) \cup {dst}
  BY AddDst DEF WorkInv, AssignmentInv, Hosts
<1>2. /\ m \in [Shards -> Seq(Nodes)] /\ m[shard] = nodes
      /\ \A s \in Shards \ {shard} : m[s] = published[s]
  BY <1>1 DEF WorkInv, AssignmentInv, Good
<1>3. \A s \in Shards : Good(m[s]) /\ Hosts(s) \subseteq ToSet(m[s])
  BY <1>1, <1>2 DEF WorkInv, AssignmentInv, Hosts
<1>4. /\ AssignmentInv' /\ published' = m
      /\ \A s \in Shards : ToSet(m[s]) \cap holders[s] # {} => holders'[s] # {}
  <2> HIDE DEF m
  <2>1. Publish(m)
    BY DEF m
  <2>2. QED
    BY <1>2, <1>3, <2>1, PublishStep DEF WorkInv, AssignmentInv
<1>5. KeepsData
  <2>1. \A s \in Shards : holders[s] \subseteq ToSet(m[s])
    BY <1>3 DEF WorkInv, AssignmentInv
  <2>2. QED
    BY <1>4, <2>1 DEF KeepsData
<1>6. /\ wf' \in MoveRecord /\ wf'.name = "MoveShard" /\ wf'.result = "running"
      /\ wf'.shard = shard /\ wf'.src = src /\ wf'.dst = dst
  BY DEF MoveCall, MoveRecord
<1>7. MoveInv'
  BY <1>1, <1>2, <1>4, <1>6 DEF MoveInv, Hosts
<1>8. QED
  BY <1>4, <1>5, <1>6, <1>7 DEF WorkInv, DrainInv, SearchInv, Searching, Idle, WorkflowResult

(* MoveShard, from there to its end: dst keeps the data, if there was any. *)
LEMMA MoveDropStep ==
    ASSUME WorkInv, MoveDrop
    PROVE  WorkInv' /\ KeepsData
<1>1. wf.name = "MoveShard" /\ wf.result = "running" /\ before' = before
  BY DEF MoveDrop, Idle
<1>2. /\ wf \in MoveRecord /\ wf.shard \in Shards /\ wf.src \in Nodes /\ wf.dst \in Nodes
      /\ wf.src # wf.dst
      /\ Hosts(wf.shard) = ToSet(before[wf.shard]) \cup {wf.dst}
      /\ \A s \in Shards \ {wf.shard} : Hosts(s) = ToSet(before[s])
  BY <1>1 DEF WorkInv, MoveInv, MoveRecord
<1>3. CASE wf' = [wf EXCEPT !.result = "error"] /\ UNCHANGED <<published, holders>>
  <2>1. wf'.name = "MoveShard" /\ wf'.result = "error"
    BY <1>2, <1>3 DEF MoveRecord
  <2>2. AssignmentInv' /\ KeepsData
    BY <1>1, <1>3, WorkStepSame DEF WorkInv
  <2>3. QED
    BY <2>1, <2>2 DEF WorkInv, DrainInv, MoveInv, SearchInv, Searching, Idle, WorkflowResult
<1>4. ASSUME wf' = [wf EXCEPT !.result = "ok"],
             NEW nodes \in DropReplicas(published[wf.shard], 1, <<wf.src>>),
             Publish([published EXCEPT ![wf.shard] = nodes])
      PROVE  WorkInv' /\ KeepsData
  <2> DEFINE m == [published EXCEPT ![wf.shard] = nodes]
  <2>1. Good(nodes) /\ ToSet(nodes) = Hosts(wf.shard) \ {wf.src}
    BY <1>2, DropOne DEF WorkInv, AssignmentInv, Hosts
  <2>2. /\ m \in [Shards -> Seq(Nodes)] /\ m[wf.shard] = nodes
        /\ \A s \in Shards \ {wf.shard} : m[s] = published[s]
    BY <1>2, <2>1 DEF WorkInv, AssignmentInv, Good
  <2>3. \A s \in Shards : Good(m[s])
    BY <2>1, <2>2 DEF WorkInv, AssignmentInv
  <2>4. /\ AssignmentInv' /\ published' = m
        /\ \A s \in Shards : ToSet(m[s]) \cap holders[s] # {} => holders'[s] # {}
    <3> HIDE DEF m
    <3>1. Publish(m)
      BY <1>4 DEF m
    <3>2. QED
      BY <1>1, <2>2, <2>3, <3>1, PublishStep DEF WorkInv, AssignmentInv
  <2>5. ASSUME NEW s \in Shards, holders[s] # {} PROVE holders'[s] # {}
    <3>1. holders[s] = Hosts(s)
      BY <2>5 DEF WorkInv, AssignmentInv
    <3>2. CASE s = wf.shard
      <4>1. wf.dst \in ToSet(m[s]) \cap holders[s]
        BY <1>2, <2>1, <2>2, <3>1, <3>2
      <4>2. QED
        BY <2>4, <4>1
    <3>3. CASE s # wf.shard
      BY <2>2, <2>4, <2>5, <3>1, <3>3 DEF Hosts
    <3>4. QED
      BY <3>2, <3>3
  <2>6. /\ wf'.name = "MoveShard" /\ wf'.result = "ok"
        /\ wf'.shard = wf.shard /\ wf'.src = wf.src /\ wf'.dst = wf.dst
    BY <1>2, <1>4 DEF MoveRecord
  <2>7. WorkflowResult'
    BY <1>1, <1>2, <2>1, <2>2, <2>4, <2>6 DEF WorkflowResult, Hosts
  <2>8. QED
    BY <2>4, <2>5, <2>6, <2>7
    DEF WorkInv, DrainInv, MoveInv, SearchInv, Searching, Idle, KeepsData
<1>5. QED
  BY <1>3, <1>4 DEF MoveDrop

(* DropShard *)
LEMMA DropShardStep ==
    ASSUME WorkInv, NEW shard \in Shards, DropShard(shard)
    PROVE  WorkInv' /\ KeepsData
<1>1. PICK nodes \in DropReplicas(published[shard], Len(published[shard]), <<>>) :
        Publish([published EXCEPT ![shard] = nodes])
  BY DEF DropShard
<1> DEFINE m == [published EXCEPT ![shard] = nodes]
<1>2. Good(nodes)
  BY DropAll DEF WorkInv, AssignmentInv
<1>3. /\ m \in [Shards -> Seq(Nodes)] /\ \A s \in Shards : Good(m[s])
  BY <1>2 DEF WorkInv, AssignmentInv, Good
<1>4. before' = published /\ wf'.name = "DropShard" /\ wf'.result = "ok"
  BY DEF DropShard, Begin
<1>5. AssignmentInv'
  <2> HIDE DEF m
  <2>1. Publish(m)
    BY <1>1 DEF m
  <2>2. QED
    BY <1>3, <1>4, <2>1, PublishStep DEF WorkInv, AssignmentInv
<1>6. QED
  BY <1>4, <1>5 DEF WorkInv, DrainInv, MoveInv, SearchInv, Searching, Idle, WorkflowResult, KeepsData

(* Every step of the workflows. *)
LEMMA WorkStepInv ==
    WorkInv /\ [Next]_vars => WorkInv' /\ (NumNodes # 1 => [KeepsData]_vars)
<1> SUFFICES ASSUME WorkInv, [Next]_vars PROVE WorkInv' /\ (NumNodes # 1 => [KeepsData]_vars)
  OBVIOUS
<1>1. CASE \E n \in Nodes : RemoveNode(n) \/ DrainCopy(n)
  BY <1>1, RemoveNodeStep, DrainCopyStep
<1>2. CASE DrainDrop
  BY <1>2, DrainDropStep
<1>3. ASSUME NEW s \in Shards, NEW src \in Nodes, NEW dst \in Nodes, MoveReturns(s, src, dst)
      PROVE  WorkInv' /\ KeepsData
  BY <1>3, MoveReturnsStep
<1>4. ASSUME NEW s \in Shards, NEW src \in Nodes, NEW dst \in Nodes, MoveCopy(s, src, dst)
      PROVE  WorkInv' /\ KeepsData
  BY <1>4, MoveCopies DEF MoveCopy, Begin
<1>5. CASE MoveDrop
  BY <1>5, MoveDropStep
<1>6. CASE MoveRandomShard
  <2>1. UNCHANGED <<published, holders>> /\ before' = published
        /\ wf'.name = "MoveRandomShard" /\ wf'.result = "running"
    BY <1>6 DEF MoveRandomShard, Begin
  <2>2. AssignmentInv' /\ KeepsData
    BY <2>1, WorkStepSame DEF WorkInv
  <2>3. QED
    BY <2>1, <2>2 DEF WorkInv, DrainInv, MoveInv, SearchInv, WorkflowResult
<1>7. ASSUME NEW s \in Shards, MoveRandomHit(s) PROVE WorkInv' /\ KeepsData
  <2>1. PICK src \in Hosts(s), dst \in Nodes \ Hosts(s) :
          /\ wf' = MoveCall(s, src, dst, "running")
          /\ \E nodes \in AddReplicas(published[s], 1, <<dst>>) :
                Publish([published EXCEPT ![s] = nodes])
    BY <1>7 DEF MoveRandomHit
  <2>2. src \in Nodes /\ src # dst
    BY ToSetFacts DEF WorkInv, AssignmentInv, Hosts
  <2>3. before' = published
    BY <1>7 DEF MoveRandomHit, WorkInv, SearchInv
  <2>4. QED
    BY <2>1, <2>2, <2>3, MoveCopies
<1>8. CASE \E s \in Shards : DropShard(s)
  BY <1>8, DropShardStep
<1>9. CASE UNCHANGED vars
  <2>1. AssignmentInv'
    BY <1>9, WorkStepSame DEF vars, WorkInv
  <2>2. DrainInv' /\ MoveInv' /\ SearchInv' /\ WorkflowResult'
    BY <1>9 DEF vars, WorkInv, DrainInv, MoveInv, SearchInv, Searching, Idle, WorkflowResult,
                ShardsForNode, Hosts
  <2>3. QED
    BY <1>9, <2>1, <2>2 DEF WorkInv
<1>10. QED
  BY <1>1, <1>2, <1>3, <1>4, <1>5, <1>6, <1>7, <1>8, <1>9 DEF Next, MoveRandomMiss

(* The invariant of the workflows in the test process. *)
LEMMA WorkInvariant == TestSpec => []WorkInv
<1>1. TestInit => WorkInv
  BY WorkInitInv DEF TestInit
<1>2. [TestNext]_testVars => [Next]_vars
  BY DEF TestNext, testVars
<1>3. WorkInv /\ [TestNext]_testVars => WorkInv'
  BY <1>2, WorkStepInv
<1>4. QED
  BY <1>1, <1>3, PTL DEF TestSpec

(* Every assignment UpdateShardMapping() is given is valid by IsValid(), the   *)
(* ones between the two updates of a workflow included.                        *)
THEOREM WorkflowsValid == TestSpec => []AlwaysValid
BY WorkInvariant, WorkInvValid, PTL

(* DrainNode empties its node, leaves the other replicas of the node's shards  *)
(* where they are, keeps their number where it can and does not touch a shard  *)
(* that is not on the node; MoveShard puts dst in the place of src and leaves  *)
(* every other shard on its nodes.                                             *)
THEOREM WorkflowsKeepPromise == TestSpec => []WorkflowResult
<1>1. WorkInv => WorkflowResult
  BY DEF WorkInv
<1>2. QED
  BY <1>1, WorkInvariant, PTL

(* Only RemoveNode and DropShard lose a shard's data, on any cluster but one   *)
(* of a single node, where DrainNode has nowhere to copy it to.                *)
THEOREM GracefulWorkflows ==
    ASSUME NumNodes # 1
    PROVE  TestSpec => GracefulKeepsData
<1>1. [TestNext]_testVars => [Next]_vars
  BY DEF TestNext, testVars
<1>2. WorkInv /\ [TestNext]_testVars => [KeepsData]_vars
  BY <1>1, WorkStepInv
<1>3. QED
  BY <1>2, WorkInvariant, PTL DEF TestSpec, GracefulKeepsData, KeepsData
=============================================================================

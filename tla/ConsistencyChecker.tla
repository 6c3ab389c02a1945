------------------------- MODULE ConsistencyChecker -------------------------
(***************************************************************************)
(* lab4/checker/checker.go, driven as stressGets and stressSets of         *)
(* lab4/cmd/stress/tester.go drive it: what the checker knows about one    *)
(* key (keys do not interact), and whether it judges reads correctly.      *)
(*                                                                         *)
(* Every method of the checker holds its mutex throughout, so each is one  *)
(* step.  A writer performs one Set; the value it sets is the writer       *)
(* itself, as values are random and never repeated.  The stateValue that   *)
(* CompleteWrite records is then a function of the writer: it was started  *)
(* at wstart[w], returned at wend[w], with error werr[w].                  *)
(*                                                                         *)
(* The KV service under test is external: a single register with a TTL     *)
(* that a Set reaches at one moment while it is under way.  A Set that     *)
(* returns an error reached it or not (or reaches it later, if LateSets).  *)
(***************************************************************************)
EXTENDS Naturals, FiniteSets

CONSTANTS Writers,         \* Set requests; also the values they set
          Readers,         \* threads doing Get requests
          NoValue,         \* the key is not set
          TTL,             \* --ttl
          TtlCheckBuffer,  \* --ttl-check-buffer
          MaxTime,         \* bound on the clock
          FirstSetFails,   \* may a Set fail while none has reached the key?
          LateSets         \* may a failed Set reach the key after it returned?

ASSUME ValuesAssumption == NoValue \notin Writers /\ IsFiniteSet(Writers)
ASSUME TimesAssumption == TTL \in Nat /\ TtlCheckBuffer \in Nat /\ MaxTime \in Nat
ASSUME SwitchesAssumption == FirstSetFails \in BOOLEAN /\ LateSets \in BOOLEAN

VARIABLES
    clock,
    cell, expiry,                 \* the register: value and end of its TTL
    values, overwrittenValues,    \* cc.values[key], cc.overwrittenValues[key]
    version, rc,                  \* cc.version[key], cc.rc[key]
    wpc, wstart, wend, werr,      \* writers: control point, times, error
    winit,                        \* initialVersion
    applied,                      \* the Set has reached the register
    overlapped,                   \* history: another Set was under way meanwhile
    rpc, rstart, rinit, rpending, \* readers: control point, time, BeginRead()
    rval,                         \* what Get returned (NoValue: not found)
    verdict                       \* what CheckReadCorrect made of it

storeVars == <<cell, expiry, applied>>
ccVars == <<values, overwrittenValues, version, rc>>
writerVars == <<wpc, wstart, wend, werr, winit, overlapped>>
readerVars == <<rpc, rstart, rinit, rpending, rval, verdict>>
checkerVars == <<clock, storeVars, ccVars, writerVars, readerVars>>

CheckerTypeOK ==
    /\ clock \in Nat /\ expiry \in Nat
    /\ cell \in Writers \cup {NoValue}
    /\ values \in SUBSET Writers /\ overwrittenValues \in SUBSET Writers
    /\ version \in Nat /\ rc \in Nat
    /\ wpc \in [Writers -> {"idle", "started", "begun", "returned", "done"}]
    /\ wstart \in [Writers -> Nat] /\ wend \in [Writers -> Nat]
    /\ werr \in [Writers -> BOOLEAN]
    /\ winit \in [Writers -> Nat]
    /\ applied \in SUBSET Writers /\ overlapped \in SUBSET Writers
    /\ rpc \in [Readers -> {"idle", "started", "begun", "got"}]
    /\ rstart \in [Readers -> Nat] /\ rinit \in [Readers -> Nat]
    /\ rpending \in [Readers -> BOOLEAN]
    /\ rval \in [Readers -> Writers \cup {NoValue}]
    /\ verdict \in [Readers -> {"none", "skipped", "correct", "incorrect"}]

CheckerInit ==
    /\ clock = 0 /\ expiry = 0 /\ cell = NoValue
    /\ values = {} /\ overwrittenValues = {} /\ version = 0 /\ rc = 0
    /\ wpc = [w \in Writers |-> "idle"]
    /\ wstart = [w \in Writers |-> 0] /\ wend = [w \in Writers |-> 0]
    /\ werr = [w \in Writers |-> FALSE] /\ winit = [w \in Writers |-> 0]
    /\ applied = {} /\ overlapped = {}
    /\ rpc = [r \in Readers |-> "idle"]
    /\ rstart = [r \in Readers |-> 0] /\ rinit = [r \in Readers |-> 0]
    /\ rpending = [r \in Readers |-> FALSE]
    /\ rval = [r \in Readers |-> NoValue]
    /\ verdict = [r \in Readers |-> "none"]

Tick ==
    /\ clock < MaxTime
    /\ clock' = clock + 1
    /\ UNCHANGED <<storeVars, ccVars, writerVars, readerVars>>

-----------------------------------------------------------------------------
(* stressSets                                                              *)

InFlight == {w \in Writers : wpc[w] \in {"begun", "returned"}}

SetStart(w) ==
    /\ wpc[w] = "idle"
    /\ wpc' = [wpc EXCEPT ![w] = "started"]
    /\ wstart' = [wstart EXCEPT ![w] = clock]
    /\ UNCHANGED <<clock, storeVars, ccVars, wend, werr, winit, overlapped, readerVars>>

BeginWrite(w) ==
    /\ wpc[w] = "started"
    /\ wpc' = [wpc EXCEPT ![w] = "begun"]
    /\ rc' = rc + 1
    /\ winit' = [winit EXCEPT ![w] = version]
    /\ overlapped' = IF InFlight = {} THEN overlapped
                                      ELSE overlapped \cup InFlight \cup {w}
    /\ UNCHANGED <<clock, storeVars, values, overwrittenValues, version,
                   wstart, wend, werr, readerVars>>

\* kv.Set (external): the register takes the value ...
Apply(w) ==
    /\ w \notin applied
    /\ \/ wpc[w] = "begun"
       \/ LateSets /\ wpc[w] \in {"returned", "done"} /\ werr[w]
    /\ cell' = w /\ expiry' = clock + TTL
    /\ applied' = applied \cup {w}
    /\ UNCHANGED <<clock, ccVars, writerVars, readerVars>>

\* ... and kv.Set returns; without an error only after it took the value.
SetReturn(w) ==
    /\ wpc[w] = "begun"
    /\ \E err \in BOOLEAN :
        /\ ~err => w \in applied
        /\ err => FirstSetFails \/ applied # {}
        /\ werr' = [werr EXCEPT ![w] = err]
    /\ wpc' = [wpc EXCEPT ![w] = "returned"]
    /\ wend' = [wend EXCEPT ![w] = clock]
    /\ UNCHANGED <<clock, storeVars, ccVars, wstart, winit, overlapped, readerVars>>

\* Mutant of CompleteWrite: only the reference count guards against
\* concurrent writes.
CompleteWriteNoVersion(w) ==
    /\ wpc[w] = "returned"
    /\ wpc' = [wpc EXCEPT ![w] = "done"]
    /\ IF ~werr[w] /\ rc = 1
       THEN /\ overwrittenValues' = overwrittenValues \cup values
            /\ values' = {w}
       ELSE /\ values' = values \cup {w}
            /\ UNCHANGED overwrittenValues
    /\ rc' = rc - 1
    /\ version' = version + 1
    /\ UNCHANGED <<clock, storeVars, wstart, wend, werr, winit, overlapped, readerVars>>

\* Mutant of CompleteWrite: a failed Set is no new version.
CompleteWriteSameVersion(w) ==
    /\ wpc[w] = "returned"
    /\ wpc' = [wpc EXCEPT ![w] = "done"]
    /\ IF ~werr[w] /\ winit[w] = version /\ rc = 1
       THEN /\ overwrittenValues' = overwrittenValues \cup values
            /\ values' = {w}
       ELSE /\ values' = values \cup {w}
            /\ UNCHANGED overwrittenValues
    /\ rc' = rc - 1
    /\ version' = IF werr[w] THEN version ELSE version + 1
    /\ UNCHANGED <<clock, storeVars, wstart, wend, werr, winit, overlapped, readerVars>>

\* Mutant of CompleteWrite: a value is never overwritten.
CompleteWriteKeep(w) ==
    /\ wpc[w] = "returned"
    /\ wpc' = [wpc EXCEPT ![w] = "done"]
    /\ values' = values \cup {w}
    /\ rc' = rc - 1
    /\ version' = version + 1
    /\ UNCHANGED <<clock, storeVars, overwrittenValues,
                   wstart, wend, werr, winit, overlapped, readerVars>>

CompleteWrite(w) ==
    /\ wpc[w] = "returned"
    /\ wpc' = [wpc EXCEPT ![w] = "done"]
    /\ IF ~werr[w] /\ winit[w] = version /\ rc = 1
       THEN /\ overwrittenValues' = overwrittenValues \cup values
            /\ values' = {w}
       ELSE /\ values' = values \cup {w}
            /\ UNCHANGED overwrittenValues
    /\ rc' = rc - 1
    /\ version' = version + 1
    /\ UNCHANGED <<clock, storeVars, wstart, wend, werr, winit, overlapped, readerVars>>

-----------------------------------------------------------------------------
(* stressGets                                                              *)

GetStart(r) ==
    /\ rpc[r] = "idle"
    /\ rpc' = [rpc EXCEPT ![r] = "started"]
    /\ rstart' = [rstart EXCEPT ![r] = clock]
    /\ verdict' = [verdict EXCEPT ![r] = "none"]
    /\ UNCHANGED <<clock, storeVars, ccVars, writerVars, rinit, rpending, rval>>

BeginRead(r) ==
    /\ rpc[r] = "started"
    /\ rpc' = [rpc EXCEPT ![r] = "begun"]
    /\ rinit' = [rinit EXCEPT ![r] = version]
    /\ rpending' = [rpending EXCEPT ![r] = rc # 0]
    /\ UNCHANGED <<clock, storeVars, ccVars, writerVars, rstart, rval, verdict>>

\* kv.Get (external): the register's value unless its TTL is over.
Get(r) ==
    /\ rpc[r] = "begun"
    /\ rpc' = [rpc EXCEPT ![r] = "got"]
    /\ rval' = [rval EXCEPT ![r] = IF clock > expiry THEN NoValue ELSE cell]
    /\ UNCHANGED <<clock, storeVars, ccVars, writerVars, rstart, rinit, rpending, verdict>>

\* The request's local variables go out of scope.
GetEnds(r) ==
    /\ rpc' = [rpc EXCEPT ![r] = "idle"]
    /\ rstart' = [rstart EXCEPT ![r] = 0]
    /\ rinit' = [rinit EXCEPT ![r] = 0]
    /\ rpending' = [rpending EXCEPT ![r] = FALSE]
    /\ rval' = [rval EXCEPT ![r] = NoValue]

\* kv.Get returns an error: nothing is checked.
GetError(r) ==
    /\ rpc[r] = "begun"
    /\ GetEnds(r)
    /\ UNCHANGED <<clock, storeVars, ccVars, writerVars, verdict>>

MaybeExpiredBy(w) == wstart[w] + TTL
DefinitelyExpiredBy(w) == wend[w] + TTL + TtlCheckBuffer

Judge(r) ==
    IF version # rinit[r] \/ rpending[r] \/ rc # 0 THEN "skipped"
    ELSE IF rval[r] = NoValue
         THEN IF values = {} \/ \E w \in values : MaybeExpiredBy(w) < clock
              THEN "correct" ELSE "incorrect"
         ELSE IF /\ rval[r] \in values
                 /\ ~(~werr[rval[r]] /\ DefinitelyExpiredBy(rval[r]) < rstart[r])
              THEN "correct" ELSE "incorrect"

CheckReadCorrect(r) ==
    /\ rpc[r] = "got"
    /\ GetEnds(r)
    /\ verdict' = [verdict EXCEPT ![r] = Judge(r)]
    /\ UNCHANGED <<clock, storeVars, ccVars, writerVars>>

-----------------------------------------------------------------------------
WriterStep(w) ==
    SetStart(w) \/ BeginWrite(w) \/ Apply(w) \/ SetReturn(w) \/ CompleteWrite(w)
ReaderStep(r) ==
    GetStart(r) \/ BeginRead(r) \/ Get(r) \/ GetError(r) \/ CheckReadCorrect(r)

CheckerNext ==
    \/ Tick
    \/ \E w \in Writers : WriterStep(w)
    \/ \E r \in Readers : ReaderStep(r)

CheckerSpec == CheckerInit /\ [][CheckerNext]_checkerVars

-----------------------------------------------------------------------------
(* Properties                                                              *)

\* "Care is taken to avoid false positives": what the register answers is
\* never judged incorrect, whatever writes and reads overlap and whenever the
\* TTL ends.
NoFalsePositive == \A r \in Readers : verdict[r] # "incorrect"

\* The other direction, a fact about the true history: version and rc identify
\* exactly the writes that overlapped another one, so after a successful write
\* that ran alone every older value counts as wrong.
OverlapIsDetected ==
    \A w \in InFlight : (winit[w] = version /\ rc = 1) <=> w \notin overlapped

\* Hence a stale value is caught: once a Set that succeeded and overlapped no
\* other one has completed, the values completed before it began are no longer
\* accepted.
StaleIsRejected ==
    \A v, w \in Writers :
        /\ wpc[v] = "done" /\ wpc[w] = "done" /\ v # w
        /\ w \notin overlapped /\ ~werr[w]
        /\ winit[v] < winit[w]
        => v \in overwrittenValues /\ v \notin values
=============================================================================

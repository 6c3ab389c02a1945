------------------------------ MODULE LoadGen ------------------------------
(***************************************************************************)
(* lab1/cmd/loadgen/loadgen.go: connections that start one goroutine per   *)
(* request, the five counters the goroutines add to, and the goroutine     *)
(* that loads the counters one after the other and prints them.            *)
(*                                                                         *)
(* The limiter only delays a request.  The VideoRecService of this         *)
(* repository answers Unimplemented to everything; a completed one gives   *)
(* any of RecAnswers, and the deadline of 10 s ends a call in any case.    *)
(***************************************************************************)
EXTENDS Integers, Sequences, FiniteSets, SequencesExt

CONSTANTS Conns,            \* connections
          USER_ID_OFFSET, MIN_USER_COUNT,
          RecAnswers,       \* what GetTopVideos may answer
          Latencies,        \* milliseconds a call may take
          Word,             \* 2^64
          MaxRequests,      \* bound on requests
          MaxReports        \* bound on reports

ASSUME UserIdAssumption ==
    USER_ID_OFFSET \in Nat /\ MIN_USER_COUNT \in Nat \ {0} /\ USER_ID_OFFSET % MIN_USER_COUNT = 0
\* Fewer than 2^64 requests; milliseconds may add up to more.
ASSUME LoadAssumption ==
    Word \in Nat /\ MaxRequests \in Nat /\ MaxRequests < Word /\ Latencies \subseteq Nat
ASSUME RecAnswersAssumption == RecAnswers \subseteq {"ok", "stale", "error"}

VARIABLES
    alive,      \* no log.Fatalf() yet
    connPc,     \* each connection: dial, loop
    userId,     \* its next user
    reqPc,      \* each goroutine of sendRequest()
    wasSuccess,
    totals,     \* the counters
    order,      \* history: requests in the order in which they were counted as responses
    reportPc,   \* the goroutine of reportStats(): the counter it loads next
    report,     \* what it has loaded
    marks,      \* history: as totalSuccesses was loaded, Len(order) and the successes not yet added
    reports
loadVars == <<alive, connPc, userId, reqPc, wasSuccess, totals, order,
              reportPc, report, marks, reports>>

Requested == 1 .. MaxRequests
NoReport == [responses |-> 0, errors |-> 0, latency |-> 0, stale |-> 0, sent |-> 0]
NoMarks == [counted |-> 0, pending |-> 0]

LoadTypeOK ==
    /\ alive \in BOOLEAN
    /\ connPc \in [Conns -> {"dial", "loop"}]
    /\ userId \in [Conns -> USER_ID_OFFSET .. USER_ID_OFFSET + MIN_USER_COUNT - 1]
    /\ \A q \in Requested : reqPc[q] \in {"none", "new", "waiting", "stale", "response",
                                          "latency", "success", "end"}
    /\ wasSuccess \in [Requested -> BOOLEAN]
    /\ \A k \in DOMAIN totals : totals[k] \in 0 .. Word - 1
    /\ ToSet(order) \subseteq Requested
    /\ reportPc \in {"responses", "successes", "latency", "stale", "sent", "printed"}
    /\ \A k \in DOMAIN report : report[k] \in 0 .. Word - 1

LoadInit ==
    /\ alive = TRUE
    /\ connPc = [n \in Conns |-> "dial"]
    /\ userId = [n \in Conns |-> USER_ID_OFFSET]
    /\ reqPc = [q \in Requested |-> "none"]
    /\ wasSuccess = [q \in Requested |-> FALSE]
    /\ totals = [sent |-> 0, responses |-> 0, successes |-> 0, latency |-> 0, stale |-> 0]
    /\ order = <<>>
    /\ reportPc = "responses" /\ report = NoReport /\ marks = NoMarks /\ reports = 0

-----------------------------------------------------------------------------
(* main()                                                                  *)

getNextUserId(id) == ((id + 1) % MIN_USER_COUNT) + USER_ID_OFFSET

\* serviceConn(): a connection that cannot be set up ends the program.
Dial(n) ==
    /\ alive /\ connPc[n] = "dial"
    /\ \/ connPc' = [connPc EXCEPT ![n] = "loop"] /\ UNCHANGED alive
       \/ alive' = FALSE /\ UNCHANGED connPc
    /\ UNCHANGED <<userId, reqPc, wasSuccess, totals, order, reportPc, report, marks, reports>>

\* The limiter lets the connection go on.
GoSendRequest(n) ==
    /\ alive /\ connPc[n] = "loop"
    /\ \E q \in Requested :
        /\ reqPc[q] = "none" /\ \A p \in 1 .. q - 1 : reqPc[p] # "none"
        /\ reqPc' = [reqPc EXCEPT ![q] = "new"]
    /\ userId' = [userId EXCEPT ![n] = getNextUserId(@)]
    /\ UNCHANGED <<alive, connPc, wasSuccess, totals, order, reportPc, report, marks, reports>>

-----------------------------------------------------------------------------
(* sendRequest()                                                           *)

\* atomic.AddUint64
Count(k, n) == totals' = [totals EXCEPT ![k] = (@ + n) % Word]

At(q, from, to) == alive /\ reqPc[q] = from /\ reqPc' = [reqPc EXCEPT ![q] = to]

Sent(q) ==
    /\ At(q, "new", "waiting") /\ Count("sent", 1)
    /\ UNCHANGED <<alive, connPc, userId, wasSuccess, order, reportPc, report, marks, reports>>

GetTopVideosReturns(q, a) ==
    /\ At(q, "waiting", IF a = "stale" THEN "stale" ELSE "response")
    /\ wasSuccess' = [wasSuccess EXCEPT ![q] = a \in {"ok", "stale"}]
    /\ UNCHANGED <<alive, connPc, userId, totals, order, reportPc, report, marks, reports>>

\* The context's 10 s are over.
RecDeadline(q) == GetTopVideosReturns(q, "error")

Stale(q) ==
    /\ At(q, "stale", "response") /\ Count("stale", 1)
    /\ UNCHANGED <<alive, connPc, userId, wasSuccess, order, reportPc, report, marks, reports>>

\* The deferred function counts the response, ...
Response(q) ==
    /\ At(q, "response", "latency") /\ Count("responses", 1)
    /\ order' = Append(order, q)
    /\ UNCHANGED <<alive, connPc, userId, wasSuccess, reportPc, report, marks, reports>>

\* ... then its latency, ...
Latency(q, ms) ==
    /\ At(q, "latency", IF wasSuccess[q] THEN "success" ELSE "end") /\ Count("latency", ms)
    /\ UNCHANGED <<alive, connPc, userId, wasSuccess, order, reportPc, report, marks, reports>>

\* Mutant of Success: a goroutine that reads an old value of the counter.
SuccessLost(q) ==
    /\ At(q, "success", "end")
    /\ totals' = [totals EXCEPT !.successes = IF \E p \in Requested \ {q} : reqPc[p] = "success" THEN @ ELSE @ + 1]
    /\ UNCHANGED <<alive, connPc, userId, wasSuccess, order, reportPc, report, marks, reports>>

\* ... and last that it was a success.
Success(q) ==
    /\ At(q, "success", "end") /\ Count("successes", 1)
    /\ UNCHANGED <<alive, connPc, userId, wasSuccess, order, reportPc, report, marks, reports>>

-----------------------------------------------------------------------------
(* reportStats()                                                           *)

\* Loads one counter after the other, by atomic.LoadUint64.
Loads(from, to, r) ==
    /\ alive /\ reportPc = from /\ reportPc' = to /\ report' = r
    /\ UNCHANGED <<alive, connPc, userId, reqPc, wasSuccess, totals, order>>

LoadResponses ==
    /\ reports < MaxReports
    /\ Loads("responses", "successes", [NoReport EXCEPT !.responses = totals.responses])
    /\ UNCHANGED <<marks, reports>>

LoadSuccesses ==
    /\ Loads("successes", "latency",
             [report EXCEPT !.errors = (report.responses - totals.successes) % Word])
    /\ marks' = [counted |-> Len(order),
                 pending |-> Cardinality({q \in Requested : wasSuccess[q] /\ reqPc[q] \in {"latency", "success"}})]
    /\ UNCHANGED reports

LoadLatency ==
    Loads("latency", "stale", [report EXCEPT !.latency = totals.latency]) /\ UNCHANGED <<marks, reports>>

LoadStale ==
    Loads("stale", "sent", [report EXCEPT !.stale = totals.stale]) /\ UNCHANGED <<marks, reports>>

\* The number sent is loaded last, as an argument of Printf().
PrintStats ==
    /\ Loads("sent", "printed", [report EXCEPT !.sent = totals.sent])
    /\ reports' = reports + 1
    /\ UNCHANGED marks

\* time.Tick
NextTick == Loads("printed", "responses", report) /\ UNCHANGED <<marks, reports>>

-----------------------------------------------------------------------------
RequestStep(q) ==
    \/ Sent(q) \/ Stale(q) \/ Response(q) \/ Success(q) \/ RecDeadline(q)
    \/ \E ms \in Latencies : Latency(q, ms)

LoadNext ==
    \/ \E n \in Conns : Dial(n) \/ GoSendRequest(n)
    \/ \E q \in Requested : RequestStep(q) \/ \E a \in RecAnswers : GetTopVideosReturns(q, a)
    \/ LoadResponses \/ LoadSuccesses \/ LoadLatency \/ LoadStale \/ PrintStats \/ NextTick

\* Goroutines run on, and a request's context expires in the end.
LoadFairness == \A q \in Requested : WF_loadVars(RequestStep(q))

-----------------------------------------------------------------------------
(* Properties                                                              *)

Failed(n) == Cardinality({i \in 1 .. n : ~wasSuccess[order[i]]})

\* reportStats() prints numbers that were never true together.  How wrong they
\* are: the errors printed are those among the requests counted as it loaded
\* totalSuccesses, less the requests counted since it loaded totalResponses
\* (enough of them wrap the unsigned difference around), plus the successes that
\* wait for their last counter.  No more responses or stale ones than requests
\* sent are ever printed.
ReportExplained ==
    reportPc = "printed" =>
        /\ report.errors = (Failed(marks.counted) - (marks.counted - report.responses)
                                + marks.pending) % Word
        /\ report.responses <= report.sent /\ report.stale <= report.sent

\* The counters come to rest: each request that was sent is counted as a
\* response once, also when the service never answers.
EveryRequestIsCounted ==
    \A q \in Requested :
        (reqPc[q] = "new") ~> (~alive \/ (reqPc[q] = "end" /\ \E i \in DOMAIN order : order[i] = q))
=============================================================================

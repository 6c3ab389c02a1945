---------------------------- MODULE StressTester ----------------------------
(***************************************************************************)
(* lab4/cmd/stress/tester.go: two loops that start a goroutine per request *)
(* until the time is up, the semaphore that bounds the requests under way, *)
(* the wait group main() waits for, and the counters it prints then.       *)
(*                                                                         *)
(* What kv and the checker answer is open here (see ConsistencyChecker for *)
(* the checker): a Get fails, or its answer is skipped, correct or wrong.  *)
(* The rate limiters of the loops and the log of successes only take time; *)
(* the limiter of the error log also decides what is counted.              *)
(***************************************************************************)
EXTENDS Integers, FiniteSets

CONSTANTS MaxPending,  \* --max-pending
          Burst,       \* burst of errorLogLimiter
          MaxJobs      \* bound on requests

ASSUME TesterAssumption == MaxPending \in Nat \ {0} /\ Burst \in Nat /\ MaxJobs \in Nat

Loops == {"Get", "Set"}
Jobs == 1 .. MaxJobs

VARIABLES
    main,      \* main(): start, waiting, reported
    loopPc,    \* each stressLoop(): none, check, acquire, ended
    sem,       \* requests that may still start
    wg,        \* the wait group's counter
    jobPc,     \* each goroutine
    kind,      \* the loop that started it
    outcome,   \* what kv and the checker made of its request
    tally,     \* gets, getErrs, sets, setErrs, cc.ChecksRun, inconsistencies
    tokens,    \* of errorLogLimiter
    asked,     \* history: Allow() calls
    printed    \* what main() has loaded
stVars == <<main, loopPc, sem, wg, jobPc, kind, outcome, tally, tokens, asked, printed>>

Counters == {"Get", "GetErr", "Set", "SetErr", "checks", "inconsistencies"}
Zero == [k \in Counters |-> 0]

\* The semaphore and the wait group never leave their range: no Release() or
\* Done() too many, which would panic.
StTypeOK ==
    /\ main \in {"start", "waiting", "reported"}
    /\ loopPc \in [Loops -> {"none", "check", "acquire", "ended"}]
    /\ sem \in 0 .. MaxPending
    /\ wg \in 0 .. MaxJobs + 2
    /\ jobPc \in [Jobs -> {"none", "begin", "returned", "failed", "judged", "release", "done", "over"}]
    /\ kind \in [Jobs -> Loops]
    /\ outcome \in [Jobs -> {"none", "error", "ok", "skipped", "wrong"}]
    /\ tally \in [Counters -> Nat] /\ printed \in [Counters -> Nat]
    /\ tokens \in 0 .. Burst

\* makeStressTester()
StInit ==
    /\ main = "start"
    /\ loopPc = [l \in Loops |-> "none"]
    /\ sem = MaxPending
    /\ wg = 0
    /\ jobPc = [j \in Jobs |-> "none"]
    /\ kind = [j \in Jobs |-> "Get"]
    /\ outcome = [j \in Jobs |-> "none"]
    /\ tally = Zero /\ printed = Zero
    /\ tokens = Burst /\ asked = 0

-----------------------------------------------------------------------------
(* main() and the loops                                                    *)

StartLoops ==
    /\ main = "start" /\ main' = "waiting"
    /\ wg' = wg + 2
    /\ loopPc' = [l \in Loops |-> "check"]
    /\ UNCHANGED <<sem, jobPc, kind, outcome, tally, tokens, asked, printed>>

\* There is time left, and the loop's limiter lets it go on.  The bound on the
\* requests holds here, where a loop may still end.
LoopOn(l) ==
    /\ loopPc[l] = "check"
    /\ Cardinality({j \in Jobs : jobPc[j] = "none"}) > Cardinality({k \in Loops : loopPc[k] = "acquire"})
    /\ loopPc' = [loopPc EXCEPT ![l] = "acquire"]
    /\ UNCHANGED <<main, sem, wg, jobPc, kind, outcome, tally, tokens, asked, printed>>

\* Mutant of StartJob: the goroutine is not added to the wait group.
StartJobUncounted(l) ==
    /\ loopPc[l] = "acquire" /\ sem > 0
    /\ sem' = sem - 1
    /\ loopPc' = [loopPc EXCEPT ![l] = "check"]
    /\ \E j \in Jobs :
        /\ jobPc[j] = "none" /\ \A i \in 1 .. j - 1 : jobPc[i] # "none"
        /\ jobPc' = [jobPc EXCEPT ![j] = "begin"]
        /\ kind' = [kind EXCEPT ![j] = l]
    /\ UNCHANGED <<main, wg, outcome, tally, tokens, asked, printed>>

\* The semaphore is taken, wg.Add(1) and go.
StartJob(l) ==
    /\ loopPc[l] = "acquire" /\ sem > 0
    /\ sem' = sem - 1
    /\ wg' = wg + 1
    /\ loopPc' = [loopPc EXCEPT ![l] = "check"]
    /\ \E j \in Jobs :
        /\ jobPc[j] = "none" /\ \A i \in 1 .. j - 1 : jobPc[i] # "none"
        /\ jobPc' = [jobPc EXCEPT ![j] = "begin"]
        /\ kind' = [kind EXCEPT ![j] = l]
    /\ UNCHANGED <<main, outcome, tally, tokens, asked, printed>>

LoopEnds(l) ==
    /\ loopPc[l] = "check"
    /\ loopPc' = [loopPc EXCEPT ![l] = "ended"]
    /\ wg' = wg - 1
    /\ UNCHANGED <<main, sem, jobPc, kind, outcome, tally, tokens, asked, printed>>

\* wait() returns and the counters are printed.
Report ==
    /\ main = "waiting" /\ wg = 0
    /\ main' = "reported"
    /\ printed' = tally
    /\ UNCHANGED <<loopPc, sem, wg, jobPc, kind, outcome, tally, tokens, asked>>

-----------------------------------------------------------------------------
(* A request                                                               *)

Goes(j, from, to) == jobPc[j] = from /\ jobPc' = [jobPc EXCEPT ![j] = to]
Add(k) == tally' = [tally EXCEPT ![k] = @ + 1]

\* errorLogLimiter.Allow()
Allow == tokens > 0
TakeToken == /\ asked' = asked + 1
             /\ tokens' = IF Allow THEN tokens - 1 ELSE tokens

\* kv.Get or kv.Set returns, by the timeout of its context if by nothing else;
\* gets or sets is counted.
Returns(j, err) ==
    /\ Goes(j, "begin", IF err THEN "failed" ELSE "returned")
    /\ outcome' = [outcome EXCEPT ![j] = IF err THEN "error" ELSE "ok"]
    /\ Add(kind[j])
    /\ UNCHANGED <<main, loopPc, sem, wg, kind, tokens, asked, printed>>

\* The log line of an error, if there is a token, and its counter.
CountError(j) ==
    /\ Goes(j, "failed", "release")
    /\ TakeToken
    /\ Add(IF kind[j] = "Get" THEN "GetErr" ELSE "SetErr")
    /\ UNCHANGED <<main, loopPc, sem, wg, kind, outcome, printed>>

\* A Set that succeeded; CompleteWrite is not this module's.
SetDone(j) ==
    /\ kind[j] = "Set" /\ Goes(j, "returned", "release")
    /\ UNCHANGED <<main, loopPc, sem, wg, kind, outcome, tally, tokens, asked, printed>>

\* CheckReadCorrect: the read is skipped, or ChecksRun is counted.
Check(j, verdict) ==
    /\ kind[j] = "Get" /\ Goes(j, "returned", IF verdict = "wrong" THEN "judged" ELSE "release")
    /\ outcome' = [outcome EXCEPT ![j] = verdict]
    /\ IF verdict = "skipped" THEN UNCHANGED tally ELSE Add("checks")
    /\ UNCHANGED <<main, loopPc, sem, wg, kind, tokens, asked, printed>>

\* A wrong answer is counted only with a log line.
CountWrong(j) ==
    /\ Goes(j, "judged", "release")
    /\ TakeToken
    /\ IF Allow THEN Add("inconsistencies") ELSE UNCHANGED tally
    /\ UNCHANGED <<main, loopPc, sem, wg, kind, outcome, printed>>

Release(j) ==
    /\ Goes(j, "release", "done")
    /\ sem' = sem + 1
    /\ UNCHANGED <<main, loopPc, wg, kind, outcome, tally, tokens, asked, printed>>

\* wg.Done()
Done(j) ==
    /\ Goes(j, "done", "over")
    /\ wg' = wg - 1
    /\ UNCHANGED <<main, loopPc, sem, kind, outcome, tally, tokens, asked, printed>>

\* Time gives the limiter a token back.
Refill ==
    /\ main = "waiting" /\ tokens < Burst
    /\ tokens' = tokens + 1
    /\ UNCHANGED <<main, loopPc, sem, wg, jobPc, kind, outcome, tally, asked, printed>>

-----------------------------------------------------------------------------
JobStep(j) ==
    \/ \E err \in BOOLEAN : Returns(j, err)
    \/ CountError(j) \/ SetDone(j) \/ CountWrong(j) \/ Release(j) \/ Done(j)
    \/ \E verdict \in {"ok", "skipped", "wrong"} : Check(j, verdict)

StNext ==
    \/ StartLoops \/ Report \/ Refill
    \/ \E l \in Loops : LoopOn(l) \/ StartJob(l) \/ LoopEnds(l)
    \/ \E j \in Jobs : JobStep(j)

\* Goroutines run on, requests time out, and the duration ends.
StFairness ==
    /\ WF_stVars(Report)
    /\ \A l \in Loops : WF_stVars(LoopEnds(l)) /\ WF_stVars(StartJob(l))
    /\ \A j \in Jobs : WF_stVars(JobStep(j))

-----------------------------------------------------------------------------
(* Properties                                                              *)

Started(P(_)) == Cardinality({j \in Jobs : jobPc[j] # "none" /\ P(j)})

\* main() prints when nothing is under way any more: every request that either
\* loop started is in the totals, and so are all the errors and checks, whatever
\* the two loops did last.  Inconsistencies are missing only if errors and wrong
\* answers were more than the burst of the log limiter; the report never shows
\* more than there were.
ReportIsComplete ==
    main = "reported" =>
        LET wrong == Started(LAMBDA j : outcome[j] = "wrong")
        IN  /\ \A l \in Loops : printed[l] = Started(LAMBDA j : kind[j] = l)
            /\ printed["GetErr"] + printed["SetErr"] = Started(LAMBDA j : outcome[j] = "error")
            /\ printed["checks"] =
                    Started(LAMBDA j : kind[j] = "Get" /\ outcome[j] \in {"ok", "wrong"})
            /\ printed["inconsistencies"] <= wrong
            /\ asked <= Burst => printed["inconsistencies"] = wrong

\* The tester ends and prints its report: no place of the semaphore and no count
\* of the wait group is lost, also by requests that fail.
TesterReports == (main = "waiting") ~> (main = "reported")
=============================================================================

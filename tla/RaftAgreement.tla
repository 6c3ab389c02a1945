---------------------------- MODULE RaftAgreement ----------------------------
(***************************************************************************)
(* lab2/raft/config.go: how the harness judges a Raft.  One applier        *)
(* goroutine per incarnation of a server reads the entries its Raft        *)
(* commits, compares them with what every server committed so far and ends *)
(* the process if they disagree or come out of order; meanwhile the test   *)
(* submits a command with one(), or waits for an index with wait(), and    *)
(* counts, one server at a time, how many have committed it.               *)
(*                                                                         *)
(* The Raft under test (external) may answer Start() and GetState() as it  *)
(* likes and may commit anything anywhere.  Time passes in the Sleep()s of *)
(* the test; a tick stands for one of them.                                *)
(***************************************************************************)
EXTENDS Integers, FiniteSets

CONSTANTS N,             \* cfg.n, the number of servers
          Cmds,          \* commands
          Submitted,     \* commands the test submits with one()
          NoCmd,         \* no entry, or nil
          MaxIndex,      \* bound on the indices of the log
          MaxRestarts,   \* bound on restarts of servers, all together
          MaxMsgs,       \* bound on the different entries committed
          MaxCalls,      \* bound on the calls of one() and wait()
          AgreeWait,     \* ticks one() waits for an agreement (5 seconds)
          GiveUp,        \* ticks after which one() stops trying (25 seconds)
          WaitIters      \* iterations of wait() (30)

Nodes == 0 .. N - 1
Index == 1 .. MaxIndex
Appliers == Nodes \X (1 .. MaxRestarts + 1)
Entries == Cmds \cup {NoCmd}

ASSUME SizesAssumption ==
    /\ N \in Nat \ {0} /\ MaxIndex \in Nat \ {0} /\ MaxRestarts \in Nat
    /\ MaxMsgs \in Nat /\ MaxCalls \in Nat
ASSUME TimesAssumption ==
    AgreeWait \in Nat \ {0} /\ GiveUp \in Nat \ {0} /\ WaitIters \in Nat \ {0}
ASSUME CmdsAssumption == NoCmd \notin Cmds /\ Submitted \subseteq Cmds

VARIABLES
    logs,       \* cfg.logs: what each server committed
    inc,        \* incarnations of each server so far
    err,        \* err_msg of each applier, between the check and log.Fatalf
    exited,     \* log.Fatalf ended the process
    tpc,        \* control point of the test
    op,         \* the call the test is in, or was in last
    index,      \* index given to nCommitted()
    now, t1,    \* ticks (one) or iterations (wait) so far; start of the wait
    ni,         \* nCommitted(): servers looked at
    count, cmd, \* nCommitted(): results so far
    calls,      \* calls so far
    accepted,   \* history: Start()s accepted in this one()
    applied,    \* history: entries each applier was given
    gap         \* history: an applier was given an entry without the one before

judgeVars == <<logs, inc, err, exited, applied, gap>>
countVars == <<ni, count, cmd>>
vars == <<judgeVars, tpc, op, index, now, t1, countVars, calls, accepted>>

NoErr == "none"

\* one() has a command to agree on; wait() only an index, and may be told to
\* return when a server has reached a later term.
Ops == [kind : {"one"}, cmd : Cmds, n : 0 .. N, retry : BOOLEAN] \cup
       [kind : {"wait"}, cmd : {NoCmd}, n : 0 .. N, retry : BOOLEAN]

TypeOK ==
    /\ logs \in [Nodes -> [Index -> Entries]]
    /\ inc \in [Nodes -> 1 .. MaxRestarts + 1]
    /\ err \in [Appliers -> {NoErr, "mismatch", "order"}]
    /\ exited \in BOOLEAN
    /\ tpc \in {"idle", "submit", "count", "judge", "recount", "rejudge",
                "returned", "moved", "failed"}
    /\ op \in Ops
    /\ index \in Index
    /\ now \in Nat /\ t1 \in Nat
    /\ ni \in 0 .. N /\ count \in 0 .. N /\ cmd \in Entries
    /\ calls \in 0 .. MaxCalls
    /\ accepted \in Nat
    /\ applied \in [Appliers -> SUBSET (Index \X Cmds)]
    /\ gap \in [Appliers -> BOOLEAN]

Init ==
    /\ logs = [i \in Nodes |-> [x \in Index |-> NoCmd]]
    /\ inc = [i \in Nodes |-> 1]
    /\ err = [a \in Appliers |-> NoErr]
    /\ exited = FALSE
    /\ tpc = "idle" /\ op = [kind |-> "wait", cmd |-> NoCmd, n |-> 0, retry |-> FALSE]
    /\ index = 1 /\ now = 0 /\ t1 = 0
    /\ ni = 0 /\ count = 0 /\ cmd = NoCmd
    /\ calls = 0 /\ accepted = 0
    /\ applied = [a \in Appliers |-> {}]
    /\ gap = [a \in Appliers |-> FALSE]

-----------------------------------------------------------------------------
(* The appliers                                                            *)

\* Mutant of Mismatch: a server's own log is not looked at.
MismatchElsewhere(i, x, v) == \E j \in Nodes \ {i} : logs[j][x] \notin {NoCmd, v}

\* checkLogs: some server, this one included, committed another value at x.
Mismatch(i, x, v) == \E j \in Nodes : logs[j][x] \notin {NoCmd, v}

\* Mutant of PrevMissing: the first entry has none before it either.
PrevMissingAtFirst(i, x) == x = 1 \/ logs[i][x - 1] = NoCmd

\* m.CommandIndex > 1 && !prevok
PrevMissing(i, x) == x > 1 /\ logs[i][x - 1] = NoCmd

Delivered == UNION {{a} \X applied[a] : a \in Appliers}

\* A Raft commits v at index x; its applier checks and records it under the
\* lock.  Old incarnations have not necessarily stopped.
Apply(a, x, v) ==
    /\ ~exited
    /\ a[2] <= inc[a[1]] /\ err[a] = NoErr
    /\ Cardinality(Delivered \cup {<<a, <<x, v>>>>}) <= MaxMsgs
    /\ err' = [err EXCEPT ![a] = IF PrevMissing(a[1], x) THEN "order"
                                 ELSE IF Mismatch(a[1], x, v) THEN "mismatch" ELSE NoErr]
    /\ logs' = [logs EXCEPT ![a[1]][x] = v]
    /\ applied' = [applied EXCEPT ![a] = @ \cup {<<x, v>>}]
    /\ gap' = [gap EXCEPT ![a] =
                   @ \/ (x > 1 /\ \A w \in Cmds : <<x - 1, w>> \notin applied[a])]
    /\ UNCHANGED <<inc, exited, tpc, op, index, now, t1, countVars, calls, accepted>>

\* log.Fatalf
ApplyError(a) ==
    /\ ~exited
    /\ err[a] # NoErr
    /\ exited' = TRUE
    /\ UNCHANGED <<logs, inc, err, applied, gap, tpc, op, index, now, t1, countVars, calls,
                   accepted>>

-----------------------------------------------------------------------------
(* The test restarts servers between calls                                *)

Idle == tpc \in {"idle", "returned", "moved"} /\ ~exited /\ calls < MaxCalls

\* start1(i) on a server that runs: a new applier, but cfg.logs[i] is kept
\* (module RaftConfig has the rest of it).
Restart(i) ==
    /\ Idle
    /\ Cardinality({a \in Appliers : a[2] <= inc[a[1]]}) < N + MaxRestarts
    /\ inc' = [inc EXCEPT ![i] = @ + 1]
    /\ tpc' = "idle"
    /\ UNCHANGED <<logs, err, exited, applied, gap, op, index, now, t1, countVars, calls,
                   accepted>>

-----------------------------------------------------------------------------
(* nCommitted(index), one server at a time                                 *)

StartCount(label) == tpc' = label /\ ni' = 0 /\ count' = 0 /\ cmd' = NoCmd

\* Another value than before is t.Fatalf, which ends the test.
Counted(i) ==
    IF logs[i][index] = NoCmd THEN UNCHANGED <<tpc, count, cmd>>
    ELSE IF count > 0 /\ cmd # logs[i][index] THEN tpc' = "failed" /\ UNCHANGED <<count, cmd>>
    ELSE count' = count + 1 /\ cmd' = logs[i][index] /\ UNCHANGED tpc

CountOne ==
    /\ tpc \in {"count", "recount"} /\ ~exited
    /\ ni < N
    /\ ni' = ni + 1
    /\ Counted(ni)
    /\ UNCHANGED <<judgeVars, op, index, now, t1, calls, accepted>>

CountDone ==
    /\ tpc \in {"count", "recount"} /\ ~exited
    /\ ni = N
    /\ tpc' = IF tpc = "count" THEN "judge" ELSE "rejudge"
    /\ UNCHANGED <<judgeVars, op, index, now, t1, countVars, calls, accepted>>

-----------------------------------------------------------------------------
(* one(cmd, n, retry)                                                      *)

OneCall(c, n, retry) ==
    /\ Idle
    /\ op' = [kind |-> "one", cmd |-> c, n |-> n, retry |-> retry]
    /\ tpc' = "submit" /\ now' = 0
    /\ calls' = calls + 1 /\ accepted' = 0
    /\ UNCHANGED <<judgeVars, index, t1, countVars>>

\* A round of Start() calls, one connected server after another: the first one
\* to take the command gives it index x ...
StartAccepted(x) ==
    /\ tpc = "submit" /\ ~exited
    /\ accepted' = accepted + 1
    /\ index' = x /\ t1' = now
    /\ StartCount("count")
    /\ UNCHANGED <<judgeVars, op, now, calls>>

\* The head of the outer loop.
NextRound == tpc' = IF now' < GiveUp THEN "submit" ELSE "failed"

\* ... or none is connected and the leader: Sleep, and another round unless it
\* is too late.
NoLeader ==
    /\ tpc = "submit" /\ ~exited
    /\ now' = now + 1
    /\ NextRound
    /\ UNCHANGED <<judgeVars, op, index, t1, countVars, calls, accepted>>

\* Mutant of Agreed: a command that was not submitted here will do.
AgreedOnAny == count > 0 /\ count >= op.n

Agreed == count > 0 /\ count >= op.n /\ cmd = op.cmd

OneReturns ==
    /\ tpc = "judge" /\ op.kind = "one" /\ ~exited
    /\ Agreed
    /\ tpc' = "returned"
    /\ UNCHANGED <<judgeVars, op, index, now, t1, countVars, calls, accepted>>

\* The wait for this agreement is over: try again, or fail the test.
TimedOut == IF op.retry THEN NextRound ELSE tpc' = "failed"

\* Not agreed yet: Sleep, and count again unless it is too late.
OneSleeps ==
    /\ tpc = "judge" /\ op.kind = "one" /\ ~exited
    /\ ~Agreed
    /\ now' = now + 1
    /\ IF now' - t1 < AgreeWait THEN StartCount("count") ELSE TimedOut /\ UNCHANGED countVars
    /\ UNCHANGED <<judgeVars, op, index, t1, calls, accepted>>

-----------------------------------------------------------------------------
(* wait(index, n, startTerm); op.retry stands for startTerm > -1           *)

WaitCall(x, n, terms) ==
    /\ Idle
    /\ op' = [kind |-> "wait", cmd |-> NoCmd, n |-> n, retry |-> terms]
    /\ index' = x /\ now' = 0
    /\ StartCount("count")
    /\ calls' = calls + 1 /\ accepted' = 0
    /\ UNCHANGED <<judgeVars, t1>>

WaitBreaks ==
    /\ tpc = "judge" /\ op.kind = "wait" /\ ~exited
    /\ count >= op.n
    /\ StartCount("recount")
    /\ UNCHANGED <<judgeVars, op, index, now, t1, calls, accepted>>

\* Mutant of WaitSleeps: no limit on the iterations.
WaitSleepsForever ==
    /\ tpc = "judge" /\ op.kind = "wait" /\ ~exited
    /\ count < op.n
    /\ StartCount("count")
    /\ UNCHANGED <<judgeVars, op, index, now, t1, calls, accepted>>

\* Sleep; then the next iteration, or the last count.
WaitSleeps ==
    /\ tpc = "judge" /\ op.kind = "wait" /\ ~exited
    /\ count < op.n
    /\ now' = now + 1
    /\ StartCount(IF now' < WaitIters THEN "count" ELSE "recount")
    /\ UNCHANGED <<judgeVars, op, index, t1, calls, accepted>>

\* ... unless some server's GetState() shows a later term: return -1.
WaitMovedOn ==
    /\ tpc = "judge" /\ op.kind = "wait" /\ op.retry /\ ~exited
    /\ count < op.n
    /\ tpc' = "moved"
    /\ UNCHANGED <<judgeVars, op, index, now, t1, countVars, calls, accepted>>

WaitReturns ==
    /\ tpc = "rejudge" /\ ~exited
    /\ tpc' = IF count < op.n THEN "failed" ELSE "returned"
    /\ UNCHANGED <<judgeVars, op, index, now, t1, countVars, calls, accepted>>

-----------------------------------------------------------------------------
TestStep ==
    \/ \E x \in Index : StartAccepted(x)
    \/ NoLeader \/ OneReturns \/ OneSleeps \/ CountOne \/ CountDone
    \/ WaitBreaks \/ WaitSleeps \/ WaitMovedOn \/ WaitReturns

Next ==
    \/ \E a \in Appliers, x \in Index, v \in Cmds : Apply(a, x, v)
    \/ \E a \in Appliers : ApplyError(a)
    \/ \E i \in Nodes : Restart(i)
    \/ \E c \in Submitted, n \in 1 .. N, retry \in BOOLEAN : OneCall(c, n, retry)
    \/ \E x \in Index, n \in 1 .. N, terms \in BOOLEAN : WaitCall(x, n, terms)
    \/ TestStep

Spec == Init /\ [][Next]_vars

-----------------------------------------------------------------------------
(* Properties                                                              *)

\* Two committed entries of one index differ, whichever incarnation committed
\* them and whatever has been recorded over them since.
Disagreement ==
    \E a, b \in Appliers : \E e \in applied[a], f \in applied[b] :
        e[1] = f[1] /\ e[2] # f[2]

Caught == exited \/ \E a \in Appliers : err[a] # NoErr

\* lab2.md gives no credit when "two nodes in the cluster disagree on the value
\* for a committed log entry with the same index": the appliers never miss it,
\* across restarts and with old incarnations still committing.  Entries out of
\* order are noticed at a server that was never restarted.
WrongRaftIsCaught ==
    /\ Disagreement => Caught
    /\ \A i \in Nodes : (inc[i] = 1 /\ gap[<<i, 1>>]) => Caught

\* A Raft that commits the same entries everywhere, each incarnation in order
\* and from the first one, is never blamed: not by an applier that finds the
\* entries of an earlier incarnation, nor by nCommitted(), which reads the logs
\* one at a time while they grow.
NoFalseAlarm ==
    (Caught \/ (tpc \in {"count", "recount"} /\ count > 0 /\ \E i \in Nodes :
                    logs[i][index] \notin {NoCmd, cmd}))
        => Disagreement \/ \E a \in Appliers : gap[a]

\* When one() or wait() returns, as many servers as it was asked for have
\* committed its command at its index, and still have when the last log has
\* been read, unless an applier has found a disagreement meanwhile; and "if
\* retry==false, calls Start() only once": a command that may have been accepted
\* is not submitted again.
OneKeepsItsWord ==
    /\ tpc = "returned" =>
        \/ Caught
        \/ /\ Cardinality({i \in Nodes : logs[i][index] = cmd}) >= op.n
           /\ op.kind = "one" => cmd = op.cmd
    /\ op.kind = "one" /\ ~op.retry => accepted <= 1
=============================================================================

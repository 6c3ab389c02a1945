----------------------------- MODULE RaftChecks -----------------------------
(***************************************************************************)
(* The test of lab2/raft/config.go in any one of its calls: one() and      *)
(* wait(), with the appliers (RaftAgreement), or a leader check            *)
(* (RaftLeaders).  The leader checks look at nothing the appliers change,  *)
(* so they are started before anything is committed.                       *)
(***************************************************************************)
EXTENDS RaftAgreement, RaftLeaders

allVars == <<vars, leaderVars>>

ChecksTypeOK == TypeOK /\ LeadersTypeOK

ChecksInit == Init /\ LeadersInit

ChecksNext ==
    \/ lpc = "idle" /\ steps = 0 /\ Next /\ UNCHANGED leaderVars
    \/ tpc = "idle" /\ Delivered = {} /\ LeadersNext /\ UNCHANGED vars

\* The test and the appliers run on; nothing is assumed of the Raft.
ChecksSpec ==
    /\ ChecksInit /\ [][ChecksNext]_allVars
    /\ WF_allVars(TestStep /\ UNCHANGED leaderVars)
    /\ \A a \in Appliers : WF_allVars(ApplyError(a) /\ UNCHANGED leaderVars)
    /\ WF_allVars(LeadersStep /\ UNCHANGED vars)

\* one() "entirely gives up", wait() does not "wait forever" and checkOneLeader()
\* tries "a few times": a call ends whatever the Raft does, or an applier that
\* found an error ends the process.
EveryCallEnds ==
    (lpc = "look" \/ tpc \notin {"idle", "returned", "moved", "failed"})
        ~> (exited \/ (lpc # "look" /\ tpc \in {"idle", "returned", "moved", "failed"}))
=============================================================================

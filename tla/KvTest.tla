------------------------------- MODULE KvTest -------------------------------
(***************************************************************************)
(* The test process of lab4/kv/test: the thread of a test moves shards     *)
(* with the workflows of test_setup.go, or injects failures into the       *)
(* clients of test_clientpool.go while requests are under way.  The two    *)
(* share no state (what would join them, the servers' and the client's     *)
(* methods, is left to be written), so a behaviour has one or the other.   *)
(***************************************************************************)
EXTENDS ShardWorkflows, TestClientPool

VARIABLE moving   \* the test runs workflows

testVars == <<moving, vars, poolVars>>

TestInit ==
    /\ moving \in BOOLEAN /\ Init /\ PoolInit
    /\ ~moving => published = [s \in Shards |-> <<>>]

TestNext ==
    /\ UNCHANGED moving
    /\ \/ moving /\ Next /\ UNCHANGED poolVars
       \/ ~moving /\ PoolNext /\ UNCHANGED vars

TestSpec ==
    /\ TestInit /\ [][TestNext]_testVars
    /\ Fairness
    /\ PoolFairness

\* Nobody waits for ever: workflows return (MoveRandomShard if there is anything to
\* move), and so do overrides and requests.
TestCallsReturn == WorkflowReturns /\ PoolCallsReturn
=============================================================================

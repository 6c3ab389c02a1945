---------------------------- MODULE StressProcess ----------------------------
(***************************************************************************)
(* The process of lab4/cmd/stress: main() makes the client pool and then   *)
(* the stress tester.  What joins the two, Kv, is left to be written in    *)
(* this repository, so a behaviour has the pool with threads that call it, *)
(* or the tester with a Kv that answers anything.                          *)
(***************************************************************************)
EXTENDS ClientPool, StressTester

VARIABLE testing   \* the tester runs

processVars == <<testing, vars, stVars>>

ProcessInit ==
    /\ testing \in BOOLEAN /\ Init /\ StInit
    /\ testing => known = {} /\ node = [t \in Threads |-> CHOOSE n \in Nodes : TRUE]

ProcessNext ==
    /\ UNCHANGED testing
    /\ \/ ~testing /\ Next /\ UNCHANGED stVars
       \/ testing /\ StNext /\ UNCHANGED vars

ProcessSpec ==
    /\ ProcessInit /\ [][ProcessNext]_processVars
    /\ \A t \in Threads : WF_vars(GetClient(t)) /\ SF_vars(LockAnnounce(t))
    /\ StFairness

\* Nobody waits for ever: GetClient returns, also behind a thread whose connection
\* fails under the lock, and the tester prints its report.
ProcessReturns == CallReturns /\ TesterReports
=============================================================================

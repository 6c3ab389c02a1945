--------------------------- MODULE AtMostOnceRpc ---------------------------
(***************************************************************************)
(* What ClientEnd.Call() promises (lab2/labrpc/labrpc.go, raft.go on       *)
(* sendRequestVote): true means that the handler was executed, once; false *)
(* means nothing: a handler may have been executed, may still be running   *)
(* or may start later, but never a second time.                            *)
(***************************************************************************)
EXTENDS Naturals

CONSTANT Calls

VARIABLES phase,  \* idle, pending, ok, failed
          runs    \* executions of the handler

rpcVars == <<phase, runs>>

Init ==
    /\ phase = [c \in Calls |-> "idle"]
    /\ runs = [c \in Calls |-> 0]

Move(c, from, to) == phase[c] = from /\ phase' = [phase EXCEPT ![c] = to]

Invoke(c) == Move(c, "idle", "pending") /\ UNCHANGED runs

Run(c) ==
    /\ phase[c] \in {"pending", "failed"} /\ runs[c] = 0
    /\ runs' = [runs EXCEPT ![c] = 1]
    /\ UNCHANGED phase

Succeed(c) == Move(c, "pending", "ok") /\ runs[c] = 1 /\ UNCHANGED runs

Fail(c) == Move(c, "pending", "failed") /\ UNCHANGED runs

Next == \E c \in Calls : Invoke(c) \/ Run(c) \/ Succeed(c) \/ Fail(c)

Spec == Init /\ [][Next]_rpcVars
=============================================================================

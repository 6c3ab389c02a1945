--------------------------- MODULE MCStressProcess ---------------------------
(* Three threads want the client of one node: one may connect while a second *)
(* waits for the write lock and a third for the read lock.  Three requests   *)
(* of the tester for two places, and fewer log lines than requests.  No      *)
(* symmetry, since the run checks liveness properties.                       *)
EXTENDS StressProcess
=============================================================================

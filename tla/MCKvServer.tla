---------------------------- MODULE MCKvServer ----------------------------
(* Two updaters, each with one UpdateShardMapping of two Update() calls, and *)
(* a server that registers and shuts down at any moment of them.  No         *)
(* symmetry, since the runs check liveness properties.                       *)
EXTENDS KvServer
=============================================================================

---------------------------- MODULE MCRaftChecks ----------------------------
(* Two servers, one of which may be restarted: three appliers; their leader   *)
(* and terms change up to four times.                                         *)
EXTENDS RaftChecks
=============================================================================

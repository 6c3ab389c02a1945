------------------------------ MODULE MCKvTest ------------------------------
(* SetToSeq orders sets by CHOOSE, so model values are not interchangeable:   *)
(* no symmetry here.  Of the four methods, Get stands for those whose         *)
(* override ClearOverrides() removes, Set for the others.                     *)
EXTENDS KvTest
=============================================================================

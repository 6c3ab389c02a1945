------------------------------- MODULE MCLab1 -------------------------------
(* Requests of every kind the handlers tell apart, a list of top videos that *)
(* is longer than a batch, configs that always, never and sometimes fail or  *)
(* hang or that make the server panic, sums beyond the modulus, and hashes   *)
(* of either sign.                                                           *)
EXTENDS Lab1

CONSTANTS a, b, d, gone, f1, f2

MCRequests == {<<>>, <<a>>, <<b, b>>, <<a, b, a>>, <<gone>>, <<a, gone>>}
MCTopPicks == {<<a, b, a, d>>, <<a, a>>}
MCConfigs == {Cleared, [fail |-> 1, omit |-> 0], [fail |-> 0, omit |-> 1],
              [fail |-> 2, omit |-> 2], [fail |-> 1, omit |-> -1]}
MCCoeffMaps == {<<>>, f1 :> 3, (f1 :> 3) @@ (f2 :> 5), (f1 :> 7) @@ (f2 :> 2)}
MCFnv32 == [sum \in 0 .. Modulus - 1 |-> 11 * (sum - 4)]
=============================================================================

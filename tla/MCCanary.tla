------------------------------- MODULE MCCanary -------------------------------
(***************************************************************************)
(* A route in production and two candidates, one of them on two nodes, two *)
(* ticks, and scores that allow two promotions in a row.                   *)
(***************************************************************************)
EXTENDS Canary, TLC

CONSTANTS a, b, c, n1, n2, k1, k2

ThreeRoutes == {a, b, c}
NodeKeysMC == (a :> <<n1>>) @@ (b :> <<n1, n2>>) @@ (c :> <<n2>>)
EditB == (a :> 0) @@ (b :> 1) @@ (c :> 0)
TwoTicks == {k1, k2}
Symmetry == Permutations(TwoTicks)
AllFaults == {"refuse", "raise", "lost", "commit", "crash"}
=============================================================================

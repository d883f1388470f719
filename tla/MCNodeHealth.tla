---------------------------- MODULE MCNodeHealth ----------------------------
(* Either one Iranian node and two concurrent requests, or two nodes, one   *)
(* of them Iranian, and the poll alone.                                     *)
EXTENDS NodeHealth, TLC

CONSTANTS ir, de, j1, j2

OneNode == {ir}
TwoNodes == {ir, de}
TheIran == {ir}
NoJobs == {}
OneJob == {j1}
TwoJobs == {j1, j2}
JobSymmetry == Permutations(TwoJobs)
NoFaults == {}
Removals == {"remove"}
AllFaults == {"crash", "remove"}
=============================================================================

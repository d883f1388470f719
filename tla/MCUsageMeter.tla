---------------------------- MODULE MCUsageMeter ----------------------------
(* Two nodes and one user with two clients, which pay for both nodes.       *)
EXTENDS UsageMeter, TLC

CONSTANTS n1, n2, c1, c2, u1

TwoNodes == {n1, n2}
TwoClients == {c1, c2}
OneUser == {u1}
TwoOwner == c1 :> u1 @@ c2 :> u1
AllNodes == {TwoNodes}
Twins == Permutations(TwoNodes) \cup Permutations(TwoClients)
Everything == {"reboot", "remove", "delete", "reset", "update", "crash"}
Removals == {"remove"}
\* A node that comes back is billed again for its old bytes: bound on that, and on
\* the nodes that are removed.
UsageBound ==
  /\ \A n \in Nodes : /\ \A c \in Clients : used[c][n] <= MaxBytes
                      /\ \A u \in Users : spent[u][n] <= MaxBytes
  /\ removed # TwoNodes
=============================================================================

---------------------------- MODULE MCAgentLink ----------------------------
(***************************************************************************)
(* Three commands of the master: two applies, so that there is something   *)
(* to go back to, and a rollback with an operation id; or, with every      *)
(* fault, one apply and the rollback: an apply carried out twice leaves a  *)
(* fallback of itself.                                                     *)
(***************************************************************************)
EXTENDS AgentLink, TLC

CONSTANTS t1, t2, good1, good2, first, second, undo, o1, o2, o3

ThreadsMC == {t1, t2}
ConfigsMC == {good1, good2}
CallsMC == {first, second, undo}
TwoCalls == {first, undo}
CallRequestMC ==
  (first :> [kind |-> "apply", config |-> good1, op |-> o1])
  @@ (second :> [kind |-> "apply", config |-> good2, op |-> o2])
  @@ (undo :> [kind |-> "rollback", config |-> NoConfig, op |-> o3])
TwoRequests == [c \in TwoCalls |-> CallRequestMC[c]]
AllFaults == {"crash", "io"}
OnlyCrash == {"crash"}
Symmetry == Permutations(ThreadsMC)
=============================================================================

--------------------------- MODULE MCAgentConfig ---------------------------
(***************************************************************************)
(* Small instances of AgentConfig.  A journal of two entries that drops    *)
(* one fills up and evicts with three operation ids.                       *)
(***************************************************************************)
EXTENDS AgentConfig, TLC

CONSTANTS t1, t2, good1, good2, bad, o1, o2, o3

ThreadsMC == {t1, t2}
ConfigsMC == {good1, good2, bad}
AcceptedMC == {good1, good2}
OpIdsMC == {o1, o2, o3}
NoFaults == {}
AllFaults == {"crash", "io"}
Symmetry == Permutations(ThreadsMC) \cup Permutations(AcceptedMC)
              \cup Permutations(OpIdsMC)
=============================================================================

---------------------------- MODULE NationalMode ----------------------------
(***************************************************************************)
(* The national-mode engine (master/app/services/national_mode.py): the    *)
(* system-state row switches to NATIONAL after a run of polls that reached *)
(* no node and back to NORMAL after a shorter run of polls that reached    *)
(* some.  NodeHealth drives it, once per poll.                             *)
(***************************************************************************)
EXTENDS Naturals

CONSTANTS
  NationalEnabled,    \* settings.national_mode_enabled
  FailureThreshold,   \* settings.national_failure_threshold, 3 by default
  RecoveryThreshold,  \* settings.national_recovery_threshold, 2 by default
  CounterCap          \* bound: the counters are only compared with thresholds

ASSUME NationalAssumption ==
  /\ NationalEnabled \in BOOLEAN
  /\ FailureThreshold \in Nat \ {0} /\ RecoveryThreshold \in Nat \ {0}
  /\ CounterCap \in Nat
  /\ CounterCap >= FailureThreshold /\ CounterCap >= RecoveryThreshold

VARIABLES
  mode,       \* SystemState.mode
  failures,   \* SystemState.international_failures
  successes,  \* SystemState.international_successes
  recent      \* history: what the last CounterCap polls found, newest first

nationalVars == <<mode, failures, successes, recent>>

Findings == {"none", "reached", "cut"}

Bumped(n) == IF n < CounterCap THEN n + 1 ELSE n

Remember(finding) ==
  recent' = [i \in 1..CounterCap |-> IF i = 1 THEN finding ELSE recent[i - 1]]

\* (variant: a poll that reached a node does not interrupt a run of failures)
Reached_KeepsFailures ==
  /\ successes' = Bumped(successes)
  /\ failures' = failures
  /\ mode' = IF mode = "NATIONAL" /\ successes' >= RecoveryThreshold
             THEN "NORMAL" ELSE mode
  /\ Remember("reached")

Reached ==
  /\ successes' = Bumped(successes)
  /\ failures' = 0
  /\ mode' = IF mode = "NATIONAL" /\ successes' >= RecoveryThreshold
             THEN "NORMAL" ELSE mode
  /\ Remember("reached")

\* (variant: one failure too many is required)
Cut_Late ==
  /\ failures' = Bumped(failures)
  /\ successes' = 0
  /\ mode' = IF NationalEnabled /\ failures > FailureThreshold
             THEN "NATIONAL" ELSE mode
  /\ Remember("cut")

Cut ==
  /\ failures' = Bumped(failures)
  /\ successes' = 0
  /\ mode' = IF NationalEnabled /\ failures' >= FailureThreshold
             THEN "NATIONAL" ELSE mode
  /\ Remember("cut")

\* update_connectivity
UpdateConnectivity(foreignReachable) ==
  IF foreignReachable THEN Reached ELSE Cut

NationalInit ==
  /\ mode = "NORMAL"
  /\ failures = 0
  /\ successes = 0
  /\ recent = [i \in 1..CounterCap |-> "none"]

-----------------------------------------------------------------------------
NationalTypeOK ==
  /\ mode \in {"NORMAL", "NATIONAL"}
  /\ failures \in 0..CounterCap
  /\ successes \in 0..CounterCap
  /\ recent \in [1..CounterCap -> Findings]

Run(n, finding) == \A i \in 1..n : recent[i] = finding

\* The mode is never behind the evidence: after enough polls in a row that found
\* the nodes cut off the system is in national mode, after enough that reached
\* one it is not.
ModeFollowsEvidence ==
  /\ NationalEnabled /\ Run(FailureThreshold, "cut") => mode = "NATIONAL"
  /\ Run(RecoveryThreshold, "reached") => mode = "NORMAL"

\* And it never flips on less: only a full run of equal findings, the poll that
\* flips it included, changes the mode.
FlipsAreJustified ==
  [][mode' # mode =>
       IF mode' = "NATIONAL" THEN Run(FailureThreshold, "cut")'
                             ELSE Run(RecoveryThreshold, "reached")']_nationalVars
=============================================================================

---------------------------- MODULE ConfigStore ----------------------------
(***************************************************************************)
(* What a node agent promises about the two configuration files it keeps:  *)
(* the configuration in force and the one a rollback would bring back.     *)
(* AgentConfig is the detailed specification and implements this one.      *)
(***************************************************************************)
CONSTANTS
  Accepted,  \* the configurations the core's own checker accepts
  NoConfig,  \* the value of a file that does not exist
  Crashes    \* whether the agent process may die in the middle of a request

VARIABLES
  current,   \* the configuration in force, as a client may rely on it
  fallback   \* the configuration a rollback would restore

storeVars == <<current, fallback>>

Init == current = NoConfig /\ fallback = NoConfig

\* A new configuration comes into force; the old one becomes the fallback.
Adopt(c) == current' = c /\ fallback' = current

\* A rollback: the two configurations change places.
Swap ==
  /\ fallback # NoConfig
  /\ current' = fallback
  /\ fallback' = current

\* A change is attempted: the fallback is overwritten before the outcome is
\* known, and stays overwritten when the attempt fails.
Attempt == fallback' = current /\ UNCHANGED current

\* The agent dies in the middle of a swap: the old current is lost.
LoseCurrent ==
  /\ Crashes
  /\ fallback # NoConfig
  /\ current' = fallback
  /\ UNCHANGED fallback

Next ==
  \/ \E c \in Accepted : Adopt(c)
  \/ Swap
  \/ Attempt
  \/ LoseCurrent

Spec == Init /\ [][Next]_storeVars
=============================================================================

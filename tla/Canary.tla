-------------------------------- MODULE Canary --------------------------------
(***************************************************************************)
(* The intelligence tick: a decision from measured experiments and the     *)
(* model's advice, then a guarded canary of the route it names, which is   *)
(* rolled back or promoted.  A tick of a scheduler that was shut down      *)
(* without waiting may still run beside the new one's; nodes answer,       *)
(* refuse, fail, or do what they were told and their answer is lost.       *)
(***************************************************************************)
EXTENDS Integers, FiniteSets, Sequences

CONSTANTS
  Routes, NoRoute,
  Nodes, NodeKeys,   \* NodeKeys[r]: the nodes of route r, in order
  FirstActive,       \* the route in production at the start
  Decoded,           \* routes whose configuration arrives as the object apply wants:
                     \* none, since the executor sends the decrypted text
  Ticks, Free,
  MaxScore, MinImprovement, RequiredWins,
  MaxEditions,       \* bound: how often the configuration of each route is edited
  CanaryFaults,      \* those of {"refuse", "raise", "lost", "commit", "crash"} that occur
  MaxAstray          \* bound: no fault is added once more nodes have strayed

ASSUME CanaryAssumption ==
  /\ FirstActive \in Routes /\ Decoded \subseteq Routes /\ NoRoute \notin Routes /\ Free \notin Ticks
  /\ NodeKeys \in [Routes -> Seq(Nodes)]
  /\ MaxScore \in Nat /\ MinImprovement \in Nat \ {0} /\ RequiredWins \in Nat
  /\ MaxEditions \in [Routes -> Nat] /\ MaxAstray \in Nat

VARIABLES
  active, golden, wins, score, edition,  \* per route: its row
  lock,          \* _canary_lock
  tick,          \* per tick: where it is and what it has read
  live, kept,    \* per node: the configuration in force and the fallback
  done,          \* per node: the operations its journal records
  astray         \* nodes on which a command had no effect, or one nobody knows of (history)

rows == <<active, golden, wins, score, edition>>
agents == <<live, kept, done>>
vars == <<rows, lock, tick, agents, astray>>

Scores == 0..MaxScore
Untested == -1
Confs == Routes \X Nat
Base == <<NoRoute, 0>>     \* what a node ran before any canary
Nothing == <<NoRoute, 1>>  \* no file
Ops == Confs \X {"apply", "undo"}

Idle == [pc |-> "idle", cand |-> NoRoute, base |-> NoRoute, current |-> 0, wins |-> 0,
         edition |-> 0, applied |-> 0, result |-> "none", score |-> 0]
PCs == {"idle", "chosen", "apply", "benchmark", "rollback", "commit", "undo"}
Results == {"none", "ROLLBACK", "KEEP", "CANARY", "PROMOTE"}

-----------------------------------------------------------------------------
(* Decisions.                                                              *)

\* IntelligenceCycle.run_once.  measured: the scores of the last day's experiments
\* in the snapshot; fallback: a best one; advice: what the model says, "none" when
\* it is disabled, fails or talks nonsense.
RunOnce(measured, fallback, advice, current) ==
  LET chosen == IF advice.candidate = NoRoute THEN fallback ELSE advice.candidate
      gain == measured[chosen] - current
      Do(action, candidate) == [action |-> action, candidate |-> candidate]
  IN IF advice.action = "none" THEN Do("TEST", fallback)
     ELSE IF measured[chosen] = Untested THEN Do("KEEP", NoRoute)
     ELSE IF advice.action \in {"ROLLBACK", "KEEP"} THEN Do(advice.action, NoRoute)
     ELSE IF gain <= 0 THEN Do("KEEP", chosen)
     ELSE Do(IF advice.action # "TEST" /\ gain >= MinImprovement THEN "CANARY" ELSE "TEST", chosen)

Snapshots == [Routes -> Scores \cup {Untested}]
Best(measured) ==
  {r \in Routes : measured[r] # Untested /\ \A s \in Routes : measured[s] <= measured[r]}
Advice == [action : {"none", "KEEP", "TEST", "CANARY", "SWITCH", "ROLLBACK"},
           candidate : Routes \cup {NoRoute}]

\* What may be decided when the active route's score is s: the executor's
\* promises are to hold whatever was measured and advised.
Decided == [s \in Scores |->
  UNION {{RunOnce(m, f, advice, s) : f \in Best(m), advice \in Advice} : m \in Snapshots}]

\* (variant: a candidate as good as the active route is enough)
Decision_Level(current, s, safe, w) ==
  IF ~safe THEN "ROLLBACK"
  ELSE IF s < current THEN "KEEP"
  ELSE IF w < RequiredWins THEN "CANARY" ELSE "PROMOTE"
\* ExperimentPolicy.decision; safe: loss and stability are within the limits.
Decision(current, s, safe, w) ==
  IF ~safe THEN "ROLLBACK"
  ELSE IF s - current < MinImprovement THEN "KEEP"
  ELSE IF w < RequiredWins THEN "CANARY" ELSE "PROMOTE"

-----------------------------------------------------------------------------
(* The agents, as the executor meets them.                                 *)

May(fault) == fault \in CanaryFaults /\ Cardinality(astray) <= MaxAstray

\* n puts conf in force, keeps what it had and records op.
Performed(n, op, conf) ==
  /\ live' = [live EXCEPT ![n] = conf] /\ kept' = [kept EXCEPT ![n] = live[n]]
  /\ done' = [done EXCEPT ![n] = @ \cup {op}]

Conf(k) == <<tick[k].cand, tick[k].edition>>
Node(k, i) == NodeKeys[tick[k].cand][i]

\* apply_config.  ok: execution goes on, whatever the answer says: the
\* configuration is in force, or refused, or the journal has the operation; or
\* the call raises, without effect or after it.  A text is always refused.
Apply(k, n, ok) ==
  LET op == <<Conf(k), "apply">>
      undone == op \in done[n] /\ <<Conf(k), "undo">> \in done[n]
      decoded == tick[k].cand \in Decoded
  IN \/ ok /\ decoded /\ op \notin done[n] /\ Performed(n, op, Conf(k)) /\ UNCHANGED astray
     \/ /\ ok /\ (op \notin done[n] => May("refuse") \/ ~decoded)
        /\ astray' = IF undone THEN astray ELSE astray \cup {n}
        /\ UNCHANGED agents
     \/ ~ok /\ May("raise") /\ UNCHANGED <<agents, astray>>
     \/ /\ ~ok /\ decoded /\ May("lost") /\ op \notin done[n]
        /\ Performed(n, op, Conf(k)) /\ astray' = astray \cup {n}

\* rollback.  last: a failure is logged and nobody tries again.
Rollback(k, n, ok, last) ==
  LET op == <<Conf(k), "undo">>
      swaps == op \notin done[n] /\ kept[n] # Nothing
  IN \/ /\ swaps /\ (~ok => May("lost"))
        /\ Performed(n, op, kept[n]) /\ UNCHANGED astray
     \/ ok /\ op \in done[n] /\ UNCHANGED <<agents, astray>>
     \/ /\ ok /\ op \notin done[n] /\ (kept[n] # Nothing => May("refuse"))
        /\ astray' = astray \cup {n} /\ UNCHANGED agents
     \/ /\ ~ok /\ May("raise")
        /\ astray' = IF last THEN astray \cup {n} ELSE astray
        /\ UNCHANGED agents

Goes(k, change) == tick' = [tick EXCEPT ![k] = change]
\* Into the handler of every exception, which looks at the applied nodes only.
Handled(k, applied) == [Idle EXCEPT !.pc = "undo", !.cand = tick[k].cand,
                                    !.edition = tick[k].edition, !.applied = applied]

-----------------------------------------------------------------------------
(* intelligence_tick and execute_canary.                                   *)

Choose(k) ==
  /\ tick[k].pc = "idle"
  /\ \E current \in Routes : active[current] /\ \E decision \in Decided[score[current]] :
       /\ decision.action \in {"TEST", "CANARY"}
       /\ Goes(k, [Idle EXCEPT !.pc = "chosen", !.cand = decision.candidate])
  /\ UNCHANGED <<rows, lock, agents, astray>>

\* (variant: executions are not kept apart)
MayExecute_Both(k) == TRUE
MayExecute(k) == lock = Free

Enter(k) ==
  LET r == tick[k].cand IN
  /\ tick[k].pc = "chosen" /\ MayExecute(k)
  /\ NodeKeys[r] # <<>>
  /\ Cardinality({s \in Routes : active[s]}) = 1
  /\ \E base \in Routes \ {r} :
       /\ active[base]
       /\ Goes(k, [Idle EXCEPT !.pc = "apply", !.cand = r, !.base = base, !.wins = wins[r],
                               !.current = score[base], !.edition = edition[r]])
  /\ lock' = k
  /\ UNCHANGED <<rows, agents, astray>>

\* Refused: another execution, the checks above, a node that is not ONLINE.
Decline(k) ==
  /\ tick[k].pc = "chosen" /\ Goes(k, Idle)
  /\ UNCHANGED <<rows, lock, agents, astray>>

\* The first node, and after a promotion is decided the others.
ApplyNext(k) ==
  LET i == tick[k].applied + 1
      last == i = Len(NodeKeys[tick[k].cand])
      next == IF tick[k].result = "none" THEN "benchmark" ELSE IF last THEN "commit" ELSE "apply"
  IN /\ tick[k].pc = "apply"
     /\ \/ Apply(k, Node(k, i), TRUE) /\ Goes(k, [tick[k] EXCEPT !.pc = next, !.applied = i])
        \/ Apply(k, Node(k, i), FALSE) /\ Goes(k, Handled(k, i - 1))
     /\ UNCHANGED <<rows, lock>>

Observe(k, s, safe) ==
  LET result == Decision(tick[k].current, s, safe, tick[k].wins + 1)
      next == IF result # "PROMOTE" THEN "rollback"
              ELSE IF Len(NodeKeys[tick[k].cand]) = 1 THEN "commit" ELSE "apply"
  IN /\ tick[k].pc = "benchmark"
     /\ Goes(k, [tick[k] EXCEPT !.pc = next, !.result = result, !.score = s, !.current = 0])
     /\ UNCHANGED <<rows, lock, agents, astray>>

BenchmarkFails(k) ==
  /\ tick[k].pc = "benchmark" /\ May("raise")
  /\ Goes(k, Handled(k, tick[k].applied))
  /\ UNCHANGED <<rows, lock, agents, astray>>

\* (variant: the nodes count as rolled back before they are)
AfterFailedRollback_Cleared(k) == Handled(k, 0)
\* A rollback that raises leaves the node on the list of the applied ones.
AfterFailedRollback(k) == Handled(k, 1)

RollBack(k) ==
  /\ tick[k].pc = "rollback"
  /\ \/ Rollback(k, Node(k, 1), TRUE, FALSE) /\ Goes(k, [tick[k] EXCEPT !.pc = "commit", !.applied = 0])
     \/ Rollback(k, Node(k, 1), FALSE, FALSE) /\ Goes(k, AfterFailedRollback(k))
  /\ UNCHANGED <<rows, lock>>

Promoted(k) == [active EXCEPT ![tick[k].base] = FALSE, ![tick[k].cand] = TRUE]

Commit(k) ==
  LET r == tick[k].cand
      result == tick[k].result
      won == result \in {"CANARY", "PROMOTE"}
  IN /\ tick[k].pc = "commit"
     /\ wins' = [wins EXCEPT ![r] = IF won THEN tick[k].wins + 1 ELSE 0]
     /\ score' = IF won THEN [score EXCEPT ![r] = tick[k].score] ELSE score
     /\ active' = IF result = "PROMOTE" THEN Promoted(k) ELSE active
     /\ golden' = IF result = "PROMOTE" THEN golden \cup {r} ELSE golden
     /\ Goes(k, Idle) /\ lock' = Free
     /\ UNCHANGED <<edition, agents, astray>>

CommitFails(k) ==
  /\ tick[k].pc = "commit" /\ May("commit")
  /\ Goes(k, Handled(k, tick[k].applied))
  /\ UNCHANGED <<rows, lock, agents, astray>>

\* The handler of every exception: the applied nodes in reverse, failures logged.
Undo(k) ==
  LET i == tick[k].applied IN
  /\ tick[k].pc = "undo"
  /\ IF i = 0
     THEN Goes(k, Idle) /\ lock' = Free /\ UNCHANGED <<agents, astray>>
     ELSE /\ \E ok \in BOOLEAN : Rollback(k, Node(k, i), ok, TRUE)
          /\ Goes(k, [tick[k] EXCEPT !.applied = i - 1]) /\ UNCHANGED lock
  /\ UNCHANGED rows

-----------------------------------------------------------------------------
\* update_xray_route: a new configuration; wins, score and status stay.
EditRoute(r) ==
  /\ edition[r] < MaxEditions[r]
  /\ edition' = [edition EXCEPT ![r] = @ + 1]
  /\ UNCHANGED <<active, golden, wins, score, lock, tick, agents, astray>>

\* The master dies: nobody rolls the applied nodes back.
Crash ==
  /\ May("crash") /\ lock # Free
  /\ astray' = astray \cup {NodeKeys[tick[lock].cand][i] : i \in 1..tick[lock].applied}
  /\ tick' = [k \in Ticks |-> Idle] /\ lock' = Free
  /\ UNCHANGED <<rows, agents>>

Init ==
  /\ active = [r \in Routes |-> r = FirstActive]
  /\ golden = {}
  /\ wins = [r \in Routes |-> 0] /\ score = [r \in Routes |-> 0]
  /\ edition = [r \in Routes |-> 0]
  /\ lock = Free /\ tick = [k \in Ticks |-> Idle]
  /\ live = [n \in Nodes |-> Base] /\ kept = [n \in Nodes |-> Nothing]
  /\ done = [n \in Nodes |-> {}]
  /\ astray = {}

Execute(k) ==
  \/ Enter(k) \/ Decline(k) \/ ApplyNext(k)
  \/ \E s \in Scores, safe \in BOOLEAN : Observe(k, s, safe)
  \/ BenchmarkFails(k) \/ RollBack(k) \/ Commit(k) \/ CommitFails(k) \/ Undo(k)

Next ==
  \/ \E k \in Ticks : Choose(k) \/ Execute(k)
  \/ \E r \in Routes : EditRoute(r)
  \/ Crash

Spec == Init /\ [][Next]_vars

-----------------------------------------------------------------------------
(* Properties.                                                             *)

CanaryTypeOK ==
  /\ active \in [Routes -> BOOLEAN] /\ golden \subseteq Routes
  /\ wins \in [Routes -> Nat] /\ score \in [Routes -> Scores]
  /\ \A r \in Routes : edition[r] \in 0..MaxEditions[r]
  /\ lock \in Ticks \cup {Free}
  /\ \A k \in Ticks : tick[k].pc \in PCs /\ tick[k].cand \in Routes \cup {NoRoute}
  /\ live \in [Nodes -> Confs \cup {Base}]
  /\ kept \in [Nodes -> Confs \cup {Base, Nothing}]
  /\ done \in [Nodes -> SUBSET Ops] /\ astray \subseteq Nodes

\* Exactly one route is in production, whichever ticks overlap, fail or are cut
\* short (execute_canary's lock and its single commit).
OneActive == Cardinality({r \in Routes : active[r]}) = 1

\* A route is promoted only over one it beats by the required improvement, as
\* that route is rated when the promotion commits and not when the canary began.
ScoresRise == [][\A r, s \in Routes :
  active'[r] /\ ~active[r] /\ active[s] => score'[r] >= score[s] + MinImprovement]_vars

\* When no execution is under way, a node runs a configuration that was never
\* promoted only if it once refused or answered from its journal, an answer of it
\* was lost for good, or the master died: failed benchmarks, rollbacks that had to
\* be repeated, promotions that stop at another node and failed commits leave
\* nothing behind (execute_canary's handler).
NoCandidateLeft == lock = Free =>
  \A n \in Nodes : live[n][1] \in golden \cup {NoRoute} \/ n \in astray
=============================================================================

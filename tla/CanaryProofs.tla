---------------------------- MODULE CanaryProofs ----------------------------
(***************************************************************************)
(* What holds of canaries for any routes, nodes, ticks, scores and faults. *)
(***************************************************************************)
EXTENDS Canary, FiniteSetTheorems, TLAPS

-----------------------------------------------------------------------------
(* The control of the executions.                                          *)

TickRecords == [pc : PCs, cand : Routes \cup {NoRoute}, base : Routes \cup {NoRoute},
                current : Scores, wins : Nat, edition : Nat, applied : Nat,
                result : Results, score : Scores]

RowsTyped ==
  /\ active \in [Routes -> BOOLEAN] /\ golden \subseteq Routes
  /\ wins \in [Routes -> Nat] /\ score \in [Routes -> Scores]
  /\ edition \in [Routes -> Nat] /\ \A r \in Routes : edition[r] \in 0..MaxEditions[r]

Running == {"apply", "benchmark", "rollback", "commit", "undo"}

\* Exactly the tick that holds the lock is under way.
Locked ==
  /\ lock \in Ticks \cup {Free}
  /\ tick \in [Ticks -> TickRecords]
  /\ \A k \in Ticks : tick[k].pc \in Running <=> lock = k

Single == \E p \in Routes : \A r \in Routes : active[r] <=> r = p

\* What an execution has read is still so, and its list of nodes fits its step.
Shape(x) ==
  /\ x.pc # "idle" => x.cand \in Routes
  /\ x.pc = "apply" => /\ x.applied < Len(NodeKeys[x.cand])
                       /\ x.result \in {"none", "PROMOTE"}
                       /\ x.result = "none" => x.applied = 0
  /\ x.pc \in Running => x.applied <= Len(NodeKeys[x.cand])
  /\ x.pc \in {"benchmark", "rollback"} => x.applied = 1
  /\ x.pc = "benchmark" => x.result = "none"
  /\ x.pc = "rollback" => x.result # "PROMOTE"
  /\ x.pc = "commit" => x.result = "PROMOTE" \/ x.applied = 0
  /\ x.pc \in Running \ {"undo"} => x.base \in Routes \ {x.cand} /\ active[x.base]
  /\ x.pc \in {"apply", "benchmark"} /\ x.result = "none" => x.current = score[x.base]
  /\ x.pc \in {"apply", "commit"} /\ x.result = "PROMOTE" =>
       x.score >= score[x.base] + MinImprovement

Control == RowsTyped /\ Locked /\ Single /\ \A k \in Ticks : Shape(tick[k])

LEMMA IdleRecord == Idle \in TickRecords /\ Idle.pc = "idle" /\ Shape(Idle)
  BY CanaryAssumption DEF Idle, TickRecords, PCs, Results, Scores, Shape, Running

\* A tick goes on, with rows that it and the others have read left alone.
LEMMA GoesOn ==
  ASSUME Control, NEW k \in Ticks, NEW x \in TickRecords, Goes(k, x), Shape(x),
         UNCHANGED rows,
         \/ lock' = lock /\ (x.pc \in Running <=> tick[k].pc \in Running)
         \/ lock = Free /\ lock' = k /\ x.pc \in Running
         \/ lock = k /\ lock' = Free /\ x.pc \notin Running
  PROVE  Control'
  <1>1. tick' = [tick EXCEPT ![k] = x] /\ tick'[k] = x
    BY DEF Goes, Control, Locked
  <1>2. \A q \in Ticks \ {k} : tick'[q] = tick[q]
    BY <1>1 DEF Control, Locked
  <1>3. Locked'
    BY <1>1, <1>2, CanaryAssumption DEF Control, Locked
  <1>4. RowsTyped' /\ Single'
    BY DEF Control, RowsTyped, Single, rows
  <1>5. \A q \in Ticks : Shape(tick[q])'
    BY <1>1, <1>2 DEF Control, Shape, rows
  <1>6. QED
    BY <1>3, <1>4, <1>5 DEF Control

\* A record as the executor changes it.
LEMMA Decides ==
  ASSUME RowsTyped, NEW current \in Routes,
         NEW decision \in Decided[score[current]], decision.action \in {"TEST", "CANARY"}
  PROVE  decision.candidate \in Routes
  <1>1. score[current] \in Scores
    BY DEF RowsTyped
  <1>2. PICK m \in Snapshots : \E f \in Best(m), advice \in Advice :
          decision = RunOnce(m, f, advice, score[current])
    BY <1>1 DEF Decided
  <1>3. PICK f \in Best(m), advice \in Advice : decision = RunOnce(m, f, advice, score[current])
    BY <1>2
  <1>4. f \in Routes /\ advice.candidate \in Routes \cup {NoRoute}
    BY DEF Best, Advice
  <1>5. QED
    BY <1>3, <1>4 DEF RunOnce

LEMMA ControlInit == Init => Control
  <1> SUFFICES ASSUME Init PROVE Control
    OBVIOUS
  <1>1. RowsTyped
    BY CanaryAssumption DEF Init, RowsTyped, Scores
  <1>2. Locked
    BY IdleRecord, CanaryAssumption DEF Init, Locked, Running
  <1>3. Single
    BY CanaryAssumption DEF Init, Single
  <1>4. \A k \in Ticks : Shape(tick[k])
    BY IdleRecord DEF Init
  <1>5. QED
    BY <1>1, <1>2, <1>3, <1>4 DEF Control

LEMMA HandledRecord ==
  ASSUME Control, NEW k \in Ticks, tick[k].pc \in Running,
         NEW i \in Nat, i <= Len(NodeKeys[tick[k].cand])
  PROVE  Handled(k, i) \in TickRecords /\ Handled(k, i).pc = "undo" /\ Shape(Handled(k, i))
  <1>1. tick[k] \in TickRecords /\ tick[k].cand \in Routes
    BY DEF Control, Locked, Shape, Running
  <1>2. Handled(k, i) \in TickRecords /\ Handled(k, i).pc = "undo"
        /\ Handled(k, i).cand = tick[k].cand /\ Handled(k, i).applied = i
    BY <1>1, IdleRecord DEF Handled, TickRecords, PCs, Idle, Results
  <1>3. QED
    BY <1>1, <1>2 DEF Shape, Running

\* The commit: nobody else is under way, so that the rows it rewrites are the ones
\* it has read.
LEMMA ControlCommit ==
  ASSUME Control, NEW k \in Ticks, Commit(k)
  PROVE  Control'
  <1> USE DEF Control
  <1> DEFINE x == tick[k]
             won == x.result \in {"CANARY", "PROMOTE"}
  <1>1. x \in TickRecords /\ Shape(x) /\ x.pc = "commit" /\ lock = k
    BY DEF Commit, Locked, Running
  <1>2. x.cand \in Routes /\ x.base \in Routes \ {x.cand} /\ active[x.base]
    BY <1>1 DEF Shape, Running
  <1>3. /\ wins' = [wins EXCEPT ![x.cand] = IF won THEN x.wins + 1 ELSE 0]
        /\ score' = IF won THEN [score EXCEPT ![x.cand] = x.score] ELSE score
        /\ active' = IF x.result = "PROMOTE" THEN Promoted(k) ELSE active
        /\ golden' = IF x.result = "PROMOTE" THEN golden \cup {x.cand} ELSE golden
        /\ tick' = [tick EXCEPT ![k] = Idle] /\ lock' = Free
        /\ edition' = edition
    BY DEF Commit, Goes
  <1>4. RowsTyped'
    <2>1. x.score \in Scores /\ x.wins + 1 \in Nat
      BY <1>1 DEF TickRecords
    <2>2. active' \in [Routes -> BOOLEAN]
      BY <1>3 DEF Promoted, RowsTyped
    <2>3. wins' \in [Routes -> Nat]
      BY <1>3, <2>1 DEF RowsTyped
    <2>4. score' \in [Routes -> Scores]
      BY <1>3, <2>1 DEF RowsTyped
    <2>5. golden' \subseteq Routes
      BY <1>2, <1>3 DEF RowsTyped
    <2>6. QED
      BY <1>3, <2>2, <2>3, <2>4, <2>5 DEF RowsTyped
  <1>5. \A q \in Ticks : tick'[q].pc \notin Running /\ tick'[q] \in TickRecords
    BY <1>1, <1>3, IdleRecord, CanaryAssumption DEF Locked, Running
  <1>6. Locked'
    BY <1>3, <1>5, IdleRecord, CanaryAssumption DEF Locked
  <1>7. Single'
    <2>1. CASE x.result = "PROMOTE"
      <3>1. \A r \in Routes : active'[r] <=> r = x.cand
        BY <1>2, <1>3, <2>1 DEF Promoted, Single, RowsTyped
      <3>2. QED
        BY <1>2, <3>1 DEF Single
    <2>2. CASE x.result # "PROMOTE"
      BY <1>3, <2>2 DEF Single
    <2>3. QED
      BY <2>1, <2>2
  <1>8. \A q \in Ticks : Shape(tick[q])'
    <2> SUFFICES ASSUME NEW q \in Ticks PROVE Shape(tick[q])'
      OBVIOUS
    <2>1. tick'[q].pc # "idle" => tick'[q].cand \in Routes
      BY <1>3, IdleRecord DEF Locked, Shape
    <2>2. QED
      BY <1>5, <2>1 DEF Shape, Running
  <1>9. QED
    BY <1>4, <1>6, <1>7, <1>8

LEMMA AboveOne == \A n \in Nat : 1 <= n /\ n # 1 => 1 < n
  OBVIOUS

LEMMA ControlExecute ==
  ASSUME Control, NEW k \in Ticks, Execute(k)
  PROVE  Control'
  <1> USE DEF Control
  <1>0. tick[k] \in TickRecords /\ Shape(tick[k])
    BY DEF Locked
  <1>1. CASE Enter(k)
    <2> DEFINE r == tick[k].cand
    <2>1. PICK base \in Routes \ {r} :
            /\ active[base]
            /\ Goes(k, [Idle EXCEPT !.pc = "apply", !.cand = r, !.base = base, !.wins = wins[r],
                               !.current = score[base], !.edition = edition[r]])
      BY <1>1 DEF Enter
    <2> DEFINE x == [Idle EXCEPT !.pc = "apply", !.cand = r, !.base = base, !.wins = wins[r],
                               !.current = score[base], !.edition = edition[r]]
    <2>2. r \in Routes /\ lock = Free /\ lock' = k /\ NodeKeys[r] # <<>> /\ UNCHANGED rows
      BY <1>1, <1>0 DEF Enter, Shape, MayExecute
    <2>3. NodeKeys[r] \in Seq(Nodes) /\ Len(NodeKeys[r]) > 0
      BY <2>2, CanaryAssumption
    <2>4. x \in TickRecords
      <3>1. wins[r] \in Nat /\ score[base] \in Scores /\ edition[r] \in Nat
        BY <2>2 DEF RowsTyped
      <3>2. "apply" \in PCs
        BY DEF PCs
      <3>3. QED
        BY <2>2, <3>1, <3>2, IdleRecord DEF TickRecords
    <2>5. Shape(x) /\ x.pc \in Running
      BY <2>1, <2>2, <2>3 DEF Shape, Idle, Running
    <2>6. QED
      BY <2>1, <2>2, <2>4, <2>5, GoesOn
  <1>2. CASE Decline(k)
    BY <1>2, IdleRecord, GoesOn DEF Decline, Running
  <1>3. CASE ApplyNext(k)
    <2> DEFINE i == tick[k].applied + 1
               last == i = Len(NodeKeys[tick[k].cand])
               next == IF tick[k].result = "none" THEN "benchmark"
                       ELSE IF last THEN "commit" ELSE "apply"
               x == [tick[k] EXCEPT !.pc = next, !.applied = i]
    <2>1. tick[k].pc = "apply" /\ UNCHANGED <<rows, lock>>
      BY <1>3 DEF ApplyNext
    <2>2. tick[k].cand \in Routes /\ i \in Nat /\ i - 1 \in Nat
          /\ i - 1 = tick[k].applied /\ NodeKeys[tick[k].cand] \in Seq(Nodes)
      <3>1. tick[k].applied \in Nat
        BY <1>0, <2>1 DEF Shape, TickRecords
      <3>2. tick[k].cand \in Routes
        BY <1>0, <2>1 DEF Shape, TickRecords
      <3>3. NodeKeys[tick[k].cand] \in Seq(Nodes)
        BY <3>2, CanaryAssumption
      <3>4. QED
        BY <3>1, <3>2, <3>3
    <2>3. Len(NodeKeys[tick[k].cand]) \in Nat /\ i <= Len(NodeKeys[tick[k].cand])
      BY <1>0, <2>1, <2>2 DEF Shape
    <2>4. CASE Goes(k, x)
      <3>1. x \in TickRecords /\ x.pc = next /\ x.applied = i
            /\ x.cand = tick[k].cand /\ x.base = tick[k].base /\ x.result = tick[k].result
            /\ x.score = tick[k].score /\ x.current = tick[k].current
        BY <1>0, <2>2 DEF TickRecords, PCs
      <3>2. Shape(x) /\ x.pc \in Running
        BY <1>0, <2>1, <2>2, <2>3, <3>1 DEF Shape, Running
      <3>3. tick[k].pc \in Running
        BY <2>1 DEF Running
      <3>4. QED
        BY <2>1, <2>4, <3>1, <3>2, <3>3, GoesOn
    <2>5. CASE Goes(k, Handled(k, i - 1))
      <3>1. tick[k].pc \in Running
        BY <2>1 DEF Running
      <3>2. Handled(k, i - 1) \in TickRecords /\ Handled(k, i - 1).pc = "undo"
            /\ Shape(Handled(k, i - 1))
        BY <2>2, <2>3, <3>1, HandledRecord
      <3>3. Handled(k, i - 1).pc \in Running
        BY <3>2 DEF Running
      <3>4. QED
        BY <2>1, <2>5, <3>1, <3>2, <3>3, GoesOn
    <2>6. QED
      BY <1>3, <2>4, <2>5 DEF ApplyNext
  <1>4. CASE \E s \in Scores, safe \in BOOLEAN : Observe(k, s, safe)
    <2>1. PICK s \in Scores, safe \in BOOLEAN : Observe(k, s, safe)
      BY <1>4
    <2> DEFINE result == Decision(tick[k].current, s, safe, tick[k].wins + 1)
               next == IF result # "PROMOTE" THEN "rollback"
                       ELSE IF Len(NodeKeys[tick[k].cand]) = 1 THEN "commit" ELSE "apply"
               x == [tick[k] EXCEPT !.pc = next, !.result = result, !.score = s, !.current = 0]
    <2>2. tick[k].pc = "benchmark" /\ Goes(k, x) /\ UNCHANGED <<rows, lock>>
      BY <2>1 DEF Observe
    <2>3. result \in {"ROLLBACK", "KEEP", "CANARY", "PROMOTE"}
          /\ (result = "PROMOTE" => ~(s - tick[k].current < MinImprovement))
      BY DEF Decision
    <2>4. tick[k].cand \in Routes /\ NodeKeys[tick[k].cand] \in Seq(Nodes)
          /\ tick[k].base \in Routes
      BY <1>0, <2>2, CanaryAssumption DEF Shape, Running
    <2>5. next \in {"rollback", "commit", "apply"}
          /\ (result # "PROMOTE" => next = "rollback") /\ (result = "PROMOTE" => next # "rollback")
          /\ (next = "apply" => Len(NodeKeys[tick[k].cand]) # 1)
      OBVIOUS
    <2> HIDE DEF result, next
    <2>6. x \in TickRecords /\ x.pc = next /\ x.applied = tick[k].applied
            /\ x.cand = tick[k].cand /\ x.base = tick[k].base /\ x.result = result /\ x.score = s
      <3>1. next \in PCs /\ result \in Results /\ 0 \in Scores
        BY <2>3, <2>5, CanaryAssumption DEF PCs, Results, Scores
      <3>2. QED
        BY <1>0, <3>1 DEF TickRecords
    <2> HIDE DEF x
    <2>7. tick[k].current = score[tick[k].base] /\ score[tick[k].base] \in Int /\ s \in Int
          /\ MinImprovement \in Int
      BY <1>0, <2>2, <2>4, CanaryAssumption DEF Shape, RowsTyped, Scores
    <2>8. Len(NodeKeys[tick[k].cand]) \in Nat /\ tick[k].applied = 1
          /\ 1 <= Len(NodeKeys[tick[k].cand])
      BY <1>0, <2>2, <2>4 DEF Shape, Running
    <2>9. result = "PROMOTE" => s >= score[tick[k].base] + MinImprovement
      BY <2>3, <2>7
    <2>10. Shape(x)
      <3>1. x.cand \in Routes /\ x.base \in Routes \ {x.cand} /\ active[x.base]
        BY <1>0, <2>2, <2>6 DEF Shape, Running
      <3>2. x.applied = 1 /\ 1 <= Len(NodeKeys[x.cand]) /\ Len(NodeKeys[x.cand]) \in Nat
        BY <2>6, <2>8
      <3>3. x.pc = "apply" => x.applied < Len(NodeKeys[x.cand]) /\ x.result = "PROMOTE"
        <4>1. x.pc = "apply" => Len(NodeKeys[x.cand]) # 1 /\ x.result = "PROMOTE"
          BY <2>5, <2>6
        <4>2. Len(NodeKeys[x.cand]) # 1 => 1 < Len(NodeKeys[x.cand])
          BY <3>2, AboveOne
        <4>3. QED
          BY <4>1, <4>2, <3>2
      <3>4. /\ x.pc = "rollback" => x.result # "PROMOTE"
            /\ x.pc = "commit" => x.result = "PROMOTE"
        BY <2>5, <2>6
      <3>5. x.result = "PROMOTE" => x.score >= score[x.base] + MinImprovement
        BY <2>6, <2>9
      <3>6. x.pc \in {"rollback", "commit", "apply"}
        BY <2>5, <2>6
      <3>7. QED
        BY <3>1, <3>2, <3>3, <3>4, <3>5, <3>6 DEF Shape, Running
    <2>11. x.pc \in Running /\ tick[k].pc \in Running
      BY <2>2, <2>5, <2>6 DEF Running
    <2>12. QED
      BY <2>2, <2>6, <2>10, <2>11, GoesOn
  <1>5. CASE BenchmarkFails(k) \/ CommitFails(k)
    <2>1. tick[k].pc \in Running /\ Goes(k, Handled(k, tick[k].applied)) /\ UNCHANGED <<rows, lock>>
      BY <1>5 DEF BenchmarkFails, CommitFails, Running
    <2>2. tick[k].applied \in Nat /\ tick[k].applied <= Len(NodeKeys[tick[k].cand])
      BY <1>0, <2>1 DEF TickRecords, Shape
    <2>3. QED
      BY <2>1, <2>2, HandledRecord, GoesOn DEF Running
  <1>6. CASE RollBack(k)
    <2> DEFINE x == [tick[k] EXCEPT !.pc = "commit", !.applied = 0]
    <2>1. tick[k].pc = "rollback" /\ tick[k].pc \in Running /\ UNCHANGED <<rows, lock>>
      BY <1>6 DEF RollBack, Running
    <2>2. CASE Goes(k, x)
      <3>1. x \in TickRecords /\ x.pc = "commit" /\ x.applied = 0
            /\ x.cand = tick[k].cand /\ x.base = tick[k].base /\ x.result = tick[k].result
        BY <1>0 DEF TickRecords, PCs
      <3>2. Len(NodeKeys[tick[k].cand]) \in Nat
        BY <1>0, <2>1, CanaryAssumption DEF Shape
      <3>3. Shape(x) /\ x.pc \in Running
        BY <1>0, <2>1, <3>1, <3>2 DEF Shape, Running
      <3>4. QED
        BY <2>1, <2>2, <3>1, <3>3, GoesOn
    <2>3. CASE Goes(k, AfterFailedRollback(k))
      <3>1. 1 \in Nat /\ 1 <= Len(NodeKeys[tick[k].cand])
        BY <1>0, <2>1 DEF Shape
      <3>2. QED
        BY <2>1, <2>3, <3>1, HandledRecord, GoesOn DEF Running, AfterFailedRollback
    <2>4. QED
      BY <1>6, <2>2, <2>3 DEF RollBack
  <1>7. CASE Commit(k)
    BY <1>7, ControlCommit
  <1>8. CASE Undo(k)
    <2> DEFINE i == tick[k].applied
               x == [tick[k] EXCEPT !.applied = i - 1]
    <2>1. tick[k].pc = "undo" /\ tick[k].pc \in Running /\ lock = k /\ UNCHANGED rows
      BY <1>8 DEF Undo, Running, Locked
    <2>2. CASE i = 0
      BY <1>8, <2>1, <2>2, IdleRecord, GoesOn DEF Undo, Running
    <2>3. CASE i # 0
      <3>1. Goes(k, x) /\ UNCHANGED lock
        BY <1>8, <2>3 DEF Undo
      <3>2. x \in TickRecords /\ x.pc = "undo" /\ x.cand = tick[k].cand /\ x.applied = i - 1
        BY <1>0, <2>1, <2>3 DEF TickRecords
      <3>3. Len(NodeKeys[tick[k].cand]) \in Nat /\ i \in Nat
        BY <1>0, <2>1, CanaryAssumption DEF Shape, TickRecords
      <3>4. Shape(x) /\ x.pc \in Running
        BY <1>0, <2>1, <3>2, <3>3 DEF Shape, Running
      <3>5. QED
        BY <2>1, <3>1, <3>2, <3>4, GoesOn
    <2>4. QED
      BY <2>2, <2>3
  <1>9. QED
    BY <1>1, <1>2, <1>3, <1>4, <1>5, <1>6, <1>7, <1>8 DEF Execute

LEMMA ControlStep == Control /\ [Next]_vars => Control'
  <1> SUFFICES ASSUME Control, [Next]_vars PROVE Control'
    OBVIOUS
  <1>1. CASE \E k \in Ticks : Choose(k)
    <2>1. PICK k \in Ticks : Choose(k)
      BY <1>1
    <2>2. PICK current \in Routes : active[current] /\ \E decision \in Decided[score[current]] :
            /\ decision.action \in {"TEST", "CANARY"}
            /\ Goes(k, [Idle EXCEPT !.pc = "chosen", !.cand = decision.candidate])
      BY <2>1 DEF Choose
    <2>3. PICK decision \in Decided[score[current]] :
            /\ decision.action \in {"TEST", "CANARY"}
            /\ Goes(k, [Idle EXCEPT !.pc = "chosen", !.cand = decision.candidate])
      BY <2>2
    <2> DEFINE x == [Idle EXCEPT !.pc = "chosen", !.cand = decision.candidate]
    <2>4. decision.candidate \in Routes
      BY <2>3, Decides DEF Control
    <2>5. x \in TickRecords /\ x.pc = "chosen" /\ x.cand \in Routes
      BY <2>4, IdleRecord DEF TickRecords, Idle, PCs
    <2>6. Shape(x) /\ x.pc \notin Running /\ tick[k].pc \notin Running
      BY <2>1, <2>5 DEF Shape, Running, Choose
    <2>7. UNCHANGED <<rows, lock>>
      BY <2>1 DEF Choose
    <2>8. QED
      BY <2>3, <2>5, <2>6, <2>7, GoesOn
  <1>2. CASE \E k \in Ticks : Execute(k)
    BY <1>2, ControlExecute
  <1>3. CASE \E r \in Routes : EditRoute(r)
    <2>1. PICK r \in Routes : EditRoute(r)
      BY <1>3
    <2>2. RowsTyped'
      <3>1. edition' = [edition EXCEPT ![r] = edition[r] + 1] /\ edition[r] < MaxEditions[r]
            /\ UNCHANGED <<active, golden, wins, score>>
        BY <2>1 DEF EditRoute
      <3>2. edition[r] \in Nat /\ MaxEditions[r] \in Nat
        BY CanaryAssumption DEF Control, RowsTyped
      <3>3. edition' \in [Routes -> Nat]
        BY <3>1, <3>2 DEF Control, RowsTyped
      <3>4. \A q \in Routes : edition'[q] \in 0..MaxEditions[q]
        BY <3>1, <3>2 DEF Control, RowsTyped
      <3>5. QED
        BY <3>1, <3>3, <3>4 DEF Control, RowsTyped
    <2>3. QED
      BY <2>1, <2>2 DEF EditRoute, Control, Locked, Single, Shape
  <1>4. CASE Crash
    <2>1. tick' = [k \in Ticks |-> Idle] /\ lock' = Free /\ UNCHANGED rows
      BY <1>4 DEF Crash
    <2>2. Locked'
      BY <2>1, IdleRecord, CanaryAssumption DEF Locked, Running
    <2>3. \A k \in Ticks : Shape(tick[k])'
      BY <2>1, IdleRecord DEF Shape, Running
    <2>4. QED
      BY <2>1, <2>2, <2>3 DEF Control, RowsTyped, Single, rows
  <1>5. CASE UNCHANGED vars
    BY <1>5 DEF vars, rows, Control, RowsTyped, Locked, Single, Shape
  <1>6. QED
    BY <1>1, <1>2, <1>3, <1>4, <1>5 DEF Next

LEMMA ControlAlways == Spec => []Control
  BY ControlInit, ControlStep, PTL DEF Spec

\* Exactly one route is in production, for any routes, ticks and faults.
THEOREM OneRouteActive == Spec => []OneActive
  <1>1. Control => OneActive
    <2> SUFFICES ASSUME Control PROVE OneActive
      OBVIOUS
    <2>1. PICK p \in Routes : \A r \in Routes : active[r] <=> r = p
      BY DEF Control, Single
    <2>2. {r \in Routes : active[r]} = {p}
      BY <2>1
    <2>3. QED
      BY <2>2, FS_Singleton DEF OneActive
  <1>2. QED
    BY <1>1, ControlAlways, PTL

\* A promotion is justified by the rating of the route it replaces, as it is now.
THEOREM PromotionsRise == Spec => ScoresRise
  <1>1. Control /\ [Next]_vars => [\A r, s \in Routes :
          active'[r] /\ ~active[r] /\ active[s] => score'[r] >= score[s] + MinImprovement]_vars
    <2> SUFFICES ASSUME Control, Next, NEW r \in Routes, NEW s \in Routes,
                        active'[r], ~active[r], active[s]
                 PROVE  score'[r] >= score[s] + MinImprovement
      BY DEF vars
    <2>1. \E k \in Ticks : Commit(k)
      BY DEF Next, Choose, Execute, Enter, Decline, ApplyNext, Observe, BenchmarkFails, RollBack,
             CommitFails, Undo, EditRoute, Crash, rows
    <2>2. PICK k \in Ticks : Commit(k)
      BY <2>1
    <2> DEFINE x == tick[k]
    <2>3. x \in TickRecords /\ Shape(x) /\ x.pc = "commit"
      BY <2>2 DEF Commit, Control, Locked
    <2>4. x.result = "PROMOTE" /\ active' = Promoted(k)
      BY <2>2 DEF Commit
    <2>5. x.cand \in Routes /\ x.base \in Routes /\ active[x.base]
          /\ x.score >= score[x.base] + MinImprovement
      BY <2>3, <2>4 DEF Shape, Running
    <2>6. s = x.base /\ r = x.cand
      BY <2>4, <2>5 DEF Promoted, Control, Single, RowsTyped
    <2>7. score'[r] = x.score
      BY <2>2, <2>4, <2>5, <2>6 DEF Commit, Control, RowsTyped
    <2>8. QED
      BY <2>5, <2>6, <2>7
  <1>2. QED
    BY <1>1, ControlAlways, PTL DEF Spec, ScoresRise

-----------------------------------------------------------------------------
(* What the nodes are left with.                                           *)

AgentsTyped ==
  /\ live \in [Nodes -> Confs \cup {Base}]
  /\ kept \in [Nodes -> Confs \cup {Base, Nothing}]
  /\ done \in [Nodes -> SUBSET Ops]
  /\ astray \subseteq Nodes

Trusted == golden \cup {NoRoute}
Clean(n) == live[n][1] \in Trusted \/ n \in astray

\* A node that was given c and not lost sight of: it has c and falls back to
\* something trusted, or it has gone back already.
Given(c, n) == n \notin astray =>
  /\ <<c, "apply">> \in done[n]
  /\ <<c, "undo">> \in done[n] => live[n][1] \in Trusted
  /\ <<c, "undo">> \notin done[n] => live[n] = c /\ kept[n][1] \in Trusted

\* Nobody takes back what he has not done.
UndoneOnce == \A n \in Nodes, c \in Confs :
  <<c, "undo">> \in done[n] /\ <<c, "apply">> \notin done[n] => n \in astray

AppliedOf(x) == {NodeKeys[x.cand][i] : i \in 1..x.applied}
ConfOf(x) == <<x.cand, x.edition>>
Accounted(x) == \A n \in Nodes :
  /\ n \in AppliedOf(x) => Given(ConfOf(x), n)
  /\ n \notin AppliedOf(x) => Clean(n)

NodesInv ==
  /\ AgentsTyped /\ UndoneOnce
  /\ lock = Free => \A n \in Nodes : Clean(n)
  /\ \A k \in Ticks : lock = k => Accounted(tick[k])

\* Nothing happened to the other nodes.
Others(n) == \A m \in Nodes \ {n} :
  /\ live'[m] = live[m] /\ kept'[m] = kept[m] /\ done'[m] = done[m]
  /\ m \in astray' <=> m \in astray

LEMMA ApplyEffect ==
  ASSUME AgentsTyped, UndoneOnce, golden' = golden, NEW k \in Ticks, NEW n \in Nodes, NEW ok \in BOOLEAN,
         NEW c \in Confs, c = Conf(k), Apply(k, n, ok), Given(c, n) \/ Clean(n)
  PROVE  /\ AgentsTyped' /\ UndoneOnce' /\ Others(n)
         /\ ok => Given(c, n)'
         /\ Clean(n) => ok \/ Clean(n)'
         /\ Given(c, n) => Given(c, n)'
  <1> DEFINE op == <<c, "apply">>
             un == <<c, "undo">>
  <1>0. op \in Ops /\ un \in Ops /\ op # un /\ done[n] \subseteq Ops
    BY DEF Ops, AgentsTyped
  <1>1. CASE op \notin done[n] /\ Performed(n, op, c) /\ astray' \in {astray, astray \cup {n}}
              /\ (~ok => n \in astray')
    <2>1. /\ live' = [live EXCEPT ![n] = c]
          /\ kept' = [kept EXCEPT ![n] = live[n]]
          /\ done' = [done EXCEPT ![n] = done[n] \cup {op}]
      BY <1>1 DEF Performed
    <2>2. AgentsTyped'
      <3>2. live' \in [Nodes -> Confs \cup {Base}]
        BY <2>1 DEF AgentsTyped
      <3>3. kept' \in [Nodes -> Confs \cup {Base, Nothing}]
        BY <2>1 DEF AgentsTyped
      <3>4. done' \in [Nodes -> SUBSET Ops]
        BY <1>0, <2>1 DEF AgentsTyped
      <3>5. QED
        BY <1>1, <3>2, <3>3, <3>4 DEF AgentsTyped
    <2>3. Others(n)
      BY <1>1, <2>1 DEF Others, AgentsTyped
    <2>4. live'[n] = c /\ kept'[n] = live[n] /\ done'[n] = done[n] \cup {op}
      BY <2>1 DEF AgentsTyped
    <2>5. UndoneOnce'
      <3> SUFFICES ASSUME NEW m \in Nodes, NEW d \in Confs,
                          <<d, "undo">> \in done'[m], <<d, "apply">> \notin done'[m]
                   PROVE  m \in astray'
        BY DEF UndoneOnce
      <3>1. <<d, "undo">> \in done[m] /\ <<d, "apply">> \notin done[m]
        BY <2>3, <2>4 DEF Others
      <3>2. QED
        BY <1>1, <3>1 DEF UndoneOnce
    <2>6. n \notin astray => un \notin done[n] /\ live[n][1] \in Trusted
      BY <1>1 DEF UndoneOnce, Given, Clean
    <2>7. Given(c, n)'
      BY <1>0, <1>1, <2>4, <2>6 DEF Given, Trusted
    <2>8. ~ok => Clean(n)'
      BY <1>1 DEF Clean
    <2>9. QED
      BY <2>2, <2>3, <2>5, <2>7, <2>8
  <1> DEFINE Kept == /\ UNCHANGED agents /\ astray' \in {astray, astray \cup {n}}
                     /\ ok => n \in astray' \/ (op \in done[n] /\ un \in done[n])
  <1>2. CASE Kept
    <2>1. live' = live /\ kept' = kept /\ done' = done
      BY <1>2 DEF agents
    <2>2. AgentsTyped' /\ UndoneOnce' /\ Others(n)
      BY <1>2, <2>1 DEF AgentsTyped, UndoneOnce, Others
    <2>3. ok => Given(c, n)'
      BY <1>2, <2>1 DEF Given, Clean, Trusted
    <2>4. Clean(n) => Clean(n)'
      BY <1>2, <2>1 DEF Clean, Trusted
    <2>5. Given(c, n) => Given(c, n)'
      BY <1>2, <2>1 DEF Given, Trusted
    <2>6. QED
      BY <2>2, <2>3, <2>4, <2>5
  <1>3. CASE ok /\ op \notin done[n] /\ Performed(n, op, c) /\ UNCHANGED astray
    BY <1>1, <1>3
  <1>4. CASE /\ ok /\ UNCHANGED agents
             /\ astray' = IF op \in done[n] /\ un \in done[n] THEN astray ELSE astray \cup {n}
    <2>1. UNCHANGED agents
      BY <1>4
    <2>2. astray' \in {astray, astray \cup {n}}
      BY <1>4
    <2>3. ok => n \in astray' \/ (op \in done[n] /\ un \in done[n])
      BY <1>4
    <2>4. Kept
      BY <2>1, <2>2, <2>3
    <2> HIDE DEF Kept
    <2>5. QED
      BY <1>2, <2>4
  <1>5. CASE ~ok /\ UNCHANGED <<agents, astray>>
    BY <1>2, <1>5
  <1>6. CASE ~ok /\ op \notin done[n] /\ Performed(n, op, c) /\ astray' = astray \cup {n}
    BY <1>1, <1>6
  <1>7. QED
    <2> HIDE DEF op, un
    <2>1. Apply(k, n, ok) =>
            \/ ok /\ op \notin done[n] /\ Performed(n, op, c) /\ UNCHANGED astray
            \/ ok /\ UNCHANGED agents
               /\ astray' = IF op \in done[n] /\ un \in done[n] THEN astray ELSE astray \cup {n}
            \/ ~ok /\ UNCHANGED <<agents, astray>>
            \/ ~ok /\ op \notin done[n] /\ Performed(n, op, c) /\ astray' = astray \cup {n}
      BY DEF Apply, op, un
    <2>2. QED
      BY <1>3, <1>4, <1>5, <1>6, <2>1

LEMMA RollbackEffect ==
  ASSUME AgentsTyped, UndoneOnce, golden' = golden, NEW k \in Ticks, NEW n \in Nodes, NEW ok \in BOOLEAN,
         NEW last \in BOOLEAN, NEW c \in Confs, c = Conf(k), Rollback(k, n, ok, last), Given(c, n)
  PROVE  /\ AgentsTyped' /\ UndoneOnce' /\ Others(n)
         /\ Given(c, n)'
         /\ ok \/ last => Clean(n)'
  <1> DEFINE op == <<c, "apply">>
             un == <<c, "undo">>
  <1>0. op \in Ops /\ un \in Ops /\ op # un /\ done[n] \subseteq Ops
    BY DEF Ops, AgentsTyped
  <1>1. CASE un \notin done[n] /\ kept[n] # Nothing /\ Performed(n, un, kept[n]) /\ UNCHANGED astray
    <2>1. /\ live' = [live EXCEPT ![n] = kept[n]]
          /\ kept' = [kept EXCEPT ![n] = live[n]]
          /\ done' = [done EXCEPT ![n] = done[n] \cup {un}]
      BY <1>1 DEF Performed
    <2>2. AgentsTyped'
      <3>1. kept[n] \in Confs \cup {Base}
        BY <1>1 DEF AgentsTyped
      <3>2. live' \in [Nodes -> Confs \cup {Base}]
        BY <2>1, <3>1 DEF AgentsTyped
      <3>3. kept' \in [Nodes -> Confs \cup {Base, Nothing}]
        BY <2>1 DEF AgentsTyped
      <3>4. done' \in [Nodes -> SUBSET Ops]
        BY <1>0, <2>1 DEF AgentsTyped
      <3>5. QED
        BY <1>1, <3>2, <3>3, <3>4 DEF AgentsTyped
    <2>3. Others(n)
      BY <1>1, <2>1 DEF Others, AgentsTyped
    <2>4. live'[n] = kept[n] /\ done'[n] = done[n] \cup {un}
      BY <2>1 DEF AgentsTyped
    <2>5. n \notin astray => op \in done[n] /\ kept[n][1] \in Trusted
      BY <1>1 DEF Given
    <2>6. UndoneOnce'
      <3> SUFFICES ASSUME NEW m \in Nodes, NEW d \in Confs,
                          <<d, "undo">> \in done'[m], <<d, "apply">> \notin done'[m]
                   PROVE  m \in astray'
        BY DEF UndoneOnce
      <3>1. CASE m # n \/ d # c
        <4>1. <<d, "undo">> \in done[m] /\ <<d, "apply">> \notin done[m]
          BY <2>3, <2>4, <3>1 DEF Others
        <4>2. QED
          BY <1>1, <4>1 DEF UndoneOnce
      <3>2. CASE m = n /\ d = c
        BY <1>1, <2>4, <2>5, <3>2
      <3>3. QED
        BY <3>1, <3>2
    <2>7. Given(c, n)' /\ Clean(n)'
      BY <1>0, <1>1, <2>4, <2>5 DEF Given, Clean, Trusted
    <2>8. QED
      BY <2>2, <2>3, <2>6, <2>7
  <1>2. CASE UNCHANGED agents /\ astray' \in {astray, astray \cup {n}}
              /\ (ok \/ last => n \in astray' \/ un \in done[n])
    <2>1. live' = live /\ kept' = kept /\ done' = done
      BY <1>2 DEF agents
    <2>2. AgentsTyped' /\ UndoneOnce' /\ Others(n)
      BY <1>2, <2>1 DEF AgentsTyped, UndoneOnce, Others
    <2>3. Given(c, n)'
      BY <1>2, <2>1 DEF Given, Trusted
    <2>4. ok \/ last => Clean(n)'
      BY <1>2, <2>1 DEF Given, Clean, Trusted
    <2>5. QED
      BY <2>2, <2>3, <2>4
  <1>3. QED
    BY <1>1, <1>2 DEF Rollback

\* The executor's next step on its nodes: x is what it goes on with.
LEMMA AccountedOn ==
  ASSUME NodesInv, Control, NEW k \in Ticks, lock = k, lock' = k, NEW x, tick' = [tick EXCEPT ![k] = x],
         AgentsTyped', UndoneOnce', Accounted(x)'
  PROVE  NodesInv'
  <1>1. tick'[k] = x
    BY DEF Control, Locked
  <1>2. lock' # Free
    BY CanaryAssumption
  <1>3. QED
    BY <1>1, <1>2 DEF NodesInv

LEMMA RecordOf ==
  ASSUME Control, NEW k \in Ticks, tick[k].pc \in Running
  PROVE  /\ lock = k /\ tick[k] \in TickRecords /\ tick[k].cand \in Routes
         /\ Conf(k) \in Confs /\ Conf(k) = ConfOf(tick[k])
         /\ tick[k].applied \in Nat /\ tick[k].applied <= Len(NodeKeys[tick[k].cand])
         /\ NodeKeys[tick[k].cand] \in Seq(Nodes)
         /\ \A i \in 1..tick[k].applied : Node(k, i) \in Nodes
  <1>1. lock = k /\ tick[k] \in TickRecords /\ Shape(tick[k])
    BY DEF Control, Locked
  <1>2. tick[k].cand \in Routes /\ tick[k].applied <= Len(NodeKeys[tick[k].cand])
    BY <1>1 DEF Shape, Running
  <1>3. NodeKeys[tick[k].cand] \in Seq(Nodes) /\ tick[k].applied \in Nat /\ tick[k].edition \in Nat
    BY <1>1, <1>2, CanaryAssumption DEF TickRecords
  <1>4. \A i \in 1..tick[k].applied : Node(k, i) \in Nodes
    BY <1>2, <1>3 DEF Node
  <1>5. Conf(k) \in Confs /\ Conf(k) = ConfOf(tick[k])
    BY <1>2, <1>3 DEF Conf, ConfOf, Confs
  <1>6. QED
    BY <1>1, <1>2, <1>3, <1>4, <1>5

\* Steps that leave the nodes and the list of those given alone.
LEMMA SameNodes ==
  ASSUME NodesInv, Control, NEW k \in Ticks, tick[k].pc \in Running, NEW x, Goes(k, x),
         x.cand = tick[k].cand, x.edition = tick[k].edition, x.applied = tick[k].applied,
         UNCHANGED <<rows, lock, agents, astray>>
  PROVE  NodesInv'
  <1>1. lock = k /\ tick' = [tick EXCEPT ![k] = x]
    BY RecordOf DEF Goes
  <1>2. Accounted(tick[k]) /\ AgentsTyped' /\ UndoneOnce'
    BY <1>1 DEF NodesInv, AgentsTyped, UndoneOnce, agents
  <1>3. Accounted(x)'
    BY <1>2 DEF Accounted, AppliedOf, ConfOf, Given, Clean, Trusted, agents, rows
  <1>4. QED
    BY <1>1, <1>2, <1>3, AccountedOn


LEMMA NodesApply ==
  ASSUME NodesInv, Control, NEW k \in Ticks, ApplyNext(k)
  PROVE  NodesInv'
  <1>1. PICK x : x = tick[k]
    OBVIOUS
  <1> DEFINE i == x.applied + 1
  <1>2. x.pc = "apply" /\ lock' = lock /\ golden' = golden
    BY <1>1 DEF ApplyNext, rows
  <1>3. /\ lock = k /\ x \in TickRecords /\ x.cand \in Routes /\ Conf(k) \in Confs
        /\ Conf(k) = ConfOf(x) /\ x.applied \in Nat /\ NodeKeys[x.cand] \in Seq(Nodes)
    BY <1>1, <1>2, RecordOf DEF Running
  <1>4. x.applied < Len(NodeKeys[x.cand])
    BY <1>1, <1>2 DEF Control, Shape
  <1>5. PICK n \in Nodes : n = NodeKeys[x.cand][i] /\ n = Node(k, i)
    BY <1>1, <1>3, <1>4 DEF Node
  <1>6. Accounted(x) /\ AgentsTyped /\ UndoneOnce
    BY <1>1, <1>3 DEF NodesInv
  <1>7. \E ok \in BOOLEAN : \E y :
          /\ Apply(k, n, ok) /\ Goes(k, y) /\ y.cand = x.cand /\ y.edition = x.edition
          /\ y.applied = IF ok THEN i ELSE x.applied
    <2>1. ASSUME NEW next, Apply(k, n, TRUE), Goes(k, [x EXCEPT !.pc = next, !.applied = i])
          PROVE  <1>7!:
      <3> DEFINE y == [x EXCEPT !.pc = next, !.applied = i]
      <3>1. y.cand = x.cand /\ y.edition = x.edition /\ y.applied = i
        BY <1>3 DEF TickRecords
      <3> HIDE DEF y
      <3>2. Goes(k, y)
        BY <2>1 DEF y
      <3>3. QED
        BY <2>1, <3>1, <3>2
    <2>2. ASSUME Apply(k, n, FALSE), Goes(k, Handled(k, x.applied))
          PROVE  <1>7!:
      <3> DEFINE y == Handled(k, x.applied)
      <3>1. y.cand = x.cand /\ y.edition = x.edition /\ y.applied = x.applied
        BY <1>1 DEF Handled, Idle
      <3> HIDE DEF y
      <3>2. Goes(k, y)
        BY <2>2 DEF y
      <3>3. QED
        BY <2>2, <3>1, <3>2
    <2>3. Apply(k, n, FALSE) /\ Goes(k, Handled(k, i - 1)) => <1>7!:
      <3>1. i - 1 = x.applied
        BY <1>3
      <3>2. QED
        BY <2>2, <3>1
    <2>4. QED
      BY <1>1, <1>5, <2>1, <2>3 DEF ApplyNext
  <1>8. PICK ok \in BOOLEAN : \E y :
          /\ Apply(k, n, ok) /\ Goes(k, y) /\ y.cand = x.cand /\ y.edition = x.edition
          /\ y.applied = IF ok THEN i ELSE x.applied
    BY <1>7
  <1>8a. PICK y :
          /\ Apply(k, n, ok) /\ Goes(k, y) /\ y.cand = x.cand /\ y.edition = x.edition
          /\ y.applied = IF ok THEN i ELSE x.applied
    BY <1>8
  <1>9. PICK c \in Confs : c = Conf(k) /\ c = ConfOf(x) /\ c = ConfOf(y)
    BY <1>3, <1>8a DEF ConfOf
  <1>10. Given(c, n) \/ Clean(n)
    BY <1>6, <1>9 DEF Accounted
  <1>11. /\ AgentsTyped' /\ UndoneOnce' /\ Others(n)
         /\ ok => Given(c, n)'
         /\ Clean(n) => ok \/ Clean(n)'
         /\ Given(c, n) => Given(c, n)'
    BY <1>2, <1>6, <1>8a, <1>9, <1>10, ApplyEffect
  <1>12. AppliedOf(y) = IF ok THEN AppliedOf(x) \cup {n} ELSE AppliedOf(x)
    <2>1. CASE ok
      <3>1. 1..i = (1..x.applied) \cup {i}
        BY <1>3
      <3>2. y.cand = x.cand /\ y.applied = i
        BY <1>8a, <2>1
      <3> HIDE DEF i
      <3>3. QED
        BY <1>5, <2>1, <3>1, <3>2 DEF AppliedOf
    <2>2. CASE ~ok
      BY <1>8a, <2>2 DEF AppliedOf
    <2>3. QED
      BY <2>1, <2>2
  <1>13. ASSUME NEW m \in Nodes
         PROVE  /\ m \in AppliedOf(y) => Given(c, m)'
                /\ m \notin AppliedOf(y) => Clean(m)'
    <2>1. CASE m = n
      BY <1>6, <1>9, <1>11, <1>12, <2>1 DEF Accounted
    <2>2. CASE m # n
      <3>1. /\ Given(c, m) => Given(c, m)'
            /\ Clean(m) => Clean(m)'
        BY <1>2, <1>11, <2>2 DEF Others, Given, Clean, Trusted
      <3>2. QED
        BY <1>6, <1>9, <1>12, <2>2, <3>1 DEF Accounted
    <2>3. QED
      BY <2>1, <2>2
  <1>14. Accounted(y)'
    BY <1>9, <1>13 DEF Accounted, AppliedOf, ConfOf
  <1>15. QED
    BY <1>2, <1>3, <1>8a, <1>11, <1>14, AccountedOn DEF Goes

\* A node is told to go back: the handler drops it from the list whatever happens,
\* the executor only when the call did not raise.
LEMMA NodesTaken ==
  ASSUME NodesInv, Control, NEW k \in Ticks, NEW x, x = tick[k], x.pc \in Running,
         NEW i \in Nat, i = x.applied, i # 0, NEW n, n = Node(k, i),
         NEW ok \in BOOLEAN, NEW last \in BOOLEAN, Rollback(k, n, ok, last), NEW y, Goes(k, y), y.cand = x.cand,
         y.edition = x.edition, y.applied \in {i - 1, i},
         y.applied = i \/ ok \/ last,
         UNCHANGED <<rows, lock>>
  PROVE  NodesInv'
  <1>1. /\ lock = k /\ Conf(k) \in Confs /\ Conf(k) = ConfOf(x) /\ golden' = golden
        /\ i \in 1..x.applied /\ Node(k, i) \in Nodes
    BY RecordOf DEF rows
  <1>2. n \in Nodes /\ n = NodeKeys[x.cand][i]
    BY <1>1 DEF Node
  <1>3. PICK c \in Confs : c = Conf(k) /\ c = ConfOf(x) /\ c = ConfOf(y)
    BY <1>1 DEF ConfOf
  <1>4. Accounted(x) /\ AgentsTyped /\ UndoneOnce
    BY <1>1 DEF NodesInv
  <1>5. n \in AppliedOf(x)
    BY <1>1, <1>2 DEF AppliedOf
  <1>6. Given(c, n)
    BY <1>2, <1>3, <1>4, <1>5 DEF Accounted
  <1>7. /\ AgentsTyped' /\ UndoneOnce' /\ Others(n) /\ Given(c, n)'
        /\ ok \/ last => Clean(n)'
    BY <1>1, <1>2, <1>3, <1>4, <1>6, RollbackEffect
  <1>8. /\ AppliedOf(y) \subseteq AppliedOf(x)
        /\ AppliedOf(x) \subseteq AppliedOf(y) \cup {n}
        /\ ~(ok \/ last) => n \in AppliedOf(y)
    <2>1. y.cand = x.cand /\ y.applied \in {i - 1, i} /\ x.applied = i
          /\ (~(ok \/ last) => y.applied = i)
      OBVIOUS
    <2>2. 1..(i - 1) \subseteq 1..i /\ 1..i \subseteq 1..(i - 1) \cup {i} /\ i \in 1..i
      OBVIOUS
    <2>3. QED
      BY <1>2, <2>1, <2>2 DEF AppliedOf
  <1>9. ASSUME NEW m \in Nodes
        PROVE  /\ m \in AppliedOf(y) => Given(c, m)'
               /\ m \notin AppliedOf(y) => Clean(m)'
    <2>1. CASE m = n
      BY <1>7, <1>8, <2>1
    <2>2. CASE m # n
      <3>1. /\ Given(c, m) => Given(c, m)'
            /\ Clean(m) => Clean(m)'
        BY <1>1, <1>7, <2>2 DEF Others, Given, Clean, Trusted
      <3>2. QED
        BY <1>3, <1>4, <1>8, <2>2, <3>1 DEF Accounted
    <2>3. QED
      BY <2>1, <2>2
  <1>10. Accounted(y)'
    BY <1>3, <1>9 DEF Accounted, AppliedOf, ConfOf
  <1>11. QED
    BY <1>1, <1>7, <1>10, AccountedOn DEF Goes

LEMMA NodesRollBack ==
  ASSUME NodesInv, Control, NEW k \in Ticks, RollBack(k)
  PROVE  NodesInv'
  <1>1. PICK x : x = tick[k]
    OBVIOUS
  <1>2. x.pc = "rollback" /\ x.pc \in Running /\ UNCHANGED <<rows, lock>>
    BY <1>1 DEF RollBack, Running
  <1>3. x.applied = 1 /\ x \in TickRecords
    BY <1>1, <1>2 DEF Control, Shape, Locked
  <1>4. PICK i \in Nat : i = 1
    OBVIOUS
  <1> PICK n : n = Node(k, i)
    OBVIOUS
  <1>5. \E ok \in BOOLEAN : Rollback(k, n, ok, FALSE) /\ \E y :
          /\ Goes(k, y) /\ y.cand = x.cand /\ y.edition = x.edition
          /\ y.applied \in {i - 1, i} /\ (y.applied = i \/ ok)
    <2>1. CASE Rollback(k, n, TRUE, FALSE)
               /\ Goes(k, [x EXCEPT !.pc = "commit", !.applied = 0])
      <3> PICK y : y = [x EXCEPT !.pc = "commit", !.applied = 0]
        OBVIOUS
      <3>1. y.cand = x.cand /\ y.edition = x.edition /\ y.applied = i - 1
        BY <1>3, <1>4 DEF TickRecords
      <3>2. Goes(k, y) /\ Rollback(k, n, TRUE, FALSE)
        BY <2>1
      <3>3. QED
        BY <3>1, <3>2
    <2>2. CASE Rollback(k, n, FALSE, FALSE) /\ Goes(k, Handled(k, 1))
      <3> PICK y : y = Handled(k, 1)
        OBVIOUS
      <3>1. y.cand = x.cand /\ y.edition = x.edition /\ y.applied = i
        BY <1>1, <1>4 DEF Handled, Idle
      <3>2. Goes(k, y) /\ Rollback(k, n, FALSE, FALSE)
        BY <2>2
      <3>3. QED
        BY <3>1, <3>2
    <2>3. n = Node(k, 1)
      BY <1>4
    <2>4. QED
      BY <1>1, <2>1, <2>2, <2>3 DEF RollBack, AfterFailedRollback
  <1>6. PICK ok \in BOOLEAN : Rollback(k, n, ok, FALSE) /\ \E y :
          /\ Goes(k, y) /\ y.cand = x.cand /\ y.edition = x.edition
          /\ y.applied \in {i - 1, i} /\ (y.applied = i \/ ok)
    BY <1>5
  <1>7. PICK y :
          /\ Goes(k, y) /\ y.cand = x.cand /\ y.edition = x.edition
          /\ y.applied \in {i - 1, i} /\ (y.applied = i \/ ok)
    BY <1>6
  <1>8. i = x.applied /\ i # 0
    BY <1>3, <1>4
  <1>9. QED
    BY <1>1, <1>2, <1>4, <1>6, <1>7, <1>8, NodesTaken

LEMMA NodesUndo ==
  ASSUME NodesInv, Control, NEW k \in Ticks, Undo(k)
  PROVE  NodesInv'
  <1>1. PICK x : x = tick[k]
    OBVIOUS
  <1>2. x.pc = "undo" /\ x.pc \in Running /\ UNCHANGED rows
    BY <1>1 DEF Undo, Running
  <1>3. x \in TickRecords /\ lock = k /\ x.applied \in Nat
    BY <1>1, <1>2, RecordOf
  <1>4. CASE x.applied = 0
    <2>1. lock' = Free /\ UNCHANGED <<agents, astray>>
      BY <1>1, <1>4 DEF Undo
    <2>2. Accounted(x) /\ AgentsTyped /\ UndoneOnce
      BY <1>1, <1>3 DEF NodesInv
    <2>3. \A n \in Nodes : Clean(n)
      BY <1>4, <2>2 DEF Accounted, AppliedOf
    <2>4. (\A n \in Nodes : Clean(n))' /\ AgentsTyped' /\ UndoneOnce'
      BY <1>2, <2>1, <2>2, <2>3 DEF Clean, Trusted, AgentsTyped, UndoneOnce, agents, rows
    <2>5. QED
      BY <2>1, <2>4, CanaryAssumption DEF NodesInv
  <1>5. CASE x.applied # 0
    <2>1. PICK i \in Nat : i = x.applied
      BY <1>3
    <2>2. PICK n : n = Node(k, i)
      OBVIOUS
    <2>3. PICK ok \in BOOLEAN : Rollback(k, n, ok, TRUE)
      BY <1>1, <1>5, <2>1, <2>2 DEF Undo
    <2>4. PICK y : y = [x EXCEPT !.applied = i - 1]
      OBVIOUS
    <2>5. y.cand = x.cand /\ y.edition = x.edition /\ y.applied = i - 1
      BY <1>3, <2>4 DEF TickRecords
    <2>6. Goes(k, y) /\ lock' = lock
      BY <1>1, <1>5, <2>1, <2>4 DEF Undo
    <2>7. QED
      BY <1>1, <1>2, <1>5, <2>1, <2>2, <2>3, <2>5, <2>6, NodesTaken
  <1>6. QED
    BY <1>4, <1>5

\* A promotion makes the candidate trusted; nothing else is left to take back.
LEMMA NodesCommit ==
  ASSUME NodesInv, Control, NEW k \in Ticks, Commit(k)
  PROVE  NodesInv'
  <1>1. PICK x : x = tick[k]
    OBVIOUS
  <1>2. x.pc = "commit" /\ lock' = Free /\ UNCHANGED <<agents, astray>>
    BY <1>1 DEF Commit
  <1>3. lock = k /\ x \in TickRecords /\ (x.result = "PROMOTE" \/ x.applied = 0)
    BY <1>1, <1>2 DEF Control, Locked, Shape, Running
  <1>4. Accounted(x) /\ AgentsTyped /\ UndoneOnce
    BY <1>1, <1>3 DEF NodesInv
  <1>5. x.cand \in Routes /\ golden' = IF x.result = "PROMOTE" THEN golden \cup {x.cand} ELSE golden
    BY <1>1, <1>2 DEF Commit, Control, Shape, Running
  <1>6. ASSUME NEW n \in Nodes PROVE Clean(n)'
    <2>1. live' = live /\ astray' = astray /\ golden \subseteq golden'
      BY <1>2, <1>5 DEF agents
    <2>2. CASE n \notin AppliedOf(x)
      BY <1>4, <2>1, <2>2 DEF Accounted, Clean, Trusted
    <2>3. CASE n \in AppliedOf(x)
      <3>1. x.applied # 0
        BY <2>3 DEF AppliedOf
      <3>2. Given(ConfOf(x), n) /\ x.cand \in golden'
        BY <1>3, <1>4, <1>5, <2>3, <3>1 DEF Accounted
      <3>3. ConfOf(x)[1] = x.cand
        BY DEF ConfOf
      <3>4. QED
        BY <2>1, <3>2, <3>3 DEF Given, Clean, Trusted
    <2>4. QED
      BY <2>2, <2>3
  <1>7. AgentsTyped' /\ UndoneOnce'
    BY <1>2, <1>4 DEF AgentsTyped, UndoneOnce, agents
  <1>8. QED
    BY <1>2, <1>6, <1>7, CanaryAssumption DEF NodesInv

LEMMA NodesEnter ==
  ASSUME NodesInv, Control, NEW k \in Ticks, Enter(k)
  PROVE  NodesInv'
  <1>1. lock = Free /\ lock' = k /\ UNCHANGED <<rows, agents, astray>>
    BY DEF Enter, MayExecute
  <1>2. PICK x : tick' = [tick EXCEPT ![k] = x] /\ x.applied = 0
    <2> DEFINE r == tick[k].cand
               X(base) == [Idle EXCEPT !.pc = "apply", !.cand = r, !.base = base, !.wins = wins[r],
                                       !.current = score[base], !.edition = edition[r]]
    <2>1. PICK base \in Routes : tick' = [tick EXCEPT ![k] = X(base)]
      BY DEF Enter, Goes
    <2>2. X(base).applied = 0
      BY DEF Idle
    <2> HIDE DEF X
    <2>3. QED
      BY <2>1, <2>2
  <1>3. tick'[k] = x
    BY <1>2 DEF Control, Locked
  <1>4. AgentsTyped' /\ UndoneOnce' /\ \A n \in Nodes : Clean(n)'
    BY <1>1 DEF NodesInv, AgentsTyped, UndoneOnce, Clean, Trusted, agents, rows
  <1>5. AppliedOf(x) = {}
    BY <1>2 DEF AppliedOf
  <1>6. Accounted(x)'
    BY <1>4, <1>5 DEF Accounted, AppliedOf
  <1>7. QED
    BY <1>1, <1>3, <1>4, <1>6, CanaryAssumption DEF NodesInv

\* Ticks that are not under way, and edits, touch nothing that counts here.
LEMMA NodesAside ==
  ASSUME NodesInv, UNCHANGED <<golden, lock, agents, astray>>,
         \A q \in Ticks : lock = q => tick'[q] = tick[q]
  PROVE  NodesInv'
  <1>1. AgentsTyped' /\ UndoneOnce'
    BY DEF NodesInv, AgentsTyped, UndoneOnce, agents
  <1>2. \A n \in Nodes : Clean(n) => Clean(n)'
    BY DEF Clean, Trusted, agents
  <1>3. ASSUME NEW q \in Ticks, lock = q PROVE Accounted(tick[q])'
    <2>1. PICK x : x = tick[q] /\ x = tick'[q]
      BY <1>3
    <2>2. Accounted(x)
      BY <1>3, <2>1 DEF NodesInv
    <2>3. Accounted(x)'
      BY <2>2 DEF Accounted, AppliedOf, ConfOf, Given, Clean, Trusted, agents
    <2>4. QED
      BY <2>1, <2>3
  <1>4. QED
    BY <1>1, <1>2, <1>3 DEF NodesInv

LEMMA NodesCrash ==
  ASSUME NodesInv, Control, Crash
  PROVE  NodesInv'
  <1>1. PICK k \in Ticks : k = lock
    BY DEF Crash, Control, Locked
  <1>2. PICK x : x = tick[k]
    OBVIOUS
  <1>3. /\ astray' = astray \cup AppliedOf(x) /\ lock' = Free /\ golden' = golden
        /\ live' = live /\ kept' = kept /\ done' = done
    BY <1>1, <1>2 DEF Crash, AppliedOf, rows, agents
  <1>4. Accounted(x) /\ AgentsTyped /\ UndoneOnce
    BY <1>1, <1>2 DEF NodesInv
  <1>5. AppliedOf(x) \subseteq Nodes
    <2>1. x.pc \in Running
      BY <1>1, <1>2 DEF Control, Locked
    <2>2. x.applied \in Nat /\ x.applied <= Len(NodeKeys[x.cand]) /\ NodeKeys[x.cand] \in Seq(Nodes)
      BY <1>2, <2>1, RecordOf
    <2>3. QED
      BY <2>2 DEF AppliedOf
  <1>6. AgentsTyped' /\ UndoneOnce'
    BY <1>3, <1>4, <1>5 DEF AgentsTyped, UndoneOnce
  <1>7. \A n \in Nodes : Clean(n)'
    BY <1>3, <1>4 DEF Accounted, Clean, Trusted
  <1>8. QED
    BY <1>3, <1>6, <1>7, CanaryAssumption DEF NodesInv

LEMMA NodesExecute ==
  ASSUME NodesInv, Control, NEW k \in Ticks, Execute(k)
  PROVE  NodesInv'
  <1>1. CASE Enter(k)
    BY <1>1, NodesEnter
  <1>2. CASE Decline(k)
    <2>1. tick[k].pc = "chosen" /\ lock # k
      BY <1>2 DEF Decline, Control, Locked, Running
    <2>2. \A q \in Ticks : lock = q => tick'[q] = tick[q]
      BY <1>2, <2>1 DEF Decline, Goes, Control, Locked
    <2>3. QED
      BY <1>2, <2>2, NodesAside DEF Decline, rows
  <1>3. CASE ApplyNext(k)
    BY <1>3, NodesApply
  <1>4. CASE \E s \in Scores, safe \in BOOLEAN : Observe(k, s, safe)
    <2>1. PICK s \in Scores, safe \in BOOLEAN : Observe(k, s, safe)
      BY <1>4
    <2>2. tick[k].pc \in Running /\ tick[k] \in TickRecords
          /\ UNCHANGED <<rows, lock, agents, astray>>
      BY <2>1 DEF Observe, Running, Control, Locked
    <2>3. PICK next, result : Goes(k, [tick[k] EXCEPT !.pc = next, !.result = result, !.score = s, !.current = 0])
      BY <2>1 DEF Observe
    <2> DEFINE x == [tick[k] EXCEPT !.pc = next, !.result = result, !.score = s, !.current = 0]
    <2>4. x.cand = tick[k].cand /\ x.edition = tick[k].edition /\ x.applied = tick[k].applied
      BY <2>2 DEF TickRecords
    <2>5. PICK y : y = x
      OBVIOUS
    <2> HIDE DEF x
    <2>6. Goes(k, y)
      BY <2>3, <2>5 DEF x
    <2>7. QED
      BY <2>2, <2>4, <2>5, <2>6, SameNodes
  <1>5. CASE BenchmarkFails(k) \/ CommitFails(k)
    <2>1. tick[k].pc \in Running /\ Goes(k, Handled(k, tick[k].applied))
          /\ UNCHANGED <<rows, lock, agents, astray>>
      BY <1>5 DEF BenchmarkFails, CommitFails, Running
    <2>2. PICK y : y = Handled(k, tick[k].applied)
      OBVIOUS
    <2>3. y.cand = tick[k].cand /\ y.edition = tick[k].edition /\ y.applied = tick[k].applied
      BY <2>2 DEF Handled, Idle
    <2>4. Goes(k, y)
      BY <2>1, <2>2
    <2>5. QED
      BY <2>1, <2>3, <2>4, SameNodes
  <1>6. CASE RollBack(k)
    BY <1>6, NodesRollBack
  <1>7. CASE Commit(k)
    BY <1>7, NodesCommit
  <1>8. CASE Undo(k)
    BY <1>8, NodesUndo
  <1>9. QED
    BY <1>1, <1>2, <1>3, <1>4, <1>5, <1>6, <1>7, <1>8 DEF Execute

LEMMA NodesStep == Control /\ NodesInv /\ [Next]_vars => NodesInv'
  <1> SUFFICES ASSUME Control, NodesInv, [Next]_vars PROVE NodesInv'
    OBVIOUS
  <1>1. ASSUME NEW k \in Ticks, Choose(k) PROVE NodesInv'
    <2>1. tick[k].pc = "idle" /\ lock # k
      BY <1>1 DEF Choose, Control, Locked, Running
    <2>2. \A q \in Ticks : lock = q => tick'[q] = tick[q]
      BY <1>1, <2>1 DEF Choose, Goes, Control, Locked
    <2>3. QED
      BY <1>1, <2>2, NodesAside DEF Choose, rows
  <1>2. ASSUME NEW k \in Ticks, Execute(k) PROVE NodesInv'
    BY <1>2, NodesExecute
  <1>3. ASSUME NEW r \in Routes, EditRoute(r) PROVE NodesInv'
    BY <1>3, NodesAside DEF EditRoute, agents
  <1>4. CASE Crash
    BY <1>4, NodesCrash
  <1>5. CASE UNCHANGED vars
    BY <1>5, NodesAside DEF vars, rows, agents
  <1>6. QED
    BY <1>1, <1>2, <1>3, <1>4, <1>5 DEF Next

LEMMA NodesInit == Init => NodesInv
  <1> SUFFICES ASSUME Init PROVE NodesInv
    OBVIOUS
  <1>1. AgentsTyped
    BY DEF Init, AgentsTyped
  <1>2. UndoneOnce
    BY DEF Init, UndoneOnce
  <1>3. \A n \in Nodes : Clean(n)
    BY DEF Init, Clean, Trusted, Base
  <1>4. QED
    BY <1>1, <1>2, <1>3, CanaryAssumption DEF Init, NodesInv

\* Failed benchmarks, repeated rollbacks, promotions that stop half way and failed
\* commits leave no candidate on a node, however long the list of nodes is.
THEOREM NothingLeft == Spec => []NoCandidateLeft
  <1>1. NodesInv => NoCandidateLeft
    BY DEF NodesInv, NoCandidateLeft, Clean, Trusted
  <1>2. QED
    BY <1>1, ControlInit, ControlStep, NodesInit, NodesStep, PTL DEF Spec

\* The state keeps its types, the agents' with the master's.
THEOREM CanaryTyped == Spec => []CanaryTypeOK
  <1>1. Control /\ NodesInv => CanaryTypeOK
    BY DEF Control, RowsTyped, Locked, TickRecords, NodesInv, AgentsTyped, CanaryTypeOK
  <1>2. QED
    BY <1>1, ControlInit, ControlStep, NodesInit, NodesStep, PTL DEF Spec
=============================================================================

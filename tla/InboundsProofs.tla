--------------------------- MODULE InboundsProofs ---------------------------
(***************************************************************************)
(* What holds of the inbounds for any nodes, runs of the autopilot,        *)
(* requests, clients, ports and faults.                                    *)
(***************************************************************************)
EXTENDS Inbounds, FiniteSetTheorems, WellFoundedInduction, TLAPS

-----------------------------------------------------------------------------
(* The autopilot finds a free port.                                        *)

LEMMA Least ==
  ASSUME NEW S \in SUBSET Nat, S # {}
  PROVE  \E m \in S : \A n \in S : m <= n
  <1> DEFINE R == OpToRel(<, Nat)
  <1>1. IsWellFoundedOn(R, Nat)
    BY NatLessThanWellFounded
  <1>2. \A a, b \in Nat : a < b => <<a, b>> \in R
    BY DEF OpToRel
  <1> HIDE DEF R
  <1>3. PICK m \in S : \A n \in S : ~(<<n, m>> \in R)
    BY <1>1, WFMin
  <1>4. \A n \in S : ~(n < m)
    BY <1>2, <1>3
  <1>5. QED
    BY <1>4

\* Few: no more ports than there are profiles.
Few(used) == used \in SUBSET Ports /\ Cardinality(used) <= MaxProfiles

LEMMA FreePort ==
  ASSUME NEW used, Few(used)
  PROVE  SafePort(used) \in Ports
  <1>1. IsFiniteSet(Ports) /\ Cardinality(Ports) = MaxPort /\ Ports \subseteq Nat
    BY FS_Interval, InboundsAssumption DEF Ports
  <1>2. Ports \ used # {}
    <2> SUFFICES ASSUME Ports \ used = {} PROVE FALSE
      OBVIOUS
    <2>1. used = Ports
      BY DEF Few
    <2>2. QED
      BY <1>1, <2>1, InboundsAssumption DEF Few
  <1>3. \E port \in Ports \ used : \A other \in Ports \ used : port <= other
    <2>1. Ports \ used \in SUBSET Nat
      BY <1>1
    <2>2. QED
      BY <1>2, <2>1, Least
  <1>4. QED
    BY <1>3 DEF SafePort

-----------------------------------------------------------------------------
(* Types, and what the requests have read.                                 *)

TableRows == [node : Nodes, kind : {"ai", "own"}, port : Ports]
PassRecords == [pc : {"idle", "apply", "insert"}, todo : SUBSET Nodes, node : Nodes \cup {NoNode},
                port : Ports \cup {NotThere}, used : [Nodes -> SUBSET Ports], broken : BOOLEAN]
CallRecords == [pc : {"idle", "selected", "undo", "remove", "delete", "client"},
                id : Nat, row : TableRows \cup {NoRow}, ids : SUBSET ProfileIds]

RowsTyped ==
  /\ row \in [ProfileIds -> TableRows \cup {NoRow}]
  /\ nextId \in Nat
  /\ Postgres => \A i \in ProfileIds : i >= nextId => row[i] = NoRow
Contents == Ports \cup {NotThere, NoConfig}
AgentsTyped ==
  /\ listens \in [Nodes -> Contents] /\ before \in [Nodes -> Contents]
  /\ drifted \subseteq Nodes
PassTyped ==
  /\ pass \in [Passes -> PassRecords]
  /\ \A p \in Passes : pass[p].pc # "idle" => \A n \in Nodes : Few(pass[p].used[n])
  /\ \A p \in Passes : pass[p].pc = "insert" => pass[p].node \in Nodes /\ pass[p].port \in Ports

\* A request about a profile has read its row; a selection has made an operator's.
CallOK(x) ==
  /\ x.pc \in {"selected", "undo", "remove", "delete"} => x.id \in ProfileIds /\ x.row \in TableRows
  /\ x.pc = "selected" => x.row.kind = "own"
CallTyped == call \in [Calls -> CallRecords] /\ \A c \in Calls : CallOK(call[c])

\* The name of the autopilot's inbound is unique on a node.
IsAi(x, n) == x.node = n /\ x.kind = "ai"
Unique == \A n \in Nodes, i, j \in ProfileIds : IsAi(row[i], n) /\ IsAi(row[j], n) => i = j

InboundsTyped == RowsTyped /\ AgentsTyped /\ PassTyped /\ CallTyped /\ Unique

LEMMA TableRecords ==
  /\ Resting \in PassRecords /\ Resting.pc = "idle"
  /\ Quiet \in CallRecords /\ Quiet.pc = "idle" /\ CallOK(Quiet)
  /\ NoRow \notin TableRows /\ \A n \in Nodes : ~IsAi(NoRow, n)
  /\ \A n \in Nodes, kind \in {"ai", "own"}, port \in Ports : Row(n, kind, port) \in TableRows
  BY DEF Resting, PassRecords, Quiet, CallRecords, CallOK, NoRow, TableRows, Row, IsAi, NotThere

\* A new row takes an id that has none, on either database.
LEMMA InsertTyped ==
  ASSUME InboundsTyped, NEW i \in ProfileIds, NEW n \in Nodes, NEW kind \in {"ai", "own"},
         NEW port \in Ports, Insert(i, n, kind, port), kind = "ai" => Named(n, "ai") = {},
         UNCHANGED database
  PROVE  /\ RowsTyped' /\ Unique' /\ row[i] = NoRow
         /\ \A j \in ProfileIds : row'[j] = IF j = i THEN Row(n, kind, port) ELSE row[j]
  <1>1. i \in Nat /\ nextId \in Nat /\ ProfileIds \subseteq Nat
    BY InboundsAssumption DEF ProfileIds, InboundsTyped, RowsTyped
  <1>2. row[i] = NoRow
    <2>1. CASE Postgres
      BY <1>1, <2>1 DEF Insert, NewId, InboundsTyped, RowsTyped
    <2>2. CASE ~Postgres
      <3>1. \A j \in Stored : j < i
        BY <2>2 DEF Insert, NewId
      <3>2. i \notin Stored
        BY <1>1, <3>1
      <3>3. QED
        BY <3>2 DEF Stored
    <2>3. QED
      BY <2>1, <2>2
  <1>3. row' = [row EXCEPT ![i] = Row(n, kind, port)] /\ Row(n, kind, port) \in TableRows
    BY TableRecords DEF Insert
  <1>4. \A j \in ProfileIds : row'[j] = IF j = i THEN Row(n, kind, port) ELSE row[j]
    BY <1>3 DEF InboundsTyped, RowsTyped
  <1>5. RowsTyped'
    <2>1. row' \in [ProfileIds -> TableRows \cup {NoRow}]
      BY <1>3 DEF InboundsTyped, RowsTyped
    <2>2. CASE Postgres
      <3>1. i = nextId /\ nextId' = nextId + 1
        BY <2>2 DEF Insert, NewId
      <3>2. \A j \in ProfileIds : j >= nextId + 1 => j # i /\ j >= nextId
        BY <1>1, <3>1
      <3>3. \A j \in ProfileIds : j >= nextId => row[j] = NoRow
        BY <2>2 DEF InboundsTyped, RowsTyped
      <3>4. \A j \in ProfileIds : j >= nextId' => row'[j] = NoRow
        BY <1>4, <3>1, <3>2, <3>3
      <3>5. nextId' \in Nat
        BY <1>1, <3>1
      <3>6. QED
        BY <2>1, <3>4, <3>5 DEF RowsTyped
    <2>3. CASE ~Postgres
      <3>1. nextId' = nextId /\ ~Postgres'
        BY <2>3 DEF Insert, Postgres
      <3>2. QED
        BY <1>1, <2>1, <3>1 DEF RowsTyped
    <2>4. QED
      BY <2>2, <2>3
  <1>6. Unique'
    <2> SUFFICES ASSUME NEW m \in Nodes, NEW j \in ProfileIds, NEW k \in ProfileIds,
                        IsAi(row'[j], m), IsAi(row'[k], m), j # k
                 PROVE  FALSE
      BY DEF Unique
    <2>1. CASE j # i /\ k # i
      BY <1>4, <2>1 DEF InboundsTyped, Unique
    <2>2. CASE j = i \/ k = i
      <3>1. m = n /\ kind = "ai"
        BY <1>4, <2>2 DEF IsAi, Row
      <3>2. QED
        BY <1>4, <2>2, <3>1 DEF Named, IsAi
    <2>3. QED
      BY <2>1, <2>2
  <1>7. QED
    BY <1>2, <1>4, <1>5, <1>6

LEMMA DeleteTyped ==
  ASSUME InboundsTyped, NEW i \in ProfileIds, DeleteRow(i), UNCHANGED <<database, nextId>>
  PROVE  /\ RowsTyped' /\ Unique'
         /\ \A j \in ProfileIds : row'[j] = IF j = i THEN NoRow ELSE row[j]
  <1>1. \A j \in ProfileIds : row'[j] = IF j = i THEN NoRow ELSE row[j]
    <2>1. CASE row[i] = NoRow
      BY <2>1 DEF DeleteRow
    <2>2. CASE row[i] # NoRow
      <3>1. row' = [row EXCEPT ![i] = NoRow]
        BY <2>2 DEF DeleteRow
      <3>2. QED
        BY <3>1 DEF InboundsTyped, RowsTyped
    <2>3. QED
      BY <2>1, <2>2
  <1>2. row' \in [ProfileIds -> TableRows \cup {NoRow}]
    BY DEF DeleteRow, InboundsTyped, RowsTyped
  <1>3. RowsTyped'
    BY <1>1, <1>2 DEF InboundsTyped, RowsTyped, Postgres
  <1>4. Unique'
    BY <1>1, TableRecords DEF InboundsTyped, Unique
  <1>5. QED
    BY <1>1, <1>3, <1>4

LEMMA SameRows ==
  ASSUME InboundsTyped, UNCHANGED <<database, row, nextId>>
  PROVE  RowsTyped' /\ Unique'
  BY DEF InboundsTyped, RowsTyped, Unique, Postgres

\* What deleting the row of a request's id leaves to say of the nodes.
LEMMA ReadDeleted ==
  ASSUME InboundsTyped, NEW c \in Calls, call[c].id \in ProfileIds, DeleteRead(c),
         UNCHANGED <<database, nextId, agentVars>>
  PROVE  /\ RowsTyped' /\ Unique' /\ AgentsTyped' /\ drifted \subseteq drifted'
         /\ \A j \in ProfileIds : row'[j] = IF j = call[c].id THEN NoRow ELSE row[j]
         /\ \A n \in Nodes : n \notin drifted' /\ IsAi(row[call[c].id], n) =>
                               row[call[c].id] = call[c].row
  <1> PICK i \in ProfileIds : i = call[c].id
    OBVIOUS
  <1>1. /\ RowsTyped' /\ Unique'
        /\ \A j \in ProfileIds : row'[j] = IF j = call[c].id THEN NoRow ELSE row[j]
    BY DeleteTyped DEF DeleteRead
  <1>2. drifted' = IF row[i].kind = "ai" /\ row[i] # call[c].row
                   THEN drifted \cup {row[i].node} ELSE drifted
    BY DEF DeleteRead
  <1>3. row[i].kind = "ai" => row[i].node \in Nodes
    BY DEF InboundsTyped, RowsTyped, TableRows, NoRow
  <1>4. AgentsTyped' /\ drifted \subseteq drifted'
    BY <1>2, <1>3 DEF InboundsTyped, AgentsTyped, agentVars
  <1>5. \A n \in Nodes : n \notin drifted' /\ IsAi(row[i], n) => row[i] = call[c].row
    BY <1>2 DEF IsAi
  <1>6. QED
    BY <1>1, <1>4, <1>5

\* A request goes on with y.
LEMMA CallGoesOn ==
  ASSUME InboundsTyped, NEW c \in Calls, NEW y \in CallRecords, CallOK(y),
         call' = [call EXCEPT ![c] = y]
  PROVE  CallTyped'
  <1>1. call' \in [Calls -> CallRecords]
    BY DEF InboundsTyped, CallTyped
  <1>2. \A d \in Calls : call'[d] = IF d = c THEN y ELSE call[d]
    BY DEF InboundsTyped, CallTyped
  <1>3. \A d \in Calls : CallOK(call'[d])
    BY <1>2 DEF InboundsTyped, CallTyped
  <1>4. QED
    BY <1>1, <1>3 DEF CallTyped

LEMMA ChangeTyped ==
  ASSUME AgentsTyped, NEW n \in Nodes, NEW port \in Contents, drifted' \subseteq Nodes,
         \/ \E kept \in Contents : Changes(n, port, kept)
         \/ Change(n, port) \/ Fails(n) \/ UNCHANGED <<listens, before>>
  PROVE  AgentsTyped'
  <1>1. ASSUME NEW kept \in Contents, Changes(n, port, kept) PROVE AgentsTyped'
    BY <1>1 DEF AgentsTyped, Changes
  <1>2. Change(n, port) => \E kept \in Contents : Changes(n, port, kept)
    BY DEF Change, AgentsTyped
  <1>3. CASE Fails(n)
    BY <1>3 DEF AgentsTyped, Fails
  <1>4. CASE UNCHANGED <<listens, before>>
    BY <1>4 DEF AgentsTyped
  <1>5. QED
    BY <1>1, <1>2, <1>3, <1>4

LEMMA PassGoesOn ==
  ASSUME InboundsTyped, NEW p \in Passes, NEW x \in PassRecords, pass' = [pass EXCEPT ![p] = x],
         x.pc # "idle" => \A n \in Nodes : Few(x.used[n]),
         x.pc = "insert" => x.node \in Nodes /\ x.port \in Ports
  PROVE  PassTyped'
  <1>1. pass' \in [Passes -> PassRecords]
    BY DEF InboundsTyped, PassTyped
  <1>2. \A q \in Passes : pass'[q] = IF q = p THEN x ELSE pass[q]
    BY DEF InboundsTyped, PassTyped
  <1>3. QED
    BY <1>1, <1>2 DEF InboundsTyped, PassTyped

\* The ports of some of the profiles.
LEMMA PortsFew ==
  ASSUME RowsTyped, NEW S \in SUBSET ProfileIds, \A i \in S : row[i] \in TableRows
  PROVE  Few({row[i].port : i \in S})
  <1> DEFINE f == [i \in S |-> row[i].port]
             T == {row[i].port : i \in S}
  <1>1. IsFiniteSet(S) /\ Cardinality(S) <= MaxProfiles
    <2>1. IsFiniteSet(ProfileIds) /\ Cardinality(ProfileIds) = MaxProfiles
      BY FS_Interval, InboundsAssumption DEF ProfileIds
    <2>2. QED
      BY <2>1, FS_Subset
  <1>2. f \in Surjection(S, T)
    BY DEF Surjection
  <1>3. T \subseteq Ports
    BY DEF TableRows
  <1>4. IsFiniteSet(T) /\ Cardinality(T) <= Cardinality(S)
    BY <1>1, <1>2, FS_Surjection
  <1>5. Cardinality(T) \in Nat /\ Cardinality(S) \in Nat /\ MaxProfiles \in Nat
    BY <1>1, <1>4, FS_CardinalityType, InboundsAssumption
  <1>6. QED
    BY <1>1, <1>3, <1>4, <1>5 DEF Few

LEMMA TypedPass ==
  ASSUME InboundsTyped, NEW p \in Passes, PassStep(p)
  PROVE  InboundsTyped'
  <1>0. pass[p] \in PassRecords
    BY DEF InboundsTyped, PassTyped
  <1>1. ASSUME NEW online \in SUBSET Nodes, PassBegin(p, online) PROVE InboundsTyped'
    <2> DEFINE used == [n \in Nodes |-> {row[i].port : i \in {j \in ProfileIds : row[j].node = n}}]
               x == [Resting EXCEPT !.pc = "apply", !.todo = online, !.used = used]
    <2>1. \A n \in Nodes : Few(used[n])
      <3> TAKE n \in Nodes
      <3>1. \A i \in {j \in ProfileIds : row[j].node = n} : row[i] \in TableRows
        BY InboundsAssumption DEF InboundsTyped, RowsTyped, NoRow
      <3>2. Few({row[i].port : i \in {j \in ProfileIds : row[j].node = n}})
        BY <3>1, PortsFew DEF InboundsTyped
      <3>3. QED
        BY <3>2
    <2>2. used \in [Nodes -> SUBSET Ports]
      BY <2>1 DEF Few
    <2> HIDE DEF used
    <2>3. x \in PassRecords /\ x.pc = "apply" /\ x.used = used
      BY <2>2, TableRecords DEF PassRecords
    <2>4. pass' = [pass EXCEPT ![p] = x]
      BY <1>1 DEF PassBegin, used
    <2> HIDE DEF x
    <2>5. PassTyped'
      BY <2>1, <2>3, <2>4, PassGoesOn
    <2>6. UNCHANGED <<database, row, nextId, agentVars, call, drifted>>
      BY <1>1 DEF PassBegin, tableVars
    <2>7. QED
      BY <2>5, <2>6, SameRows DEF InboundsTyped, AgentsTyped, CallTyped, agentVars
  <1>2. ASSUME NEW n \in Nodes, NEW answer \in Answers, PassApply(p, n, answer) PROVE InboundsTyped'
    <2> DEFINE port == SafePort(pass[p].used[n])
               next == IF Recorded(answer) THEN "insert" ELSE "apply"
               x == [pass[p] EXCEPT !.todo = @ \ {n}, !.node = n, !.port = port, !.pc = next]
    <2>1. pass[p].pc = "apply" /\ Few(pass[p].used[n]) /\ \A m \in Nodes : Few(pass[p].used[m])
      BY <1>2 DEF PassApply, InboundsTyped, PassTyped
    <2>2. port \in Ports
      BY <2>1, FreePort
    <2>3. /\ Applied(n, port, answer) /\ \E astray \in BOOLEAN : Drift(n, answer, astray)
          /\ pass' = [pass EXCEPT ![p] = x] /\ UNCHANGED <<database, row, nextId, call>>
      BY <1>2 DEF PassApply, tableVars
    <2> HIDE DEF port
    <2>4. x \in PassRecords /\ x.used = pass[p].used /\ x.node = n /\ x.port = port /\ x.pc # "idle"
      BY <1>0, <2>2 DEF PassRecords
    <2> HIDE DEF x
    <2>5. PassTyped'
      BY <2>1, <2>2, <2>3, <2>4, PassGoesOn
    <2>6. AgentsTyped'
      <3>1. drifted' \subseteq Nodes
        BY <2>3 DEF Drift, InboundsTyped, AgentsTyped
      <3>2. {listens[n], port} \subseteq Contents /\ port \in Contents
        BY <2>2 DEF Contents, InboundsTyped, AgentsTyped
      <3>3. \/ \E kept \in {listens[n], port} : Changes(n, port, kept)
            \/ Change(n, port) \/ Fails(n) \/ UNCHANGED <<listens, before>>
        BY <2>3 DEF Applied, Failed, agentVars
      <3>4. QED
        BY <3>1, <3>2, <3>3, ChangeTyped DEF InboundsTyped
    <2>7. QED
      BY <2>3, <2>5, <2>6, SameRows DEF InboundsTyped, CallTyped
  <1>3. CASE PassInsert(p)
    <2> DEFINE n == pass[p].node
               fails == pass[p].broken \/ Named(n, "ai") # {}
               x == [pass[p] EXCEPT !.pc = "apply", !.broken = fails /\ Postgres, !.node = NoNode,
                                    !.port = NotThere]
    <2>1. pass[p].pc = "insert" /\ n \in Nodes /\ pass[p].port \in Ports
          /\ \A m \in Nodes : Few(pass[p].used[m])
      BY <1>3 DEF PassInsert, InboundsTyped, PassTyped
    <2>2. pass' = [pass EXCEPT ![p] = x] /\ UNCHANGED <<database, agentVars, call>>
      BY <1>3 DEF PassInsert
    <2>3. x \in PassRecords /\ x.used = pass[p].used /\ x.pc = "apply"
      BY <1>0 DEF PassRecords
    <2> HIDE DEF x
    <2>4. PassTyped'
      BY <2>1, <2>2, <2>3, PassGoesOn
    <2>5. CASE fails
      <3>1. drifted' = drifted \cup {n} /\ UNCHANGED <<row, nextId>>
        BY <1>3, <2>5 DEF PassInsert
      <3>2. QED
        BY <2>1, <2>2, <2>4, <3>1, SameRows DEF InboundsTyped, AgentsTyped, CallTyped, agentVars
    <2>6. CASE ~fails
      <3>1. /\ \E i \in ProfileIds : Insert(i, n, "ai", pass[p].port)
            /\ drifted' = drifted /\ Named(n, "ai") = {}
        BY <1>3, <2>6 DEF PassInsert
      <3>2. RowsTyped' /\ Unique'
        BY <2>1, <2>2, <3>1, InsertTyped
      <3>3. QED
        BY <2>2, <2>4, <3>1, <3>2 DEF InboundsTyped, AgentsTyped, CallTyped, agentVars
    <2>7. QED
      BY <2>5, <2>6
  <1>4. CASE PassEnd(p)
    <2>1. pass' = [pass EXCEPT ![p] = Resting] /\ UNCHANGED <<database, row, nextId, agentVars, call, drifted>>
      BY <1>4 DEF PassEnd, tableVars
    <2>2. PassTyped'
      BY <2>1, TableRecords, PassGoesOn
    <2>3. QED
      BY <2>1, <2>2, SameRows DEF InboundsTyped, AgentsTyped, CallTyped, agentVars
  <1>5. QED
    BY <1>1, <1>2, <1>3, <1>4 DEF PassStep

LEMMA TypedCall ==
  ASSUME InboundsTyped, NEW c \in Calls, CallStep(c)
  PROVE  InboundsTyped'
  <1>0. call[c] \in CallRecords /\ CallOK(call[c])
    BY DEF InboundsTyped, CallTyped
  <1>a. ASSUME UNCHANGED <<database, row, nextId, agentVars, pass, drifted>>,
               NEW y \in CallRecords, CallOK(y), call' = [call EXCEPT ![c] = y]
        PROVE  InboundsTyped'
    <2>1. RowsTyped' /\ Unique' /\ CallTyped'
      BY <1>a, SameRows, CallGoesOn
    <2>2. QED
      BY <1>a, <2>1 DEF InboundsTyped, AgentsTyped, PassTyped, agentVars
  <1>1. ASSUME NEW n \in Nodes, NEW port \in Ports, SelectBegin(c, n, port) PROVE InboundsTyped'
    <2>1. PICK i \in ProfileIds :
             /\ Insert(i, n, "own", port)
             /\ Opens(c, [Quiet EXCEPT !.pc = "selected", !.id = i, !.row = Row(n, "own", port)])
      BY <1>1 DEF SelectBegin
    <2>2. UNCHANGED <<database, agentVars, pass, drifted>>
      BY <1>1 DEF SelectBegin
    <2>3. RowsTyped' /\ Unique'
      BY <2>1, <2>2, InsertTyped
    <2>4. PICK y : y = [Quiet EXCEPT !.pc = "selected", !.id = i, !.row = Row(n, "own", port)]
      OBVIOUS
    <2>5. Row(n, "own", port) \in TableRows /\ i \in Nat
      BY TableRecords, InboundsAssumption DEF ProfileIds
    <2>6. y \in CallRecords /\ y.id = i /\ y.row = Row(n, "own", port) /\ y.row.kind = "own"
      BY <2>4, <2>5, TableRecords DEF CallRecords, Row
    <2>7. call' = [call EXCEPT ![c] = y]
      BY <2>1, <2>4 DEF Opens
    <2>8. CallTyped'
      BY <2>5, <2>6, <2>7, CallGoesOn DEF CallOK
    <2>9. QED
      BY <2>2, <2>3, <2>8 DEF InboundsTyped, AgentsTyped, PassTyped, agentVars
  <1>2. CASE SelectFails(c)
    <2>1. /\ UNCHANGED <<database, nextId, agentVars, pass>> /\ call[c].id \in ProfileIds
          /\ DeleteRead(c) /\ call' = [call EXCEPT ![c].pc = "undo"] /\ call[c].row \in TableRows
      BY <1>0, <1>2 DEF SelectFails, CallOK
    <2>2. RowsTyped' /\ Unique' /\ AgentsTyped'
      BY <2>1, ReadDeleted
    <2>3. PICK y : y = [call[c] EXCEPT !.pc = "undo"]
      OBVIOUS
    <2>4. y \in CallRecords /\ y.pc = "undo" /\ y.id = call[c].id /\ y.row = call[c].row
      BY <1>0, <2>3 DEF CallRecords
    <2>5. call' = [call EXCEPT ![c] = y]
      BY <2>1, <2>3
    <2>6. CallTyped'
      BY <2>1, <2>4, <2>5, CallGoesOn DEF CallOK
    <2>7. QED
      BY <2>1, <2>2, <2>6 DEF InboundsTyped, PassTyped
  <1>3. CASE SelectUndo(c)
    <2>1. UNCHANGED <<database, row, nextId, pass>> /\ Closes(c) /\ call[c].row.node \in Nodes
      BY <1>0, <1>3 DEF SelectUndo, CallOK, TableRows, tableVars
    <2>2. RowsTyped' /\ Unique'
      BY <2>1, SameRows
    <2>3. CallTyped'
      BY <2>1, TableRecords, CallGoesOn DEF Closes
    <2>4. AgentsTyped'
      <3> DEFINE n == call[c].row.node
      <3>1. CASE Change(n, before[n]) /\ drifted' \in {drifted, drifted \cup {n}}
        BY <2>1, <3>1, ChangeTyped DEF InboundsTyped, AgentsTyped
      <3>2. CASE UNCHANGED <<agentVars, drifted>>
        BY <3>2 DEF InboundsTyped, AgentsTyped, agentVars
      <3>3. QED
        BY <1>3, <3>1, <3>2 DEF SelectUndo
    <2>5. QED
      BY <2>1, <2>2, <2>3, <2>4 DEF InboundsTyped, PassTyped
  <1>4. ASSUME NEW i \in ProfileIds, RemoveBegin(c, i) PROVE InboundsTyped'
    <2>1. PICK y : y = [Quiet EXCEPT !.pc = IF row[i].node \notin registered THEN "delete"
                                            ELSE "remove", !.id = i, !.row = row[i]]
      OBVIOUS
    <2>2. /\ UNCHANGED <<database, row, nextId, agentVars, pass>> /\ call' = [call EXCEPT ![c] = y]
          /\ row[i] # NoRow
      BY <1>4, <2>1 DEF RemoveBegin, Opens, tableVars
    <2>3. row[i] \in TableRows /\ i \in Nat
      BY <2>2, InboundsAssumption DEF InboundsTyped, RowsTyped, ProfileIds
    <2>4. y \in CallRecords /\ y.id = i /\ y.row = row[i] /\ y.pc # "selected"
      BY <2>1, <2>3, TableRecords DEF CallRecords
    <2>5. CallTyped'
      BY <2>2, <2>3, <2>4, CallGoesOn DEF CallOK
    <2>6. drifted' \subseteq Nodes
      BY <1>4, <2>3 DEF RemoveBegin, InboundsTyped, AgentsTyped, TableRows
    <2>7. AgentsTyped'
      BY <2>2, <2>6 DEF InboundsTyped, AgentsTyped, agentVars
    <2>8. QED
      BY <2>2, <2>5, <2>7, SameRows DEF InboundsTyped, PassTyped
  <1>5. ASSUME NEW answer \in Answers, RemoveAtAgent(c, answer) PROVE InboundsTyped'
    <2> DEFINE n == call[c].row.node
               left == IF call[c].row.kind = "own" THEN listens[n] ELSE NotThere
    <2>1. UNCHANGED <<database, row, nextId, pass>> /\ call[c].pc = "remove" /\ n \in Nodes
          /\ call[c].row \in TableRows /\ call[c].id \in ProfileIds
      BY <1>0, <1>5 DEF RemoveAtAgent, CallOK, TableRows, tableVars
    <2>2. PICK y : y = [call[c] EXCEPT !.pc = "delete"]
      OBVIOUS
    <2>3. y \in CallRecords /\ y.id = call[c].id /\ y.row = call[c].row /\ y.pc # "selected"
      BY <1>0, <2>2 DEF CallRecords
    <2>4. call' = [call EXCEPT ![c] = y] \/ call' = [call EXCEPT ![c] = Quiet]
      BY <1>5, <2>2 DEF RemoveAtAgent, Closes
    <2>5. CallTyped'
      BY <2>1, <2>3, <2>4, TableRecords, CallGoesOn DEF CallOK
    <2>6. left \in Contents
      BY <2>1 DEF InboundsTyped, AgentsTyped, Contents
    <2>7. drifted' \subseteq Nodes
      BY <1>5, <2>1 DEF RemoveAtAgent, Drift, InboundsTyped, AgentsTyped
    <2>8. Change(n, left) \/ Fails(n) \/ UNCHANGED <<listens, before>>
      BY <1>5 DEF RemoveAtAgent, Failed, agentVars
    <2>9. AgentsTyped'
      BY <2>1, <2>6, <2>7, <2>8, ChangeTyped DEF InboundsTyped
    <2>10. QED
      BY <2>1, <2>5, <2>9, SameRows DEF InboundsTyped, PassTyped
  <1>6. CASE RemoveRow(c)
    <2>1. /\ UNCHANGED <<database, nextId, agentVars, pass>> /\ DeleteRead(c) /\ Closes(c)
          /\ call[c].id \in ProfileIds
      BY <1>0, <1>6 DEF RemoveRow, CallOK
    <2>2. RowsTyped' /\ Unique' /\ AgentsTyped'
      BY <2>1, ReadDeleted
    <2>3. CallTyped'
      BY <2>1, TableRecords, CallGoesOn DEF Closes
    <2>4. QED
      BY <2>1, <2>2, <2>3 DEF InboundsTyped, PassTyped
  <1>7. ASSUME NEW ids \in SUBSET ProfileIds, ClientCheck(c, ids) PROVE InboundsTyped'
    <2>1. PICK y : y = [Quiet EXCEPT !.pc = "client", !.ids = ids]
      OBVIOUS
    <2>2. y \in CallRecords /\ y.pc = "client"
      BY <2>1, TableRecords DEF CallRecords
    <2>3. QED
      BY <1>7, <1>a, <2>1, <2>2 DEF ClientCheck, Opens, CallOK, tableVars
  <1>8. ASSUME NEW k \in Profiles, ClientInsert(c, k) PROVE InboundsTyped'
    BY <1>8, <1>a, TableRecords DEF ClientInsert, Closes, tableVars
  <1>9. QED
    BY <1>1, <1>2, <1>3, <1>4, <1>5, <1>6, <1>7, <1>8 DEF CallStep

LEMMA TypedInit == InboundsInit => InboundsTyped
  <1> SUFFICES ASSUME InboundsInit PROVE InboundsTyped
    OBVIOUS
  <1>1. RowsTyped
    BY DEF InboundsInit, RowsTyped
  <1>2. AgentsTyped
    BY DEF InboundsInit, AgentsTyped, Contents
  <1>2a. PassTyped
    BY TableRecords DEF InboundsInit, PassTyped
  <1>2b. CallTyped
    BY TableRecords DEF InboundsInit, CallTyped
  <1>3. Unique
    BY TableRecords DEF InboundsInit, Unique
  <1>4. QED
    BY <1>1, <1>2, <1>2a, <1>2b, <1>3 DEF InboundsTyped

LEMMA BetweenNodes == InboundsTyped => Between \subseteq Nodes
  BY DEF InboundsTyped, PassTyped, CallTyped, CallOK, Between, TableRows

LEMMA TypedNode ==
  ASSUME InboundsTyped, NEW n \in Nodes, NodeStep(n)
  PROVE  InboundsTyped'
  <1>1. UNCHANGED <<database, row, nextId, pass, call>>
    BY DEF NodeStep, SetRegistered, Elsewhere, Forgets, tableVars
  <1>2. AgentsTyped'
    <2>1. CASE UNCHANGED <<listens, before, drifted>>
      BY <2>1 DEF InboundsTyped, AgentsTyped
    <2>2. ASSUME NEW port \in Ports \cup {NotThere}, Elsewhere(n, port) PROVE AgentsTyped'
      <3>1. port \in Contents /\ Change(n, port) /\ drifted' \subseteq Nodes
        BY <2>2 DEF Elsewhere, Contents, InboundsTyped, AgentsTyped
      <3>2. QED
        BY <3>1, ChangeTyped DEF InboundsTyped
    <2>3. QED
      BY <2>1, <2>2 DEF NodeStep, SetRegistered, Forgets, agentVars
  <1>3. QED
    BY <1>1, <1>2, SameRows DEF InboundsTyped, PassTyped, CallTyped

LEMMA TypedStep == InboundsTyped /\ [InboundsNext]_inboundVars => InboundsTyped'
  <1> SUFFICES ASSUME InboundsTyped, [InboundsNext]_inboundVars PROVE InboundsTyped'
    OBVIOUS
  <1>1. CASE UNCHANGED <<database, row, nextId, agentVars, pass, call, drifted>>
    BY <1>1, SameRows DEF InboundsTyped, AgentsTyped, PassTyped, CallTyped, agentVars
  <1>2. CASE MasterDies
    <2>1. /\ pass' = [p \in Passes |-> Resting] /\ call' = [c \in Calls |-> Quiet]
          /\ drifted' = drifted \cup Between /\ UNCHANGED <<database, row, nextId, agentVars>>
      BY <1>2 DEF MasterDies, tableVars
    <2>2. CallTyped' /\ PassTyped'
      BY <2>1, TableRecords DEF CallTyped, PassTyped
    <2>3. QED
      BY <2>1, <2>2, SameRows, BetweenNodes DEF InboundsTyped, AgentsTyped, agentVars
  <1>3. QED
    BY <1>1, <1>2, TypedPass, TypedCall, TypedNode DEF InboundsNext, SetPolicy, ClientDelete,
                                                       inboundVars, profileVars, tableVars

-----------------------------------------------------------------------------
(* Clients.                                                                *)

Resolves(k) == k \notin late /\ profile[k] # Unborn => profile[k] \subseteq Stored
ListedInv ==
  /\ profile \in [Profiles -> SUBSET Nat] /\ late \subseteq Profiles
  /\ \A k \in Profiles : Resolves(k)

\* Deleting a profile takes it from the clients with the table.
LEMMA DeleteResolves ==
  ASSUME ListedInv, InboundsTyped, NEW i \in ProfileIds, DeleteRow(i), late' = late
  PROVE  ListedInv'
  <1>0. CASE row[i] = NoRow
    BY <1>0 DEF DeleteRow, ListedInv, Resolves, Stored
  <1> SUFFICES ASSUME row[i] # NoRow PROVE ListedInv'
    BY <1>0
  <1>1. row' = [row EXCEPT ![i] = NoRow] /\ profile' = [k \in Profiles |-> profile[k] \ {i}]
    BY DEF DeleteRow, Cleaned
  <1>2. Stored \ {i} \subseteq Stored'
    BY <1>1 DEF Stored, InboundsTyped, RowsTyped
  <1>3. ASSUME NEW k \in Profiles PROVE Resolves(k)'
    <2>1. profile'[k] = profile[k] \ {i}
      BY <1>1
    <2>2. profile[k] = Unborn => profile'[k] = Unborn
      BY <2>1, InboundsAssumption DEF Unborn, ProfileIds
    <2>3. QED
      BY <1>2, <2>1, <2>2 DEF ListedInv, Resolves
  <1>4. profile' \in [Profiles -> SUBSET Nat]
    BY <1>1 DEF ListedInv
  <1>5. QED
    BY <1>3, <1>4 DEF ListedInv

LEMMA ClientsInvStep == InboundsTyped /\ ListedInv /\ [InboundsNext]_inboundVars => ListedInv'
  <1> SUFFICES ASSUME InboundsTyped, ListedInv, [InboundsNext]_inboundVars PROVE ListedInv'
    OBVIOUS
  <1>1. ASSUME Stored \subseteq Stored', UNCHANGED profileVars PROVE ListedInv'
    BY <1>1 DEF ListedInv, Resolves, profileVars
  <1>2. ASSUME UNCHANGED <<row, profileVars>> PROVE ListedInv'
    BY <1>1, <1>2 DEF Stored
  <1>3. ASSUME NEW i \in ProfileIds, NEW n \in Nodes, NEW kind \in {"ai", "own"},
               NEW port \in Ports, Insert(i, n, kind, port),
               kind = "ai" => Named(n, "ai") = {}, UNCHANGED database
        PROVE  Stored \subseteq Stored'
    BY <1>3, InsertTyped DEF Stored
  <1>4. ASSUME NEW p \in Passes, PassStep(p) PROVE ListedInv'
    <2>1. CASE PassInsert(p)
      <3>1. pass[p].node \in Nodes /\ pass[p].port \in Ports /\ UNCHANGED <<database, profileVars>>
        BY <2>1 DEF PassInsert, InboundsTyped, PassTyped
      <3>2. row' = row \/ (/\ \E i \in ProfileIds : Insert(i, pass[p].node, "ai", pass[p].port)
                           /\ Named(pass[p].node, "ai") = {})
        BY <2>1 DEF PassInsert
      <3>3. QED
        BY <1>1, <1>2, <1>3, <3>1, <3>2
    <2>2. CASE ~PassInsert(p)
      BY <1>2, <1>4, <2>2 DEF PassStep, PassBegin, PassApply, PassEnd, tableVars
    <2>3. QED
      BY <2>1, <2>2
  <1>5. ASSUME NEW c \in Calls, CallStep(c) PROVE ListedInv'
    <2>0. CallOK(call[c])
      BY DEF InboundsTyped, CallTyped
    <2>1. ASSUME NEW n \in Nodes, NEW port \in Ports, SelectBegin(c, n, port) PROVE ListedInv'
      BY <1>1, <1>3, <2>1 DEF SelectBegin
    <2>2. CASE SelectFails(c)
      <3>1. call[c].id \in ProfileIds
        BY <2>0, <2>2 DEF SelectFails, CallOK
      <3>2. QED
        BY <2>2, <3>1, DeleteResolves DEF SelectFails, DeleteRead
    <2>3. CASE RemoveRow(c)
      <3>1. call[c].id \in ProfileIds
        BY <2>0, <2>3 DEF RemoveRow, CallOK
      <3>2. QED
        BY <2>3, <3>1, DeleteResolves DEF RemoveRow, DeleteRead
    <2>4. ASSUME NEW k \in Profiles, ClientInsert(c, k) PROVE ListedInv'
      <3>1. /\ row' = row /\ profile' = [profile EXCEPT ![k] = call[c].ids]
            /\ late' = IF call[c].ids \subseteq Stored THEN late ELSE late \cup {k}
        BY <2>4 DEF ClientInsert, tableVars
      <3>2. call[c].ids \subseteq Nat
        BY InboundsAssumption DEF InboundsTyped, CallTyped, CallRecords, ProfileIds
      <3>3. Stored' = Stored
        BY <3>1 DEF Stored
      <3>4. QED
        BY <3>1, <3>2, <3>3 DEF ListedInv, Resolves
    <2>5. CASE \/ SelectUndo(c) \/ \E i \in ProfileIds : RemoveBegin(c, i)
               \/ \E answer \in Answers : RemoveAtAgent(c, answer)
               \/ \E ids \in SUBSET ProfileIds : ClientCheck(c, ids)
      BY <1>2, <2>5 DEF SelectUndo, RemoveBegin, RemoveAtAgent, ClientCheck, tableVars
    <2>6. QED
      BY <1>5, <2>1, <2>2, <2>3, <2>4, <2>5 DEF CallStep
  <1>6. ASSUME NEW k \in Profiles, ClientDelete(k) PROVE ListedInv'
    <2>1. /\ row' = row /\ profile' = [profile EXCEPT ![k] = Unborn] /\ late' = late \ {k}
      BY <1>6 DEF ClientDelete, tableVars
    <2>2. Stored' = Stored /\ Unborn \subseteq Nat
      BY <2>1 DEF Stored, Unborn
    <2>3. QED
      BY <2>1, <2>2 DEF ListedInv, Resolves
  <1>7. CASE \/ MasterDies \/ (\E b \in BOOLEAN : SetPolicy(b)) \/ (\E n \in Nodes : NodeStep(n))
             \/ UNCHANGED inboundVars
    BY <1>2, <1>7 DEF MasterDies, SetPolicy, NodeStep, SetRegistered, Elsewhere, Forgets, inboundVars,
                      tableVars
  <1>8. QED
    BY <1>4, <1>5, <1>6, <1>7 DEF InboundsNext

\* A client lists no inbound that is gone, but for the race of its creation with
\* a removal.
THEOREM ClientsKeepUp == InboundsSpec => []ClientsResolve
  <1>1. InboundsInit => ListedInv
    BY DEF InboundsInit, ListedInv, Resolves, Unborn
  <1>2. ListedInv => ClientsResolve
    BY DEF ListedInv, Resolves, ClientsResolve
  <1>3. QED
    BY <1>1, <1>2, TypedInit, TypedStep, ClientsInvStep, PTL DEF InboundsSpec

-----------------------------------------------------------------------------
(* The autopilot's inbounds, in the table and on the nodes.                *)

\* A change of n that is not stored yet.
Inserts(p, n) == pass[p].pc = "insert" /\ pass[p].node = n
Deletes(c, n) == call[c].pc = "delete" /\ IsAi(call[c].row, n)
Quietly(n) == (\A p \in Passes : ~Inserts(p, n)) /\ \A c \in Calls : ~Deletes(c, n)

\* What listens there is what is about to be stored, or listed.
InsertsFit(n) == \A p \in Passes : Inserts(p, n) => listens[n] = pass[p].port
DeletesFit(n) == \A c \in Calls : Deletes(c, n) =>
                   listens[n] = NotThere /\ row[call[c].id] = call[c].row
Listed(n) == /\ \A i \in ProfileIds : IsAi(row[i], n) => listens[n] = row[i].port
             /\ listens[n] \in Ports => \E i \in ProfileIds : IsAi(row[i], n)
\* At most one change of a node waits to be stored.
OneChange(n) ==
  /\ \A p, q \in Passes : Inserts(p, n) /\ Inserts(q, n) => p = q
  /\ \A c, d \in Calls : Deletes(c, n) /\ Deletes(d, n) => c = d
  /\ \A p \in Passes, c \in Calls : ~(Inserts(p, n) /\ Deletes(c, n))

InForce(n) == n \notin drifted =>
  InsertsFit(n) /\ DeletesFit(n) /\ OneChange(n) /\ (Quietly(n) => Listed(n))

LEMMA BetweenIs == \A n : n \notin Between <=> Quietly(n)
  BY DEF Between, Quietly, Inserts, Deletes, IsAi

\* The changes of n are the same after the step.
Waits(n) ==
  /\ \A q \in Passes : (Inserts(q, n)' <=> Inserts(q, n)) /\ (Inserts(q, n) => pass'[q] = pass[q])
  /\ \A d \in Calls : (Deletes(d, n)' <=> Deletes(d, n)) /\ (Deletes(d, n) => call'[d] = call[d])

\* Steps that do not touch what n listens on, nor its rows, nor its changes.
LEMMA Untouched ==
  ASSUME InboundsTyped, NEW n \in Nodes, InForce(n), n \in drifted => n \in drifted',
         listens'[n] = listens[n], Waits(n),
         \A i \in ProfileIds : row'[i] = row[i] \/ (~IsAi(row[i], n) /\ ~IsAi(row'[i], n))
  PROVE  InForce(n)'
  <1> SUFFICES ASSUME n \notin drifted PROVE InForce(n)'
    BY DEF InForce
  <1>0. Waits(n)
    OBVIOUS
  <1> USE DEF Waits
  <1>1. InsertsFit(n)' /\ OneChange(n)'
    BY DEF InForce, InsertsFit, OneChange
  <1>2. DeletesFit(n)'
    <2> SUFFICES ASSUME NEW c \in Calls, Deletes(c, n)
                 PROVE  listens'[n] = NotThere /\ row'[call'[c].id] = call'[c].row
      BY DEF DeletesFit
    <2>1. listens[n] = NotThere /\ row[call[c].id] = call[c].row /\ call'[c] = call[c]
      BY DEF InForce, DeletesFit
    <2>2. call[c].id \in ProfileIds /\ IsAi(call[c].row, n)
      BY DEF Deletes, InboundsTyped, CallTyped, CallOK, IsAi
    <2>3. QED
      BY <2>1, <2>2
  <1>3. Quietly(n)' => Listed(n)'
    <2>1. Quietly(n)' => Quietly(n)
      BY DEF Quietly
    <2>2. Listed(n) => Listed(n)'
      BY DEF Listed
    <2>3. QED
      BY <2>1, <2>2 DEF InForce
  <1>4. QED
    BY <1>1, <1>2, <1>3 DEF InForce

\* A pass that goes on with x, on nodes it has no change for, before or after.
LEMMA PassAside ==
  ASSUME InboundsTyped, NEW p \in Passes, NEW x \in PassRecords, pass' = [pass EXCEPT ![p] = x],
         UNCHANGED call, NEW n \in Nodes, ~Inserts(p, n), x.pc # "insert" \/ x.node # n
  PROVE  Waits(n)
  <1>1. ASSUME NEW q \in Passes
        PROVE  (Inserts(q, n)' <=> Inserts(q, n)) /\ (Inserts(q, n) => pass'[q] = pass[q])
    <2>1. CASE q = p
      <3>1. pass'[q] = x
        BY <2>1 DEF InboundsTyped, PassTyped
      <3>2. QED
        BY <2>1, <3>1 DEF Inserts
    <2>2. CASE q # p
      <3>1. pass'[q] = pass[q]
        BY <2>2 DEF InboundsTyped, PassTyped
      <3>2. QED
        BY <3>1 DEF Inserts
    <2>3. QED
      BY <2>1, <2>2
  <1>2. \A d \in Calls : (Deletes(d, n)' <=> Deletes(d, n)) /\ (Deletes(d, n) => call'[d] = call[d])
    BY DEF Deletes
  <1>3. QED
    BY <1>1, <1>2 DEF Waits

LEMMA CallAside ==
  ASSUME InboundsTyped, NEW c \in Calls, NEW y, call' = [call EXCEPT ![c] = y],
         UNCHANGED pass, NEW n \in Nodes, ~Deletes(c, n), y.pc # "delete" \/ ~IsAi(y.row, n)
  PROVE  Waits(n)
  <1>1. ASSUME NEW d \in Calls
        PROVE  (Deletes(d, n)' <=> Deletes(d, n)) /\ (Deletes(d, n) => call'[d] = call[d])
    <2>1. CASE d = c
      <3>1. call'[d] = y
        BY <2>1 DEF InboundsTyped, CallTyped
      <3>2. QED
        BY <2>1, <3>1 DEF Deletes
    <2>2. CASE d # c
      <3>1. call'[d] = call[d]
        BY <2>2 DEF InboundsTyped, CallTyped
      <3>2. QED
        BY <3>1 DEF Deletes
    <2>3. QED
      BY <2>1, <2>2
  <1>2. \A q \in Passes : (Inserts(q, n)' <=> Inserts(q, n)) /\ (Inserts(q, n) => pass'[q] = pass[q])
    BY DEF Inserts
  <1>3. QED
    BY <1>1, <1>2 DEF Waits

LEMMA InForceApply ==
  ASSUME InboundsTyped, \A m \in Nodes : InForce(m), NEW p \in Passes, NEW n \in Nodes,
         NEW answer \in Answers, PassApply(p, n, answer), NEW m \in Nodes
  PROVE  InForce(m)'
  <1> PICK port : port = SafePort(pass[p].used[n])
    OBVIOUS
  <1> PICK x : x = [pass[p] EXCEPT !.todo = @ \ {n}, !.node = n, !.port = port,
                                   !.pc = IF Recorded(answer) THEN "insert" ELSE "apply"]
    OBVIOUS
  <1>0. pass[p] \in PassRecords /\ pass[p].pc = "apply" /\ Few(pass[p].used[n])
    BY DEF PassApply, InboundsTyped, PassTyped
  <1>1. port \in Ports /\ port # NotThere
    BY <1>0, FreePort, InboundsAssumption DEF Ports, NotThere
  <1>2. /\ Applied(n, port, answer) /\ Drift(n, answer, port \in journal[n] /\ listens[n] # port)
        /\ pass' = [pass EXCEPT ![p] = x] /\ UNCHANGED <<row, nextId, call>>
    BY DEF PassApply, tableVars
  <1>3. x \in PassRecords /\ x.node = n /\ x.port = port
        /\ x.pc = IF answer = "ok" THEN "insert" ELSE "apply"
    BY <1>0, <1>1 DEF PassRecords, Recorded
  <1>4. \A o \in Nodes : ~Inserts(p, o)
    BY <1>0 DEF Inserts
  <1>5. CASE m # n
    <2>1. m \in drifted <=> m \in drifted'
      BY <1>2, <1>5 DEF Drift
    <2>2. listens'[m] = listens[m]
      <3>1. \/ UNCHANGED listens \/ \E kept : Changes(n, port, kept)
        BY <1>2 DEF Applied, Failed, Fails, Change, agentVars
      <3>2. QED
        BY <1>5, <3>1 DEF Changes, InboundsTyped, AgentsTyped
    <2>3. Waits(m)
      BY <1>2, <1>3, <1>4, <1>5, PassAside
    <2>4. QED
      BY <1>2, <2>1, <2>2, <2>3, Untouched
  <1>6. CASE m = n /\ answer \in {"refused", "raised"}
    <2>1. answer # "ok" /\ answer # "lost"
      BY <1>6
    <2>2. x.pc = "apply"
      BY <1>3, <2>1
    <2>3. listens' = listens /\ drifted' = drifted
      BY <1>2, <2>1 DEF Applied, Failed, Fails, Drift
    <2>4. Waits(m)
      BY <1>2, <1>3, <1>4, <2>2, PassAside
    <2>5. QED
      BY <1>2, <2>3, <2>4, Untouched
  <1>7. CASE m = n /\ answer = "lost"
    <2>1. n \in drifted'
      BY <1>2, <1>7 DEF Drift
    <2>2. QED
      BY <1>7, <2>1 DEF InForce
  <1>8. CASE m = n /\ answer = "ok"
    <2> SUFFICES ASSUME n \notin drifted' PROVE InForce(n)'
      BY <1>8 DEF InForce
    <2>1. n \notin drifted /\ Quietly(n) /\ (port \in journal[n] => listens[n] = port)
      BY <1>2, <1>8, BetweenIs DEF Drift
    <2>2. listens'[n] = port
      <3>1. CASE port \in journal[n]
        BY <1>2, <1>8, <2>1, <3>1 DEF Applied, Failed, agentVars
      <3>2. CASE port \notin journal[n]
        <4>1. \E kept : Changes(n, port, kept)
          BY <1>2, <1>8, <3>2 DEF Applied, Failed
        <4>2. QED
          BY <4>1 DEF Changes, InboundsTyped, AgentsTyped
      <3>3. QED
        BY <3>1, <3>2
    <2>3. \A q \in Passes : pass'[q] = IF q = p THEN x ELSE pass[q]
      BY <1>2 DEF InboundsTyped, PassTyped
    <2>4. /\ \A q \in Passes : Inserts(q, n)' <=> q = p
          /\ \A c \in Calls : ~Deletes(c, n)'
      BY <1>2, <1>3, <1>8, <2>1, <2>3 DEF Quietly, Inserts, Deletes
    <2>5. pass'[p].port = port
      BY <1>3, <2>3
    <2>6. QED
      BY <2>2, <2>4, <2>5 DEF InForce, InsertsFit, DeletesFit, OneChange, Quietly
  <1>9. QED
    BY <1>5, <1>6, <1>7, <1>8 DEF Answers

LEMMA InForceInsert ==
  ASSUME InboundsTyped, \A m \in Nodes : InForce(m), NEW p \in Passes, PassInsert(p), NEW m \in Nodes
  PROVE  InForce(m)'
  <1> PICK n : n = pass[p].node
    OBVIOUS
  <1> DEFINE fails == pass[p].broken \/ Named(n, "ai") # {}
  <1> PICK x : x = [pass[p] EXCEPT !.pc = "apply", !.broken = fails /\ Postgres, !.node = NoNode,
                                   !.port = NotThere]
    OBVIOUS
  <1>1. pass[p] \in PassRecords /\ pass[p].pc = "insert" /\ n \in Nodes /\ pass[p].port \in Ports
    BY DEF PassInsert, InboundsTyped, PassTyped
  <1>2. pass' = [pass EXCEPT ![p] = x] /\ UNCHANGED <<database, agentVars, call>>
    BY DEF PassInsert
  <1>3. x \in PassRecords /\ x.pc = "apply"
    BY <1>1 DEF PassRecords
  <1>4. fails => drifted' = drifted \cup {n} /\ row' = row
    BY DEF PassInsert
  <1>5. ~fails => /\ drifted' = drifted /\ Named(n, "ai") = {}
                  /\ \E i \in ProfileIds :
                       /\ row[i] = NoRow
                       /\ \A j \in ProfileIds :
                            row'[j] = IF j = i THEN Row(n, "ai", pass[p].port) ELSE row[j]
    <2> SUFFICES ASSUME ~fails
                 PROVE  /\ drifted' = drifted /\ Named(n, "ai") = {}
                        /\ \E i \in ProfileIds :
                             /\ row[i] = NoRow
                             /\ \A j \in ProfileIds :
                                  row'[j] = IF j = i THEN Row(n, "ai", pass[p].port) ELSE row[j]
      OBVIOUS
    <2>1. PICK i \in ProfileIds : Insert(i, n, "ai", pass[p].port)
      BY DEF PassInsert
    <2>2. drifted' = drifted /\ Named(n, "ai") = {}
      BY DEF PassInsert
    <2>3. QED
      BY <1>1, <1>2, <2>1, <2>2, InsertTyped
  <1> HIDE DEF fails
  <1>6. CASE m # n
    <2>1. ~Inserts(p, m) /\ listens'[m] = listens[m]
      BY <1>2, <1>6 DEF Inserts, agentVars
    <2>2. \A i \in ProfileIds : row'[i] = row[i] \/ (~IsAi(row[i], m) /\ ~IsAi(row'[i], m))
      BY <1>4, <1>5, <1>6, TableRecords DEF IsAi, Row
    <2>3. m \in drifted => m \in drifted'
      BY <1>4, <1>5
    <2>4. Waits(m)
      BY <1>2, <1>3, <2>1, PassAside
    <2>5. QED
      BY <2>1, <2>2, <2>3, <2>4, Untouched
  <1>7. CASE m = n
    <2> SUFFICES ASSUME n \notin drifted' PROVE InForce(n)'
      BY <1>7 DEF InForce
    <2>1. ~fails /\ n \notin drifted
      BY <1>4, <1>5
    <2>2. Inserts(p, n) /\ InForce(n)
      BY <1>1 DEF Inserts
    <2>3. listens'[n] = pass[p].port /\ (\A q \in Passes : Inserts(q, n) => q = p)
          /\ (\A c \in Calls : ~Deletes(c, n))
      BY <1>2, <2>1, <2>2 DEF InForce, InsertsFit, OneChange, agentVars
    <2>4. \A q \in Passes : pass'[q] = IF q = p THEN x ELSE pass[q]
      BY <1>2 DEF InboundsTyped, PassTyped
    <2>5. (\A q \in Passes : ~Inserts(q, n)') /\ \A c \in Calls : ~Deletes(c, n)'
      BY <1>2, <1>3, <2>3, <2>4 DEF Inserts, Deletes
    <2>6. Listed(n)'
      <3>1. PICK i \in ProfileIds : \A j \in ProfileIds :
               row'[j] = IF j = i THEN Row(n, "ai", pass[p].port) ELSE row[j]
        BY <1>5, <2>1
      <3>2. IsAi(row'[i], n) /\ row'[i].port = pass[p].port
        BY <3>1 DEF IsAi, Row
      <3>3. \A j \in ProfileIds : IsAi(row'[j], n) => j = i
        BY <1>5, <2>1, <3>1 DEF Named, IsAi
      <3>4. QED
        BY <2>3, <3>2, <3>3 DEF Listed
    <2>7. QED
      BY <2>5, <2>6 DEF InForce, InsertsFit, DeletesFit, OneChange, Quietly
  <1>8. QED
    BY <1>6, <1>7

LEMMA InForcePass ==
  ASSUME InboundsTyped, \A m \in Nodes : InForce(m), NEW p \in Passes, PassStep(p), NEW m \in Nodes
  PROVE  InForce(m)'
  <1>1. ASSUME NEW x, pass' = [pass EXCEPT ![p] = x], x.pc # "insert", pass[p].pc # "insert",
               UNCHANGED <<row, agentVars, call, drifted>>
        PROVE  InForce(m)'
    <2>1. \A q \in Passes : pass'[q] = IF q = p THEN x ELSE pass[q]
      BY <1>1 DEF InboundsTyped, PassTyped
    <2>2. Waits(m)
      <3>1. ASSUME NEW q \in Passes
            PROVE  (Inserts(q, m)' <=> Inserts(q, m)) /\ (Inserts(q, m) => pass'[q] = pass[q])
        BY <1>1, <2>1 DEF Inserts
      <3>2. \A d \in Calls : (Deletes(d, m)' <=> Deletes(d, m)) /\ (Deletes(d, m) => call'[d] = call[d])
        BY <1>1 DEF Deletes
      <3>3. QED
        BY <3>1, <3>2 DEF Waits
    <2>3. listens'[m] = listens[m] /\ row' = row /\ drifted' = drifted
      BY <1>1 DEF agentVars
    <2>4. QED
      BY <2>2, <2>3, Untouched
  <1>2. ASSUME NEW online \in SUBSET Nodes, PassBegin(p, online) PROVE InForce(m)'
    <2> PICK x : x = [Resting EXCEPT !.pc = "apply", !.todo = online,
                 !.used = [n \in Nodes |-> {row[i].port : i \in {j \in ProfileIds : row[j].node = n}}]]
      OBVIOUS
    <2>1. x.pc = "apply"
      BY DEF Resting
    <2>2. pass' = [pass EXCEPT ![p] = x] /\ pass[p].pc = "idle"
          /\ UNCHANGED <<row, agentVars, call, drifted>>
      BY <1>2, TableRecords DEF PassBegin, tableVars
    <2>3. QED
      BY <1>1, <2>1, <2>2
  <1>3. CASE PassEnd(p)
    <2>1. pass' = [pass EXCEPT ![p] = Resting] /\ pass[p].pc = "apply" /\ Resting.pc = "idle"
          /\ UNCHANGED <<row, agentVars, call, drifted>>
      BY <1>3, TableRecords DEF PassEnd, tableVars
    <2>2. QED
      BY <1>1, <2>1
  <1>4. QED
    BY <1>2, <1>3, InForceApply, InForceInsert DEF PassStep

LEMMA InForceRemove ==
  ASSUME InboundsTyped, \A m \in Nodes : InForce(m), NEW c \in Calls, NEW answer \in Answers,
         RemoveAtAgent(c, answer), NEW m \in Nodes
  PROVE  InForce(m)'
  <1> PICK n : n = call[c].row.node
    OBVIOUS
  <1> DEFINE own == call[c].row.kind = "own"
             left == IF own THEN listens[n] ELSE NotThere
             astray == row[call[c].id] # call[c].row
  <1>1. /\ call[c] \in CallRecords /\ call[c].pc = "remove" /\ n \in Nodes
        /\ CallOK(call[c]) /\ UNCHANGED <<row, nextId, pass>>
    BY DEF RemoveAtAgent, InboundsTyped, CallTyped, CallOK, TableRows, tableVars
  <1>2. ~Deletes(c, m)
    BY <1>1 DEF Deletes
  <1>3. PICK y \in CallRecords : /\ call' = [call EXCEPT ![c] = y]
          /\ IF answer = "ok" THEN y.pc = "delete" /\ y.row = call[c].row /\ y.id = call[c].id
             ELSE y.pc = "idle"
    <2>1. PICK z : z = [call[c] EXCEPT !.pc = "delete"]
      OBVIOUS
    <2>2. z \in CallRecords /\ z.pc = "delete" /\ z.row = call[c].row /\ z.id = call[c].id
      BY <1>1, <2>1 DEF CallRecords
    <2>3. Quiet \in CallRecords /\ Quiet.pc = "idle"
      BY TableRecords
    <2>4. CASE answer = "ok"
      <3>1. call' = [call EXCEPT ![c] = z]
        BY <2>1, <2>4 DEF RemoveAtAgent
      <3>2. QED
        BY <2>2, <2>4, <3>1
    <2>5. CASE answer # "ok"
      <3>1. call' = [call EXCEPT ![c] = Quiet]
        BY <2>5 DEF RemoveAtAgent, Closes
      <3>2. QED
        BY <2>3, <2>5, <3>1
    <2>6. QED
      BY <2>4, <2>5
  <1>4. \/ /\ answer \in {"ok", "lost"} /\ Change(n, left)
           /\ IF own THEN UNCHANGED drifted ELSE Drift(n, answer, astray)
        \/ answer \in {"refused", "raised"} /\ UNCHANGED <<listens, drifted>>
    BY DEF RemoveAtAgent, Failed, Fails, agentVars
  <1>5. call[c].row.kind \in {"ai", "own"}
    BY <1>1 DEF CallOK, TableRows
  <1> HIDE DEF astray
  <1>6. CASE m # n \/ own \/ answer \in {"refused", "raised"}
    <2>1. m \in drifted <=> m \in drifted'
      BY <1>4, <1>6 DEF Drift
    <2>2. listens'[m] = listens[m]
      BY <1>1, <1>4, <1>6 DEF Change, Changes, InboundsTyped, AgentsTyped
    <2>3. ~IsAi(y.row, m) \/ y.pc # "delete"
      BY <1>3, <1>6 DEF IsAi
    <2>4. Waits(m)
      BY <1>1, <1>2, <1>3, <2>3, CallAside
    <2>5. QED
      BY <1>1, <2>1, <2>2, <2>4, Untouched
  <1>7. CASE m = n /\ ~own /\ answer = "lost"
    <2>1. n \in drifted'
      BY <1>4, <1>7 DEF Drift
    <2>2. QED
      BY <1>7, <2>1 DEF InForce
  <1>8. CASE m = n /\ ~own /\ answer = "ok"
    <2> SUFFICES ASSUME n \notin drifted' PROVE InForce(n)'
      BY <1>8 DEF InForce
    <2>1. Change(n, NotThere) /\ Drift(n, answer, astray)
      BY <1>4, <1>8
    <2>2. n \notin drifted /\ Quietly(n) /\ ~astray
      BY <1>8, <2>1, BetweenIs DEF Drift
    <2>3. listens'[n] = NotThere
      BY <1>1, <2>1 DEF Change, Changes, InboundsTyped, AgentsTyped
    <2>4. call'[c] = y /\ \A d \in Calls : d # c => call'[d] = call[d]
      BY <1>3 DEF InboundsTyped, CallTyped
    <2>5. IsAi(y.row, n)
      BY <1>3, <1>5, <1>8 DEF IsAi
    <2>6. /\ \A d \in Calls : Deletes(d, n)' <=> d = c
          /\ \A p \in Passes : ~Inserts(p, n)'
      BY <1>1, <1>3, <1>8, <2>2, <2>4, <2>5 DEF Quietly, Inserts, Deletes
    <2>7. row'[call'[c].id] = call'[c].row
      BY <1>1, <1>3, <1>8, <2>2, <2>4 DEF astray
    <2>8. QED
      BY <2>3, <2>6, <2>7 DEF InForce, InsertsFit, DeletesFit, OneChange, Quietly
  <1>9. QED
    BY <1>6, <1>7, <1>8 DEF Answers

\* The row of a finished removal or of a failed selection goes.
LEMMA InForceDelete ==
  ASSUME InboundsTyped, \A m \in Nodes : InForce(m), NEW c \in Calls,
         RemoveRow(c) \/ SelectFails(c), NEW m \in Nodes
  PROVE  InForce(m)'
  <1> PICK i : i = call[c].id
    OBVIOUS
  <1>1. /\ call[c] \in CallRecords /\ i \in ProfileIds /\ call[c].row \in TableRows
        /\ DeleteRead(c) /\ UNCHANGED <<database, nextId, agentVars, pass>>
    BY DEF RemoveRow, SelectFails, InboundsTyped, CallTyped, CallOK
  <1>2. /\ \A j \in ProfileIds : row'[j] = IF j = i THEN NoRow ELSE row[j]
        /\ \A o \in Nodes : o \notin drifted' /\ IsAi(row[i], o) => row[i] = call[c].row
        /\ drifted \subseteq drifted'
    BY <1>1, ReadDeleted
  <1>3. PICK y \in CallRecords : call' = [call EXCEPT ![c] = y] /\ y.pc # "delete"
    <2>1. CASE RemoveRow(c)
      BY <2>1, TableRecords DEF RemoveRow, Closes
    <2>2. CASE SelectFails(c)
      <3>1. PICK y : y = [call[c] EXCEPT !.pc = "undo"]
        OBVIOUS
      <3>2. y \in CallRecords /\ y.pc # "delete" /\ call' = [call EXCEPT ![c] = y]
        BY <1>1, <2>2, <3>1 DEF CallRecords, SelectFails
      <3>3. QED
        BY <3>2
    <2>3. QED
      BY <2>1, <2>2
  <1>4. listens'[m] = listens[m]
    BY <1>1 DEF agentVars
  <1> SUFFICES ASSUME m \notin drifted' PROVE InForce(m)'
    BY DEF InForce
  <1>5. m \notin drifted /\ InForce(m)
    BY <1>2
  <1>6. CASE ~Deletes(c, m)
    <2>1. CASE IsAi(row[i], m)
      <3>1. row[i] = call[c].row /\ SelectFails(c)
        BY <1>2, <1>6, <2>1 DEF Deletes, RemoveRow
      <3>2. call[c].row.kind = "own"
        BY <3>1 DEF SelectFails, InboundsTyped, CallTyped, CallOK
      <3>3. QED
        BY <2>1, <3>1, <3>2 DEF IsAi
    <2>2. CASE ~IsAi(row[i], m)
      <3>1. \A j \in ProfileIds : row'[j] = row[j] \/ (~IsAi(row[j], m) /\ ~IsAi(row'[j], m))
        BY <1>2, <2>2, TableRecords
      <3>2. Waits(m)
        BY <1>1, <1>3, <1>6, CallAside
      <3>3. QED
        BY <1>4, <1>5, <3>1, <3>2, Untouched
    <2>3. QED
      BY <2>1, <2>2
  <1>7. CASE Deletes(c, m)
    <2>1. /\ listens[m] = NotThere /\ row[i] = call[c].row /\ IsAi(row[i], m)
          /\ \A d \in Calls : Deletes(d, m) => d = c
          /\ \A p \in Passes : ~Inserts(p, m)
      BY <1>5, <1>7 DEF InForce, DeletesFit, OneChange, Deletes
    <2>2. \A j \in ProfileIds : ~IsAi(row'[j], m)
      BY <1>1, <1>2, <2>1, TableRecords DEF InboundsTyped, Unique
    <2>3. call'[c] = y /\ \A d \in Calls : d # c => call'[d] = call[d]
      BY <1>3 DEF InboundsTyped, CallTyped
    <2>4. (\A d \in Calls : ~Deletes(d, m)') /\ \A p \in Passes : ~Inserts(p, m)'
      BY <1>1, <1>3, <2>1, <2>3 DEF Inserts, Deletes
    <2>5. listens'[m] \notin Ports
      BY <1>4, <2>1, InboundsAssumption DEF Ports, NotThere
    <2>6. QED
      BY <2>2, <2>4, <2>5 DEF InForce, InsertsFit, DeletesFit, OneChange, Listed
  <1>8. QED
    BY <1>6, <1>7

\* The requests that leave what the autopilot has stored alone.
LEMMA InForceOthers ==
  ASSUME InboundsTyped, \A m \in Nodes : InForce(m), NEW c \in Calls, NEW m \in Nodes,
         \/ \E n \in Nodes, port \in Ports : SelectBegin(c, n, port)
         \/ SelectUndo(c)
         \/ \E i \in ProfileIds : RemoveBegin(c, i)
         \/ \E ids \in SUBSET ProfileIds : ClientCheck(c, ids)
         \/ \E k \in Profiles : ClientInsert(c, k)
  PROVE  InForce(m)'
  <1>1. ASSUME NEW y, call' = [call EXCEPT ![c] = y], m \notin drifted' => ~(y.pc = "delete" /\ IsAi(y.row, m)),
               call[c].pc # "delete", UNCHANGED pass,
               m \notin drifted' => m \notin drifted /\ listens'[m] = listens[m],
               \A i \in ProfileIds : row'[i] = row[i] \/ (~IsAi(row[i], m) /\ ~IsAi(row'[i], m))
        PROVE  InForce(m)'
    <2>1. CASE m \in drifted'
      BY <2>1 DEF InForce
    <2>2. CASE m \notin drifted'
      <3>1. Waits(m)
        BY <1>1, <2>2, CallAside DEF Deletes
      <3>2. QED
        BY <1>1, <2>2, <3>1, Untouched
    <2>3. QED
      BY <2>1, <2>2
  <1>2. ASSUME NEW n \in Nodes, NEW port \in Ports, SelectBegin(c, n, port) PROVE InForce(m)'
    <2>1. PICK i \in ProfileIds :
             /\ Insert(i, n, "own", port)
             /\ Opens(c, [Quiet EXCEPT !.pc = "selected", !.id = i, !.row = Row(n, "own", port)])
      BY <1>2 DEF SelectBegin
    <2>2. PICK y : y = [Quiet EXCEPT !.pc = "selected", !.id = i, !.row = Row(n, "own", port)]
      OBVIOUS
    <2>3. y.pc # "delete" /\ call' = [call EXCEPT ![c] = y] /\ call[c].pc # "delete"
      BY <2>1, <2>2, TableRecords DEF Quiet, Opens
    <2>4. UNCHANGED <<database, agentVars, pass, drifted>>
      BY <1>2 DEF SelectBegin
    <2>5. /\ \A j \in ProfileIds : row'[j] = IF j = i THEN Row(n, "own", port) ELSE row[j]
          /\ row[i] = NoRow
      BY <2>1, <2>4, InsertTyped
    <2>6. ~IsAi(Row(n, "own", port), m) /\ ~IsAi(NoRow, m)
      BY TableRecords DEF IsAi, Row
    <2>7. \A j \in ProfileIds : row'[j] = row[j] \/ (~IsAi(row[j], m) /\ ~IsAi(row'[j], m))
      BY <2>5, <2>6
    <2>8. QED
      BY <1>1, <2>3, <2>4, <2>7 DEF agentVars
  <1>3. CASE SelectUndo(c)
    <2> PICK n : n = call[c].row.node
      OBVIOUS
    <2>1. /\ call' = [call EXCEPT ![c] = Quiet] /\ call[c].pc = "undo" /\ Quiet.pc = "idle"
          /\ UNCHANGED <<row, pass>>
      BY <1>3, TableRecords DEF SelectUndo, Closes, tableVars
    <2>2. m \notin drifted' => m \notin drifted /\ listens'[m] = listens[m]
      <3>1. CASE /\ Change(n, before[n])
                 /\ drifted' = IF before[n] = listens[n] THEN drifted ELSE drifted \cup {n}
        BY <3>1 DEF Change, Changes, InboundsTyped, AgentsTyped
      <3>2. CASE UNCHANGED <<agentVars, drifted>>
        BY <3>2 DEF agentVars
      <3>3. QED
        BY <1>3, <3>1, <3>2 DEF SelectUndo
    <2>3. QED
      BY <1>1, <2>1, <2>2
  <1>4. ASSUME NEW i \in ProfileIds, RemoveBegin(c, i) PROVE InForce(m)'
    <2>1. PICK y : y = [Quiet EXCEPT !.pc = IF row[i].node \notin registered THEN "delete"
                                            ELSE "remove", !.id = i, !.row = row[i]]
      OBVIOUS
    <2>2. /\ call' = [call EXCEPT ![c] = y] /\ UNCHANGED <<row, agentVars, pass>>
          /\ call[c].pc # "delete"
      BY <1>4, <2>1, TableRecords DEF RemoveBegin, Opens, tableVars
    <2>3. y.row = row[i] /\ (y.pc = "delete" => row[i].node \notin registered)
      BY <2>1 DEF Quiet
    <2>4. m \notin drifted' => m \notin drifted /\ ~(y.pc = "delete" /\ IsAi(y.row, m))
      BY <1>4, <2>3 DEF RemoveBegin, IsAi
    <2>5. QED
      BY <1>1, <2>2, <2>4 DEF agentVars
  <1>5. ASSUME NEW ids \in SUBSET ProfileIds, ClientCheck(c, ids) PROVE InForce(m)'
    <2>1. PICK y : y = [Quiet EXCEPT !.pc = "client", !.ids = ids]
      OBVIOUS
    <2>2. y.pc # "delete" /\ call[c].pc # "delete"
      BY <1>5, <2>1, TableRecords DEF Quiet, ClientCheck, Opens
    <2>3. call' = [call EXCEPT ![c] = y] /\ UNCHANGED <<row, agentVars, pass, drifted>>
      BY <1>5, <2>1 DEF ClientCheck, Opens, tableVars
    <2>4. QED
      BY <1>1, <2>2, <2>3 DEF agentVars
  <1>6. ASSUME NEW k \in Profiles, ClientInsert(c, k) PROVE InForce(m)'
    <2>1. /\ call' = [call EXCEPT ![c] = Quiet] /\ call[c].pc = "client" /\ Quiet.pc = "idle"
          /\ UNCHANGED <<row, agentVars, pass, drifted>>
      BY <1>6, TableRecords DEF ClientInsert, Closes, tableVars
    <2>2. QED
      BY <1>1, <2>1 DEF agentVars
  <1>7. QED
    BY <1>2, <1>3, <1>4, <1>5, <1>6

LEMMA InForceStep ==
  ASSUME InboundsTyped, \A m \in Nodes : InForce(m), [InboundsNext]_inboundVars
  PROVE  \A m \in Nodes : InForce(m)'
  <1> TAKE m \in Nodes
  <1>1. ASSUME NEW p \in Passes, PassStep(p) PROVE InForce(m)'
    BY <1>1, InForcePass
  <1>2. ASSUME NEW c \in Calls, CallStep(c) PROVE InForce(m)'
    BY <1>2, InForceRemove, InForceDelete, InForceOthers DEF CallStep
  <1>3. CASE \/ \E b \in BOOLEAN : SetPolicy(b)
             \/ \E k \in Profiles : ClientDelete(k)
             \/ UNCHANGED inboundVars
    <2>1. UNCHANGED <<row, agentVars, pass, call, drifted>>
      BY <1>3 DEF SetPolicy, ClientDelete, inboundVars, tableVars
    <2>2. Waits(m)
      BY <2>1 DEF Waits, Inserts, Deletes
    <2>3. QED
      BY <2>1, <2>2, Untouched DEF agentVars
  <1>4. CASE MasterDies
    <2> SUFFICES ASSUME m \notin drifted' PROVE InForce(m)'
      BY DEF InForce
    <2>1. /\ pass' = [p \in Passes |-> Resting] /\ call' = [c \in Calls |-> Quiet]
          /\ drifted' = drifted \cup Between /\ UNCHANGED <<row, agentVars>>
      BY <1>4 DEF MasterDies, tableVars
    <2>2. m \notin drifted /\ Quietly(m)
      BY <2>1, BetweenIs
    <2>3. Listed(m)'
      BY <2>1, <2>2 DEF InForce, Listed, agentVars
    <2>4. (\A p \in Passes : ~Inserts(p, m)') /\ \A c \in Calls : ~Deletes(c, m)'
      BY <2>1, TableRecords DEF Inserts, Deletes
    <2>5. QED
      BY <2>3, <2>4 DEF InForce, InsertsFit, DeletesFit, OneChange
  <1>5. ASSUME NEW n \in Nodes, NodeStep(n) PROVE InForce(m)'
    <2>1. UNCHANGED <<row, pass, call>> /\ drifted \subseteq drifted'
      BY <1>5 DEF NodeStep, SetRegistered, Elsewhere, Forgets, tableVars
    <2>2. Waits(m)
      BY <2>1 DEF Waits, Inserts, Deletes
    <2>3. m \notin drifted' => listens'[m] = listens[m]
      <3>1. CASE UNCHANGED listens
        BY <3>1
      <3>2. ASSUME NEW port, Elsewhere(n, port) PROVE m \notin drifted' => listens'[m] = listens[m]
        BY <3>2 DEF Elsewhere, Change, Changes, InboundsTyped, AgentsTyped
      <3>3. QED
        BY <1>5, <3>1, <3>2 DEF NodeStep, SetRegistered, Forgets, agentVars
    <2>4. CASE m \in drifted'
      BY <2>4 DEF InForce
    <2>5. CASE m \notin drifted'
      BY <2>1, <2>2, <2>3, <2>5, Untouched
    <2>6. QED
      BY <2>4, <2>5
  <1>6. QED
    BY <1>1, <1>2, <1>3, <1>4, <1>5 DEF InboundsNext

LEMMA InForceInit ==
  ASSUME InboundsInit
  PROVE  \A m \in Nodes : InForce(m)
  <1> TAKE m \in Nodes
  <1>1. Quietly(m)
    BY TableRecords DEF InboundsInit, Quietly, Inserts, Deletes
  <1>2. Listed(m)
    BY TableRecords DEF InboundsInit, Listed, Ports, NoConfig
  <1>3. QED
    BY <1>1, <1>2 DEF InForce, InsertsFit, DeletesFit, OneChange, Quietly

LEMMA InForceListed ==
  ASSUME InboundsTyped, \A m \in Nodes : InForce(m)
  PROVE  ListedIsInForce
  <1> SUFFICES ASSUME NEW n \in Nodes, n \notin drifted, n \notin Between
               PROVE  {row[i].port : i \in Named(n, "ai")} = {listens[n]} \ {NotThere, NoConfig}
    BY DEF ListedIsInForce
  <1>1. Listed(n)
    BY BetweenIs DEF InForce
  <1>2. \A i \in ProfileIds : IsAi(row[i], n) <=> i \in Named(n, "ai")
    BY DEF IsAi, Named
  <1>3. Ports \cap {NotThere, NoConfig} = {}
    BY InboundsAssumption DEF Ports, NotThere, NoConfig
  <1>4. \A i \in Named(n, "ai") : i \in ProfileIds /\ row[i].port \in Ports
    BY TableRecords DEF Named, InboundsTyped, RowsTyped, TableRows, NoRow
  <1>5. listens[n] \in Ports \cup {NotThere, NoConfig}
    BY DEF InboundsTyped, AgentsTyped, Contents
  <1>6. QED
    BY <1>1, <1>2, <1>3, <1>4, <1>5 DEF Listed

\* The ports the panel lists of the autopilot are those the nodes listen on, on either
\* database, for as long as nothing that ListedIsInForce excepts has happened.
THEOREM PanelTruthful == InboundsSpec => []ListedIsInForce
  <1> DEFINE AllInForce == \A m \in Nodes : InForce(m)
  <1>1. InboundsInit => AllInForce
    BY InForceInit
  <1>2. InboundsTyped /\ AllInForce /\ [InboundsNext]_inboundVars => AllInForce'
    BY InForceStep
  <1>3. InboundsTyped /\ AllInForce => ListedIsInForce
    BY InForceListed
  <1> HIDE DEF AllInForce
  <1>4. QED
    BY <1>1, <1>2, <1>3, TypedInit, TypedStep, PTL DEF InboundsSpec
=============================================================================

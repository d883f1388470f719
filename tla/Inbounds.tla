------------------------------ MODULE Inbounds ------------------------------
(***************************************************************************)
(* The inbound profiles of the panel and what the nodes really listen on:  *)
(* the autopilot (started by the operator or by the failover of a lost     *)
(* Iranian node), the selection and removal of inbounds, and the clients   *)
(* that are configured for them.  Coroutines interleave where they await   *)
(* an agent; creating a client runs in a thread beside them.  Scores and   *)
(* the selection mark, which nothing reads, are left out.  Of a node's     *)
(* configuration the model knows the port of the autopilot's inbound.      *)
(***************************************************************************)
EXTENDS Integers, FiniteSets, MasterDatabase

CONSTANTS
  Nodes, NoNode,
  MaxProfiles,    \* bound: the highest id of a profile
  MaxPort,        \* bound: ports from the autopilot's first choice on
  Profiles,       \* clients
  Passes,         \* runs of the autopilot at one time
  Calls,          \* panel requests at one time
  InboundFaults   \* those of {"refuse", "raise", "lost", "crash"} that occur

ASSUME InboundsAssumption ==
  /\ NoNode \notin Nodes
  /\ MaxProfiles \in Nat /\ MaxPort \in Nat /\ MaxPort > MaxProfiles

VARIABLES
  row,         \* per id: the profile
  nextId,      \* PostgreSQL's sequence
  registered,  \* the nodes that have a row
  listens,     \* per node: the port of the autopilot's inbound in its configuration
  before,      \* per node: the same of the configuration it falls back to
  journal,     \* per node: the ports whose application its agent has noted
  authorised,  \* the stored settings allow autonomous runs
  pass,        \* per pass: where it is and what it has read
  call,        \* per request: the same
  profile,     \* per client: the inbounds it is configured for
  drifted,     \* nodes whose configuration and rows went apart (history)
  late         \* clients stored after an inbound of theirs was deleted (history)

agentVars == <<listens, before, journal>>
profileVars == <<profile, late>>
tableVars == <<database, row, nextId, registered>>
inboundVars == <<tableVars, agentVars, authorised, pass, call, profileVars, drifted>>

ProfileIds == 1..MaxProfiles
Ports == 1..MaxPort
NotThere == 0      \* no inbound of the autopilot in the configuration
NoConfig == -1     \* no configuration
NoRow == [node |-> NoNode, kind |-> "none", port |-> NotThere]
Row(n, kind, port) == [node |-> n, kind |-> kind, port |-> port]
Unborn == {0}      \* the client does not exist

Resting == [pc |-> "idle", todo |-> {}, node |-> NoNode, port |-> NotThere,
            used |-> [n \in Nodes |-> {}], broken |-> FALSE]
Quiet == [pc |-> "idle", id |-> 0, row |-> NoRow, ids |-> {}]

\* The unique name: AI-node-protocol-transport, one per node, or the operator's.
Named(n, kind) == {i \in ProfileIds : row[i].node = n /\ row[i].kind = kind}
Stored == {i \in ProfileIds : row[i] # NoRow}
May(fault) == fault \in InboundFaults

\* Column(Integer, primary_key=True): SQLite gives the highest id plus one, and the
\* highest again once it is gone; a sequence of PostgreSQL goes on.
NewId(i) == IF Postgres THEN i = nextId
            ELSE (\A j \in Stored : j < i) /\ (i = 1 \/ i - 1 \in Stored)

\* create_inbound.
Insert(i, n, kind, port) ==
  /\ NewId(i)
  /\ row' = [row EXCEPT ![i] = Row(n, kind, port)]
  /\ nextId' = IF Postgres THEN nextId + 1 ELSE nextId

\* A change of n's configuration that leaves port in it, and the one it kept.
Changes(n, port, kept) ==
  /\ listens' = [listens EXCEPT ![n] = port]
  /\ before' = [before EXCEPT ![n] = kept]
Change(n, port) == Changes(n, port, listens[n])

\* A call that fails has changed nothing, or the core did not start and the node
\* has gone back to the configuration that it had put by.
Fails(n) ==
  /\ \E kept \in {before[n], listens[n]} : before' = [before EXCEPT ![n] = kept]
  /\ UNCHANGED <<listens, journal>>

\* What agent_client answers; a lost answer is that of a change that took place,
\* or of one that a second delivery over SSH found done.
Answers == {"ok", "refused", "raised", "lost"}
Failed(n, answer) ==
  \/ answer = "refused" /\ May("refuse") /\ Fails(n)
  \/ answer = "raised" /\ May("raise") /\ Fails(n)

\* Nodes whose configuration has changed and whose row has not yet.
Between == {pass[p].node : p \in {q \in Passes : pass[q].pc = "insert"}}
           \cup {call[c].row.node : c \in {d \in Calls : call[d].pc = "delete"
                                                           /\ call[d].row.kind = "ai"}}

\* The answer is lost, the node changes again before its last change is stored, or
\* what was answered is not about the row and the configuration there are.
Drift(n, answer, astray) ==
  drifted' = IF answer = "lost" \/ (answer = "ok" /\ (n \in Between \/ astray))
             THEN drifted \cup {n} ELSE drifted

-----------------------------------------------------------------------------
(* The autopilot.                                                          *)

\* update_setting: the three settings policy() reads, taken together.
SetPolicy(b) ==
  /\ b # authorised /\ authorised' = b
  /\ UNCHANGED <<tableVars, agentVars, pass, call, profileVars, drifted>>

\* run: the nodes that answer and that got a candidate, and the ports the table
\* knows of, read once.  A run keeps a node it has loaded when its row goes.
PassBegin(p, online) ==
  /\ pass[p] = Resting /\ authorised /\ online # {} /\ online \subseteq registered
  /\ pass' = [pass EXCEPT ![p] = [Resting EXCEPT !.pc = "apply", !.todo = online,
       !.used = [n \in Nodes |-> {row[i].port : i \in {j \in ProfileIds : row[j].node = n}}]]]
  /\ UNCHANGED <<tableVars, agentVars, authorised, call, profileVars, drifted>>

\* _safe_port, counted from the node's first choice.
SafePort(used) == CHOOSE port \in Ports \ used : \A other \in Ports \ used : port <= other

\* (variant: the answer's "ok" is not looked at)
Recorded_Any(answer) == answer \in {"ok", "refused"}
\* Whether run goes on to store the inbound.
Recorded(answer) == answer = "ok"

\* apply_config replaces the node's configuration by one with this inbound only.
\* The candidate's id, which has the port in it, is the operation's id: an agent
\* that has it in its journal answers ok again and changes nothing.
Applied(n, port, answer) ==
  \/ /\ answer = "ok" /\ port \in journal[n] /\ UNCHANGED agentVars
  \/ /\ answer = "ok" /\ port \notin journal[n]
     /\ \E kept \in {listens[n], port} : Changes(n, port, kept)
     /\ journal' = [journal EXCEPT ![n] = @ \cup {port}]
  \/ /\ answer = "lost" /\ May("lost") /\ port \notin journal[n] /\ Change(n, port)
     /\ \E noted \in {journal[n], journal[n] \cup {port}} :
          journal' = [journal EXCEPT ![n] = noted]
  \/ Failed(n, answer)

PassApply(p, n, answer) ==
  LET port == SafePort(pass[p].used[n]) IN
  /\ pass[p].pc = "apply" /\ n \in pass[p].todo
  /\ Applied(n, port, answer) /\ Drift(n, answer, port \in journal[n] /\ listens[n] # port)
  /\ pass' = [pass EXCEPT ![p].todo = @ \ {n}, ![p].node = n, ![p].port = port,
                          ![p].pc = IF Recorded(answer) THEN "insert" ELSE "apply"]
  /\ UNCHANGED <<tableVars, authorised, call, profileVars>>

\* The unique name refuses the second profile of a node.  The session is not rolled
\* back: PostgreSQL refuses every other statement of the transaction after that.
PassInsert(p) ==
  LET n == pass[p].node
      fails == pass[p].broken \/ Named(n, "ai") # {}
  IN /\ pass[p].pc = "insert"
     /\ IF fails
        THEN drifted' = drifted \cup {n} /\ UNCHANGED <<row, nextId>>
        ELSE /\ \E i \in ProfileIds : Insert(i, n, "ai", pass[p].port)
             /\ UNCHANGED drifted
     /\ pass' = [pass EXCEPT ![p].pc = "apply", ![p].broken = fails /\ Postgres,
                             ![p].node = NoNode, ![p].port = NotThere]
     /\ UNCHANGED <<database, registered, agentVars, authorised, call, profileVars>>

PassEnd(p) ==
  /\ pass[p].pc = "apply" /\ pass[p].todo = {}
  /\ pass' = [pass EXCEPT ![p] = Resting]
  /\ UNCHANGED <<tableVars, agentVars, authorised, call, profileVars, drifted>>

-----------------------------------------------------------------------------
(* The panel.                                                              *)

Opens(c, request) == call[c] = Quiet /\ call' = [call EXCEPT ![c] = request]
Closes(c) == call' = [call EXCEPT ![c] = Quiet]

\* select_ai_inbound: the row first.
SelectBegin(c, n, port) ==
  /\ n \in registered /\ Named(n, "own") = {}
  /\ \E i \in ProfileIds :
       /\ Insert(i, n, "own", port)
       /\ Opens(c, [Quiet EXCEPT !.pc = "selected", !.id = i, !.row = Row(n, "own", port)])
  /\ UNCHANGED <<database, registered, agentVars, authorised, pass, profileVars, drifted>>

\* (variant: the clients keep the id)
Cleaned_Not(ids, i) == ids
\* delete_inbound takes the id out of every client's list, if there was a row.
Cleaned(ids, i) == ids \ {i}
DeleteRow(i) ==
  IF row[i] = NoRow THEN UNCHANGED <<row, profile>>
  ELSE /\ row' = [row EXCEPT ![i] = NoRow]
       /\ profile' = [k \in Profiles |-> Cleaned(profile[k], i)]

\* ... of the id that c has read, which may be another inbound's by now.
DeleteRead(c) ==
  LET found == row[call[c].id] IN
  /\ DeleteRow(call[c].id)
  /\ drifted' = IF found.kind = "ai" /\ found # call[c].row
                THEN drifted \cup {found.node} ELSE drifted

\* The row has a creation date, which the request's JSON cannot carry: it fails
\* before anything is sent, always, and the row is taken back ...
SelectFails(c) ==
  /\ call[c].pc = "selected" /\ DeleteRead(c)
  /\ call' = [call EXCEPT ![c].pc = "undo"]
  /\ UNCHANGED <<database, nextId, registered, agentVars, authorised, pass, late>>

\* ... and the node, which has changed nothing, is rolled back.
SelectUndo(c) ==
  LET n == call[c].row.node IN
  /\ call[c].pc = "undo" /\ Closes(c)
  /\ \/ /\ before[n] # NoConfig /\ Change(n, before[n]) /\ UNCHANGED journal
        /\ drifted' = IF before[n] = listens[n] THEN drifted ELSE drifted \cup {n}
     \/ /\ before[n] = NoConfig \/ May("refuse") \/ May("raise")
        /\ UNCHANGED <<agentVars, drifted>>
  /\ UNCHANGED <<tableVars, authorised, pass, profileVars>>

\* remove_inbound reads the row and the node; when the node is gone, only the row is
\* left to delete.
RemoveBegin(c, i) ==
  LET gone == row[i].node \notin registered IN
  /\ row[i] # NoRow
  /\ Opens(c, [Quiet EXCEPT !.pc = IF gone THEN "delete" ELSE "remove", !.id = i, !.row = row[i]])
  /\ drifted' = IF gone /\ row[i].kind = "ai" THEN drifted \cup {row[i].node} ELSE drifted
  /\ UNCHANGED <<tableVars, agentVars, authorised, pass, profileVars>>

\* The agent takes the inbound of that name out, whatever its port, and refuses when
\* its configuration has none; an inbound of the operator's name is there only if
\* someone else has put it there.
RemoveAtAgent(c, answer) ==
  LET n == call[c].row.node
      own == call[c].row.kind = "own"
      left == IF own THEN listens[n] ELSE NotThere
      there == listens[n] # NoConfig /\ (own \/ listens[n] # NotThere)
      astray == row[call[c].id] # call[c].row
  IN /\ call[c].pc = "remove"
     /\ \/ /\ there /\ (answer = "ok" \/ (answer = "lost" /\ May("lost")))
           /\ Change(n, left) /\ UNCHANGED journal
           /\ IF own THEN UNCHANGED drifted ELSE Drift(n, answer, astray)
        \/ there /\ Failed(n, answer) /\ UNCHANGED drifted
        \/ (own \/ ~there) /\ answer = "refused" /\ UNCHANGED <<agentVars, drifted>>
     /\ IF answer = "ok" THEN call' = [call EXCEPT ![c].pc = "delete"] ELSE Closes(c)
     /\ UNCHANGED <<tableVars, authorised, pass, profileVars>>

RemoveRow(c) ==
  /\ call[c].pc = "delete" /\ DeleteRead(c) /\ Closes(c)
  /\ UNCHANGED <<database, nextId, registered, agentVars, authorised, pass, late>>

\* create_client_user: the inbounds asked for, or all, are looked up one by one ...
ClientCheck(c, ids) ==
  /\ ids # {} /\ ids \subseteq Stored
  /\ Opens(c, [Quiet EXCEPT !.pc = "client", !.ids = ids])
  /\ UNCHANGED <<tableVars, agentVars, authorised, pass, profileVars, drifted>>

\* ... and stored.
ClientInsert(c, k) ==
  /\ call[c].pc = "client" /\ profile[k] = Unborn
  /\ profile' = [profile EXCEPT ![k] = call[c].ids]
  /\ late' = IF call[c].ids \subseteq Stored THEN late ELSE late \cup {k}
  /\ Closes(c)
  /\ UNCHANGED <<tableVars, agentVars, authorised, pass, drifted>>

ClientDelete(k) ==
  /\ profile[k] # Unborn
  /\ profile' = [profile EXCEPT ![k] = Unborn] /\ late' = late \ {k}
  /\ UNCHANGED <<tableVars, agentVars, authorised, pass, call, drifted>>

-----------------------------------------------------------------------------
(* The rest of the panel, and the nodes.                                   *)

\* register_node and remove_node, which leaves the inbounds' rows.
SetRegistered(n) ==
  /\ registered' = IF n \in registered THEN registered \ {n} ELSE registered \cup {n}
  /\ UNCHANGED <<database, row, nextId, agentVars, authorised, pass, call, profileVars, drifted>>

\* Somebody else changes the node's configuration: a canary or its rollback, a
\* deployed route, compose_node with its patch, the AI's update of inbounds, or an
\* operator's ROLLBACK.
Elsewhere(n, port) ==
  /\ Change(n, port) /\ UNCHANGED journal
  /\ drifted' = IF port = listens[n] THEN drifted ELSE drifted \cup {n}
  /\ UNCHANGED <<tableVars, authorised, pass, call, profileVars>>

\* The journal is full and forgets what is oldest in it.
Forgets(n, port) ==
  /\ port \in journal[n] /\ journal' = [journal EXCEPT ![n] = @ \ {port}]
  /\ UNCHANGED <<tableVars, listens, before, authorised, pass, call, profileVars, drifted>>

MasterDies ==
  /\ May("crash") /\ \E p \in Passes, c \in Calls : pass[p] # Resting \/ call[c] # Quiet
  /\ pass' = [p \in Passes |-> Resting] /\ call' = [c \in Calls |-> Quiet]
  /\ drifted' = drifted \cup Between
  /\ UNCHANGED <<tableVars, agentVars, authorised, profileVars>>

InboundsInit ==
  /\ row = [i \in ProfileIds |-> NoRow] /\ nextId = 1 /\ registered = {}
  /\ listens = [n \in Nodes |-> NoConfig] /\ before = [n \in Nodes |-> NoConfig]
  /\ journal = [n \in Nodes |-> {}]
  /\ authorised = FALSE
  /\ pass = [p \in Passes |-> Resting] /\ call = [c \in Calls |-> Quiet]
  /\ profile = [k \in Profiles |-> Unborn]
  /\ drifted = {} /\ late = {}

PassStep(p) ==
  \/ \E online \in SUBSET Nodes : PassBegin(p, online)
  \/ \E n \in Nodes, answer \in Answers : PassApply(p, n, answer)
  \/ PassInsert(p) \/ PassEnd(p)

CallStep(c) ==
  \/ \E n \in Nodes, port \in Ports : SelectBegin(c, n, port)
  \/ SelectFails(c) \/ SelectUndo(c)
  \/ \E i \in ProfileIds : RemoveBegin(c, i)
  \/ \E answer \in Answers : RemoveAtAgent(c, answer)
  \/ RemoveRow(c)
  \/ \E ids \in SUBSET ProfileIds : ClientCheck(c, ids)
  \/ \E k \in Profiles : ClientInsert(c, k)

NodeStep(n) ==
  \/ SetRegistered(n)
  \/ \E port \in Ports \cup {NotThere} : Elsewhere(n, port)
  \/ \E port \in Ports : Forgets(n, port)

InboundsNext ==
  \/ \E b \in BOOLEAN : SetPolicy(b)
  \/ \E p \in Passes : PassStep(p)
  \/ \E c \in Calls : CallStep(c)
  \/ \E k \in Profiles : ClientDelete(k)
  \/ \E n \in Nodes : NodeStep(n)
  \/ MasterDies

InboundsSpec == DatabaseInit /\ InboundsInit /\ [][InboundsNext]_inboundVars

-----------------------------------------------------------------------------
(* Properties.                                                             *)

InboundsTypeOK ==
  /\ row \in [ProfileIds -> {NoRow} \cup {Row(n, kind, port) :
                n \in Nodes, kind \in {"ai", "own"}, port \in Ports}]
  /\ nextId \in 1..(MaxProfiles + 1) /\ registered \subseteq Nodes
  /\ listens \in [Nodes -> Ports \cup {NotThere, NoConfig}]
  /\ before \in [Nodes -> Ports \cup {NotThere, NoConfig}]
  /\ journal \in [Nodes -> SUBSET Ports]
  /\ authorised \in BOOLEAN
  /\ profile \in [Profiles -> SUBSET (ProfileIds \cup {0})]
  /\ drifted \subseteq Nodes /\ late \subseteq Profiles

\* The ports the panel lists of the autopilot are those the nodes listen on, in both
\* directions, through runs and removals that fail and overlap, reused ids, nodes
\* that are removed and configurations that others change.  It ends for a node
\* whose application was answered from the journal, was refused a row by the unique
\* name or was not answered, that was changed twice before the first change was
\* stored or by somebody else, that a failed selection rolled back, whose inbound
\* was removed while it had no row of its own, or by a request that had read
\* another row (ai_autopilot.run, remove_inbound, select_ai_inbound).
ListedIsInForce == \A n \in Nodes \ (drifted \cup Between) :
  {row[i].port : i \in Named(n, "ai")} = {listens[n]} \ {NotThere, NoConfig}

\* A client lists no id without an inbound, unless the inbound was deleted while
\* the client was being created; on SQLite the id may have become another inbound's
\* in that time (delete_inbound, create_client_user).
ClientsResolve == \A k \in Profiles \ late :
  profile[k] # Unborn => profile[k] \subseteq Stored
=============================================================================

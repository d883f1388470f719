----------------------------- MODULE UsageMeter -----------------------------
(***************************************************************************)
(* Who pays for which bytes: the cumulative network counters of the agents, *)
(* the last values the master recorded of them, and the usage billed to     *)
(* subscriptions ("clients") and users.  The poll of scheduler.py bills in  *)
(* one session that spans all its calls to agents: a row it has changed     *)
(* stays as it was loaded, and one commit writes absolute values back.      *)
(* Meanwhile requests create, change, reset and delete clients and nodes.   *)
(*                                                                          *)
(* Received and sent bytes are billed as a sum, so one counter stands for   *)
(* both.  used_gb and spent (User.used_gb) are kept per node: billing adds  *)
(* and resetting zeroes, so the columns are the sums over the nodes.        *)
(***************************************************************************)
EXTENDS Naturals

CONSTANTS
  Nodes,       \* node keys
  Clients,     \* subscriptions
  Users,       \* their owners
  Owner,       \* the user of a subscription
  NodeLists,   \* the node_keys a subscription may have (none stands for all nodes)
  MaxBytes,    \* bound: what a node carries in a behaviour
  UsageFaults  \* subset of {"reboot", "remove", "delete", "reset", "update", "crash"}

ASSUME UsageAssumption ==
  /\ Owner \in [Clients -> Users]
  /\ NodeLists \subseteq SUBSET Nodes
  /\ MaxBytes \in Nat

VARIABLES
  counter,   \* psutil's counter of a node
  nodes,     \* nodes that have a row
  recorded,  \* Node.traffic_*_bytes
  client,    \* Subscription row: ABSENT, ENABLED or DISABLED
  serves,    \* Subscription.node_keys: the nodes it is billed for
  used,      \* Subscription.used_gb, by node
  spent,     \* User.used_gb, by node
  (* the poll and its session *)
  polling,   \* a poll is in progress
  unasked,   \* the nodes it still has to ask
  answered,  \* those that answered
  gone,      \* those whose row was deleted since the poll loaded it
  view,      \* traffic_*_bytes of its Node objects
  held,      \* clients whose object it changed
  tally,     \* used_gb of these objects
  keys,      \* node_keys of these objects
  uheld,     \* users whose object it changed
  utally,    \* used_gb of these objects
  (* history *)
  carried,   \* all the bytes a node has carried
  removed,   \* nodes whose row was ever deleted
  touched,   \* clients created, changed, reset or deleted since the last poll began
  late,      \* clients reset after that poll had billed them
  ulate      \* users reset after that poll had billed them

pollVars == <<polling, unasked, answered, gone, view, held, tally, keys, uheld, utally>>
rowVars == <<nodes, recorded, client, serves, used, spent>>
usageVars == <<counter, nodes, recorded, client, serves, used, spent, polling, unasked,
               answered, gone, view, held, tally, keys, uheld, utally, carried,
               removed, touched, late, ulate>>
historyVars == <<carried, removed, touched, late, ulate>>

NoBytes == [n \in Nodes |-> 0]
ClientsOf(u) == {c \in Clients : Owner[c] = u}

-----------------------------------------------------------------------------
(* The poll.                                                               *)

\* (variant: the clients are loaded once, before the nodes are asked)
PollBegin_LoadsClients ==
  /\ ~polling
  /\ polling' = TRUE
  /\ unasked' = nodes
  /\ view' = recorded
  /\ held' = {c \in Clients : client[c] = "ENABLED"}
  /\ tally' = used
  /\ keys' = serves
  /\ touched' = {} /\ late' = {} /\ ulate' = {}
  /\ UNCHANGED <<counter, rowVars, answered, gone, uheld, utally, carried, removed>>

PollBegin ==
  /\ ~polling
  /\ polling' = TRUE
  /\ unasked' = nodes
  /\ view' = recorded
  /\ touched' = {} /\ late' = {} /\ ulate' = {}
  /\ UNCHANGED <<counter, rowVars, answered, gone, held, tally, keys, uheld, utally,
                 carried, removed>>

\* (variant: a reset of the counter counts as traffic)
Delta_Absolute(current, previous) ==
  IF current >= previous THEN current - previous ELSE previous - current

\* What to bill when the counter of a node reads current: a counter that went
\* back is a new baseline.
Delta(current, previous) == IF current >= previous THEN current - previous ELSE 0

\* The node list of a client as the session sees it.
Keys(c) == IF c \in held THEN keys[c] ELSE serves[c]

\* The enabled clients a node is billed to.
Billed(n, delta) == {c \in Clients : delta > 0 /\ client[c] = "ENABLED" /\ n \in Keys(c)}

\* (variant: the row is read again for every node)
Tally_Fresh(c) == used[c]

\* The usage of a client, and of a user, as the session sees it: an object the
\* session has changed is not read again.
Tally(c) == IF c \in held THEN tally[c] ELSE used[c]
UserTally(u) == IF u \in uheld THEN utally[u] ELSE spent[u]

\* A user pays once for a node, however many of his clients it is billed to.
Payers(billed) == {Owner[c] : c \in billed}

\* The node answers and its traffic since the recorded value is billed, or it
\* does not.
PollNode(n, up) ==
  LET delta == IF up THEN Delta(counter[n], view[n]) ELSE 0
      billed == Billed(n, delta)
      payers == Payers(billed)
  IN
  /\ polling /\ n \in unasked
  /\ unasked' = unasked \ {n}
  /\ answered' = IF up THEN answered \cup {n} ELSE answered
  /\ view' = IF up THEN [view EXCEPT ![n] = counter[n]] ELSE view
  /\ held' = held \cup billed
  /\ tally' = [c \in Clients |-> IF c \in billed THEN [Tally(c) EXCEPT ![n] = @ + delta]
                                 ELSE tally[c]]
  /\ keys' = [c \in Clients |-> IF c \in billed THEN Keys(c) ELSE keys[c]]
  /\ uheld' = uheld \cup payers
  /\ utally' = [u \in Users |-> IF u \in payers THEN [UserTally(u) EXCEPT ![n] = @ + delta]
                                ELSE utally[u]]
  /\ UNCHANGED <<counter, rowVars, polling, gone, historyVars>>

\* The session is closed.
Forget ==
  /\ polling' = FALSE
  /\ unasked' = {} /\ answered' = {} /\ gone' = {} /\ held' = {} /\ uheld' = {}
  /\ view' = NoBytes
  /\ tally' = [c \in Clients |-> NoBytes]
  /\ keys' = [c \in Clients |-> {}]
  /\ utally' = [u \in Users |-> NoBytes]

\* An UPDATE of a deleted row fails the flush.  The row of a node that did not
\* answer is written only if its status changes (see NodeHealth).
StaleRow == gone \cap answered # {} \/ \E c \in held : client[c] = "ABSENT"

PollCommit ==
  /\ polling /\ unasked = {} /\ ~StaleRow
  /\ recorded' = [n \in Nodes |-> IF n \in answered \ gone THEN view[n] ELSE recorded[n]]
  /\ used' = [c \in Clients |-> IF c \in held THEN tally[c] ELSE used[c]]
  /\ spent' = [u \in Users |-> IF u \in uheld THEN utally[u] ELSE spent[u]]
  /\ Forget
  /\ UNCHANGED <<counter, nodes, client, serves, historyVars>>

\* (variant: usage is committed node by node, the counters at the end)
PollAbort_KeepsUsage ==
  /\ polling
  /\ "crash" \in UsageFaults \/ (unasked = {} /\ (gone # {} \/ StaleRow))
  /\ used' = [c \in Clients |-> Tally(c)]
  /\ spent' = [u \in Users |-> UserTally(u)]
  /\ Forget
  /\ UNCHANGED <<counter, nodes, recorded, client, serves, historyVars>>

\* The whole poll is rolled back, or dies with the master.
PollAbort ==
  /\ polling
  /\ "crash" \in UsageFaults \/ (unasked = {} /\ (gone # {} \/ StaleRow))
  /\ Forget
  /\ UNCHANGED <<counter, rowVars, historyVars>>

-----------------------------------------------------------------------------
(* Requests; registering a node again leaves its counters alone.           *)

Register(n) ==
  /\ n \notin nodes
  /\ nodes' = nodes \cup {n}
  /\ recorded' = [recorded EXCEPT ![n] = 0]
  /\ UNCHANGED <<counter, client, serves, used, spent, pollVars, historyVars>>

Remove(n) ==
  /\ "remove" \in UsageFaults /\ n \in nodes
  /\ nodes' = nodes \ {n}
  /\ recorded' = [recorded EXCEPT ![n] = 0]
  /\ removed' = removed \cup {n}
  /\ gone' = IF polling /\ n \in unasked \cup answered THEN gone \cup {n} ELSE gone
  /\ UNCHANGED <<counter, client, serves, used, spent, polling, unasked, answered, view,
                 held, tally, keys, uheld, utally, carried, touched, late, ulate>>

\* A new row has a new id: a name is used again when no session holds its old row.
CreateClient(c, list) ==
  /\ client[c] = "ABSENT" /\ c \notin held
  /\ client' = [client EXCEPT ![c] = "ENABLED"]
  /\ serves' = [serves EXCEPT ![c] = list]
  /\ used' = [used EXCEPT ![c] = NoBytes]
  /\ touched' = touched \cup {c}
  /\ UNCHANGED <<counter, nodes, recorded, spent, pollVars, carried, removed, late, ulate>>

\* What an update changes of the bill: whether the client pays, and for which nodes.
UpdateClient(c, state, list) ==
  /\ "update" \in UsageFaults /\ client[c] # "ABSENT"
  /\ client' = [client EXCEPT ![c] = state]
  /\ serves' = [serves EXCEPT ![c] = list]
  /\ touched' = touched \cup {c}
  /\ UNCHANGED <<counter, nodes, recorded, used, spent, pollVars, carried, removed, late, ulate>>

\* The poll in progress has added to the usage of a client, or of a user.
ClientBilled(c) == c \in held /\ tally[c] # used[c]
UserBilled(u) == u \in uheld /\ utally[u] # spent[u]

\* The reset of one client zeroes its user too.
ResetTraffic(c) ==
  /\ "reset" \in UsageFaults /\ client[c] # "ABSENT"
  /\ used' = [used EXCEPT ![c] = NoBytes]
  /\ spent' = [spent EXCEPT ![Owner[c]] = NoBytes]
  /\ touched' = touched \cup {c}
  /\ late' = late \cup {d \in {c} : ClientBilled(d)}
  /\ ulate' = ulate \cup {u \in {Owner[c]} : UserBilled(u)}
  /\ UNCHANGED <<counter, nodes, recorded, client, serves, pollVars, carried, removed>>

DeleteClient(c) ==
  /\ "delete" \in UsageFaults /\ client[c] # "ABSENT"
  /\ client' = [client EXCEPT ![c] = "ABSENT"]
  /\ serves' = [serves EXCEPT ![c] = {}]
  /\ used' = [used EXCEPT ![c] = NoBytes]
  /\ touched' = touched \cup {c}
  /\ UNCHANGED <<counter, nodes, recorded, spent, pollVars, carried, removed, late, ulate>>

-----------------------------------------------------------------------------
(* The nodes.                                                              *)

Traffic(n) ==
  /\ carried[n] < MaxBytes
  /\ counter' = [counter EXCEPT ![n] = @ + 1]
  /\ carried' = [carried EXCEPT ![n] = @ + 1]
  /\ UNCHANGED <<rowVars, pollVars, removed, touched, late, ulate>>

Reboot(n) ==
  /\ "reboot" \in UsageFaults /\ counter[n] > 0
  /\ counter' = [counter EXCEPT ![n] = 0]
  /\ UNCHANGED <<rowVars, pollVars, historyVars>>

UsageInit ==
  /\ counter = NoBytes /\ recorded = NoBytes /\ carried = NoBytes
  /\ nodes = {} /\ removed = {}
  /\ touched = {} /\ late = {} /\ ulate = {}
  /\ client = [c \in Clients |-> "ABSENT"]
  /\ used = [c \in Clients |-> NoBytes]
  /\ spent = [u \in Users |-> NoBytes]
  /\ polling = FALSE
  /\ unasked = {} /\ answered = {} /\ gone = {} /\ held = {} /\ uheld = {}
  /\ view = NoBytes
  /\ tally = [c \in Clients |-> NoBytes]
  /\ serves = [c \in Clients |-> {}]
  /\ keys = [c \in Clients |-> {}]
  /\ utally = [u \in Users |-> NoBytes]

NodeStep(n) ==
  \/ \E up \in BOOLEAN : PollNode(n, up)
  \/ Register(n) \/ Remove(n) \/ Traffic(n) \/ Reboot(n)

ClientStep(c) ==
  \/ ResetTraffic(c) \/ DeleteClient(c)
  \/ \E list \in NodeLists :
       \/ CreateClient(c, list)
       \/ \E state \in {"ENABLED", "DISABLED"} : UpdateClient(c, state, list)

UsageNext ==
  \/ PollBegin \/ PollCommit \/ PollAbort
  \/ \E n \in Nodes : NodeStep(n)
  \/ \E c \in Clients : ClientStep(c)

UsageSpec == UsageInit /\ [][UsageNext]_usageVars

-----------------------------------------------------------------------------
(* Properties.                                                             *)

Meters == [Nodes -> Nat]

\* Types; a session holds nothing between polls.
UsageTypeOK ==
  /\ counter \in Meters /\ recorded \in Meters /\ view \in Meters /\ carried \in Meters
  /\ nodes \subseteq Nodes /\ unasked \subseteq Nodes
  /\ answered \subseteq Nodes /\ gone \subseteq Nodes /\ removed \subseteq Nodes
  /\ client \in [Clients -> {"ABSENT", "ENABLED", "DISABLED"}]
  /\ used \in [Clients -> Meters] /\ tally \in [Clients -> Meters]
  /\ serves \in [Clients -> SUBSET Nodes] /\ keys \in [Clients -> SUBSET Nodes]
  /\ spent \in [Users -> Meters] /\ utally \in [Users -> Meters]
  /\ polling \in BOOLEAN
  /\ held \subseteq Clients /\ touched \subseteq Clients /\ uheld \subseteq Users
  /\ late \subseteq Clients /\ ulate \subseteq Users
  /\ ~polling => unasked = {} /\ answered = {} /\ gone = {} /\ held = {} /\ uheld = {}

BilledWithin(ns) ==
  \A n \in ns :
    /\ \A c \in Clients : used[c][n] <= carried[n]
    /\ \A u \in Users : spent[u][n] <= carried[n]

\* No subscription and no user is billed for more than a node has carried, whatever
\* polls are rolled back, counters restart and rows come and go while one runs, unless
\* the node was removed and is back (scheduler._record_usage_delta: "exactly once").
NeverOverbilled == BilledWithin(Nodes \ removed)

\* The same of every node, as the docstring of _record_usage_delta has it.
ExactlyOnce == BilledWithin(Nodes)

\* The user pays node n for one of his clients.
PaysFor(u, n) == \E c \in ClientsOf(u) : client[c] = "ENABLED" /\ n \in serves[c]

\* What a step adds to the recorded counter of a node.
Growth(n) ==
  IF n \in nodes /\ n \in nodes' THEN Delta(recorded'[n], recorded[n]) ELSE 0

BilledStep ==
  /\ \A c \in Clients : client[c] = "ENABLED" /\ c \notin touched' =>
       \A n \in Nodes :
         used'[c][n] = used[c][n] + IF n \in serves[c] THEN Growth(n) ELSE 0
  /\ \A u \in Users : ClientsOf(u) \cap touched' = {} =>
       \A n \in Nodes :
         spent'[u][n] = spent[u][n] + IF PaysFor(u, n) THEN Growth(n) ELSE 0

\* The recorded counters never move without the bill: in every step, a client in
\* service since before the poll, and its user, pay exactly what the recorded
\* counters of their nodes grow by (scheduler._record_usage_delta).
BilledOnce == [][BilledStep]_usageVars

ResetStep ==
  \A n \in Nodes :
    /\ \A c \in Clients \ late : used'[c][n] <= used[c][n] + Growth(n)
    /\ \A u \in Users \ ulate : spent'[u][n] <= spent[u][n] + Growth(n)

\* A reset holds: usage never grows by more than the recorded counters do, unless the
\* poll in progress had billed the client (or the user, for any of his clients) before
\* the reset, and writes the old usage back.  A reset that comes before the billing is
\* kept, in the middle of a poll, too (client_manager.reset_client_traffic).
ResetHolds == [][ResetStep]_usageVars
=============================================================================

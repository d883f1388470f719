----------------------------- MODULE NodeHealth -----------------------------
(***************************************************************************)
(* The status of the nodes in the master's database and everybody who      *)
(* writes it: the periodic poll of master/app/services/scheduler.py, the   *)
(* operators' requests (register, provision, update, drain, remove, probe, *)
(* and any command whose agent does not answer), each in a session of its  *)
(* own that read the row some time before it writes it.  The poll drives   *)
(* national mode and hands the Iranian nodes that went away to the         *)
(* autonomous failover.                                                    *)
(***************************************************************************)
EXTENDS NationalMode

CONSTANTS
  Nodes,      \* node keys
  Iran,       \* those whose country is IR
  Jobs,       \* concurrent requests about a node
  NoNode,     \* what an idle request is about
  NodeFaults  \* subset of {"crash", "remove"}: the master dies, rows are deleted

ASSUME NodeAssumption ==
  /\ Iran \subseteq Nodes
  /\ NoNode \notin Nodes
  /\ NodeFaults \subseteq {"crash", "remove"}

VARIABLES
  status,   \* Node.status, "ABSENT" when there is no row
  link,     \* whether the node's agent answers the master
  phase,    \* the poll: idle, polling or handing over to the failover
  view,     \* the statuses the poll's session loaded
  outcome,  \* what the poll found of each node so far
  gone,     \* rows the poll loaded that were deleted since
  dropped,  \* failover_nodes
  job,      \* the requests in progress
  heard,    \* history: what the last committed poll found of a node
  armed     \* history: registered or reached since its last failover

pollVars == <<phase, view, outcome, gone, dropped>>
healthVars == <<status, link, phase, view, outcome, gone, dropped, job, heard, armed,
                mode, failures, successes, recent>>

Statuses == {"ABSENT", "PROVISIONING", "FAILED", "REGISTERED", "ONLINE", "OFFLINE",
             "DRAINING"}
Reachable == {"ONLINE", "REGISTERED"}
Present(n) == status[n] # "ABSENT"

NoJob == [kind |-> "none", node |-> NoNode, view |-> "ABSENT", gone |-> FALSE]
JobKinds == {"provision", "update", "probe", "command"}

\* (variant: the whole row is written back, changed or not)
Written_Always(seen, new, n) == new

\* A session emits an UPDATE only for what it changed since it loaded the row.
Written(seen, new, n) == IF new = seen THEN status[n] ELSE new

-----------------------------------------------------------------------------
(* The poll.                                                               *)

PollBegin ==
  /\ phase = "idle"
  /\ phase' = "polling"
  /\ view' = status
  /\ outcome' = [n \in Nodes |-> "none"]
  /\ gone' = {}
  /\ UNCHANGED <<status, link, dropped, job, heard, armed, nationalVars>>

Loaded == {n \in Nodes : view[n] # "ABSENT"}
Unasked == {n \in Loaded : outcome[n] = "none"}

\* The session of the poll is closed, or has no more use for what it loaded.
Forget ==
  /\ view' = [n \in Nodes |-> "ABSENT"]
  /\ outcome' = [n \in Nodes |-> "none"]
  /\ gone' = {}

\* health() and metrics() of one node; no node is asked twice.
PollNode(n) ==
  /\ phase = "polling" /\ n \in Unasked
  /\ outcome' = [outcome EXCEPT ![n] = IF link[n] THEN "up" ELSE "down"]
  /\ UNCHANGED <<status, link, phase, view, gone, dropped, job, heard, armed,
                 nationalVars>>

Up == {n \in Loaded : outcome[n] = "up"}
Down == {n \in Loaded : outcome[n] = "down"}

\* (variant: a node found down keeps its status)
Polled_Forgets(n) ==
  IF view[n] = "DRAINING" \/ n \in Down THEN view[n] ELSE "ONLINE"

\* The status the poll gives a node, from what it loaded and found.
Polled(n) ==
  IF view[n] = "DRAINING" THEN "DRAINING"
  ELSE IF n \in Up THEN "ONLINE" ELSE "OFFLINE"

Lost == {n \in Down : n \in Iran /\ view[n] \in Reachable}

\* A row to update was deleted: the flush fails, the poll is rolled back and its
\* exception ends the job.
Stale == \E n \in gone : n \in Up \/ Polled(n) # view[n]

PollAbort ==
  /\ phase = "polling" /\ Unasked = {} /\ Stale
  /\ phase' = "idle"
  /\ Forget
  /\ UNCHANGED <<status, link, dropped, job, heard, armed, nationalVars>>

PollCommit ==
  /\ phase = "polling" /\ Unasked = {} /\ ~Stale
  /\ status' = [n \in Nodes |-> IF n \in Loaded \ gone THEN Written(view[n], Polled(n), n)
                                ELSE status[n]]
  /\ UpdateConnectivity(Up # {} \/ Loaded = {})
  /\ dropped' = Lost
  /\ phase' = IF Lost = {} THEN "idle" ELSE "failover"
  /\ heard' = [n \in Nodes |-> IF n \in Loaded \ gone THEN outcome[n] ELSE heard[n]]
  /\ armed' = (armed \cup Up) \ Lost
  /\ Forget
  /\ UNCHANGED <<link, job>>

\* (variant: the handover stops after the first node)
PollFailover_First(n) ==
  /\ phase = "failover" /\ n \in dropped
  /\ phase' = "idle"
  /\ UNCHANGED <<status, link, dropped, view, outcome, gone, job, heard, armed,
                 nationalVars>>

\* on_iran_node_disconnect for one node of the list; its errors are logged.
PollFailover(n) ==
  /\ phase = "failover" /\ n \in dropped
  /\ dropped' = dropped \ {n}
  /\ phase' = IF dropped' = {} THEN "idle" ELSE phase
  /\ UNCHANGED <<status, link, view, outcome, gone, job, heard, armed, nationalVars>>

-----------------------------------------------------------------------------
(* The operators.                                                          *)

\* An agent registers itself, or registers again: a short request.
Register(n) ==
  /\ status' = [status EXCEPT ![n] = "REGISTERED"]
  /\ armed' = armed \cup {n}
  /\ UNCHANGED <<link, pollVars, job, heard, nationalVars>>

Drain(n) ==
  /\ Present(n)
  /\ status' = [status EXCEPT ![n] = "DRAINING"]
  /\ UNCHANGED <<link, pollVars, job, heard, armed, nationalVars>>

\* Whoever loaded the row holds an object without a row from now on.
Remove(n) ==
  /\ "remove" \in NodeFaults
  /\ Present(n)
  /\ status' = [status EXCEPT ![n] = "ABSENT"]
  /\ gone' = IF phase = "polling" THEN gone \cup ({n} \cap Loaded) ELSE gone
  /\ job' = [j \in Jobs |-> IF job[j].node = n THEN [job[j] EXCEPT !.gone = TRUE]
                            ELSE job[j]]
  /\ heard' = [heard EXCEPT ![n] = "none"]
  /\ UNCHANGED <<link, phase, view, outcome, dropped, armed, nationalVars>>

\* A request that talks to the node loads its row first; provisioning creates it.
JobBegin(j, kind, n) ==
  /\ job[j].kind = "none"
  /\ (kind = "provision") = ~Present(n)
  /\ LET seen == IF kind = "provision" THEN "PROVISIONING" ELSE status[n]
     IN  /\ status' = [status EXCEPT ![n] = seen]
         /\ job' = [job EXCEPT ![j] = [kind |-> kind, node |-> n, view |-> seen,
                                       gone |-> FALSE]]
  /\ UNCHANGED <<link, pollVars, heard, armed, nationalVars>>

\* The status a finished request assigns, from the row it loaded.  A command
\* that fails takes the node offline, drained or not.
JobStatus(r, ok) ==
  CASE r.kind \in {"provision", "update"} /\ ok -> "REGISTERED"
    [] r.kind = "provision" /\ ~ok -> "FAILED"
    [] r.kind = "probe" /\ r.view # "DRAINING" -> IF ok THEN "ONLINE" ELSE "OFFLINE"
    [] r.kind = "command" /\ ~ok -> "OFFLINE"
    [] OTHER -> r.view

\* What may come of a request: a probe finds out whether the agent answers, a
\* command may also be answered with an error, an installation may fail anyhow.
Results(r) ==
  CASE r.kind = "probe" -> {link[r.node]}
    [] r.kind = "command" -> {link[r.node], FALSE}
    [] OTHER -> BOOLEAN

\* The agent (or, for an installation, the host) answered or did not; an update
\* of a deleted row fails and changes nothing.
JobEnd(j) ==
  /\ job[j].kind # "none"
  /\ LET r == job[j]
         n == r.node
     IN \E ok \in Results(r) :
          /\ status' = IF r.gone THEN status
                       ELSE [status EXCEPT ![n] = Written(r.view, JobStatus(r, ok), n)]
          /\ armed' = IF ok /\ r.kind # "command" /\ ~r.gone THEN armed \cup {n} ELSE armed
          /\ job' = [job EXCEPT ![j] = NoJob]
  /\ UNCHANGED <<link, pollVars, heard, nationalVars>>

-----------------------------------------------------------------------------
LinkChanges(n) ==
  /\ link' = [link EXCEPT ![n] = ~@]
  /\ UNCHANGED <<status, pollVars, job, heard, armed, nationalVars>>

\* The master dies and starts again: the poll, its failover list and the
\* requests are gone, the database stays.
MasterCrash ==
  /\ "crash" \in NodeFaults
  /\ phase' = "idle" /\ dropped' = {} /\ Forget
  /\ job' = [j \in Jobs |-> NoJob]
  /\ UNCHANGED <<status, link, heard, armed, nationalVars>>

HealthInit ==
  /\ status = [n \in Nodes |-> "ABSENT"]
  /\ link \in [Nodes -> BOOLEAN]
  /\ phase = "idle"
  /\ view = [n \in Nodes |-> "ABSENT"]
  /\ outcome = [n \in Nodes |-> "none"]
  /\ gone = {} /\ dropped = {} /\ armed = {}
  /\ job = [j \in Jobs |-> NoJob]
  /\ heard = [n \in Nodes |-> "none"]
  /\ NationalInit

Poll ==
  \/ PollBegin \/ PollAbort \/ PollCommit
  \/ \E n \in Nodes : PollNode(n) \/ PollFailover(n)

Operators ==
  \E n \in Nodes :
    \/ Register(n) \/ Drain(n) \/ Remove(n)
    \/ \E j \in Jobs, kind \in JobKinds : JobBegin(j, kind, n)

HealthNext ==
  \/ Poll
  \/ Operators
  \/ \E j \in Jobs : JobEnd(j)
  \/ \E n \in Nodes : LinkChanges(n)
  \/ MasterCrash

HealthSpec == HealthInit /\ [][HealthNext]_healthVars

\* The scheduler starts a poll at every interval, one at a time, and every call
\* to an agent has a timeout, so that every poll goes on to its end.
HealthFairSpec == HealthSpec /\ WF_healthVars(Poll)

-----------------------------------------------------------------------------
(* Properties.                                                             *)

JobRecords == [kind : JobKinds, node : Nodes, view : Statuses, gone : BOOLEAN]

\* Types; outside a poll nothing of its session is left.
HealthTypeOK ==
  /\ status \in [Nodes -> Statuses]
  /\ link \in [Nodes -> BOOLEAN]
  /\ phase \in {"idle", "polling", "failover"}
  /\ view \in [Nodes -> Statuses]
  /\ outcome \in [Nodes -> {"none", "up", "down"}]
  /\ gone \subseteq Nodes /\ dropped \subseteq Iran /\ armed \subseteq Nodes
  /\ phase # "polling" => view = [n \in Nodes |-> "ABSENT"]
  /\ phase = "failover" <=> dropped # {}
  /\ job \in [Jobs -> JobRecords \cup {NoJob}]
  /\ heard \in [Nodes -> {"none", "up", "down"}]
  /\ NationalTypeOK

\* An outage starts the failover of a node at most once: between two polls that
\* do, the node was reached or registered, whatever drains, removals, failing
\* commands and crashes happened (scheduler.poll_nodes triggers "on a real edge").
OneFailoverPerOutage == [][dropped' \ dropped \subseteq armed]_healthVars

\* The status a session that asked n gives it, by what it found.
Found(up) == IF up THEN "ONLINE" ELSE "OFFLINE"

\* A poll or a probe that loaded n before the drain, in another status than the one
\* it then found it in, writes what it found.
Overtaken(n) ==
  \/ /\ phase = "polling" /\ n \in Loaded \ gone
     /\ view[n] \notin {"DRAINING", status'[n]} /\ status'[n] = Found(outcome[n] = "up")
  \/ \E j \in Jobs :
       /\ job[j].kind = "probe" /\ job[j].node = n /\ job'[j] = NoJob
       /\ job[j].view \notin {"DRAINING", status'[n]} /\ status'[n] = Found(link[n])

\* A request about n ends the drain: registering or installing the node (again),
\* removing it, or a command or an installation that failed.
Ended(n) ==
  \/ status'[n] \in {"REGISTERED", "ABSENT"}
  \/ \E j \in Jobs :
       /\ job[j].node = n /\ job'[j] = NoJob
       /\ <<job[j].kind, status'[n]>> \in {<<"command", "OFFLINE">>, <<"provision", "FAILED">>}

\* A drain lasts until a request about the node ends it, or a session that was under
\* way before it finds the node in another status than the one it had loaded.  So a
\* poll or a probe that begins after the drain never ends it, whatever it finds, and
\* one that had loaded the node ONLINE does not put it back ONLINE
\* (scheduler.poll_nodes and node_management.probe_node: was_draining).
DrainHolds == [][\A n \in Nodes :
  status[n] = "DRAINING" /\ status'[n] # "DRAINING" => Overtaken(n) \/ Ended(n)]_healthVars

\* When an Iranian node that answered the last poll does not answer this one, and
\* it is neither drained nor half installed, the failover is started
\* (scheduler.poll_nodes: "trigger Iran failover on a real edge").
FailoverOnEveryEdge == [][\A n \in Iran :
  /\ heard[n] = "up" /\ heard'[n] = "down"
  /\ view[n] \notin {"DRAINING", "FAILED"}
  => n \in dropped']_healthVars

\* A node that stays unreachable does not stay in service.
GoesOffline == \A n \in Nodes :
  <>[](~link[n]) => []<>(status[n] \notin Reachable)

\* National mode follows the nodes: it is entered for good when all of them are
\* cut off for good, and left for good when one of them answers for good.
ModeFollowsNodes ==
  /\ <>[]((\E n \in Nodes : Present(n)) /\ \A n \in Nodes : ~link[n]) => <>[](mode = "NATIONAL")
  /\ (\E n \in Nodes : <>[](Present(n) /\ link[n])) => <>[](mode = "NORMAL")
=============================================================================

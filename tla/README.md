# Pars2Ray: TLA+ models and proofs

Pars2Ray is a control plane for proxy nodes: one FastAPI *master* (`master/app`)
with a SQL database, a background scheduler and a worker process, and one small
*agent* per node (`agent/app`) that owns the node's Xray or sing-box
configuration. This directory holds TLA+ specifications of its core, the TLC
configurations that check them on small instances, and TLAPS proofs of the
properties that matter most for every instance.

    tlc -config AgentConfig_safety.cfg MCAgentConfig.tla
    tlapm AgentProofs.tla

## 1. The system

| Part | State | Operations | Interacts with | Module |
|---|---|---|---|---|
| Agent configuration manager (`agent/app/services`) | files `active.json`, `previous.json`, `operations.json`, a file lock, the core's systemd unit | apply, rollback, update_existing_inbounds, start/stop/restart, status, benchmark | systemd, the core's checker | `AgentConfig`, `ConfigStore` |
| Master-agent link (`agent_client.py`) | none | a command over HTTP, once more over SSH after a transport failure | the agent | `AgentLink` |
| Health poll (`scheduler.py`) | `nodes` rows, `subscriptions.used_gb`, `users.used_gb`, `system_state` | every 30 s: ask every node, bill traffic, update national mode, hand lost Iranian nodes to the failover | link, national mode, autopilot | `NodeHealth`, `UsageMeter` |
| National mode (`national_mode.py`) | mode, two counters | update_connectivity | poll | `NationalMode` |
| Node lifecycle (`routes.py`, `node_management.py`) | `nodes` rows | register, provision, update, drain, remove, probe, commands | link, SSH provisioning | `NodeHealth` |
| Canary executor, policy and decision cycle | `routes`, a process-wide lock | apply to one node, benchmark, promote on all or roll back | link, the nodes' configurations | `Canary` |
| Autopilot and failover | `inbounds` rows, the nodes' configurations, three settings | apply and record one inbound per node | link, failover | `Inbounds` |
| Inbounds API (`inbounds.py`, `inbound_store.py`) | `inbounds`, `client_profiles` | select, remove, create and delete clients | link | `Inbounds` |
| Sessions and keys (`auth.py`, `deps.py`, `worker.py`, `deploy/pars2ray`) | `refresh_tokens`, `api_keys`, `users` | login, refresh, logout, keys, clean-up, password, seed | | `Sessions`, `Logins` |
| Clients, subscriptions, entitlement | `subscriptions`, `plans`, `users` | create, update, reset, delete, provision, limits; the public links | poll (usage) | `Clients` |
| Direct and custom configurations | one encrypted document per subscription | create, update, delete, replace | model's advice | `Documents` |
| Configuration builder and share links | none | build an inbound, derive the link to it | subscription pages | `Links` |
| Scripts (`deploy/`) | git checkout, schema version, database file | update, rollback, backup, restore | systemd, alembic | not modelled |

What makes it hard:

* **Concurrency.** The agent answers requests on a thread pool, so two commands
  run at once; the master's requests, its poll, its failover and two generations
  of its scheduler interleave at every `await`, each with a database session that
  keeps the rows it has read; some requests take SQLite's write lock before they
  read, others only when they commit, and on PostgreSQL the same requests take a
  lock per user after they have read.
* **Delivery.** A command is sent again over SSH when its answer is late, while
  the first delivery may still be at work; an answer may be lost after the effect.
* **Crashes.** The agent replaces up to three files per operation, one atomic
  replacement at a time; the master commits the node statuses and works off the
  failover list afterwards, changes a node before it stores what it changed, and
  rolls a canary back only as long as it lives.
* **Partial failure.** A configuration is installed before it is known to start;
  a rollback may itself fail; a flush fails as a whole.
* **Two copies of one rule.** Entitlement is computed by token and by user, an
  inbound and its link are derived from one profile in different places.

What each part has to guarantee: the agent never runs or keeps a configuration
that its core rejects, serializes mutations, restores on failure, acknowledges
only what is in force, and carries an operation out once; the link reports
success only for what took effect; the poll fails an outage over once, respects a
drain and eventually notices; national mode follows the evidence and flips on
nothing less; billing counts every byte once; a canary that does not promote
leaves its nodes alone, and one route is in production; the panel lists what the
nodes listen on; a login has one refresh token and a dead account is reopened by
its password only; no user exceeds the devices of a plan; both entitlement rules
agree; a request about one configuration leaves the others of its document alone;
a link says what the inbound takes that it is for, and the two
pieces of code that make links say the same. `PROJECT.json` lists the hazards at their
lines, with the property that covers each.

## 2. Modules

### ConfigStore, AgentConfig

`AgentConfig` models `core_manager.py`, `inbound_manager.update_existing_inbounds`,
`operations.service_action` and the dispatcher of `agent/app/main.py`.

| Variable | Code |
|---|---|
| `active`, `previous`, `journal` | the files ACTIVE, PREVIOUS, JOURNAL |
| `lock` | `_state_lock`: an exclusive `flock` on a file that every handler opens for itself |
| `running` | what the core's unit loaded last; the repository relies on it only through `systemctl restart` and `is-active` |
| `pc`, `req`, `base`, `reply` | per handler thread: program point, payload, the copy of ACTIVE it can fall back on, answer |

Every file replacement (`_atomic_copy`, `_save_journal`), every `systemctl` call
and every acquisition of the lock is a step of its own, in the order of the code:
`Precheck` (first look at the journal, lock taken and dropped), `ApplyBegin` /
`RollbackBegin` / `UpdateBegin` (second look, checks, checker, candidate),
`Backup`, `Install`, `Restart`, `Poll`, then `SwapPrevious` and `Commit`, or
`Recover` and `Restore`. `ServiceCommand` runs without the lock. `IoError` makes
any file replacement raise, `Crash` kills the process anywhere (the kernel drops
the lock; files and core survive; systemd starts the agent again).
Configurations are model values, of which the core's checker accepts a subset.
`update_existing_inbounds` may produce any accepted configuration: how it edits
the document is abstracted, what it does to the files is not. A refusal that
depends on things outside the model (no core installed, the checker missing) is a
choice in the `Begin` actions.

`ConfigStore` is what a caller may believe in: a configuration in force and one
to fall back on, changed by adopting, swapping, an attempt that only costs the
fallback, and, with faults, losing the one in force. `StoreSpec` in `AgentConfig`
is the refinement: the configuration in force is ACTIVE, except while its holder
is in doubt about it, when it is still the one it started from.

### AgentLink, AgentProofs

Composes `AgentConfig` with `agent_client.request`: a call goes out once over
HTTP, and after a failure or timeout once over SSH, to any free thread of the
agent, while the first delivery may be waiting, working, finished or lost with
the agent. `serving` tells which delivery of which call a thread carries out.
History: `effects` counts how often a call reached its bookkeeping, that is, took
effect; `unnoted` collects the calls of which the journal holds nothing although
they took effect, because writing it failed (`Missed`), the agent died before
(`AgentCrash`), or the entry made room for later ones (`Dropped`).
`AgentProofs` holds the proofs about both modules.

### NationalMode, NodeHealth, NodeHealthProofs

`NationalMode` is the engine with its two counters; `recent` is a history
variable with the findings of the last polls. `NodeHealth` is `Node.status` and
everyone who writes it. The poll loads all rows (`view`), asks every node one by
one (`PollNode`), and commits once (`PollCommit`), or is rolled back when a row it
has to update was deleted (`PollAbort`, SQLAlchemy's `StaleDataError`). It then
hands the Iranian nodes that went away to the failover, one by one
(`PollFailover`). Requests that talk to a node (`JobBegin`, `JobEnd`) load the row
first and write it after the answer; as SQLAlchemy emits an UPDATE only for what
differs from what was loaded, so does `Written`. A drain is therefore undone by a
session that was under way before it, whenever that finds the node in another status
than the one it had loaded (`Overtaken`): ONLINE over a node loaded OFFLINE, and
OFFLINE over one loaded ONLINE; and by the requests that say so (`Ended`). Register,
drain and remove are single steps (one short transaction without an await). `link` is
whether the agent answers; it changes at will. `MasterCrash` loses the poll and the requests.

### UsageMeter, UsageMeterProofs

The same poll seen from the bill. `counter` is the agent's network counter
(received and sent bytes are billed as a sum and share one), `recorded` what the
row of the node remembers of it, `used` and `spent` the `used_gb` of subscriptions
and users. Both are kept per node instead of summed up: billing adds and resetting
zeroes, so the columns are the sums, and a property per node says more.

`PollBegin` loads the nodes, `PollNode` bills one node in the session, and
`PollCommit` writes everything back at once, or `PollAbort` nothing. What matters is
the session's identity map: a client or user it has changed (`held`, `uheld`) keeps
the value it was loaded with plus what was added (`tally`, `utally`), its node list
(`keys`), and is written back as an absolute value; one it has not changed is read
afresh for every node. Requests create, update, reset and delete clients and
register and remove nodes meanwhile, one short transaction each. `touched`, `carried`,
`removed`, `late` and `ulate` are history; the last two are the clients and users that
were reset when the poll in progress had already added to them.

### Logins, Sessions, SessionsProofs

`row`, `owner`, `expires` of refresh tokens (numbered as they are issued; `root` is
history: the login a token stems from), `access` (until when a user's last access
token is good, which nothing can revoke), API keys, and per request what it has
read. A login, a logout and a key request read in one step and commit in a later
one, because another request, the worker or a restart may come between;
`Refresh` is one step, being one conditional UPDATE (`rotate_refresh`), and so is
`RevokeKey`, where a second revocation changes nothing. `Cleanup` is the worker's
DELETE, `ChangePassword` the command of `deploy/pars2ray`, `Restart` the start with
`ensure_seed`.

`Logins` is what a login may be believed to be: opened once, by a verified password
and for the account it was verified for; one token in force, drawn anew and exchanged
for the next; over for good once it has none. `LoginsSpec` in `Sessions` is the
refinement: the token in force is the one row of the login that is valid and not
expired (`Working`), whatever revoked or removed rows it has besides.

### Canary, CanaryProofs

`execute_canary` and the tick of the scheduler that chooses for it
(`IntelligenceCycle.run_once` over ordered scores; what the scores are is a choice).
A tick is at `Enter`, `ApplyNext`, `Observe`, `RollBack`, `Commit` or, after any
exception, `Undo`, which walks back over the nodes it had applied. `Apply` and
`Rollback` are what the node does: `live` and `kept` are its configurations, `done`
the operation ids in its journal; it may refuse, answer from the journal, raise
before or after the effect. The executor looks at none of the answers but the
exceptions, and so does the model. Two ticks overlap because a restarted scheduler
does not wait for the old one; `EditRoute` changes a route meanwhile; `Crash` is the
master's. `astray` (history) collects the nodes whose answers the code cannot
interpret.

`Decoded` are the routes whose configuration arrives at the agent as an object. Today
there are none: `canary_executor.py:79,85` sends the text that `decrypt_secret`
returns, and `core_manager.py:201` refuses what is not an object, so that `Apply` with
`Decoded = {}` can only be refused, answered from the journal or raise, and every
canary measures the node's old configuration. The run gives all routes, which is more
than the program does and where the protocol of the executor matters; the theorems
hold for every set of routes, the empty one included.

### MasterDatabase

The variable `database`, chosen at the start and never changed: SQLite or PostgreSQL
(`db/base.py`). `Clients` and `Inbounds` share it.

### Inbounds, InboundsProofs

The table of inbounds (`row`, `nextId`) against what the nodes listen on (`listens`, the
fallback `before`, and `journal`, what the agent remembers to have applied). SQLite
gives a new row the highest id plus one, also when that id was in use before, and
PostgreSQL's sequence (`nextId`) gives none twice (`NewId`).

A run of the autopilot (`PassBegin`, `PassApply`, `PassInsert`, `PassEnd`) replaces a
node's configuration and then records it, which fails when the unique name is taken;
the session is not rolled back, and on PostgreSQL (`broken`) it then fails for every
other node of the run. The operation's id is the candidate's, made of the node and the
port, so that an agent that has it in its journal answers ok and changes nothing
(`Applied`); `Forgets` is the journal dropping an entry.

Requests select and remove inbounds and create clients (`ClientCheck`,
`ClientInsert`). A selection (`SelectBegin`, `SelectFails`, `SelectUndo`) never
succeeds: the row it sends holds a datetime, encoding the request raises before
anything is sent, the row is deleted again and the node rolled back. A removal
(`RemoveBegin`, `RemoveAtAgent`, `RemoveRow`) deletes by id, whatever row has the id by
then (`DeleteRead`), and for a node without a row asks nobody. `SetRegistered` adds and
removes node rows and leaves their inbounds; `Elsewhere` is everyone else who changes
a node's configuration: canaries, `compose_node`, a deployed route, an operator's
rollback. `drifted` and `late` are history: the nodes and clients for which a property
cannot hold, each for a reason its comment names.

### Clients, ClientsProofs

Users with their limits, subscriptions with theirs, a clock of ticks and one lock per
user. On SQLite a client manager request takes all of them at once (`BEGIN
IMMEDIATE`) before it reads, and every other request waits for them to be free
(`Writable`). On PostgreSQL it takes its user's advisory lock: `create_client` before it
reads (`CreateEnter`), the others after they have read the client (`Fetch`, then
`LockUser`), which they decide from all the same; nobody else asks for that lock. After
the checks (`CreateCheck`, `UpdateCheck`) `Commit` writes what differs from what was
read; `ResetTraffic`, `DeleteClient` and `Refuse` are the other ends. An UPDATE of a
row that is gone fails the whole commit (`Present`, `LimitsCommit`). `Provision`,
`CreateSubscription`, `LimitsLoad` / `LimitsCommit`, `SetActive` and the poll's `Bill` are
the other writers. `Lookup` and `PageRows` are the two copies of the entitlement rule.

### Documents

One subscription's document. Every request loads the whole of it (`Begin`), may
await the model, and writes a whole document back (`Write`), which makes every
other request that has loaded it `late`. `ValidateDecision` is the local validator,
with each field of the model's answer chosen freely from `Advised`.

### Links

No behaviour: `Built` is what the inbound of a profile takes, `PageLink` and
`PanelLink` what the links to it say. A profile gives a set of fields, each with a value
of its own, and leaves the others to the defaults of whoever reads them, which differ.
Modelled are all fields by which the builder shapes the stream of an inbound or the
client's proof: path, host, service name, the tuning of gRPC, xhttp, QUIC and mKCP that
no link mentions (`Tuning`), server name and short id with the lists REALITY has of
them, both halves of REALITY's key, method and password. Every profile is an initial
state.

### Panel, PanelProofs

`Clients`, `Inbounds`, `Documents` and `Links` share no rows. `Panel` puts them side by
side over one database, and a behaviour is about one of them; their product would only
multiply the states. `PanelProofs` holds the proofs about the documents, the links and the
whole.

## 3. What the runs check

| Run | Instance | Distinct states | Shows |
|---|---|---|---|
| `agent_safety` | 2 threads, 3 configurations (one rejected), 3 ids, journal of 2 dropping 1, disk errors and crashes | 167,192 | `TypeOK`, `Serialized`, `OnlyAccepted`, `NoOrphanFallback`, `JournalSound`, `HolderInv`, `NoEffectTwice`, `FailureRestores`, `AckedIsLive`, `AckedIsUndoable`, refinement `StoreSpec` |
| `agent_live` | 2 threads, 1 accepted and 1 rejected configuration, faults | 13,258 | `Answered`: no failure path keeps the lock, no waiter starves |
| `link` | an apply and a rollback, 2 threads, crashes and disk errors | 34,877 | `OncePerChannel`, `KeyedAtMostOnce`, `OkTookEffect` |
| `link_crash` (violation) | crashes | | `RollbackSwapsOnce` fails, see below |
| `health_jobs` | 1 Iranian node, 2 concurrent requests, removals, crashes, thresholds 1 | 659,510 | `OneFailoverPerOutage`, `DrainHolds` |
| `health_polls` | 2 nodes, thresholds 3 and 2 | 129,132 | `ModeFollowsEvidence`, `FlipsAreJustified`, and, as polls go on, `GoesOffline`, `ModeFollowsNodes` |
| `health_edge` (violation) | 1 node, 1 request | | `FailoverOnEveryEdge` fails, see below |
| `usage_bill` | 2 nodes, 1 user with 2 clients, 1 byte per node, every request and fault, at most one node removed | 600,263 | `NeverOverbilled`, `BilledOnce`, `ResetHolds` |
| `usage_again` (violation) | removals | | `ExactlyOnce` fails, see below |
| `sessions` | 1 account with 2 passwords, 2 requests, 3 tokens, 1 key, clock to 3 | 781,912 | `OneLiveToken`, `OnlyLoginReopens`, refinement `LoginsSpec`, and `ExpiredAreRemoved` |
| `canary` | 3 routes, 2 nodes, 2 ticks, every fault, one edit | 2,536,286 | `OneActive`, `NoCandidateLeft`, `ScoresRise` |
| `panel` | SQLite and PostgreSQL; 1 user, 1 plan of one device, 2 clients, 2 requests; 1 node, 1 run, 2 requests, 2 inbounds, every fault; 2 editors; 70,728 profiles | 523,122 | `PlanCapacity`, `PageMatchesToken`; `ListedIsInForce`, `ClientsResolve`; `StoredCoherent`, `OthersKept`; `PageLinksFit`, `PanelLinksAgree` |

**Bounds.** Two threads are what the state lock arbitrates between, and what the two
deliveries of a command need; a third adds waiters and nothing else. Two accepted
configurations tell current, fallback and candidate apart, because a candidate may equal
either; the rejected one exercises the checker. The journal's 256 and 64 are 2 and 1 in
`agent_safety`, so that it fills and evicts; in the link runs they have the code's
values and three operations never fill it. In `NodeHealth` one node suffices for what
happens to a row (rows interact only through the poll's commit, which `health_polls`
checks with two), two requests are needed for one to overtake the other around a poll.
The national counters saturate at `CounterCap`: they are only compared with thresholds
below it. Two nodes are what the identity map needs to go wrong between them, two
clients of one user what billing a user once needs. One byte per node is enough for a
row to be billed twice, or not at all; a counter that passes its old value after a
reboot needs two and is left to the proof, as are clients that are not billed for every
node. A state constraint (`UsageBound`) stops where a removed node has been billed again
for more than it carried, which could go on forever, and at the second removed node.
Nodes and clients are interchangeable (`Twins`). None of these bounds limits the proofs.
In `sessions` three tokens are a login and two rotations, or logins beside each other,
and every lifetime runs out; accounts do not interact. In `canary` three routes let a
promotion be overtaken by another one, two nodes let it stop half-way, and two ticks are
what the restarted scheduler adds; the edit makes an operation id new, or not; no
further fault is added once more than `MaxAstray` nodes have strayed, which is none. In
`panel` one device makes the last place contended; two inbounds make the autopilot's
name taken and an id used again. Its state constraint `PanelBound` says what is looked
at together. `ClientsBound`: two client requests at once only on the first day, with a
user who is active and has no quota, clients without traffic, and neither a reset nor
a change of limits among the two, since races are about places; everything else
(expiry, quotas, resets, other days) with one request, on SQLite, with at most one
client that has traffic. `InboundsBound`: a node that has drifted is not followed
further, as the property says nothing of it any more; at most two actors are at work;
an operator's inbound has port 1; the agent remembers one operation; clients come when
the node is registered and runs are authorised.
With one node, the session that stays broken and a row deleted for another node's are
not reached by the run, but covered by the proof. Documents and links do not look at
the database and are checked once. A profile gives any two fields, or any two beside
REALITY's server name and keys: what has to be given together for a link to fit is
reached, and so is everything that one or two more can spoil.

Larger instances were checked once without a violation: the link with three calls and
every fault (12,055,566 states); its inductive invariant with an apply without id among
three calls and a journal that holds one entry (9,548,154); the documents with a second
configuration that is broken as asked (1,052,208) and with a second piece of advice
(2,045,334).

**Fairness.** `Answered` assumes weak fairness of each handler's work, justified
because every subprocess call has a timeout and nothing else blocks, and strong
fairness of taking the lock: waiters of a `flock` are woken in turn. It does not
assume that restarts succeed or that faults stop. The liveness of `NodeHealth`
assumes only that the poll goes on (an interval job with one instance, every call
with a timeout). Crashes and removals that would abort every poll, if they were
repeated forever, are left out where liveness is checked, as they would do the same
in the code. `ExpiredAreRemoved` assumes weak fairness of `Cleanup`: `worker.main`
calls it in a loop and survives its exceptions.

**Findings.**
* `link_crash`: an agent that dies between exchanging the files and writing the
  journal forgets the rollback, and its second delivery swaps back, although the
  docstring says "Swap ACTIVE/PREVIOUS once".
* `health_edge`: a command that finds the agent silent sets the node OFFLINE and
  consumes the edge on which the poll should "trigger Iran failover on a real
  edge". A command that merely fails (a benchmark of a private address, answered
  with 422) has the same effect on a healthy node.
* `usage_again`: removing a node forgets its recorded counter; the row it gets when
  it is registered again starts at 0, and the next poll bills all its bytes since
  boot again, although `_record_usage_delta` promises "exactly once". (A node that
  is registered for the first time is billed its bytes since boot, too.)

Met while modelling, and stated by the properties as the only exceptions, because
nothing in the repository promises otherwise:

* a traffic reset is lost when the poll had already billed the client, and kept when
  the poll bills it after the reset (`ResetHolds`, `late`);
* a drain during a poll is undone when the poll finds the node in another status than
  the one it had loaded, for instance silent (`DrainHolds`, `Overtaken`);
* a canary sends the route's configuration as a text, which every agent refuses, so
  that it compares the old configuration with itself (`Decoded`);
* a canary does not look at the answer of an apply: a node that refuses, or that
  answers from its journal because the route's configuration was tried before, is
  benchmarked and rolled back all the same, which exchanges its production
  configuration for an older one (`NoCandidateLeft`, `astray`);
* the second run of the autopilot replaces a node's configuration and then fails to
  record it; a run after the removal of its first inbound is answered from the
  agent's journal and lists an inbound that the node does not have; and every
  selection fails and rolls a node back that it had not changed (`ListedIsInForce`,
  `drifted`);
* a client created while its inbound is removed keeps the id (`ClientsResolve`,
  `late`);
* `create_subscription` of the reseller API is not counted against a plan, and on
  PostgreSQL a change of plan that has read its client disabled and an enabling of
  the same client exceed the capacity together (`PlanCapacity`, `Overtaken`);
* a request on a document undoes whatever was committed since it loaded it, and a
  custom configuration drops the direct ones (`OthersKept`);
* the link on the page does not say what the inbound takes for VMess over websocket,
  gRPC, QUIC, mKCP or REALITY, for REALITY without a server name, an accepted short id
  or either key, for sing-box over REALITY, xhttp or mKCP, for any tuned transport of
  Xray, and for most of shadowsocks (`PageLinksFit` says exactly which; whether a core
  or an app puts up with a difference is not decided);
* the link the panel shows differs from the one on the page over websocket, for VMess
  with a server name under TLS, and always for Trojan (`PanelLinksAgree`).

`README.md:55` of the repository says that a password change revokes refresh tokens;
`deploy/pars2ray` only replaces the hash. `ChangePassword` leaves the tokens alone,
as the code does; no run is spent on it.

## 4. What is proved

For any values of the constants (threads, nodes, requests, clients, limits, faults)
and from the assumptions named in the modules (`AgentAssumption`, `LinkAssumption`,
`NationalAssumption`, `NodeAssumption`, `UsageAssumption`, `SessionsAssumption`,
`CanaryAssumption`, `InboundsAssumption`, `ClientsAssumption`,
`DocumentsAssumption`, `LinksAssumption`), which TLC evaluates in the runs:

* `AgentProofs`, the agent: every safety property of `agent_safety`, and the
  refinement `Implements`. The properties are not inductive by themselves: that a
  failure restores, or that an acknowledgement is true, rests on what the holder
  of the lock may assume about the files at every program point. That is
  `HolderInv` (`Forward` for apply and update, `Backward` for rollback): the
  configuration in ACTIVE is `base`, the candidate or PREVIOUS depending on `pc`,
  the operation is unrecorded, and after an accepted restart nothing else runs.
  Together with `TypeOK`, `Serialized`, `OnlyAccepted`, `NoOrphanFallback` and
  `JournalSound` it is preserved by every action, one lemma each; the action
  properties and the refinement follow from it step by step.
* `AgentProofs`, the link: `OncePerChannel`, `KeyedAtMostOnce` and `OkTookEffect`, for
  any commands, threads and journal limits and any faults. `LinkDrivesAgent`: a
  behaviour of the link is one of the agent, so that everything above, the refinement
  included, holds under the master's retries (`LinkImplements`), and each step of a
  handler is known by what it does to its own program point, request, answer and the
  journal (`HandlerMoves`). The invariant joins the two sides at every program point:
  a thread at work carries what its call asks for (`Linked`); the effects of a call
  and its deliveries that may still have one are no more than were sent, over
  different channels (`Bounded`); a call with an effect is in the journal, or about to
  be and under the lock, or in `unnoted` (`Noted`), which is why its second delivery
  answers from the journal however the two overlap; and a success on its way to the
  caller, or in the journal, has an effect behind it (`Effected`). From these follow
  `OkExactlyOnce` (success means one effect, for a command with an id of its own that is
  not `unnoted`) and `OnlyFaultsRepeat`: without faults, and with room in the journal for
  every id (a counting argument, `JournalRoom`), no keyed command is ever in `unnoted`, so
  that even the `RollbackSwapsOnce` that `link_crash` refutes holds. Late answers, the
  second channel and two threads on one command are not enough to break it.
* `NodeHealthProofs`: `HealthTypeOK`, `ModeFollowsEvidence`, `FlipsAreJustified`,
  `OneFailoverPerOutage` and `DrainHolds`. The strengthening relates the two
  national counters with `recent` (a counter of n below the cap means n equal
  findings, newest first) and the statuses with `armed`.
* `UsageMeterProofs` (from `UsageAssumption`): `UsageTypeOK`; `NeverOverbilled`,
  for every node that was never removed; `BilledOnce` and `ResetHolds` for all. For
  the first, a bill and the traffic still to be billed fit together into what the
  node carried, for the rows and for their copies in the session (`AccountsInv`);
  for the others, the copies are ahead of the rows by exactly what the poll will
  record, for every client nobody touched (`BillInv`), and by no more than that for one
  that was not reset after it was billed (`AheadInv`).
* `SessionsProofs`: `SessionsTypeOK`, `OneLiveToken` and `OnlyLoginReopens`, from
  `Sound`: a row that is stored was issued, to an account and for a login that was
  issued itself (`Lineage`), and an open login or key request belongs to an account
  (`Asks`). A token drawn anew can then share no login with another by accident.
  `ImplementsLogins`: every step is a step of `Logins` or a stutter. By `OneLiveToken`
  the token in force is determined (`WorkingOne`); a refresh moves it within its login, a
  login makes one where there was none, and a logout, a removal and the passing of time
  end one login or several (`EndRefines`). `OverIsFinal` is what the abstract
  specification is for: a login that had a token and has none never gets one again.
* `CanaryProofs`: `CanaryTypeOK`, `OneActive`, `ScoresRise` and `NoCandidateLeft`.
  `Control`: only the tick that holds the lock is under way, and the active route and
  its score that it has read are still true when it commits, although ticks choose
  without the lock. `NodesInv`: when the lock is free every node is clean; while it is
  held, a node among those the execution counts as applied runs the candidate and
  falls back to a promoted configuration, or has gone back already (its journal
  tells), and every other node is clean. A handler that walks back over the applied
  nodes therefore ends with all of them clean, also when it repeats a rollback.
* `InboundsProofs`: `ClientsResolve` and `ListedIsInForce`, on either database and for
  any nodes, runs, requests and faults. Ids are used again on SQLite, so what a request
  has read may be another row by the time it deletes it; `Typed` keeps only what
  survives that, `Unique` that a node has one inbound of the autopilot, and the steps
  that act on the wrong row are among those that make a node drift. `InForce` says of
  every node that did not drift that at most one change of it waits to be stored, that
  the node already listens on what that change will store, and that otherwise table
  and node agree. That `_safe_port` finds a port rests on a counting argument
  (`FreePort`).
* `ClientsProofs`: `PlanCapacity` and `PageMatchesToken`, on either database. A request
  that has checked the capacity holds the lock of its user, so that no other request of
  the client manager writes a client of that user before it commits; on SQLite nobody
  else does, on PostgreSQL only those may that `Overtaken` names. What it has counted
  is still true, or it was overtaken (`ReqOK`). The second is a fact about the two
  rules: they coincide for every subscription, and of a finite set of subscriptions
  there is a newest.
* `PanelProofs`, the documents: `StoredCoherent`, from the validator's case analysis for
  any advice (`DocInv` carries it through documents that requests have loaded), and
  `OthersKept`, from what a request that is not late knows of the document.
* `PanelProofs`, the links: `PageLinksFit` and `PanelLinksAgree` for every profile and
  every set of fields, one lemma per kind of link (`UrlFits`, `VmessFits`, `SsFits`, and
  `PanelAgrees`).
* `PanelProofs`, the whole: `PanelParts`, a behaviour of the panel is one of its clients, of
  its inbounds and of its documents, so that what is proved of each holds of the
  panel that the run checks (`PanelSafe`).

Model-checked only: liveness (`Answered`, `GoesOffline`, `ModeFollowsNodes`,
`ExpiredAreRemoved`), which the prover does not reach, and the violations. Every safety
property of the passing runs is proved. `UsageTypeOK` is proved and listed in no run.

## 5. Abstractions

* Nothing in the repository installs ACTIVE as the core's own configuration file;
  that a restart loads it is what `apply` relies on.
* A power failure (loss of unsynced directory entries) is not modelled; a process
  crash is. `mark_golden` is truncated in the source and reached by no command.
* One core per node: `capability()` prefers Xray and does not change meanwhile.
* Database rows are read and committed atomically per request except where the
  code awaits in between or reads before it locks. A request that times out waiting
  for a lock is a refusal. Ids of nodes are not reused, those of inbounds and clients
  are, on SQLite. `node_operations._action` sets OFFLINE without committing
  and has no effect on the status.
* Metrics and capabilities stored by the poll are left out; statuses and bills are
  separate modules although one commit writes both.
* Usage is counted in whole bytes, not in floating-point gigabytes; `node_keys` that
  are empty stand for the list of all nodes. SQLite may give a new node the id of the
  last one deleted; the poll would then update the wrong row instead of failing.
* Scores are ranks; the measurements behind them, floating-point arithmetic and the
  candidate matrix are choices. Traffic in `Clients` is 0 or 1, dates are ticks.
* Of a configuration in `Documents` only what the validator tells apart is kept; of
  one in `Links` which of the fields are given that the builder or a link looks at: that two
  fields hold equal values is not, nor that one holds what another defaults to. The client
  id is taken to be the same in the link and on the node; which of the four ways to
  derive it an operator's setup uses is outside the model.
* The panel's parts are checked one at a time. They share users and subscriptions
  only through what each module states of them (a subscription may disappear).

## 6. Not modelled

* The routes, experiments and optimizer endpoints and `golden_memory`: `main.py`'s
  middleware answers 404 for their prefixes. `gate`, `validator`,
  `intelligence_loop` and `intelligence_scheduler` are called by nothing that runs.
* `advanced_control` beside the edit of a route: lists in settings rows, one request
  at a time. Its operation ids are the node's key, which is listed as a hazard.
* The client runtime (addresses seen per client), telemetry and dashboards: reads
  and appends without a protocol.
* The rate limiter: a counter per minute; a property would have to speak of
  wall-clock windows.
* Backup, restore and update scripts, SSH provisioning and installers: shell around
  git, alembic and systemd. Their outcome is a choice where another part meets it.
* The links of routes (`_route_links`) and the connection lines of `protocols.py` are
  derived from other fields. Of an inbound, what no link could mention is left out:
  certificates, sniffing, flow, mKCP's sizes.
* User interface, panel proxy, settings, schemas and migrations: declarations.

## 7. What could follow

Abstract specifications for more parts, and their refinements: a canary as one
promotion of one route, the bill as a counter per node, the client manager as a
bounded set of devices. What the password command promises; the schema version
against the code version through update and rollback; the poll's status and billing
in one module.

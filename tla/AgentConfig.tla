---------------------------- MODULE AgentConfig ----------------------------
(***************************************************************************)
(* The node agent's configuration manager (agent/app/services): requests   *)
(* run on the threads of one uvicorn process, mutate the files ACTIVE,     *)
(* PREVIOUS and JOURNAL one atomic file replacement at a time under a file *)
(* lock, and restart the core service.  START, STOP and RESTART commands   *)
(* reach the service without the lock, and the process may die anywhere.   *)
(***************************************************************************)
EXTENDS Naturals, Sequences

CONSTANTS
  Threads,       \* the worker threads that run request handlers
  Configs,       \* configurations a request may carry
  Accepted,      \* those the core's own checker accepts
  OpIds,         \* operation identifiers chosen by callers
  NoConfig,      \* no file / no running service / a malformed payload
  NoOp,          \* a request without an operation id
  Free,          \* the lock has no holder
  JournalLimit,  \* 256 in the code
  JournalEvict,  \* 64 in the code
  Faults         \* subset of {"crash", "io"}: what may go wrong in a request

ASSUME AgentAssumption ==
  /\ Accepted \subseteq Configs
  /\ NoConfig \notin Configs
  /\ NoOp \notin OpIds
  /\ Free \notin Threads
  /\ JournalLimit \in Nat \ {0}
  /\ JournalEvict \in 1..JournalLimit
  /\ Faults \subseteq {"crash", "io"}

VARIABLES
  active,    \* ACTIVE, or NoConfig when the file does not exist
  previous,  \* PREVIOUS, likewise
  journal,   \* JOURNAL: successful keyed operations, oldest first
  lock,      \* the holder of the state lock, or Free
  running,   \* the configuration the core service loaded, NoConfig when down
  pc,        \* where each thread is
  req,       \* the request each thread works on
  base,      \* what ACTIVE held when the thread took the lock
  reply      \* the thread's last answer

files == <<active, previous, journal>>
locals == <<pc, req, base, reply>>
vars == <<active, previous, journal, lock, running, pc, req, base, reply>>

File == Configs \cup {NoConfig}
Steps == {"idle", "precheck", "begin", "backup", "install", "restart", "poll",
          "recover", "restore", "swap", "commit", "service"}
Replies == {"none", "ok", "refused", "rolled_back", "recovery_failed", "error"}

NoRequest == [kind |-> "none", config |-> NoConfig, op |-> NoOp]
ServiceKinds == {"restart", "start", "stop"}
Requests ==
  [kind : {"apply"}, config : File, op : OpIds \cup {NoOp}]
    \cup [kind : {"rollback"}, config : {NoConfig}, op : OpIds \cup {NoOp}]
    \cup [kind : ServiceKinds \cup {"update"}, config : {NoConfig}, op : {NoOp}]


\* What a thread keeps of its request; an update computes its candidate.
Kept ==
  [kind : {"apply", "rollback"}, config : File, op : OpIds \cup {NoOp}]
    \cup [kind : {"none", "update"} \cup ServiceKinds, config : File, op : {NoOp}]

-----------------------------------------------------------------------------
(* The operation journal.                                                  *)

\* Two requests are the same operation when their fingerprints agree: the
\* payload of an apply, a constant for every rollback.
Fingerprint(r) == <<r.kind, r.config>>
Entries == [id : OpIds, fp : {"apply", "rollback"} \X File]
JournalIds == {journal[i].id : i \in DOMAIN journal}

Recorded(r) == \E i \in DOMAIN journal :
  journal[i].id = r.op /\ journal[i].fp = Fingerprint(r)
Conflicting(r) == \E i \in DOMAIN journal :
  journal[i].id = r.op /\ journal[i].fp # Fingerprint(r)
Unrecorded(r) == r.op \notin JournalIds

\* (variant: an operation without an id is recorded too)
JournalPut_Unkeyed(r) == Append(journal, [id |-> r.op, fp |-> Fingerprint(r)])

\* (variant: entries are dropped one operation too late)
JournalPut_Late(r) ==
  LET kept == IF Len(journal) > JournalLimit
              THEN SubSeq(journal, JournalEvict + 1, Len(journal))
              ELSE journal
  IN  IF r.op = NoOp THEN journal
      ELSE Append(kept, [id |-> r.op, fp |-> Fingerprint(r)])

\* Written only for a keyed operation; a full journal drops its oldest entries.
JournalPut(r) ==
  LET entry == [id |-> r.op, fp |-> Fingerprint(r)]
      kept == IF Len(journal) >= JournalLimit
              THEN SubSeq(journal, JournalEvict + 1, Len(journal))
              ELSE journal
      replaced == [i \in DOMAIN journal |->
                     IF journal[i].id = r.op THEN entry ELSE journal[i]]
  IN  CASE r.op = NoOp -> journal
        [] r.op \in JournalIds -> replaced
        [] OTHER -> Append(kept, entry)

-----------------------------------------------------------------------------
(* Control of one thread.                                                  *)

Goto(t, step) == pc' = [pc EXCEPT ![t] = step] /\ UNCHANGED <<req, base, reply>>

\* Returning from the handler: its locals die with it.
Answer(t, result) ==
  /\ pc' = [pc EXCEPT ![t] = "idle"]
  /\ reply' = [reply EXCEPT ![t] = result]
  /\ req' = [req EXCEPT ![t] = NoRequest]
  /\ base' = [base EXCEPT ![t] = NoConfig]

\* (variant: the lock is not waited for)
CanLock_Ignored == TRUE

\* flock(LOCK_EX) returns.
CanLock == lock = Free

\* (variant: the checker is not run)
Validated_Skipped(c) == TRUE

\* The core's checker accepts the file.
Validated(c) == c \in Accepted

\* Entering the critical section with the candidate configuration c.
Enter(t, step, c) ==
  /\ lock' = t
  /\ pc' = [pc EXCEPT ![t] = step]
  /\ req' = [req EXCEPT ![t].config = c]
  /\ base' = [base EXCEPT ![t] = active]
  /\ UNCHANGED reply

Leave(t, result) == lock' = Free /\ Answer(t, result)

Receive(t, r) ==
  /\ pc[t] = "idle"
  /\ req' = [req EXCEPT ![t] = r]
  /\ reply' = [reply EXCEPT ![t] = "none"]
  /\ pc' = [pc EXCEPT ![t] = IF r.kind = "apply" THEN "precheck"
                             ELSE IF r.kind \in ServiceKinds THEN "service"
                             ELSE "begin"]
  /\ UNCHANGED <<files, lock, running, base>>

-----------------------------------------------------------------------------
(* Taking the lock and deciding whether to do the work.                    *)

\* The first look at the journal takes and drops the lock; the payload is
\* examined only afterwards and outside it.
Precheck(t) ==
  /\ pc[t] = "precheck"
  /\ req[t].op # NoOp => CanLock
  /\ \/ Recorded(req[t]) /\ Answer(t, "ok")
     \/ Conflicting(req[t]) /\ Answer(t, "refused")
     \/ Unrecorded(req[t]) /\ req[t].config = NoConfig /\ Answer(t, "refused")
     \/ Unrecorded(req[t]) /\ req[t].config # NoConfig /\ Goto(t, "begin")
  /\ UNCHANGED <<files, lock, running>>

\* (variant: no second look at the journal)
ApplyBegin_OneLook(t) ==
  /\ pc[t] = "begin" /\ req[t].kind = "apply" /\ CanLock
  /\ \/ Answer(t, "refused") /\ UNCHANGED lock
     \/ Validated(req[t].config) /\ Enter(t, "backup", req[t].config)
  /\ UNCHANGED <<files, running>>

\* The second look, under the lock that is kept.  A conflict found here is an
\* exception nobody catches; the checker may reject, fail or time out.
ApplyBegin(t) ==
  /\ pc[t] = "begin" /\ req[t].kind = "apply" /\ CanLock
  /\ \/ Recorded(req[t]) /\ Answer(t, "ok") /\ UNCHANGED lock
     \/ Conflicting(req[t]) /\ Answer(t, "error") /\ UNCHANGED lock
     \/ Unrecorded(req[t]) /\ Answer(t, "refused") /\ UNCHANGED lock
     \/ /\ Unrecorded(req[t])
        /\ Validated(req[t].config)
        /\ Enter(t, "backup", req[t].config)
  /\ UNCHANGED <<files, running>>

\* Refused when there is nothing to go back to or no core is installed.
RollbackBegin(t) ==
  /\ pc[t] = "begin" /\ req[t].kind = "rollback" /\ CanLock
  /\ \/ Recorded(req[t]) /\ Answer(t, "ok") /\ UNCHANGED lock
     \/ Conflicting(req[t]) /\ Answer(t, "refused") /\ UNCHANGED lock
     \/ Unrecorded(req[t]) /\ Answer(t, "refused") /\ UNCHANGED lock
     \/ /\ Unrecorded(req[t])
        /\ previous # NoConfig
        /\ Enter(t, "install", NoConfig)
  /\ UNCHANGED <<files, running>>

\* The edited configuration is computed from ACTIVE under the lock and is any
\* accepted one; a checker that times out is an uncaught exception.
UpdateBegin(t) ==
  /\ pc[t] = "begin" /\ req[t].kind = "update" /\ CanLock
  /\ \/ Answer(t, "refused") /\ UNCHANGED lock
     \/ active # NoConfig /\ Answer(t, "error") /\ UNCHANGED lock
     \/ /\ active # NoConfig
        /\ \E c \in Configs : Validated(c) /\ Enter(t, "backup", c)
  /\ UNCHANGED <<files, running>>
-----------------------------------------------------------------------------
(* The file replacements, one step each.                                   *)

\* (variant: an existing PREVIOUS is kept)
Backup_KeepsOld(t) ==
  /\ pc[t] = "backup"
  /\ previous' = IF previous = NoConfig THEN active ELSE previous
  /\ Goto(t, "install")
  /\ UNCHANGED <<active, journal, lock, running>>

\* Without an ACTIVE the code removes PREVIOUS, which is the same assignment.
Backup(t) ==
  /\ pc[t] = "backup"
  /\ previous' = active
  /\ Goto(t, "install")
  /\ UNCHANGED <<active, journal, lock, running>>

Install(t) ==
  /\ pc[t] = "install"
  /\ active' = IF req[t].kind = "rollback" THEN previous ELSE req[t].config
  /\ Goto(t, "restart")
  /\ UNCHANGED <<previous, journal, lock, running>>

\* (variant: a failed apply always removes ACTIVE)
RestoredFile_Removed(t) == IF req[t].kind = "rollback" THEN base[t] ELSE NoConfig

\* (variant: a failed rollback goes back to PREVIOUS too)
RestoredFile_Previous(t) == previous

\* What ACTIVE becomes when a change failed: an apply or an update goes back to
\* PREVIOUS or, with nothing to go back to, removes ACTIVE; a rollback goes back
\* to the copy it took, if there was anything to copy.
RestoredFile(t) ==
  CASE req[t].kind # "rollback" -> IF base[t] = NoConfig THEN NoConfig ELSE previous
    [] OTHER -> IF base[t] = NoConfig THEN active ELSE base[t]

\* The service is restarted only when a configuration was put back.
Recover(t) ==
  /\ pc[t] = "recover"
  /\ active' = RestoredFile(t)
  /\ \/ base[t] # NoConfig /\ Goto(t, "restore") /\ UNCHANGED lock
     \/ base[t] = NoConfig /\ Leave(t, IF req[t].kind = "rollback"
                                      THEN "recovery_failed" ELSE "rolled_back")
  /\ UNCHANGED <<previous, journal, running>>

\* (variant: the fallback is not exchanged)
SwapPrevious_Forgotten(t) ==
  /\ pc[t] = "swap"
  /\ Goto(t, "commit")
  /\ UNCHANGED <<files, lock, running>>

SwapPrevious(t) ==
  /\ pc[t] = "swap"
  /\ previous' = IF base[t] = NoConfig THEN previous ELSE base[t]
  /\ Goto(t, "commit")
  /\ UNCHANGED <<active, journal, lock, running>>

Commit(t) ==
  /\ pc[t] = "commit"
  /\ journal' = JournalPut(req[t])
  /\ Leave(t, "ok")
  /\ UNCHANGED <<active, previous, running>>

-----------------------------------------------------------------------------
(* The core service.                                                       *)

\* (variant: the return code of systemctl restart is ignored)
RestartAccepted_Unchecked == running' \in {running, active, NoConfig}

\* systemctl accepts the restart: the service loads ACTIVE, and may die at once.
RestartAccepted == running' \in {active, NoConfig}

\* A restart that fails leaves the service as it was, down, or up on ACTIVE.
RestartFails == running' \in {running, active, NoConfig}

\* Only apply and rollback catch a restart command that times out.
Restart(t) ==
  /\ pc[t] = "restart"
  /\ \/ RestartAccepted /\ Goto(t, "poll") /\ UNCHANGED lock
     \/ RestartFails /\ Goto(t, "recover") /\ UNCHANGED lock
     \/ req[t].kind = "update" /\ RestartFails /\ Leave(t, "error")
  /\ UNCHANGED files

\* Ten seconds of is-active: an answer "active" needs a running service.  The
\* operation that succeeded goes on to its bookkeeping; an update has none.
Poll(t) ==
  /\ pc[t] = "poll"
  /\ \/ /\ running # NoConfig
        /\ \/ req[t].kind = "apply" /\ Goto(t, "commit") /\ UNCHANGED lock
           \/ req[t].kind = "rollback" /\ Goto(t, "swap") /\ UNCHANGED lock
           \/ req[t].kind = "update" /\ Leave(t, "ok")
     \/ Goto(t, "recover") /\ UNCHANGED lock
     \/ req[t].kind = "update" /\ Leave(t, "error")
  /\ UNCHANGED <<files, running>>

\* The restart after a recovery; its outcome is only reported.
Restore(t) ==
  /\ pc[t] = "restore"
  /\ \/ running' = active /\ Leave(t, "rolled_back")
     \/ RestartFails /\ Leave(t, IF req[t].kind = "update" THEN "rolled_back"
                                 ELSE "recovery_failed")
     \/ req[t].kind = "update" /\ RestartFails /\ Leave(t, "error")
  /\ UNCHANGED files

\* START, STOP and RESTART: no lock and no files.
ServiceCommand(t) ==
  /\ pc[t] = "service"
  /\ LET kind == req[t].kind
     IN  \/ kind = "restart" /\ running' = active /\ Answer(t, "ok")
         \/ kind = "restart" /\ RestartFails /\ Answer(t, "refused")
         \/ /\ kind = "start"
            /\ running' = IF running = NoConfig THEN active ELSE running
            /\ Answer(t, "ok")
         \/ kind = "stop" /\ running' = NoConfig /\ Answer(t, "ok")
         \/ kind # "restart" /\ Answer(t, "refused") /\ UNCHANGED running
  /\ UNCHANGED <<files, lock>>

-----------------------------------------------------------------------------
(* Faults.                                                                 *)

\* (variant: the lock is not released on the way out of an exception)
IoError_KeepsLock(t) ==
  /\ "io" \in Faults
  /\ pc[t] \in {"backup", "install", "recover", "swap", "commit"}
  /\ Answer(t, "error")
  /\ UNCHANGED <<files, lock, running>>

\* A file replacement raises (disk full): the handler answers with an error
\* and releases the lock, whatever it had already replaced.
IoError(t) ==
  /\ "io" \in Faults
  /\ pc[t] \in {"backup", "install", "recover", "swap", "commit"}
  /\ Leave(t, "error")
  /\ UNCHANGED <<files, running>>

\* The process dies and systemd starts it again: the kernel drops the lock,
\* every thread and its answer is gone, the files and the service stay.
Crash ==
  /\ "crash" \in Faults
  /\ \E t \in Threads : pc[t] # "idle"
  /\ lock' = Free
  /\ pc' = [t \in Threads |-> "idle"]
  /\ req' = [t \in Threads |-> NoRequest]
  /\ base' = [t \in Threads |-> NoConfig]
  /\ reply' = [t \in Threads |-> "none"]
  /\ UNCHANGED <<files, running>>

-----------------------------------------------------------------------------
Init ==
  /\ active = NoConfig /\ previous = NoConfig /\ journal = <<>>
  /\ lock = Free
  /\ running = NoConfig
  /\ pc = [t \in Threads |-> "idle"]
  /\ req = [t \in Threads |-> NoRequest]
  /\ base = [t \in Threads |-> NoConfig]
  /\ reply = [t \in Threads |-> "none"]

\* A step of a handler that waits for the state lock ...
Acquire(t) ==
  Precheck(t) \/ ApplyBegin(t) \/ RollbackBegin(t) \/ UpdateBegin(t)

\* ... and one that does not.
Work(t) ==
  \/ Backup(t) \/ Install(t) \/ Restart(t) \/ Poll(t) \/ Recover(t)
  \/ Restore(t) \/ SwapPrevious(t) \/ Commit(t) \/ ServiceCommand(t)

Handler(t) == Acquire(t) \/ Work(t) \/ IoError(t)

Next ==
  \/ \E t \in Threads : Handler(t) \/ \E r \in Requests : Receive(t, r)
  \/ Crash

Spec == Init /\ [][Next]_vars

\* Every handler keeps running (each subprocess call has a timeout), and a
\* thread blocked in flock is served: the kernel queues the waiters.
Fairness == \A t \in Threads : WF_vars(Work(t)) /\ SF_vars(Acquire(t))

FairSpec == Spec /\ Fairness

-----------------------------------------------------------------------------
(* Properties.                                                             *)

Locked == {"backup", "install", "restart", "poll", "recover", "restore",
           "swap", "commit"}

\* Types; an entry of the journal always has an operation id.
TypeOK ==
  /\ active \in File /\ previous \in File /\ running \in File
  /\ journal \in Seq(Entries)
  /\ lock \in Threads \cup {Free}
  /\ pc \in [Threads -> Steps]
  /\ req \in [Threads -> Kept]
  /\ base \in [Threads -> File]
  /\ reply \in [Threads -> Replies]

\* The handlers that mutate the files are serialized: a thread between two
\* file replacements holds the lock, and whoever holds it is such a thread
\* (core_manager._state_lock: "Serialize config mutations").
Serialized == \A t \in Threads : pc[t] \in Locked <=> lock = t

\* Nothing the core's checker did not accept is ever put in force, kept for a
\* rollback or loaded by the service, whichever handler, recovery, service
\* command or crash led there.
OnlyAccepted == {active, previous, running} \subseteq Accepted \cup {NoConfig}

\* Without an ACTIVE there is no PREVIOUS, also after a crash: a rollback never
\* brings back a configuration when none is in force, so its branch without a
\* current configuration to restore (core_manager.rollback) is never taken.
NoOrphanFallback == active = NoConfig => previous = NoConfig

\* The journal never outgrows its limit and holds an operation once.
JournalSound ==
  /\ Len(journal) <= JournalLimit
  /\ \A i, j \in DOMAIN journal : journal[i].id = journal[j].id => i = j

\* What the holder of the lock may rely on at every step, whoever crashed, failed
\* or sent service commands before or meanwhile (update_existing_inbounds and
\* apply go forward to a candidate, rollback goes back to PREVIOUS).
Forward(t) ==
  /\ req[t].config \in Accepted
  /\ pc[t] # "swap"
  /\ pc[t] = "commit" => req[t].kind = "apply"
  /\ pc[t] = "restore" => base[t] # NoConfig
  /\ pc[t] \in {"backup", "install", "restore"} => active = base[t]
  /\ pc[t] \in {"restart", "poll", "recover", "commit"} => active = req[t].config
  /\ pc[t] # "backup" => previous = base[t]

Backward(t) ==
  /\ pc[t] # "backup"
  /\ base[t] # NoConfig /\ previous # NoConfig
  /\ pc[t] \in {"install", "restore"} => active = base[t]
  /\ pc[t] \in {"restart", "poll", "recover", "swap"} => active = previous
  /\ pc[t] = "commit" => previous = base[t]

Holder(t) ==
  /\ req[t].kind \in {"apply", "rollback", "update"}
  /\ req[t].op \notin JournalIds
  /\ base[t] \in Accepted \cup {NoConfig}
  /\ req[t].kind # "rollback" => Forward(t)
  /\ req[t].kind = "rollback" => Backward(t)
  /\ pc[t] \in {"poll", "swap", "commit"} => running \in {active, NoConfig}

\* A step under the lock finds the files as the earlier steps of the same handler
\* left them, its operation still unrecorded, and, once the restart was accepted,
\* no configuration running but the one in ACTIVE.
HolderInv == \A t \in Threads : pc[t] \in Locked => Holder(t)

\* An operation the journal holds is never carried out again, although its
\* first look at the journal and its work are two critical sections and another
\* thread may run the same operation in between.
NoEffectTwice == [][\A t \in Threads :
  pc[t] = "install" /\ pc'[t] = "restart" => req[t].op \notin JournalIds]_vars

\* When a handler reports a failed change as rolled back, or its recovery as
\* failed, ACTIVE is what it was when that handler took the lock.
FailureRestores == [][\A t \in Threads :
  /\ pc[t] \in Locked /\ pc'[t] = "idle"
  /\ reply'[t] \in {"rolled_back", "recovery_failed"}
  => active' = base[t]]_vars

\* A change is acknowledged only with its configuration in ACTIVE and with no
\* other configuration running: whatever START, STOP and RESTART commands raced
\* it, the service runs the acknowledged configuration or is down.
AckedIsLive == [][\A t \in Threads :
  /\ pc[t] \in Locked /\ pc'[t] = "idle" /\ reply'[t] = "ok"
  => /\ running' \in {active', NoConfig}
     /\ req[t].kind # "rollback" => active' = req[t].config]_vars

\* A successful apply or rollback leaves the configuration it replaced as the
\* one the next rollback brings back.
AckedIsUndoable == [][\A t \in Threads :
  /\ pc[t] \in Locked /\ pc'[t] = "idle" /\ reply'[t] = "ok"
  => previous' = base[t]]_vars

\* Every request is answered, or its connection lost in a crash: no failure path
\* keeps the lock and no waiting thread is starved.
Answered == \A t \in Threads : pc[t] # "idle" ~> pc[t] = "idle"

-----------------------------------------------------------------------------
(* The promise to the callers.                                             *)

\* A change counts from the moment its restart is known to have succeeded (for
\* a rollback, from the moment the fallback is exchanged too).
InDoubt == {"restart", "poll", "recover", "swap"}

Current == IF lock \in Threads /\ pc[lock] \in InDoubt THEN base[lock] ELSE active

Store == INSTANCE ConfigStore
  WITH current <- Current, fallback <- previous, Crashes <- Faults # {}

\* The agent implements the two-place store: seen from its callers a
\* configuration comes into force together with its fallback, a rollback
\* exchanges the two, and only a fault can lose the configuration in force.
StoreSpec == Store!Spec
=============================================================================

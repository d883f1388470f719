---------------------------- MODULE AgentProofs ----------------------------
(***************************************************************************)
(* The inductive invariant of AgentConfig and what follows from it, for    *)
(* any number of threads, configurations and operation ids, any journal    *)
(* limit and any combination of faults; then the same for the agent and    *)
(* the master's commands (AgentLink), for any commands.                    *)
(***************************************************************************)
EXTENDS AgentLink, FiniteSetTheorems, SequenceTheorems, TLAPS

-----------------------------------------------------------------------------
(* The journal.                                                            *)

\* An operation that is not recorded, when it is recorded, goes to the end of a
\* journal from which only whole oldest entries were dropped: the only new id is
\* its own.
LEMMA JournalPutFresh ==
  ASSUME journal \in Seq(Entries), NEW r \in Kept,
         r.kind \in {"apply", "rollback"}, r.op \notin JournalIds,
         JournalSound
  PROVE  /\ JournalPut(r) \in Seq(Entries)
         /\ Len(JournalPut(r)) <= JournalLimit
         /\ \A i, j \in DOMAIN JournalPut(r) :
              JournalPut(r)[i].id = JournalPut(r)[j].id => i = j
         /\ \A i \in DOMAIN JournalPut(r) :
              JournalPut(r)[i].id = r.op \/ JournalPut(r)[i].id \in JournalIds
         /\ r.op # NoOp => \E i \in DOMAIN JournalPut(r) : JournalPut(r)[i].id = r.op
  <1> DEFINE entry == [id |-> r.op, fp |-> Fingerprint(r)]
             kept == IF Len(journal) >= JournalLimit
                     THEN SubSeq(journal, JournalEvict + 1, Len(journal))
                     ELSE journal
             drop == IF Len(journal) >= JournalLimit THEN JournalEvict ELSE 0
  <1>1. CASE r.op = NoOp
    BY <1>1 DEF JournalPut, JournalSound, JournalIds
  <1>2. CASE r.op # NoOp
    <2>1. r.op \in OpIds /\ entry \in Entries
      BY <1>2 DEF Kept, Entries, Fingerprint
    <2>2. JournalPut(r) = Append(kept, entry)
      BY <1>2 DEF JournalPut
    <2>3. /\ JournalLimit \in Nat \ {0} /\ JournalEvict \in 1..JournalLimit
          /\ Len(journal) \in Nat /\ Len(journal) <= JournalLimit
          /\ DOMAIN journal = 1..Len(journal)
      BY AgentAssumption, LenProperties DEF JournalSound
    <2>4. /\ kept \in Seq(Entries)
          /\ Len(kept) = Len(journal) - drop
          /\ \A i \in 1..Len(kept) : kept[i] = journal[i + drop]
      <3>1. CASE Len(journal) >= JournalLimit
        <4>1. kept = SubSeq(journal, JournalEvict + 1, Len(journal)) /\ drop = JournalEvict
          BY <3>1
        <4> HIDE DEF kept, drop
        <4>2. \A i \in JournalEvict + 1 .. Len(journal) : journal[i] \in Entries
          BY <2>3
        <4>3. JournalEvict + 1 \in Int /\ Len(journal) \in Int
          BY <2>3
        <4>4. SubSeq(journal, JournalEvict + 1, Len(journal)) \in Seq(Entries)
          BY <4>2, <4>3, SubSeqProperties
        <4>5. Len(SubSeq(journal, JournalEvict + 1, Len(journal)))
                = Len(journal) - JournalEvict
          <5> DEFINE L == Len(journal)
                     X == Len(SubSeq(journal, JournalEvict + 1, Len(journal)))
          <5>1. X = IF JournalEvict + 1 <= L THEN L - (JournalEvict + 1) + 1 ELSE 0
            BY <4>2, <4>3, SubSeqProperties
          <5>2. L \in Int /\ JournalEvict \in Int /\ JournalEvict <= L
            BY <2>3, <3>1
          <5> HIDE DEF L, X
          <5>3. X = L - JournalEvict
            BY <5>1, <5>2
          <5>4. QED
            BY <5>3 DEF L, X
        <4>6. \A i \in 1 .. Len(journal) - JournalEvict :
                SubSeq(journal, JournalEvict + 1, Len(journal))[i] = journal[i + JournalEvict]
          <5>1. \A i \in 1 .. Len(journal) - (JournalEvict + 1) + 1 :
                  SubSeq(journal, JournalEvict + 1, Len(journal))[i]
                    = journal[(JournalEvict + 1) + i - 1]
            BY <4>2, <4>3, SubSeqProperties
          <5>2. /\ Len(journal) - (JournalEvict + 1) + 1 = Len(journal) - JournalEvict
                /\ \A i \in Int : (JournalEvict + 1) + i - 1 = i + JournalEvict
            BY <2>3
          <5>3. ASSUME NEW i \in 1 .. Len(journal) - JournalEvict
                PROVE  SubSeq(journal, JournalEvict + 1, Len(journal))[i]
                         = journal[i + JournalEvict]
            <6>1. i \in Int
              OBVIOUS
            <6>2. (JournalEvict + 1) + i - 1 = i + JournalEvict
              BY <6>1, <5>2
            <6>3. i \in 1 .. Len(journal) - (JournalEvict + 1) + 1
              BY <5>2, Zenon
            <6>4. QED
              BY <5>1, <6>2, <6>3, Zenon
          <5>4. QED
            BY <5>3
        <4>7. QED
          BY <4>1, <4>4, <4>5, <4>6
      <3>2. CASE ~(Len(journal) >= JournalLimit)
        BY <2>3, <3>2
      <3>3. QED
        BY <3>1, <3>2
    <2> HIDE DEF kept, entry, drop
    <2>5. /\ Append(kept, entry) \in Seq(Entries)
          /\ Len(Append(kept, entry)) = Len(kept) + 1
          /\ \A i \in 1..Len(kept) : Append(kept, entry)[i] = kept[i]
          /\ Append(kept, entry)[Len(kept) + 1] = entry
      BY <2>1, <2>4, AppendProperties
    <2>6. drop \in 0..JournalLimit /\ Len(kept) + 1 <= JournalLimit /\ Len(kept) \in Nat
      <3>1. Len(kept) \in Nat
        BY <2>4, LenProperties
      <3>2. drop \in 0..JournalLimit /\ (drop = 0 => Len(journal) < JournalLimit)
        BY <2>3 DEF drop
      <3>3. QED
        BY <2>3, <2>4, <3>1, <3>2
    <2>7. \A i \in 1..Len(kept) : i + drop \in 1..Len(journal)
      BY <2>3, <2>4, <2>6
    <2>8. \A i \in 1..Len(kept) : kept[i].id # r.op
      <3> SUFFICES ASSUME NEW i \in 1..Len(kept)
                   PROVE  kept[i].id # r.op
        OBVIOUS
      <3>1. i + drop \in DOMAIN journal
        BY <2>7, <2>3
      <3>2. QED
        BY <3>1, <2>4 DEF JournalIds
    <2>9. \A i, j \in 1..Len(kept) : kept[i].id = kept[j].id => i = j
      <3> SUFFICES ASSUME NEW i \in 1..Len(kept), NEW j \in 1..Len(kept),
                          kept[i].id = kept[j].id
                   PROVE  i = j
        OBVIOUS
      <3>1. i + drop \in DOMAIN journal /\ j + drop \in DOMAIN journal
        BY <2>7, <2>3
      <3>2. journal[i + drop].id = journal[j + drop].id
        BY <2>4
      <3>3. i + drop = j + drop
        BY <3>1, <3>2 DEF JournalSound
      <3>4. QED
        BY <3>3, <2>6
    <2>10. entry.id = r.op
      BY DEF entry
    <2>11. \A i, j \in 1..(Len(kept) + 1) :
             Append(kept, entry)[i].id = Append(kept, entry)[j].id => i = j
      <3> SUFFICES ASSUME NEW i \in 1..(Len(kept) + 1), NEW j \in 1..(Len(kept) + 1),
                          Append(kept, entry)[i].id = Append(kept, entry)[j].id
                   PROVE  i = j
        OBVIOUS
      <3>1. CASE i \in 1..Len(kept) /\ j \in 1..Len(kept)
        BY <3>1, <2>5, <2>9
      <3>2. CASE i = Len(kept) + 1 /\ j \in 1..Len(kept)
        BY <3>2, <2>5, <2>8, <2>10
      <3>3. CASE i \in 1..Len(kept) /\ j = Len(kept) + 1
        BY <3>3, <2>5, <2>8, <2>10
      <3>4. QED
        BY <3>1, <3>2, <3>3, <2>6
    <2>12. \A i \in 1..(Len(kept) + 1) :
             Append(kept, entry)[i].id = r.op \/ Append(kept, entry)[i].id \in JournalIds
      <3> SUFFICES ASSUME NEW i \in 1..(Len(kept) + 1)
                   PROVE  \/ Append(kept, entry)[i].id = r.op
                          \/ Append(kept, entry)[i].id \in JournalIds
        OBVIOUS
      <3>1. CASE i \in 1..Len(kept)
        <4>1. i + drop \in DOMAIN journal /\ Append(kept, entry)[i] = journal[i + drop]
          BY <3>1, <2>3, <2>4, <2>5, <2>7
        <4>2. QED
          BY <4>1 DEF JournalIds
      <3>2. CASE i = Len(kept) + 1
        BY <3>2, <2>5, <2>10
      <3>3. QED
        BY <3>1, <3>2, <2>6
    <2>13. DOMAIN Append(kept, entry) = 1..(Len(kept) + 1) /\ Len(kept) + 1 \in 1..(Len(kept) + 1)
      BY <2>5, <2>6, LenProperties
    <2>14. QED
      BY <2>2, <2>5, <2>6, <2>10, <2>11, <2>12, <2>13
  <1>3. QED
    BY <1>1, <1>2

\* The journal never holds a request that came without an operation id.
LEMMA UnkeyedUnrecorded ==
  ASSUME TypeOK
  PROVE  NoOp \notin JournalIds
  <1>1. \A i \in DOMAIN journal : journal[i] \in Entries
    BY ElementOfSeq, LenProperties DEF TypeOK
  <1>2. \A i \in DOMAIN journal : journal[i].id \in OpIds
    BY <1>1 DEF Entries
  <1>3. QED
    BY <1>2, AgentAssumption DEF JournalIds

-----------------------------------------------------------------------------
(* The inductive invariant.                                                *)

\* The steps of a handler only make sense to those who know what the earlier
\* steps left behind (HolderInv); with it every conjunct is preserved.
IInv ==
  /\ TypeOK
  /\ Serialized
  /\ HolderInv
  /\ OnlyAccepted
  /\ NoOrphanFallback
  /\ JournalSound

\* A fresh node satisfies it.
LEMMA InitIInv == Init => IInv
  <1> SUFFICES ASSUME Init PROVE IInv
    OBVIOUS
  <1> USE AgentAssumption DEF Init
  <1>1. TypeOK
    BY DEF TypeOK, File, Steps, Replies, NoRequest, Kept
  <1>2. Serialized /\ HolderInv
    BY DEF Serialized, HolderInv, Locked
  <1>3. OnlyAccepted /\ NoOrphanFallback
    BY DEF OnlyAccepted, NoOrphanFallback
  <1>4. JournalSound
    BY DEF JournalSound
  <1>5. QED
    BY <1>1, <1>2, <1>3, <1>4 DEF IInv

\* Only the journal of the next state matters to JournalSound.
LEMMA KeepsJournal ==
  ASSUME JournalSound, UNCHANGED journal
  PROVE  JournalSound'
  BY DEF JournalSound

\* A step of a handler outside the critical section: the files and the lock stay,
\* and the service at most reloads ACTIVE or stops.
LEMMA OutsideStep ==
  ASSUME IInv, NEW t \in Threads, pc[t] \notin Locked,
         NEW s \in Steps \ Locked, NEW q \in Kept, NEW b \in File, NEW x \in Replies,
         pc' = [pc EXCEPT ![t] = s],
         req' = [req EXCEPT ![t] = q],
         base' = [base EXCEPT ![t] = b],
         reply' = [reply EXCEPT ![t] = x],
         UNCHANGED <<active, previous, journal, lock>>,
         running' \in {running, active, NoConfig}
  PROVE  IInv'
  <1> USE DEF IInv
  <1>1. TypeOK'
    BY DEF TypeOK, File
  <1>2. \A u \in Threads : pc'[u] \in Locked <=> pc[u] \in Locked
    BY DEF TypeOK
  <1>3. \A u \in Threads : pc[u] \in Locked =>
          pc'[u] = pc[u] /\ req'[u] = req[u] /\ base'[u] = base[u]
    BY DEF TypeOK
  <1>4. Serialized'
    BY <1>2 DEF Serialized
  <1>5. HolderInv'
    BY <1>2, <1>3 DEF HolderInv, Holder, Forward, Backward, JournalIds
  <1>6. OnlyAccepted' /\ NoOrphanFallback' /\ JournalSound'
    BY KeepsJournal DEF OnlyAccepted, NoOrphanFallback
  <1>7. QED
    BY <1>1, <1>4, <1>5, <1>6

\* A step between two file replacements, by the thread that holds the lock.
LEMMA LockedStep ==
  ASSUME IInv, NEW t \in Threads, pc[t] \in Locked,
         NEW s \in Locked, Goto(t, s),
         UNCHANGED <<journal, lock>>,
         OnlyAccepted', NoOrphanFallback', Holder(t)'
  PROVE  IInv'
  <1> USE DEF IInv, Goto
  <1>1. TypeOK'
    BY AgentAssumption DEF TypeOK, File, OnlyAccepted, Locked, Steps
  <1>2. \A u \in Threads : pc'[u] \in Locked <=> pc[u] \in Locked
    BY DEF TypeOK
  <1>3. Serialized'
    BY <1>2 DEF Serialized
  <1>4. \A u \in Threads : pc[u] \in Locked => u = t
    BY DEF Serialized
  <1>5. HolderInv'
    BY <1>2, <1>4 DEF HolderInv
  <1>6. JournalSound'
    BY KeepsJournal
  <1>7. QED
    BY <1>1, <1>3, <1>5, <1>6

\* The holder of the lock answers: afterwards nobody is inside.
LEMMA LeaveStep ==
  ASSUME IInv, NEW t \in Threads, pc[t] \in Locked,
         NEW x \in Replies, Leave(t, x),
         journal' \in Seq(Entries), JournalSound',
         OnlyAccepted', NoOrphanFallback'
  PROVE  IInv'
  <1> USE DEF IInv, Leave, Answer
  <1>1. TypeOK'
    BY AgentAssumption DEF TypeOK, File, OnlyAccepted, Steps, NoRequest, Kept
  <1>2. \A u \in Threads : pc'[u] \notin Locked
    BY DEF TypeOK, Serialized, Locked
  <1>3. Serialized'
    BY <1>2, AgentAssumption DEF Serialized
  <1>4. HolderInv'
    BY <1>2 DEF HolderInv
  <1>5. QED
    BY <1>1, <1>3, <1>4

\* A handler enters the critical section with its work cut out.
LEMMA EnterStep ==
  ASSUME IInv, NEW t \in Threads, pc[t] = "begin", lock = Free,
         NEW s \in Locked, NEW c \in File, Enter(t, s, c),
         UNCHANGED <<active, previous, journal, running>>,
         req[t].op \notin JournalIds,
         \/ req[t].kind \in {"apply", "update"} /\ s = "backup" /\ c \in Accepted
         \/ req[t].kind = "rollback" /\ s = "install" /\ previous # NoConfig
  PROVE  IInv'
  <1> USE DEF IInv, Enter
  <1>1. TypeOK'
    BY AgentAssumption DEF TypeOK, Locked, Steps, Kept
  <1>2. \A u \in Threads : pc[u] \notin Locked
    BY AgentAssumption DEF Serialized
  <1>3. /\ pc'[t] = s /\ req'[t].kind = req[t].kind /\ req'[t].op = req[t].op
        /\ req'[t].config = c /\ base'[t] = active
    BY DEF TypeOK, Kept
  <1>4. \A u \in Threads : u # t => pc'[u] = pc[u]
    BY DEF TypeOK
  <1>5. Serialized'
    BY <1>2, <1>3, <1>4 DEF Serialized
  <1>6. Holder(t)'
    BY <1>3 DEF Holder, Forward, Backward, OnlyAccepted, NoOrphanFallback, JournalIds
  <1>7. HolderInv'
    BY <1>2, <1>4, <1>6 DEF HolderInv
  <1>8. OnlyAccepted' /\ NoOrphanFallback' /\ JournalSound'
    BY KeepsJournal DEF OnlyAccepted, NoOrphanFallback
  <1>9. QED
    BY <1>1, <1>5, <1>7, <1>8

-----------------------------------------------------------------------------
(* Every action preserves the invariant.                                   *)

\* An answer given outside the critical section.
LEMMA AnswerStep ==
  ASSUME IInv, NEW t \in Threads, pc[t] \notin Locked,
         NEW x \in Replies, Answer(t, x),
         UNCHANGED <<active, previous, journal, lock>>,
         running' \in {running, active, NoConfig}
  PROVE  IInv'
  <1>1. NoRequest \in Kept /\ NoConfig \in File /\ "idle" \in Steps \ Locked
    BY DEF NoRequest, Kept, File, Steps, Locked
  <1>2. QED
    BY <1>1, OutsideStep DEF Answer

\* A request arrives.
LEMMA ReceiveStep ==
  ASSUME IInv, NEW t \in Threads, NEW r \in Requests, Receive(t, r)
  PROVE  IInv'
  <1>1. r \in Kept
    BY DEF Requests, Kept, ServiceKinds, File
  <1>2. PICK s \in {"precheck", "service", "begin"} : pc' = [pc EXCEPT ![t] = s]
    BY DEF Receive
  <1>3. s \in Steps \ Locked /\ pc[t] \notin Locked /\ "none" \in Replies
    BY DEF Steps, Locked, Replies, Receive
  <1>4. base[t] \in File /\ base = [base EXCEPT ![t] = base[t]]
    BY DEF IInv, TypeOK
  <1>5. /\ req' = [req EXCEPT ![t] = r]
        /\ base' = [base EXCEPT ![t] = base[t]]
        /\ reply' = [reply EXCEPT ![t] = "none"]
        /\ UNCHANGED <<active, previous, journal, lock>>
        /\ running' \in {running, active, NoConfig}
    BY <1>4 DEF Receive, files
  <1>6. QED
    BY <1>1, <1>2, <1>3, <1>4, <1>5, OutsideStep

\* The first look at the journal.
LEMMA PrecheckStep ==
  ASSUME IInv, NEW t \in Threads, Precheck(t)
  PROVE  IInv'
  <1>1. pc[t] \notin Locked /\ {"ok", "refused"} \subseteq Replies
    BY DEF Precheck, Locked, Replies
  <1>2. CASE Answer(t, "ok") \/ Answer(t, "refused")
    BY <1>1, <1>2, AnswerStep DEF Precheck, files
  <1>3. CASE Goto(t, "begin")
    <2>1. /\ req[t] \in Kept /\ req = [req EXCEPT ![t] = req[t]]
          /\ base[t] \in File /\ base = [base EXCEPT ![t] = base[t]]
          /\ reply[t] \in Replies /\ reply = [reply EXCEPT ![t] = reply[t]]
      BY DEF IInv, TypeOK
    <2>2. "begin" \in Steps \ Locked
      BY DEF Steps, Locked
    <2>3. /\ pc' = [pc EXCEPT ![t] = "begin"]
          /\ req' = [req EXCEPT ![t] = req[t]]
          /\ base' = [base EXCEPT ![t] = base[t]]
          /\ reply' = [reply EXCEPT ![t] = reply[t]]
          /\ UNCHANGED <<active, previous, journal, lock>>
          /\ running' \in {running, active, NoConfig}
      BY <1>3, <2>1 DEF Precheck, Goto, files
    <2>4. QED
      BY <1>1, <2>1, <2>2, <2>3, OutsideStep
  <1>4. QED
    BY <1>2, <1>3 DEF Precheck

\* An apply is decided under the lock.
LEMMA ApplyBeginStep ==
  ASSUME IInv, NEW t \in Threads, ApplyBegin(t)
  PROVE  IInv'
  <1>1. pc[t] \notin Locked /\ {"ok", "refused", "error"} \subseteq Replies
    BY DEF ApplyBegin, Locked, Replies
  <1>2. CASE /\ Answer(t, "ok") \/ Answer(t, "error") \/ Answer(t, "refused")
             /\ UNCHANGED lock
    BY <1>1, <1>2, AnswerStep DEF ApplyBegin, files
  <1>3. CASE /\ Unrecorded(req[t])
             /\ Validated(req[t].config)
             /\ Enter(t, "backup", req[t].config)
    <2>1. req[t].config \in File /\ "backup" \in Locked
      BY DEF IInv, TypeOK, Kept, Locked
    <2>2. QED
      BY <1>3, <2>1, EnterStep DEF ApplyBegin, CanLock, Validated, Unrecorded, files
  <1>4. QED
    BY <1>2, <1>3 DEF ApplyBegin

\* A rollback is decided under the lock.
LEMMA RollbackBeginStep ==
  ASSUME IInv, NEW t \in Threads, RollbackBegin(t)
  PROVE  IInv'
  <1>1. pc[t] \notin Locked /\ {"ok", "refused"} \subseteq Replies
    BY DEF RollbackBegin, Locked, Replies
  <1>2. CASE (Answer(t, "ok") \/ Answer(t, "refused")) /\ UNCHANGED lock
    BY <1>1, <1>2, AnswerStep DEF RollbackBegin, files
  <1>3. CASE /\ Unrecorded(req[t])
             /\ previous # NoConfig
             /\ Enter(t, "install", NoConfig)
    <2>1. NoConfig \in File /\ "install" \in Locked
      BY DEF File, Locked
    <2>2. QED
      BY <1>3, <2>1, EnterStep DEF RollbackBegin, CanLock, Unrecorded, files
  <1>4. QED
    BY <1>2, <1>3 DEF RollbackBegin

\* An update is decided under the lock.
LEMMA UpdateBeginStep ==
  ASSUME IInv, NEW t \in Threads, UpdateBegin(t)
  PROVE  IInv'
  <1>1. pc[t] \notin Locked /\ {"error", "refused"} \subseteq Replies
    BY DEF UpdateBegin, Locked, Replies
  <1>2. CASE (Answer(t, "error") \/ Answer(t, "refused")) /\ UNCHANGED lock
    BY <1>1, <1>2, AnswerStep DEF UpdateBegin, files
  <1>3. ASSUME NEW c \in Configs, Validated(c), Enter(t, "backup", c)
        PROVE  IInv'
    <2>1. c \in File /\ "backup" \in Locked
      BY DEF File, Locked
    <2>2. req[t].op = NoOp
      BY DEF IInv, TypeOK, Kept, UpdateBegin
    <2>3. NoOp \notin JournalIds
      BY UnkeyedUnrecorded DEF IInv
    <2>4. QED
      BY <1>3, <2>1, <2>2, <2>3, EnterStep DEF UpdateBegin, CanLock, Validated, files
  <1>4. QED
    BY <1>2, <1>3 DEF UpdateBegin

\* What the invariant says of the thread that is about to take a locked step.
LEMMA HolderFacts ==
  ASSUME IInv, NEW t \in Threads, pc[t] \in Locked
  PROVE  /\ Holder(t)
         /\ req[t] \in Kept /\ base[t] \in File
         /\ NoConfig \notin Accepted
         /\ "idle" \in Steps
  BY AgentAssumption DEF IInv, HolderInv, TypeOK, Steps

\* Unchanged locals of the thread and its next step, in the form Holder uses them.
LEMMA GotoLocals ==
  ASSUME TypeOK, NEW t \in Threads, NEW s, Goto(t, s)
  PROVE  /\ pc'[t] = s /\ req'[t] = req[t] /\ base'[t] = base[t]
  BY DEF TypeOK, Goto

\* ACTIVE is copied to PREVIOUS.
LEMMA BackupStep ==
  ASSUME IInv, NEW t \in Threads, Backup(t)
  PROVE  IInv'
  <1>1. pc[t] \in Locked /\ "install" \in Locked
    BY DEF Backup, Locked
  <1>2. Holder(t) /\ NoConfig \notin Accepted
    BY <1>1, HolderFacts
  <1>3. pc'[t] = "install" /\ req'[t] = req[t] /\ base'[t] = base[t]
    BY GotoLocals DEF Backup, IInv
  <1>4. Holder(t)'
    BY <1>2, <1>3 DEF Backup, Holder, Forward, Backward, JournalIds
  <1>5. OnlyAccepted' /\ NoOrphanFallback'
    BY DEF Backup, IInv, OnlyAccepted, NoOrphanFallback
  <1>6. QED
    BY <1>1, <1>4, <1>5, LockedStep DEF Backup

\* ACTIVE is replaced: what goes in was accepted once.
LEMMA InstallStep ==
  ASSUME IInv, NEW t \in Threads, Install(t)
  PROVE  IInv'
  <1>1. pc[t] \in Locked /\ "restart" \in Locked
    BY DEF Install, Locked
  <1>2. Holder(t) /\ NoConfig \notin Accepted
    BY <1>1, HolderFacts
  <1>3. pc'[t] = "restart" /\ req'[t] = req[t] /\ base'[t] = base[t]
    BY GotoLocals DEF Install, IInv
  <1>4. Holder(t)'
    BY <1>2, <1>3 DEF Install, Holder, Forward, Backward, JournalIds
  <1>5. OnlyAccepted' /\ NoOrphanFallback'
    BY <1>2 DEF Install, IInv, OnlyAccepted, NoOrphanFallback, Holder, Forward, Backward
  <1>6. QED
    BY <1>1, <1>4, <1>5, LockedStep DEF Install

\* Leaving without touching the files, whatever the service does.
LEMMA LeaveFiles ==
  ASSUME IInv, NEW t \in Threads, pc[t] \in Locked,
         NEW x \in Replies, Leave(t, x),
         UNCHANGED files, running' \in {running, active, NoConfig}
  PROVE  IInv'
  <1>1. OnlyAccepted' /\ NoOrphanFallback'
    BY DEF IInv, OnlyAccepted, NoOrphanFallback, files
  <1>2. journal' \in Seq(Entries) /\ JournalSound'
    BY KeepsJournal DEF IInv, TypeOK, files
  <1>3. QED
    BY <1>1, <1>2, LeaveStep

\* The service is restarted.
LEMMA RestartStep ==
  ASSUME IInv, NEW t \in Threads, Restart(t)
  PROVE  IInv'
  <1>1. pc[t] \in Locked /\ {"poll", "recover"} \subseteq Locked /\ "error" \in Replies
    BY DEF Restart, Locked, Replies
  <1>2. Holder(t) /\ NoConfig \notin Accepted
    BY <1>1, HolderFacts
  <1>3. OnlyAccepted' /\ NoOrphanFallback'
    BY DEF Restart, RestartAccepted, RestartFails, IInv, OnlyAccepted, NoOrphanFallback, files
  <1>4. CASE RestartAccepted /\ Goto(t, "poll") /\ UNCHANGED lock
    <2>1. pc'[t] = "poll" /\ req'[t] = req[t] /\ base'[t] = base[t]
      BY <1>4, GotoLocals DEF IInv
    <2>2. Holder(t)'
      BY <1>2, <1>4, <2>1
      DEF Restart, RestartAccepted, Holder, Forward, Backward, JournalIds, files
    <2>3. QED
      BY <1>1, <1>3, <1>4, <2>2, LockedStep DEF Restart, files
  <1>5. CASE RestartFails /\ Goto(t, "recover") /\ UNCHANGED lock
    <2>1. pc'[t] = "recover" /\ req'[t] = req[t] /\ base'[t] = base[t]
      BY <1>5, GotoLocals DEF IInv
    <2>2. Holder(t)'
      BY <1>2, <1>5, <2>1 DEF Restart, Holder, Forward, Backward, JournalIds, files
    <2>3. QED
      BY <1>1, <1>3, <1>5, <2>2, LockedStep DEF Restart, files
  <1>6. CASE RestartFails /\ Leave(t, "error")
    BY <1>1, <1>6, LeaveFiles DEF Restart, RestartFails
  <1>7. QED
    BY <1>4, <1>5, <1>6 DEF Restart

\* The service is polled.
LEMMA PollStep ==
  ASSUME IInv, NEW t \in Threads, Poll(t)
  PROVE  IInv'
  <1>1. /\ pc[t] \in Locked /\ {"commit", "swap", "recover"} \subseteq Locked
        /\ {"ok", "error"} \subseteq Replies
    BY DEF Poll, Locked, Replies
  <1>2. Holder(t) /\ NoConfig \notin Accepted
    BY <1>1, HolderFacts
  <1>3. OnlyAccepted' /\ NoOrphanFallback'
    BY DEF Poll, IInv, OnlyAccepted, NoOrphanFallback, files
  <1>4. ASSUME NEW s \in {"commit", "swap", "recover"},
               Goto(t, s), UNCHANGED lock,
               s = "commit" => req[t].kind = "apply",
               s = "swap" => req[t].kind = "rollback"
        PROVE  IInv'
    <2>1. pc'[t] = s /\ req'[t] = req[t] /\ base'[t] = base[t]
      BY <1>4, GotoLocals DEF IInv
    <2>2. Holder(t)'
      BY <1>2, <1>4, <2>1 DEF Poll, Holder, Forward, Backward, JournalIds, files
    <2>3. QED
      BY <1>1, <1>3, <1>4, <2>2, LockedStep DEF Poll, files
  <1>5. ASSUME NEW x \in {"ok", "error"}, Leave(t, x)
        PROVE  IInv'
    BY <1>1, <1>5, LeaveFiles DEF Poll
  <1>6. QED
    BY <1>4, <1>5 DEF Poll

\* ACTIVE is put back as the holder of the lock found it.
LEMMA RecoverStep ==
  ASSUME IInv, NEW t \in Threads, Recover(t)
  PROVE  IInv'
  <1>1. /\ pc[t] \in Locked /\ "restore" \in Locked
        /\ {"recovery_failed", "rolled_back"} \subseteq Replies
    BY DEF Recover, Locked, Replies
  <1>2. Holder(t) /\ NoConfig \notin Accepted
    BY <1>1, HolderFacts
  <1>3. active' = base[t]
    BY <1>2 DEF Recover, RestoredFile, Holder, Forward, Backward
  <1>4. OnlyAccepted' /\ NoOrphanFallback'
    BY <1>2, <1>3
    DEF Recover, IInv, OnlyAccepted, NoOrphanFallback, Holder, Forward, Backward
  <1>5. CASE base[t] # NoConfig /\ Goto(t, "restore") /\ UNCHANGED lock
    <2>1. pc'[t] = "restore" /\ req'[t] = req[t] /\ base'[t] = base[t]
      BY <1>5, GotoLocals DEF IInv
    <2>2. Holder(t)'
      BY <1>2, <1>3, <1>5, <2>1 DEF Recover, Holder, Forward, Backward, JournalIds
    <2>3. QED
      BY <1>1, <1>4, <1>5, <2>2, LockedStep DEF Recover
  <1>6. ASSUME NEW x \in {"recovery_failed", "rolled_back"}, Leave(t, x)
        PROVE  IInv'
    <2>1. journal' \in Seq(Entries) /\ JournalSound'
      BY KeepsJournal DEF Recover, IInv, TypeOK
    <2>2. QED
      BY <1>1, <1>4, <1>6, <2>1, LeaveStep
  <1>7. QED
    BY <1>5, <1>6 DEF Recover

\* The service is restarted after a recovery.
LEMMA RestoreStep ==
  ASSUME IInv, NEW t \in Threads, Restore(t)
  PROVE  IInv'
  <1>1. /\ pc[t] \in Locked
        /\ {"rolled_back", "recovery_failed", "error"} \subseteq Replies
    BY DEF Restore, Locked, Replies
  <1>2. PICK x \in {"rolled_back", "recovery_failed", "error"} : Leave(t, x)
    BY DEF Restore
  <1>3. UNCHANGED files /\ running' \in {running, active, NoConfig}
    BY DEF Restore, RestartFails
  <1>4. QED
    BY <1>1, <1>2, <1>3, LeaveFiles

\* A rollback exchanges the fallback.
LEMMA SwapPreviousStep ==
  ASSUME IInv, NEW t \in Threads, SwapPrevious(t)
  PROVE  IInv'
  <1>1. pc[t] \in Locked /\ "commit" \in Locked
    BY DEF SwapPrevious, Locked
  <1>2. Holder(t) /\ NoConfig \notin Accepted
    BY <1>1, HolderFacts
  <1>3. pc'[t] = "commit" /\ req'[t] = req[t] /\ base'[t] = base[t]
    BY GotoLocals DEF SwapPrevious, IInv
  <1>4. Holder(t)'
    BY <1>2, <1>3 DEF SwapPrevious, Holder, Forward, Backward, JournalIds
  <1>5. OnlyAccepted' /\ NoOrphanFallback'
    BY <1>2
    DEF SwapPrevious, IInv, OnlyAccepted, NoOrphanFallback, Holder, Forward, Backward
  <1>6. QED
    BY <1>1, <1>4, <1>5, LockedStep DEF SwapPrevious

\* The operation is recorded: it was not before.
LEMMA CommitStep ==
  ASSUME IInv, NEW t \in Threads, Commit(t)
  PROVE  IInv'
  <1>1. pc[t] \in Locked /\ "ok" \in Replies
    BY DEF Commit, Locked, Replies
  <1>2. Holder(t) /\ req[t] \in Kept
    BY <1>1, HolderFacts
  <1>3. req[t].kind \in {"apply", "rollback"} /\ req[t].op \notin JournalIds
    BY <1>2 DEF Commit, Holder, Forward
  <1>4. journal' \in Seq(Entries) /\ JournalSound'
    BY <1>2, <1>3, JournalPutFresh DEF IInv, TypeOK, Commit, JournalSound
  <1>5. OnlyAccepted' /\ NoOrphanFallback'
    BY DEF Commit, IInv, OnlyAccepted, NoOrphanFallback
  <1>6. QED
    BY <1>1, <1>4, <1>5, LeaveStep DEF Commit

\* A command reaches the service past the lock.
LEMMA ServiceCommandStep ==
  ASSUME IInv, NEW t \in Threads, ServiceCommand(t)
  PROVE  IInv'
  <1>1. pc[t] \notin Locked /\ {"ok", "refused"} \subseteq Replies
    BY DEF ServiceCommand, Locked, Replies
  <1>2. PICK x \in {"ok", "refused"} : Answer(t, x)
    BY DEF ServiceCommand
  <1>3. /\ UNCHANGED <<active, previous, journal, lock>>
        /\ running' \in {running, active, NoConfig}
    BY DEF ServiceCommand, RestartFails, files
  <1>4. QED
    BY <1>1, <1>2, <1>3, AnswerStep

\* A file replacement raises.
LEMMA IoErrorStep ==
  ASSUME IInv, NEW t \in Threads, IoError(t)
  PROVE  IInv'
  <1>1. pc[t] \in Locked /\ "error" \in Replies
    BY DEF IoError, Locked, Replies
  <1>2. QED
    BY <1>1, LeaveFiles DEF IoError

\* The process dies.
LEMMA CrashStep ==
  ASSUME IInv, Crash
  PROVE  IInv'
  <1> USE DEF Crash, IInv, files
  <1>1. TypeOK'
    BY DEF TypeOK, Steps, Replies, File, Kept, NoRequest
  <1>2. \A t \in Threads : pc'[t] \notin Locked
    BY DEF Locked
  <1>3. Serialized' /\ HolderInv'
    BY <1>2, AgentAssumption DEF Serialized, HolderInv
  <1>4. OnlyAccepted' /\ NoOrphanFallback' /\ JournalSound'
    BY KeepsJournal DEF OnlyAccepted, NoOrphanFallback
  <1>5. QED
    BY <1>1, <1>3, <1>4

\* Every step of the agent preserves the invariant.
LEMMA NextIInv == IInv /\ [Next]_vars => IInv'
  <1> SUFFICES ASSUME IInv, [Next]_vars PROVE IInv'
    OBVIOUS
  <1>1. ASSUME NEW t \in Threads, Acquire(t)
        PROVE  IInv'
    BY <1>1, PrecheckStep, ApplyBeginStep, RollbackBeginStep, UpdateBeginStep DEF Acquire
  <1>2. ASSUME NEW t \in Threads, Work(t)
        PROVE  IInv'
    BY <1>2, BackupStep, InstallStep, RestartStep, PollStep, RecoverStep, RestoreStep,
       SwapPreviousStep, CommitStep, ServiceCommandStep DEF Work
  <1>3. ASSUME NEW t \in Threads, IoError(t)
        PROVE  IInv'
    BY <1>3, IoErrorStep
  <1>4. ASSUME NEW t \in Threads, NEW r \in Requests, Receive(t, r)
        PROVE  IInv'
    BY <1>4, ReceiveStep
  <1>5. CASE Crash
    BY <1>5, CrashStep
  <1>6. CASE UNCHANGED vars
    BY <1>6 DEF vars, IInv, TypeOK, Serialized, HolderInv, Holder, Forward, Backward,
                OnlyAccepted, NoOrphanFallback, JournalSound, JournalIds
  <1>7. QED
    BY <1>1, <1>2, <1>3, <1>4, <1>5, <1>6 DEF Next, Handler

-----------------------------------------------------------------------------
(* The invariants.                                                         *)

\* The inductive invariant holds in every state of every behaviour.
THEOREM Inductive == Spec => []IInv
  BY InitIInv, NextIInv, PTL DEF Spec

\* The variables keep their types and the journal never holds an operation
\* without an id.
THEOREM TypeCorrect == Spec => []TypeOK
  <1>1. IInv => TypeOK
    BY DEF IInv
  <1>2. QED
    BY <1>1, Inductive, PTL

\* core_manager._state_lock serializes every mutation of the files: a handler
\* between two file replacements is the one that holds the lock.
THEOREM MutationsSerialized == Spec => []Serialized
  <1>1. IInv => Serialized
    BY DEF IInv
  <1>2. QED
    BY <1>1, Inductive, PTL

\* At each step under the lock, the files are what the earlier steps of the same
\* handler left, whatever the other threads, service commands and crashes did.
THEOREM HolderUndisturbed == Spec => []HolderInv
  <1>1. IInv => HolderInv
    BY DEF IInv
  <1>2. QED
    BY <1>1, Inductive, PTL

\* No configuration the core's checker did not accept is in force, kept as the
\* fallback or loaded by the service.
THEOREM AcceptedOnly == Spec => []OnlyAccepted
  <1>1. IInv => OnlyAccepted
    BY DEF IInv
  <1>2. QED
    BY <1>1, Inductive, PTL

\* A PREVIOUS file never outlives the last ACTIVE file.
THEOREM FallbackNotOrphaned == Spec => []NoOrphanFallback
  <1>1. IInv => NoOrphanFallback
    BY DEF IInv
  <1>2. QED
    BY <1>1, Inductive, PTL

\* The journal stays within its limit and records no operation twice.
THEOREM JournalBounded == Spec => []JournalSound
  <1>1. IInv => JournalSound
    BY DEF IInv
  <1>2. QED
    BY <1>1, Inductive, PTL

-----------------------------------------------------------------------------
(* The action properties: what a locked step of a thread may be.           *)

\* Only its own steps and a crash change where a thread is.
LEMMA OwnSteps ==
  ASSUME TypeOK, NEW t \in Threads, NEW u \in Threads, t # u,
         Handler(u) \/ \E r \in Requests : Receive(u, r)
  PROVE  pc'[t] = pc[t]
  BY DEF TypeOK, Handler, Acquire, Work, Precheck, ApplyBegin, RollbackBegin, UpdateBegin,
         Backup, Install, Restart, Poll, Recover, Restore, SwapPrevious, Commit,
         ServiceCommand, IoError, Receive, Goto, Leave, Answer, Enter

\* A step that moves a thread inside the critical section is its own work, its
\* own failure or a crash.
LEMMA LockedMove ==
  ASSUME TypeOK, [Next]_vars, NEW t \in Threads, pc[t] \in Locked, pc'[t] # pc[t]
  PROVE  Work(t) \/ IoError(t) \/ Crash
  <1>1. ASSUME NEW u \in Threads, Handler(u) \/ \E r \in Requests : Receive(u, r)
        PROVE  u = t
    BY <1>1, OwnSteps
  <1>2. ~UNCHANGED vars
    BY DEF vars
  <1>3. ~Acquire(t) /\ ~\E r \in Requests : Receive(t, r)
    BY DEF Acquire, Precheck, ApplyBegin, RollbackBegin, UpdateBegin, Receive, Locked
  <1>4. QED
    BY <1>1, <1>2, <1>3 DEF Next, Handler

\* How the holder of the lock comes to answer, and with which answers.
LEMMA Answers ==
  ASSUME TypeOK, [Next]_vars, NEW t \in Threads, pc[t] \in Locked, pc'[t] = "idle",
         reply'[t] \in {"ok", "rolled_back", "recovery_failed"}
  PROVE  \/ Commit(t) /\ reply'[t] = "ok"
         \/ Poll(t) /\ req[t].kind = "update" /\ reply'[t] = "ok"
         \/ Recover(t) /\ base[t] = NoConfig /\ reply'[t] # "ok"
         \/ Restore(t) /\ reply'[t] # "ok"
  <1>1. Work(t) \/ IoError(t) \/ Crash
    <2>1. pc'[t] # pc[t]
      BY DEF Locked
    <2>2. QED
      BY <2>1, LockedMove
  <1>2. ~Crash
    BY DEF Crash
  <1>3. ~IoError(t)
    BY DEF IoError, Leave, Answer, TypeOK
  <1>4. ~(Backup(t) \/ Install(t) \/ SwapPrevious(t) \/ ServiceCommand(t))
    BY DEF Backup, Install, SwapPrevious, ServiceCommand, Goto, Locked, TypeOK
  <1>5. ~Restart(t)
    BY DEF Restart, Goto, Leave, Answer, TypeOK
  <1>6. Commit(t) => reply'[t] = "ok"
    BY DEF Commit, Leave, Answer, TypeOK
  <1>7. Poll(t) => req[t].kind = "update" /\ reply'[t] = "ok"
    BY DEF Poll, Goto, Leave, Answer, TypeOK
  <1>8. Recover(t) => base[t] = NoConfig /\ reply'[t] # "ok"
    BY DEF Recover, Goto, Leave, Answer, TypeOK
  <1>9. Restore(t) => reply'[t] # "ok"
    BY DEF Restore, Leave, Answer, TypeOK
  <1>10. QED
    BY <1>1, <1>2, <1>3, <1>4, <1>5, <1>6, <1>7, <1>8, <1>9 DEF Work

\* An operation recorded in the journal is never carried out again, whatever
\* another thread did between the two looks of core_manager.apply.
THEOREM EffectOnce == Spec => NoEffectTwice
  <1> DEFINE Step == \A t \in Threads :
        pc[t] = "install" /\ pc'[t] = "restart" => req[t].op \notin JournalIds
  <1>1. IInv => Step
    BY DEF IInv, HolderInv, Holder, Locked
  <1>2. IInv => [Step]_vars
    BY <1>1
  <1> HIDE DEF Step
  <1>3. Spec => [][Step]_vars
    BY <1>2, Inductive, PTL
  <1>4. QED
    BY <1>3 DEF Step, NoEffectTwice

\* A change reported as failed leaves the ACTIVE file its handler found.
THEOREM FailureRestored == Spec => FailureRestores
  <1> DEFINE Step == \A t \in Threads :
        /\ pc[t] \in Locked /\ pc'[t] = "idle"
        /\ reply'[t] \in {"rolled_back", "recovery_failed"}
        => active' = base[t]
  <1>1. IInv /\ [Next]_vars => Step
    <2> SUFFICES ASSUME IInv, [Next]_vars, NEW t \in Threads,
                        pc[t] \in Locked, pc'[t] = "idle",
                        reply'[t] \in {"rolled_back", "recovery_failed"}
                 PROVE  active' = base[t]
      OBVIOUS
    <2>1. \/ Recover(t) /\ base[t] = NoConfig
          \/ Restore(t)
      BY Answers DEF IInv
    <2>2. Holder(t)
      BY HolderFacts
    <2>3. CASE Recover(t) /\ base[t] = NoConfig
      BY <2>2, <2>3 DEF Recover, RestoredFile, Holder, Backward
    <2>4. CASE Restore(t)
      BY <2>2, <2>4 DEF Restore, Holder, Forward, Backward, files
    <2>5. QED
      BY <2>1, <2>3, <2>4
  <1>2. IInv /\ [Next]_vars => [Step]_vars
    BY <1>1
  <1> HIDE DEF Step
  <1>3. Spec => [][Step]_vars
    BY <1>2, Inductive, PTL DEF Spec
  <1>4. QED
    BY <1>3 DEF Step, FailureRestores

\* A change is acknowledged with its configuration in ACTIVE, and with no other
\* running, although service commands do not take the lock.
THEOREM AcknowledgedLive == Spec => AckedIsLive
  <1> DEFINE Step == \A t \in Threads :
        /\ pc[t] \in Locked /\ pc'[t] = "idle" /\ reply'[t] = "ok"
        => /\ running' \in {active', NoConfig}
           /\ req[t].kind # "rollback" => active' = req[t].config
  <1>1. IInv /\ [Next]_vars => Step
    <2> SUFFICES ASSUME IInv, [Next]_vars, NEW t \in Threads,
                        pc[t] \in Locked, pc'[t] = "idle", reply'[t] = "ok"
                 PROVE  /\ running' \in {active', NoConfig}
                        /\ req[t].kind # "rollback" => active' = req[t].config
      OBVIOUS
    <2>1. Commit(t) \/ Poll(t)
      BY Answers DEF IInv
    <2>2. pc[t] \in {"commit", "poll"} /\ UNCHANGED <<active, running>>
      BY <2>1 DEF Commit, Poll, files
    <2>3. Holder(t)
      BY HolderFacts
    <2>4. QED
      BY <2>2, <2>3 DEF Holder, Forward
  <1>2. IInv /\ [Next]_vars => [Step]_vars
    BY <1>1
  <1> HIDE DEF Step
  <1>3. Spec => [][Step]_vars
    BY <1>2, Inductive, PTL DEF Spec
  <1>4. QED
    BY <1>3 DEF Step, AckedIsLive

\* A successful change leaves the configuration it replaced as the fallback.
THEOREM AcknowledgedUndoable == Spec => AckedIsUndoable
  <1> DEFINE Step == \A t \in Threads :
        /\ pc[t] \in Locked /\ pc'[t] = "idle" /\ reply'[t] = "ok"
        => previous' = base[t]
  <1>1. IInv /\ [Next]_vars => Step
    <2> SUFFICES ASSUME IInv, [Next]_vars, NEW t \in Threads,
                        pc[t] \in Locked, pc'[t] = "idle", reply'[t] = "ok"
                 PROVE  previous' = base[t]
      OBVIOUS
    <2>1. Commit(t) \/ (Poll(t) /\ req[t].kind = "update")
      BY Answers DEF IInv
    <2>2. /\ pc[t] = "commit" \/ (pc[t] = "poll" /\ req[t].kind = "update")
          /\ UNCHANGED previous
      BY <2>1 DEF Commit, Poll, files
    <2>3. Holder(t)
      BY HolderFacts
    <2>4. QED
      BY <2>2, <2>3 DEF Holder, Forward, Backward
  <1>2. IInv /\ [Next]_vars => [Step]_vars
    BY <1>1
  <1> HIDE DEF Step
  <1>3. Spec => [][Step]_vars
    BY <1>2, Inductive, PTL DEF Spec
  <1>4. QED
    BY <1>3 DEF Step, AckedIsUndoable

-----------------------------------------------------------------------------
(* The agent implements ConfigStore.                                       *)

\* What the callers see while t works in the critical section, and while nobody
\* does.
LEMMA CurrentOf ==
  ASSUME TypeOK, Serialized
  PROVE  /\ \A t \in Threads : pc[t] \in InDoubt => Current = base[t]
         /\ (\A t \in Threads : pc[t] \notin InDoubt) => Current = active
  BY AgentAssumption DEF Serialized, InDoubt, Locked, Current

\* The same of the next state.
LEMMA CurrentAfter ==
  ASSUME TypeOK', Serialized'
  PROVE  /\ \A t \in Threads : pc'[t] \in InDoubt => Current' = base'[t]
         /\ (\A t \in Threads : pc'[t] \notin InDoubt) => Current' = active'
  BY AgentAssumption DEF Serialized, InDoubt, Locked, Current

\* While t is inside, what is in doubt is decided by t alone.
LEMMA Alone ==
  ASSUME Serialized, NEW t \in Threads, pc[t] \in Locked
  PROVE  /\ \A u \in Threads : pc[u] \in InDoubt => u = t
         /\ lock = t
  BY DEF Serialized, InDoubt, Locked

\* A step that neither touches the two files nor moves a thread over the border
\* of InDoubt stutters.
LEMMA Stutter ==
  ASSUME IInv, IInv', UNCHANGED <<active, previous>>,
         \A u \in Threads : /\ pc'[u] \in InDoubt <=> pc[u] \in InDoubt
                            /\ pc[u] \in InDoubt => base'[u] = base[u]
  PROVE  UNCHANGED <<Current, previous>>
  <1>1. CASE \E u \in Threads : pc[u] \in InDoubt
    BY <1>1, CurrentOf, CurrentAfter DEF IInv
  <1>2. CASE \A u \in Threads : pc[u] \notin InDoubt
    BY <1>2, CurrentOf, CurrentAfter DEF IInv
  <1>3. QED
    BY <1>1, <1>2

\* Steps outside the critical section, and the step into it, stutter.
LEMMA OutsideRefines ==
  ASSUME IInv, IInv', NEW t \in Threads,
         \/ Acquire(t)
         \/ \E r \in Requests : Receive(t, r)
         \/ ServiceCommand(t)
  PROVE  UNCHANGED <<Current, previous>>
  <1>1. UNCHANGED <<active, previous>>
    BY DEF Acquire, Precheck, ApplyBegin, RollbackBegin, UpdateBegin, Receive,
           ServiceCommand, files
  <1>2. \A u \in Threads : u # t => pc'[u] = pc[u] /\ base'[u] = base[u]
    BY DEF Acquire, Precheck, ApplyBegin, RollbackBegin, UpdateBegin, Receive,
           ServiceCommand, Answer, Goto, Enter, IInv, TypeOK
  <1>3. pc[t] \notin InDoubt /\ pc'[t] \notin InDoubt
    BY DEF Acquire, Precheck, ApplyBegin, RollbackBegin, UpdateBegin, Receive,
           ServiceCommand, Answer, Goto, Enter, IInv, TypeOK, InDoubt
  <1>4. QED
    BY <1>1, <1>2, <1>3, Stutter

\* A step after which nobody is in doubt, from a change to c that was in doubt:
\* the change counts from here on.
LEMMA Leaving ==
  ASSUME IInv, IInv', NEW t \in Threads, pc[t] \in InDoubt,
         \A u \in Threads : pc'[u] \notin InDoubt
  PROVE  Current = base[t] /\ Current' = active'
  BY CurrentOf, CurrentAfter DEF IInv

\* The holder's own step changes nobody else's place and locals.
LEMMA OthersStay ==
  ASSUME IInv, NEW t \in Threads, pc[t] \in Locked,
         (\E s \in Steps : Goto(t, s)) \/ (\E x \in Replies : Answer(t, x))
  PROVE  \A u \in Threads : u # t => pc'[u] = pc[u] /\ pc'[u] \notin InDoubt
  BY Alone DEF IInv, TypeOK, Goto, Answer, InDoubt

\* Before anything is in doubt: the fallback is overwritten.
LEMMA BackupRefines ==
  ASSUME IInv, IInv', NEW t \in Threads, Backup(t)
  PROVE  Store!Attempt
  <1>1. pc[t] \in Locked /\ pc[t] \notin InDoubt /\ "install" \in Steps \ InDoubt
    BY DEF Backup, Locked, InDoubt, Steps
  <1>2. pc'[t] = "install"
    BY GotoLocals DEF Backup, IInv
  <1>3. \A u \in Threads : pc[u] \notin InDoubt
    BY <1>1, Alone DEF IInv
  <1>4. \A u \in Threads : pc'[u] \notin InDoubt
    BY <1>1, <1>2, OthersStay DEF Backup
  <1>5. Current = active /\ Current' = active'
    BY <1>3, <1>4, CurrentOf, CurrentAfter DEF IInv
  <1>6. QED
    BY <1>5 DEF Backup, Store!Attempt

\* Replacing ACTIVE puts the change in doubt: the old configuration counts.
LEMMA InstallRefines ==
  ASSUME IInv, IInv', NEW t \in Threads, Install(t)
  PROVE  UNCHANGED <<Current, previous>>
  <1>1. pc[t] \in Locked /\ pc[t] \notin InDoubt
    BY DEF Install, Locked, InDoubt
  <1>2. pc'[t] = "restart" /\ base'[t] = base[t]
    BY GotoLocals DEF Install, IInv
  <1>3. \A u \in Threads : pc[u] \notin InDoubt
    BY <1>1, Alone DEF IInv
  <1>4. Current = active /\ Current' = base[t]
    BY <1>2, <1>3, CurrentOf, CurrentAfter DEF IInv, InDoubt
  <1>5. active = base[t]
    BY <1>1, HolderFacts DEF Install, Holder, Forward, Backward
  <1>6. QED
    BY <1>4, <1>5 DEF Install

\* A change whose outcome is known: it is undone, adopted, or (a rollback whose
\* fallback could not be exchanged) has lost the configuration it replaced.
LEMMA DecidedRefines ==
  ASSUME IInv, IInv', NEW t \in Threads, pc[t] \in InDoubt,
         \A u \in Threads : pc'[u] \notin InDoubt,
         UNCHANGED previous,
         active' \in {active, base[t]},
         req[t].kind = "rollback" => (active' = base[t] \/ Faults # {})
  PROVE  UNCHANGED <<Current, previous>> \/ Store!Next
  <1>1. Current = base[t] /\ Current' = active'
    BY Leaving
  <1>2. CASE active' = base[t]
    BY <1>1, <1>2
  <1>3. Holder(t) /\ pc[t] \in {"restart", "poll", "recover", "swap"}
    BY HolderFacts DEF InDoubt, Locked
  <1>4. CASE active' = active /\ req[t].kind # "rollback"
    <2>1. active = req[t].config /\ req[t].config \in Accepted /\ previous = base[t]
      BY <1>3, <1>4 DEF Holder, Forward
    <2>2. Store!Adopt(req[t].config)
      BY <1>1, <1>4, <2>1 DEF Store!Adopt
    <2>3. QED
      BY <2>1, <2>2 DEF Store!Next
  <1>5. CASE active' = active /\ req[t].kind = "rollback" /\ Faults # {}
    <2>1. active = previous /\ previous # NoConfig
      BY <1>3, <1>5 DEF Holder, Backward
    <2>2. Store!LoseCurrent
      BY <1>1, <1>5, <2>1 DEF Store!LoseCurrent
    <2>3. QED
      BY <2>2 DEF Store!Next
  <1>6. QED
    BY <1>2, <1>4, <1>5

\* The restart and the polling of the service.
LEMMA RestartPollRefines ==
  ASSUME IInv, IInv', NEW t \in Threads, Restart(t) \/ Poll(t)
  PROVE  UNCHANGED <<Current, previous>> \/ Store!Next
  <1>1. pc[t] \in Locked /\ pc[t] \in InDoubt
    BY DEF Restart, Poll, Locked, InDoubt
  <1>2. UNCHANGED <<active, previous>>
    BY DEF Restart, Poll, files
  <1>3. CASE \E s \in {"poll", "recover", "swap"} : Goto(t, s)
    <2>1. pc'[t] \in InDoubt /\ base'[t] = base[t]
      BY <1>3, GotoLocals DEF IInv, InDoubt
    <2>2. Current = base[t] /\ Current' = base[t]
      BY <1>1, <2>1, CurrentOf, CurrentAfter DEF IInv
    <2>3. QED
      BY <1>2, <2>2
  <1>4. CASE /\ req[t].kind # "rollback"
             /\ Goto(t, "commit") \/ \E x \in {"ok", "error"} : Leave(t, x)
    <2>1. "commit" \in Steps \ InDoubt /\ "idle" \notin InDoubt /\ {"ok", "error"} \subseteq Replies
      BY DEF Steps, InDoubt, Replies
    <2>2. pc'[t] \notin InDoubt
      BY <1>4, <2>1 DEF Goto, Leave, Answer, IInv, TypeOK
    <2>3. (\E s \in Steps : Goto(t, s)) \/ (\E x \in Replies : Answer(t, x))
      BY <1>4, <2>1 DEF Leave
    <2>4. \A u \in Threads : pc'[u] \notin InDoubt
      BY <1>1, <2>2, <2>3, OthersStay
    <2>5. QED
      BY <1>1, <1>2, <1>4, <2>4, DecidedRefines
  <1>5. QED
    BY <1>3, <1>4 DEF Restart, Poll

\* Putting the old configuration back is invisible to the callers.
LEMMA RecoverRefines ==
  ASSUME IInv, IInv', NEW t \in Threads, Recover(t)
  PROVE  UNCHANGED <<Current, previous>> \/ Store!Next
  <1>1. /\ pc[t] \in Locked /\ pc[t] \in InDoubt
        /\ "restore" \in Steps \ InDoubt /\ "idle" \notin InDoubt
        /\ {"recovery_failed", "rolled_back"} \subseteq Replies
    BY DEF Recover, Locked, InDoubt, Steps, Replies
  <1>2. active' = base[t]
    BY <1>1, HolderFacts DEF Recover, RestoredFile, Holder, Forward, Backward
  <1>3. pc'[t] \notin InDoubt
    BY <1>1 DEF Recover, Goto, Leave, Answer, IInv, TypeOK
  <1>4. (\E s \in Steps : Goto(t, s)) \/ (\E x \in Replies : Answer(t, x))
    BY <1>1 DEF Recover, Leave
  <1>5. \A u \in Threads : pc'[u] \notin InDoubt
    BY <1>1, <1>3, <1>4, OthersStay
  <1>6. UNCHANGED previous
    BY DEF Recover
  <1>7. QED
    BY <1>1, <1>2, <1>5, <1>6, DecidedRefines

\* The exchange of the fallback is where a rollback takes effect.
LEMMA SwapRefines ==
  ASSUME IInv, IInv', NEW t \in Threads, SwapPrevious(t)
  PROVE  Store!Next
  <1>1. /\ pc[t] \in Locked /\ pc[t] \in InDoubt /\ "commit" \in Steps \ InDoubt
    BY DEF SwapPrevious, Locked, InDoubt, Steps
  <1>2. pc'[t] = "commit"
    BY GotoLocals DEF SwapPrevious, IInv
  <1>3. \A u \in Threads : pc'[u] \notin InDoubt
    BY <1>1, <1>2, OthersStay DEF SwapPrevious
  <1>4. Current = base[t] /\ Current' = active'
    BY <1>1, <1>3, Leaving
  <1>5. active = previous /\ previous # NoConfig /\ base[t] # NoConfig
    BY <1>1, HolderFacts DEF SwapPrevious, Holder, Forward, Backward
  <1>6. Store!Swap
    BY <1>4, <1>5 DEF SwapPrevious, Store!Swap
  <1>7. QED
    BY <1>6 DEF Store!Next

\* The bookkeeping and the last restart come after the outcome is known.
LEMMA EpilogueRefines ==
  ASSUME IInv, IInv', NEW t \in Threads, Restore(t) \/ Commit(t)
  PROVE  UNCHANGED <<Current, previous>>
  <1>1. pc[t] \in Locked /\ pc[t] \notin InDoubt /\ "idle" \notin InDoubt
    BY DEF Restore, Commit, Locked, InDoubt
  <1>2. PICK x \in Replies : Answer(t, x)
    BY DEF Restore, Commit, Leave, Replies
  <1>3. pc'[t] = "idle" /\ \A u \in Threads : u # t => pc'[u] = pc[u] /\ base'[u] = base[u]
    BY <1>2 DEF Answer, IInv, TypeOK
  <1>4. UNCHANGED <<active, previous>>
    BY DEF Restore, Commit, files
  <1>5. QED
    BY <1>1, <1>3, <1>4, Stutter

\* A disk error or the death of the process ends a change that is in doubt.
LEMMA FaultRefines ==
  ASSUME IInv, IInv', (\E t \in Threads : IoError(t)) \/ Crash
  PROVE  UNCHANGED <<Current, previous>> \/ Store!Next
  <1>1. UNCHANGED <<active, previous>> /\ Faults # {}
    BY DEF IoError, Crash, files
  <1>2. \A u \in Threads : pc'[u] \notin InDoubt
    <2>1. CASE Crash
      BY <2>1 DEF Crash, InDoubt
    <2>2. ASSUME NEW t \in Threads, IoError(t)
          PROVE  \A u \in Threads : pc'[u] \notin InDoubt
      <3>1. pc[t] \in Locked /\ "error" \in Replies /\ "idle" \notin InDoubt
        BY <2>2 DEF IoError, Locked, Replies, InDoubt
      <3>2. Answer(t, "error")
        BY <2>2 DEF IoError, Leave
      <3>3. pc'[t] = "idle"
        BY <3>2 DEF Answer, IInv, TypeOK
      <3>4. QED
        BY <3>1, <3>2, <3>3, OthersStay
    <2>3. QED
      BY <2>1, <2>2
  <1>3. CASE \E t \in Threads : pc[t] \in InDoubt
    BY <1>1, <1>2, <1>3, DecidedRefines
  <1>4. CASE \A t \in Threads : pc[t] \notin InDoubt
    BY <1>1, <1>2, <1>4, CurrentOf, CurrentAfter DEF IInv
  <1>5. QED
    BY <1>3, <1>4

\* Every step of the agent is a step of the store or invisible to its callers.
LEMMA StepRefines ==
  ASSUME IInv, IInv', [Next]_vars
  PROVE  [Store!Next]_(Store!storeVars)
  <1>1. ASSUME NEW t \in Threads, Handler(t) \/ \E r \in Requests : Receive(t, r)
        PROVE  UNCHANGED <<Current, previous>> \/ Store!Next
    <2>1. CASE Acquire(t) \/ ServiceCommand(t) \/ \E r \in Requests : Receive(t, r)
      BY <2>1, OutsideRefines
    <2>2. CASE Backup(t)
      BY <2>2, BackupRefines DEF Store!Next
    <2>3. CASE Install(t)
      BY <2>3, InstallRefines
    <2>4. CASE Restart(t) \/ Poll(t)
      BY <2>4, RestartPollRefines
    <2>5. CASE Recover(t)
      BY <2>5, RecoverRefines
    <2>6. CASE SwapPrevious(t)
      BY <2>6, SwapRefines
    <2>7. CASE Restore(t) \/ Commit(t)
      BY <2>7, EpilogueRefines
    <2>8. CASE IoError(t)
      BY <2>8, FaultRefines
    <2>9. QED
      BY <1>1, <2>1, <2>2, <2>3, <2>4, <2>5, <2>6, <2>7, <2>8 DEF Handler, Work
  <1>2. CASE Crash
    BY <1>2, FaultRefines DEF Store!storeVars
  <1>3. CASE UNCHANGED vars
    BY <1>3, Stutter DEF vars, Store!storeVars
  <1>4. QED
    BY <1>1, <1>2, <1>3 DEF Next, Store!storeVars

\* The agent implements the two-place store ConfigStore: through every
\* interleaving of handlers, service commands and faults, a configuration comes
\* into force together with its fallback, a rollback exchanges the two, and only
\* a fault can lose the configuration in force.
THEOREM Implements == Spec => StoreSpec
  <1>1. Init => Store!Init
    BY AgentAssumption DEF Init, Store!Init, Current
  <1>2. IInv /\ IInv' /\ [Next]_vars => [Store!Next]_(Store!storeVars)
    BY StepRefines
  <1>3. QED
    BY <1>1, <1>2, Inductive, PTL DEF Spec, StoreSpec, Store!Spec

-----------------------------------------------------------------------------
(* The link on top of the agent.                                           *)

\* Whom the threads serve, and what they were asked.
Linked == \A t \in Threads :
  /\ \/ serving[t] = Nobody /\ pc[t] = "idle"
     \/ serving[t].call \in Calls /\ serving[t].channel \in {"http", "ssh"}
  /\ pc[t] # "idle" =>
       /\ req[t].kind = CallRequest[serving[t].call].kind
       /\ req[t].op = CallRequest[serving[t].call].op

\* t works on c and has not changed anything yet.
Ahead(t, c) == serving[t].call = c /\ pc[t] \notin {"idle", "commit"}

\* The effects of a command and the deliveries that may still have one are no
\* more than the channels it was sent over.
Bounded(c) ==
  /\ effects[c] <= 2
  /\ phase[c] = "new" => effects[c] = 0 /\ \A t \in Threads : serving[t].call # c
  /\ phase[c] \in {"http", "resend"} =>
       /\ effects[c] <= 1
       /\ \A t \in Threads : serving[t].call = c => serving[t].channel = "http"
       /\ \A t \in Threads : Ahead(t, c) => effects[c] = 0
  /\ \A t \in Threads : Ahead(t, c) => effects[c] <= 1
  /\ \A t, u \in Threads : t # u /\ serving[t].call = c /\ serving[u].call = c =>
       serving[t].channel # serving[u].channel
  /\ \A t, u \in Threads : t # u /\ Ahead(t, c) /\ Ahead(u, c) => effects[c] = 0

\* An effect is in the journal, or about to be written to it.
Noted(c) ==
  /\ effects[c] <= 1
  /\ effects[c] = 1 => \/ CallRequest[c].op \in JournalIds
                       \/ \E t \in Threads : serving[t].call = c /\ pc[t] = "commit"

\* What is recorded, about to be recorded, answered or returned took effect.
Effected(c) ==
  /\ \A t \in Threads : serving[t].call = c /\ pc[t] = "commit" => effects[c] >= 1
  /\ OwnId(c) /\ CallRequest[c].kind \in {"apply", "rollback"} =>
       /\ CallRequest[c].op \in JournalIds => effects[c] >= 1
       /\ \A t \in Threads :
            serving[t].call = c /\ pc[t] = "idle" /\ reply[t] = "ok" => effects[c] >= 1
       /\ result[c] = "ok" => effects[c] >= 1

LinkInv ==
  /\ LinkTypeOK
  /\ Linked
  /\ \A c \in Calls : Bounded(c) /\ Effected(c)
  /\ \A c \in Calls \ unnoted : CallRequest[c].op # NoOp => Noted(c)

-----------------------------------------------------------------------------
(* What a step of the agent does to the thread that takes it.              *)

\* Only t moves; its request stays the same until it answers; it reaches the
\* journal with an operation that is unrecorded, and only then is the journal
\* written, with that operation; an apply or a rollback answers "ok" from the
\* journal or from there.
Move(t) ==
  /\ \A u \in Threads : u # t => pc'[u] = pc[u] /\ req'[u] = req[u] /\ reply'[u] = reply[u]
  /\ pc[t] # "idle"
  /\ pc'[t] # "idle" => req'[t].kind = req[t].kind /\ req'[t].op = req[t].op
  /\ pc'[t] = "commit" =>
       /\ pc[t] # "commit" /\ journal' = journal
       /\ req[t].op \notin JournalIds
       /\ \A u \in Threads : u # t => pc[u] # "commit"
  /\ pc[t] = "commit" =>
       /\ pc'[t] = "idle" /\ req[t].op \notin JournalIds
       /\ JournalIds' \subseteq JournalIds \cup {req[t].op}
       /\ journal' = journal \/ (req[t].op # NoOp /\ req[t].op \in JournalIds')
       /\ \A u \in Threads : u # t => pc[u] # "commit"
  /\ pc[t] # "commit" => journal' = journal
  /\ pc'[t] = "idle" /\ reply'[t] = "ok" /\ req[t].kind \in {"apply", "rollback"} =>
       pc[t] = "commit" \/ req[t].op \in JournalIds

\* The thread that holds the lock is the only one that may be at the journal.
LEMMA OthersWait ==
  ASSUME IInv, NEW t \in Threads, pc[t] \in Locked
  PROVE  Holder(t) /\ \A u \in Threads : u # t => pc[u] # "commit"
  BY HolderFacts DEF IInv, Serialized, Locked

\* The first steps of a handler: an answer from the journal, a refusal, or into the files.
LEMMA AcquireMoves ==
  ASSUME IInv, NEW t \in Threads, Acquire(t)
  PROVE  Move(t)
  <1> USE DEF IInv, TypeOK
  <1>1. pc[t] \in {"precheck", "begin"}
    BY DEF Acquire, Precheck, ApplyBegin, RollbackBegin, UpdateBegin
  <1>2. /\ \A u \in Threads : u # t => pc'[u] = pc[u] /\ req'[u] = req[u] /\ reply'[u] = reply[u]
        /\ journal' = journal
    BY DEF Acquire, Precheck, ApplyBegin, RollbackBegin, UpdateBegin, Goto, Answer, Enter, files
  <1>3. /\ pc'[t] \in {"idle", "begin", "backup", "install"}
        /\ pc'[t] # "idle" => req'[t].kind = req[t].kind /\ req'[t].op = req[t].op
    BY DEF Acquire, Precheck, ApplyBegin, RollbackBegin, UpdateBegin, Goto, Answer, Enter, Kept
  <1>4. pc'[t] = "idle" /\ reply'[t] = "ok" /\ req[t].kind \in {"apply", "rollback"} =>
          req[t].op \in JournalIds
    BY DEF Acquire, Precheck, ApplyBegin, RollbackBegin, UpdateBegin, Goto, Answer, Enter,
           Recorded, JournalIds
  <1>5. QED
    BY <1>1, <1>2, <1>3, <1>4 DEF Move

\* The journal is written with the operation of the thread that holds the lock.
LEMMA CommitMoves ==
  ASSUME IInv, NEW t \in Threads, Commit(t)
  PROVE  Move(t)
  <1>1. pc[t] = "commit" /\ journal' = JournalPut(req[t])
    BY DEF Commit
  <1>2. Holder(t) /\ \A u \in Threads : u # t => pc[u] # "commit"
    BY <1>1, OthersWait DEF Locked
  <1>3. req[t].op \notin JournalIds /\ req[t].kind \in {"apply", "rollback"}
    BY <1>1, <1>2 DEF Holder, Forward, Backward
  <1>4. /\ \A i \in DOMAIN journal' : journal'[i].id = req[t].op \/ journal'[i].id \in JournalIds
        /\ req[t].op # NoOp => \E i \in DOMAIN journal' : journal'[i].id = req[t].op
    BY <1>1, <1>3, JournalPutFresh DEF IInv, TypeOK
  <1>5. /\ JournalIds' \subseteq JournalIds \cup {req[t].op}
        /\ req[t].op = NoOp \/ req[t].op \in JournalIds'
    BY <1>4 DEF JournalIds
  <1>6. req[t].op = NoOp => journal' = journal
    BY <1>1, <1>3, Zenon DEF JournalPut
  <1>7. /\ \A u \in Threads : u # t => pc'[u] = pc[u] /\ req'[u] = req[u] /\ reply'[u] = reply[u]
        /\ pc'[t] = "idle"
    BY DEF Commit, Leave, Answer, IInv, TypeOK
  <1>8. QED
    BY <1>1, <1>2, <1>3, <1>5, <1>6, <1>7 DEF Move

\* Between the checks and the journal entry the journal stands still.
LEMMA WorkMoves ==
  ASSUME IInv, NEW t \in Threads, Work(t), ~Commit(t)
  PROVE  Move(t)
  <1> USE DEF IInv, TypeOK
  <1>1. /\ pc[t] \in (Locked \cup {"service"}) \ {"commit"}
        /\ journal' = journal
    BY DEF Work, Backup, Install, Restart, Poll, Recover, Restore, SwapPrevious, ServiceCommand,
           files, Locked
  <1>2. /\ \A u \in Threads : u # t => pc'[u] = pc[u] /\ req'[u] = req[u] /\ reply'[u] = reply[u]
        /\ pc'[t] # "idle" => req'[t] = req[t]
    BY DEF Work, Backup, Install, Restart, Poll, Recover, Restore, SwapPrevious, ServiceCommand,
           Goto, Leave, Answer
  <1>3. pc'[t] = "commit" => pc[t] \in {"poll", "swap"}
    BY DEF Work, Backup, Install, Restart, Poll, Recover, Restore, SwapPrevious, ServiceCommand,
           Goto, Leave, Answer
  <1>4. pc'[t] = "idle" /\ reply'[t] = "ok" => req[t].kind \notin {"apply", "rollback"}
    BY DEF Work, Backup, Install, Restart, Poll, Recover, Restore, SwapPrevious, ServiceCommand,
           Goto, Leave, Answer, ServiceKinds
  <1>5. pc'[t] = "commit" => /\ req[t].op \notin JournalIds
                             /\ \A u \in Threads : u # t => pc[u] # "commit"
    BY <1>1, <1>3, OthersWait DEF Holder, Locked
  <1>6. QED
    BY <1>1, <1>2, <1>4, <1>5 DEF Move, Locked

\* A disk error ends the request with an error and writes nothing to the journal.
LEMMA IoErrorMoves ==
  ASSUME IInv, NEW t \in Threads, IoError(t)
  PROVE  Move(t)
  <1> USE DEF IInv, TypeOK
  <1>1. pc[t] \in Locked /\ journal' = journal /\ pc'[t] = "idle" /\ reply'[t] = "error"
    BY DEF IoError, files, Leave, Answer, Locked
  <1>2. \A u \in Threads : u # t => pc'[u] = pc[u] /\ req'[u] = req[u] /\ reply'[u] = reply[u]
    BY DEF IoError, Leave, Answer
  <1>3. Holder(t) /\ \A u \in Threads : u # t => pc[u] # "commit"
    BY <1>1, OthersWait
  <1>4. JournalIds' = JournalIds
    BY <1>1 DEF JournalIds
  <1>5. QED
    BY <1>1, <1>2, <1>3, <1>4 DEF Move, Holder, Locked

\* Every step of a handler is a Move of its thread.
LEMMA HandlerMoves ==
  ASSUME IInv, NEW t \in Threads, Handler(t)
  PROVE  Move(t)
  BY AcquireMoves, CommitMoves, WorkMoves, IoErrorMoves DEF Handler

-----------------------------------------------------------------------------
(* The link is an environment of the agent.                                *)

\* The master's deliveries are requests the agent may receive.
LEMMA LinkStepsAgent == [LinkNext]_allVars => [Next]_vars
  <1> SUFFICES ASSUME [LinkNext]_allVars PROVE [Next]_vars
    OBVIOUS
  <1>1. ASSUME NEW c \in Calls, HttpSend(c) \/ SshSend(c)
        PROVE  Next
    <2>1. PICK t \in Threads : Receive(t, CallRequest[c])
      BY <1>1 DEF HttpSend, SshSend, Deliver, Payload
    <2>2. CallRequest[c] \in Requests
      BY LinkAssumption
    <2>3. QED
      BY <2>1, <2>2 DEF Next
  <1>2. ASSUME NEW c \in Calls, HttpFails(c) \/ SshFails(c) \/ Return(c)
        PROVE  UNCHANGED vars
    BY <1>2 DEF HttpFails, SshFails, Return
  <1>3. ASSUME NEW t \in Threads, AgentStep(t)
        PROVE  Next
    BY <1>3 DEF AgentStep, Next
  <1>4. ASSUME NEW t \in Threads, Discard(t)
        PROVE  UNCHANGED vars
    BY <1>4 DEF Discard
  <1>5. CASE AgentCrash
    BY <1>5 DEF AgentCrash, Next
  <1>6. CASE UNCHANGED allVars
    BY <1>6 DEF allVars
  <1>7. QED
    BY <1>1, <1>2, <1>3, <1>4, <1>5, <1>6 DEF LinkNext

\* Driven by the master, the agent behaves as AgentConfig says.
THEOREM LinkDrivesAgent == LinkSpec => Spec
  <1>1. LinkInit => Init
    BY DEF LinkInit
  <1>2. QED
    BY <1>1, LinkStepsAgent, PTL DEF LinkSpec, Spec

-----------------------------------------------------------------------------
(* The link's invariant.                                                   *)

\* A thread that serves nobody serves no call.
LEMMA NobodyServed ==
  /\ Nobody \in [call : Calls \cup {NoCall}, channel : Channels]
  /\ \A c \in Calls : Nobody.call # c
  /\ Nobody.call = NoCall /\ NoCall \notin Calls
  BY LinkAssumption DEF Nobody, Channels

\* Before any command was sent there is nothing to relate.
LEMMA LinkInvInit == LinkInit => LinkInv
  <1> SUFFICES ASSUME LinkInit PROVE LinkInv
    OBVIOUS
  <1> USE NobodyServed DEF LinkInit, Init
  <1>1. LinkTypeOK
    BY DEF LinkTypeOK, Phases, Results
  <1>2. Linked
    BY DEF Linked
  <1>3. \A c \in Calls : Bounded(c)
    BY DEF Bounded, Ahead
  <1>4. \A c \in Calls : Effected(c) /\ Noted(c)
    BY DEF Effected, Noted, JournalIds
  <1>5. QED
    BY <1>1, <1>2, <1>3, <1>4 DEF LinkInv

\* A delivery over a channel that the call has not used yet.
LEMMA DeliverStep ==
  ASSUME IInv, LinkInv, NEW c \in Calls, HttpSend(c) \/ SshSend(c)
  PROVE  LinkInv'
  <1> USE DEF LinkInv
  <1>1. PICK t \in Threads, ch \in {"http", "ssh"} :
          /\ ch = "http" => phase[c] = "new"
          /\ ch = "ssh" => phase[c] = "resend"
          /\ serving[t] = Nobody
          /\ Receive(t, CallRequest[c])
          /\ serving' = [serving EXCEPT ![t] = [call |-> c, channel |-> ch]]
          /\ phase' = [phase EXCEPT ![c] = ch]
          /\ UNCHANGED <<result, effects, unnoted>>
    BY DEF HttpSend, SshSend, Deliver, Payload
  <1>2. /\ pc[t] = "idle" /\ pc'[t] \notin {"idle", "commit"}
        /\ req'[t] = CallRequest[c] /\ reply'[t] = "none"
        /\ \A u \in Threads : u # t => pc'[u] = pc[u] /\ req'[u] = req[u] /\ reply'[u] = reply[u]
        /\ JournalIds' = JournalIds
    BY <1>1 DEF Receive, IInv, TypeOK, files, JournalIds
  <1>3. /\ serving'[t] = [call |-> c, channel |-> ch]
        /\ \A u \in Threads : u # t => serving'[u] = serving[u]
        /\ phase'[c] = ch /\ \A d \in Calls : d # c => phase'[d] = phase[d]
    BY <1>1 DEF LinkTypeOK
  <1>4. LinkTypeOK'
    BY <1>1 DEF LinkTypeOK, Phases, Channels
  <1>5. Linked'
    BY <1>2, <1>3 DEF Linked
  <1>6. ASSUME NEW d \in Calls PROVE Bounded(d)'
    <2>1. CASE d # c
      <3>1. \A u \in Threads : serving'[u].call = d => serving'[u] = serving[u]
        BY <1>3, <2>1
      <3>2. phase'[d] = phase[d] /\ effects'[d] = effects[d]
        BY <1>1, <1>3, <2>1
      <3>3. \A u \in Threads : Ahead(u, d)' => Ahead(u, d)
        BY <1>2, <1>3, <2>1 DEF Ahead
      <3>4. QED
        BY <3>1, <3>2, <3>3 DEF Bounded
    <2>2. CASE d = c
      <3>1. \A u \in Threads : u # t =>
              serving'[u] = serving[u] /\ (Ahead(u, c)' => Ahead(u, c) /\ serving[u].call = c)
        BY <1>2, <1>3 DEF Ahead
      <3>2. effects'[c] = effects[c] /\ phase'[c] = ch
        BY <1>1, <1>3
      <3>3. CASE ch = "http"
        <4>1. effects[c] = 0 /\ \A u \in Threads : serving[u].call # c
          BY <1>1, <3>3 DEF Bounded
        <4>2. QED
          BY <1>3, <3>1, <3>2, <3>3, <4>1, <2>2 DEF Bounded
      <3>4. CASE ch = "ssh"
        <4>1. /\ effects[c] <= 1 /\ \A u \in Threads : Ahead(u, c) => effects[c] = 0
              /\ \A u \in Threads : serving[u].call = c => serving[u].channel = "http"
          BY <1>1, <3>4 DEF Bounded
        <4>2. \A u, v \in Threads : u # v /\ serving[u].call = c /\ serving[v].call = c =>
                serving[u].channel # serving[v].channel
          BY DEF Bounded
        <4>3. QED
          BY <1>3, <3>1, <3>2, <3>4, <4>1, <4>2, <2>2 DEF Bounded
      <3>5. QED
        BY <3>3, <3>4
    <2>3. QED
      BY <2>1, <2>2
  <1>7. ASSUME NEW d \in Calls PROVE Effected(d)'
    BY <1>1, <1>2, <1>3, NobodyServed DEF Effected
  <1>8. ASSUME NEW d \in Calls, Noted(d) PROVE Noted(d)'
    BY <1>1, <1>2, <1>3, <1>8, NobodyServed DEF Noted
  <1>9. QED
    BY <1>1, <1>4, <1>5, <1>6, <1>7, <1>8

\* The transport gives up, over HTTP or over SSH.
LEMMA FailsStep ==
  ASSUME LinkInv, NEW c \in Calls, HttpFails(c) \/ SshFails(c)
  PROVE  LinkInv'
  <1> USE DEF LinkInv
  <1>1. /\ UNCHANGED <<vars, serving, effects, unnoted>> /\ JournalIds' = JournalIds
        /\ \A d \in Calls : d # c => phase'[d] = phase[d] /\ result'[d] = result[d]
        /\ \/ phase[c] \in {"new", "http"} /\ phase'[c] = "resend" /\ result'[c] = result[c]
           \/ phase[c] \in {"resend", "ssh"} /\ phase'[c] = "done" /\ result'[c] = "unreachable"
    BY DEF HttpFails, SshFails, Finish, LinkTypeOK, vars, JournalIds
  <1>2. UNCHANGED <<pc, req, reply>>
    BY <1>1 DEF vars
  <1>3. LinkTypeOK'
    BY DEF HttpFails, SshFails, Finish, LinkTypeOK, Phases, Results
  <1>4. Linked'
    BY <1>1, <1>2 DEF Linked
  <1>5. ASSUME NEW d \in Calls PROVE Bounded(d)'
    <2>1. \A t \in Threads : Ahead(t, d)' <=> Ahead(t, d)
      BY <1>1, <1>2 DEF Ahead
    <2>2. \A t \in Threads : Ahead(t, d) => serving[t].call = d
      BY DEF Ahead
    <2>3. CASE d # c
      BY <1>1, <2>1, <2>3 DEF Bounded
    <2>4. CASE d = c
      BY <1>1, <2>1, <2>2, <2>4 DEF Bounded
    <2>5. QED
      BY <2>3, <2>4
  <1>6. ASSUME NEW d \in Calls PROVE Effected(d)'
    BY <1>1, <1>2 DEF Effected
  <1>7. ASSUME NEW d \in Calls, Noted(d) PROVE Noted(d)'
    BY <1>1, <1>2, <1>7 DEF Noted
  <1>8. QED
    BY <1>1, <1>3, <1>4, <1>5, <1>6, <1>7

\* A thread is done with its call: nothing else about the threads changes.
LEMMA ReleasedStep ==
  ASSUME LinkInv, NEW t \in Threads, pc[t] = "idle", serving[t] # Nobody,
         serving' = [serving EXCEPT ![t] = Nobody],
         UNCHANGED <<vars, effects, unnoted>>
  PROVE  /\ serving' \in [Threads -> [call : Calls \cup {NoCall}, channel : Channels]]
         /\ Linked'
         /\ \A d \in Calls : phase'[d] = phase[d] \/ phase'[d] = "done" => Bounded(d)'
         /\ \A d \in Calls : (result'[d] = "ok" => result[d] = "ok" \/ effects[d] >= 1 \/ ~OwnId(d)
                               \/ CallRequest[d].kind \notin {"apply", "rollback"}) => Effected(d)'
         /\ \A d \in Calls : Noted(d) => Noted(d)'
  <1> USE DEF LinkInv
  <1>1. /\ serving'[t] = Nobody /\ \A u \in Threads : u # t => serving'[u] = serving[u]
        /\ UNCHANGED <<pc, req, reply>> /\ JournalIds' = JournalIds
    BY DEF vars, LinkTypeOK, JournalIds
  <1>2. Linked'
    BY <1>1 DEF Linked
  <1>3. ASSUME NEW d \in Calls, phase'[d] = phase[d] \/ phase'[d] = "done" PROVE Bounded(d)'
    <2>1. \A u \in Threads : serving'[u].call = d => serving'[u] = serving[u]
      BY <1>1, NobodyServed
    <2>2. \A u \in Threads : Ahead(u, d)' => Ahead(u, d)
      BY <1>1, NobodyServed DEF Ahead
    <2>3. QED
      BY <1>3, <2>1, <2>2 DEF Bounded
  <1>4. ASSUME NEW d \in Calls,
               result'[d] = "ok" => result[d] = "ok" \/ effects[d] >= 1 \/ ~OwnId(d)
                                    \/ CallRequest[d].kind \notin {"apply", "rollback"}
        PROVE  Effected(d)'
    BY <1>1, <1>4, NobodyServed DEF Effected
  <1>5. ASSUME NEW d \in Calls, Noted(d) PROVE Noted(d)'
    BY <1>1, <1>5, NobodyServed DEF Noted
  <1>6. serving' \in [Threads -> [call : Calls \cup {NoCall}, channel : Channels]]
    BY NobodyServed DEF LinkTypeOK
  <1>7. QED
    BY <1>2, <1>3, <1>4, <1>5, <1>6

\* The caller takes the answer it waits for.
LEMMA ReturnStep ==
  ASSUME LinkInv, NEW c \in Calls, Return(c)
  PROVE  LinkInv'
  <1> USE DEF LinkInv
  <1>1. PICK t \in Threads :
          /\ serving[t] = [call |-> c, channel |-> phase[c]]
          /\ pc[t] = "idle"
          /\ Finish(c, Outcome(phase[c], reply[t]))
          /\ serving' = [serving EXCEPT ![t] = Nobody]
          /\ UNCHANGED <<vars, effects, unnoted>>
    BY DEF Return
  <1>2. serving[t].call = c /\ serving[t] # Nobody /\ phase[c] \in {"http", "ssh"}
    BY <1>1, NobodyServed DEF Linked
  <1>3. Outcome(phase[c], reply[t]) \in Results
        /\ (Outcome(phase[c], reply[t]) = "ok" => reply[t] = "ok")
    BY <1>2 DEF Outcome, Results
  <1>4. /\ \A d \in Calls : phase'[d] = phase[d] \/ phase'[d] = "done"
        /\ \A d \in Calls : d # c => result'[d] = result[d]
        /\ result'[c] = Outcome(phase[c], reply[t])
        /\ phase' \in [Calls -> Phases] /\ result' \in [Calls -> Results]
    BY <1>1, <1>3 DEF Finish, LinkTypeOK, Phases
  <1>5. OwnId(c) /\ CallRequest[c].kind \in {"apply", "rollback"} /\ reply[t] = "ok" => effects[c] >= 1
    BY <1>1, <1>2 DEF Effected
  <1>6. \A d \in Calls : result'[d] = "ok" => result[d] = "ok" \/ effects[d] >= 1 \/ ~OwnId(d)
                                    \/ CallRequest[d].kind \notin {"apply", "rollback"}
    BY <1>3, <1>4, <1>5
  <1>7. QED
    BY <1>1, <1>2, <1>4, <1>6, ReleasedStep DEF LinkTypeOK

\* An answer that nobody waits for is dropped.
LEMMA DiscardStep ==
  ASSUME LinkInv, NEW t \in Threads, Discard(t)
  PROVE  LinkInv'
  <1>1. /\ pc[t] = "idle" /\ serving[t] # Nobody
        /\ serving' = [serving EXCEPT ![t] = Nobody]
        /\ UNCHANGED <<vars, phase, result, effects, unnoted>>
    BY DEF Discard
  <1>2. QED
    BY <1>1, ReleasedStep DEF LinkInv, LinkTypeOK

\* The agent dies: nobody is served, and what was about to be recorded is not.
LEMMA CrashLinkStep ==
  ASSUME IInv, LinkInv, AgentCrash
  PROVE  LinkInv'
  <1> USE DEF LinkInv
  <1>1. /\ pc' = [t \in Threads |-> "idle"] /\ reply' = [t \in Threads |-> "none"]
        /\ serving' = [t \in Threads |-> Nobody]
        /\ unnoted' = unnoted \cup {serving[t].call : t \in {u \in Threads : pc[u] = "commit"}}
        /\ UNCHANGED <<phase, result, effects>> /\ JournalIds' = JournalIds
    BY DEF AgentCrash, Crash, files, JournalIds
  <1>2. LinkTypeOK'
    <2>1. unnoted' \subseteq Calls \cup {NoCall}
      BY <1>1 DEF LinkTypeOK
    <2>2. QED
      BY <1>1, <2>1, NobodyServed DEF LinkTypeOK
  <1>3. Linked'
    BY <1>1 DEF Linked
  <1>4. ASSUME NEW d \in Calls PROVE Bounded(d)' /\ Effected(d)'
    <2>1. \A t \in Threads : serving'[t].call # d /\ ~Ahead(t, d)'
      BY <1>1, NobodyServed DEF Ahead
    <2>2. Bounded(d)'
      BY <1>1, <2>1 DEF Bounded
    <2>3. Effected(d)'
      BY <1>1, <2>1 DEF Effected
    <2>4. QED
      BY <2>2, <2>3
  <1>5. ASSUME NEW d \in Calls \ unnoted', CallRequest[d].op # NoOp PROVE Noted(d)'
    <2>1. d \notin unnoted /\ \A t \in Threads : pc[t] = "commit" => serving[t].call # d
      BY <1>1
    <2>2. Noted(d)
      BY <1>5, <2>1
    <2>3. QED
      BY <1>1, <2>1, <2>2 DEF Noted
  <1>6. QED
    BY <1>2, <1>3, <1>4, <1>5

\* A step of the agent, for the call c that it is about.
LEMMA AgentFacts ==
  ASSUME IInv, LinkInv, NEW t \in Threads, AgentStep(t)
  PROVE  \E c \in Calls :
           /\ serving[t].call = c
           /\ req[t].kind = CallRequest[c].kind /\ req[t].op = CallRequest[c].op
           /\ \A d \in Calls : d # c => effects'[d] = effects[d]
           /\ effects'[c] = IF pc'[t] = "commit" THEN effects[c] + 1 ELSE effects[c]
           /\ effects' = IF pc'[t] = "commit" THEN [effects EXCEPT ![c] = @ + 1] ELSE effects
           /\ Move(t)
           /\ UNCHANGED <<phase, result, serving>>
  <1> USE DEF LinkInv
  <1>1. Move(t)
    BY HandlerMoves DEF AgentStep
  <1>2. pc[t] # "idle"
    BY <1>1 DEF Move
  <1>3. serving[t].call \in Calls /\ serving[t] # Nobody
    BY <1>2, NobodyServed DEF Linked
  <1>4. req[t].kind = CallRequest[serving[t].call].kind /\ req[t].op = CallRequest[serving[t].call].op
    BY <1>2 DEF Linked
  <1>5. effects' = IF pc'[t] = "commit" THEN [effects EXCEPT ![serving[t].call] = @ + 1] ELSE effects
    BY <1>3 DEF AgentStep
  <1>6. effects \in [Calls -> Nat]
    BY DEF LinkTypeOK
  <1>7. UNCHANGED <<phase, result, serving>>
    BY DEF AgentStep
  <1>8. QED
    BY <1>1, <1>3, <1>4, <1>5, <1>6, <1>7

\* Every effect uses up a delivery.
LEMMA AgentStepBounded ==
  ASSUME IInv, LinkInv, NEW t \in Threads, AgentStep(t)
  PROVE  effects' \in [Calls -> Nat] /\ \A d \in Calls : Bounded(d)'
  <1> USE DEF LinkInv
  <1>1. PICK c \in Calls :
           /\ serving[t].call = c
           /\ \A d \in Calls : d # c => effects'[d] = effects[d]
           /\ effects'[c] = IF pc'[t] = "commit" THEN effects[c] + 1 ELSE effects[c]
           /\ effects' = IF pc'[t] = "commit" THEN [effects EXCEPT ![c] = @ + 1] ELSE effects
           /\ Move(t)
           /\ UNCHANGED <<phase, result, serving>>
    BY AgentFacts
  <1>2. /\ \A u \in Threads : u # t => pc'[u] = pc[u]
        /\ pc[t] # "idle" /\ (pc'[t] = "commit" => pc[t] # "commit")
        /\ pc[t] = "commit" => pc'[t] = "idle"
    BY <1>1 DEF Move
  <1>3. \A u \in Threads, d \in Calls : Ahead(u, d)' => Ahead(u, d)
    BY <1>1, <1>2 DEF Ahead
  <1>4. pc'[t] = "commit" => Ahead(t, c) /\ ~Ahead(t, c)'
    BY <1>1, <1>2 DEF Ahead
  <1>5. effects \in [Calls -> Nat]
    BY DEF LinkTypeOK
  <1>6. \A d \in Calls : effects[d] \in 0..2 /\ Bounded(d)
    BY <1>5 DEF Bounded
  <1>7. effects' \in [Calls -> Nat] /\ effects'[c] \in 0..2
    <2>1. CASE pc'[t] = "commit"
      <3>1. effects[c] <= 1
        BY <1>4, <1>6, <2>1 DEF Bounded
      <3>2. effects[c] + 1 \in 0..2
        BY <3>1, <1>6
      <3>3. QED
        BY <1>1, <1>5, <2>1, <3>2
    <2>2. QED
      BY <1>1, <1>5, <1>6, <2>1
  <1>8. ASSUME NEW d \in Calls, effects'[d] = effects[d] PROVE Bounded(d)'
    BY <1>1, <1>3, <1>6, <1>8 DEF Bounded
  <1>9. ASSUME pc'[t] = "commit" PROVE Bounded(c)'
    <2>1. effects'[c] = effects[c] + 1 /\ effects[c] \in 0..2
      BY <1>1, <1>6, <1>9
    <2>2. phase[c] # "new"
      BY <1>1, <1>6 DEF Bounded
    <2>3. \A u \in Threads : Ahead(u, c)' => u # t /\ Ahead(u, c) /\ effects[c] = 0
      BY <1>3, <1>4, <1>6, <1>9 DEF Bounded
    <2>4. phase[c] \in {"http", "resend"} =>
            effects[c] = 0 /\ \A u \in Threads : Ahead(u, c)' => FALSE
      <3> SUFFICES ASSUME phase[c] \in {"http", "resend"}
                   PROVE  effects[c] = 0 /\ \A u \in Threads : Ahead(u, c)' => FALSE
        OBVIOUS
      <3>1. effects[c] = 0
        BY <1>4, <1>6, <1>9 DEF Bounded
      <3>2. serving[t].channel = "http"
        BY <1>1, <1>6 DEF Bounded
      <3>3. ASSUME NEW u \in Threads, Ahead(u, c)' PROVE FALSE
        <4>1. u # t /\ serving[u].call = c
          BY <2>3, <3>3 DEF Ahead
        <4>2. serving[u].channel = "http"
          BY <4>1, <1>6 DEF Bounded
        <4>3. QED
          BY <1>1, <1>6, <3>2, <4>1, <4>2 DEF Bounded
      <3>4. QED
        BY <3>1, <3>3
    <2>5. \A u, v \in Threads : u # v => ~(Ahead(u, c)' /\ Ahead(v, c)')
      <3> SUFFICES ASSUME NEW u \in Threads, NEW v \in Threads, u # v,
                          Ahead(u, c)', Ahead(v, c)'
                   PROVE  FALSE
        OBVIOUS
      <3>1. /\ u # t /\ v # t /\ serving[u].call = c /\ serving[v].call = c
        BY <2>3 DEF Ahead
      <3>2. \A w \in {u, v, t} : serving[w].channel \in {"http", "ssh"}
        BY <1>1, <3>1, NobodyServed DEF Linked
      <3>3. /\ serving[u].channel # serving[v].channel /\ serving[u].channel # serving[t].channel
            /\ serving[v].channel # serving[t].channel
        BY <1>1, <1>6, <3>1 DEF Bounded
      <3>4. QED
        BY <3>2, <3>3
    <2>6. \A u, v \in Threads : u # v /\ serving'[u].call = c /\ serving'[v].call = c =>
            serving'[u].channel # serving'[v].channel
      BY <1>1, <1>6 DEF Bounded
    <2>7. \A u \in Threads : phase[c] \in {"http", "resend"} /\ serving[u].call = c =>
            serving[u].channel = "http"
      BY <1>6 DEF Bounded
    <2>8. effects'[c] <= 2
      BY <1>7
    <2>9. QED
      BY <1>1, <2>1, <2>2, <2>3, <2>4, <2>5, <2>6, <2>7, <2>8 DEF Bounded
  <1>10. QED
    BY <1>1, <1>7, <1>8, <1>9

\* What the journal gains is the operation of the call that has just taken effect.
LEMMA AgentStepEffected ==
  ASSUME IInv, LinkInv, NEW t \in Threads, AgentStep(t), NEW d \in Calls
  PROVE  Effected(d)'
  <1> USE DEF LinkInv
  <1>1. PICK c \in Calls :
           /\ serving[t].call = c
           /\ req[t].kind = CallRequest[c].kind /\ req[t].op = CallRequest[c].op
           /\ \A e \in Calls : e # c => effects'[e] = effects[e]
           /\ effects'[c] = IF pc'[t] = "commit" THEN effects[c] + 1 ELSE effects[c]
           /\ Move(t)
           /\ UNCHANGED <<phase, result, serving>>
    BY AgentFacts
  <1>2. \A e \in Calls : /\ effects[e] \in 0..2 /\ effects'[e] \in 0..2
                         /\ effects'[e] >= effects[e] /\ Effected(e)
    <2>1. \A e \in Calls : /\ effects[e] \in Nat /\ effects'[e] \in Nat
                           /\ effects[e] <= 2 /\ effects'[e] <= 2
      BY AgentStepBounded DEF LinkTypeOK, Bounded
    <2>2. QED
      BY <1>1, <2>1
  <1>3. \A u \in Threads : u # t => pc'[u] = pc[u] /\ reply'[u] = reply[u]
    BY <1>1 DEF Move
  <1>4. \A u \in Threads : serving[u].call = d /\ pc'[u] = "commit" => effects'[d] >= 1
    <2> SUFFICES ASSUME NEW u \in Threads, serving[u].call = d, pc'[u] = "commit"
                 PROVE  effects'[d] >= 1
      OBVIOUS
    <2>1. CASE u = t
      BY <1>1, <1>2, <2>1
    <2>2. CASE u # t
      BY <1>2, <1>3, <2>2 DEF Effected
    <2>3. QED
      BY <2>1, <2>2
  <1>5. ASSUME OwnId(d), CallRequest[d].kind \in {"apply", "rollback"}
        PROVE  /\ CallRequest[d].op \in JournalIds' => effects'[d] >= 1
               /\ \A u \in Threads : serving[u].call = d /\ pc'[u] = "idle" /\ reply'[u] = "ok" =>
                    effects'[d] >= 1
               /\ result[d] = "ok" => effects'[d] >= 1
    <2>1. CallRequest[d].op \in JournalIds => effects[d] >= 1
      BY <1>2, <1>5 DEF Effected
    <2>2. ASSUME CallRequest[d].op \in JournalIds' PROVE effects'[d] >= 1
      <3>1. CASE CallRequest[d].op \in JournalIds
        BY <1>2, <2>1, <3>1
      <3>2. CASE CallRequest[d].op \notin JournalIds
        <4>1. pc[t] = "commit" /\ CallRequest[d].op = CallRequest[c].op
          BY <1>1, <2>2, <3>2 DEF Move, JournalIds
        <4>2. journal' # journal
          BY <2>2, <3>2 DEF JournalIds
        <4>3. CallRequest[d].op # NoOp
          BY <1>1, <4>1, <4>2 DEF Move
        <4>4. c = d
          BY <1>5, <4>1, <4>3 DEF OwnId
        <4>5. QED
          BY <1>1, <1>2, <4>1, <4>4 DEF Effected
      <3>3. QED
        BY <3>1, <3>2
    <2>3. ASSUME NEW u \in Threads, serving[u].call = d, pc'[u] = "idle", reply'[u] = "ok"
          PROVE  effects'[d] >= 1
      <3>1. CASE u # t
        BY <1>2, <1>3, <1>5, <2>3, <3>1 DEF Effected
      <3>2. CASE u = t
        <4>1. c = d
          BY <1>1, <2>3, <3>2
        <4>2. pc[t] = "commit" \/ CallRequest[d].op \in JournalIds
          BY <1>1, <1>5, <2>3, <3>2, <4>1 DEF Move
        <4>3. QED
          BY <1>1, <1>2, <2>1, <4>1, <4>2 DEF Effected
      <3>3. QED
        BY <3>1, <3>2
    <2>4. result[d] = "ok" => effects'[d] >= 1
      BY <1>2, <1>5 DEF Effected
    <2>5. QED
      BY <2>2, <2>3, <2>4
  <1>6. QED
    BY <1>1, <1>4, <1>5 DEF Effected, OwnId

\* A keyed operation reaches the journal's entry once: then it is recorded, or
\* its call is set apart.
LEMMA AgentStepNoted ==
  ASSUME IInv, LinkInv, NEW t \in Threads, AgentStep(t),
         NEW d \in Calls \ unnoted', CallRequest[d].op # NoOp
  PROVE  Noted(d)'
  <1> USE DEF LinkInv
  <1>1. PICK c \in Calls :
           /\ serving[t].call = c
           /\ req[t].kind = CallRequest[c].kind /\ req[t].op = CallRequest[c].op
           /\ \A e \in Calls : e # c => effects'[e] = effects[e]
           /\ effects'[c] = IF pc'[t] = "commit" THEN effects[c] + 1 ELSE effects[c]
           /\ Move(t)
           /\ UNCHANGED <<phase, result, serving>>
    BY AgentFacts
  <1>2. unnoted' = unnoted \cup Missed(t) \cup Dropped
    BY DEF AgentStep
  <1>3. d \notin unnoted /\ Noted(d) /\ effects[d] \in Nat
    BY <1>2 DEF LinkTypeOK
  <1>4. CallRequest[d].op \in JournalIds => CallRequest[d].op \in JournalIds'
    BY <1>2 DEF Dropped
  <1>5. \A u \in Threads : u # t => pc'[u] = pc[u]
    BY <1>1 DEF Move
  <1>6. CASE pc'[t] = "commit"
    <2>1. CASE d = c
      <3>1. CallRequest[d].op \notin JournalIds /\ \A u \in Threads : pc[u] # "commit"
        BY <1>1, <1>6, <2>1 DEF Move
      <3>2. effects[d] = 0
        BY <1>3, <3>1 DEF Noted
      <3>3. QED
        BY <1>1, <1>6, <2>1, <3>2 DEF Noted
    <2>2. CASE d # c
      <3>1. \A u \in Threads : pc[u] # "commit"
        BY <1>1, <1>6 DEF Move
      <3>2. QED
        BY <1>1, <1>3, <1>4, <2>2, <3>1 DEF Noted
    <2>3. QED
      BY <2>1, <2>2
  <1>7. CASE pc'[t] # "commit"
    <2>1. effects'[d] = effects[d]
      BY <1>1, <1>7
    <2>2. ASSUME NEW u \in Threads, serving[u].call = d, pc[u] = "commit"
          PROVE  CallRequest[d].op \in JournalIds' \/ (serving'[u].call = d /\ pc'[u] = "commit")
      <3>1. CASE u # t
        BY <1>1, <1>5, <2>2, <3>1
      <3>2. CASE u = t
        <4>1. journal' # journal
          BY <1>2, <2>2, <3>2 DEF Missed
        <4>2. QED
          BY <1>1, <2>2, <3>2, <4>1 DEF Move
      <3>3. QED
        BY <3>1, <3>2
    <2>3. QED
      BY <1>3, <1>4, <2>1, <2>2 DEF Noted
  <1>8. QED
    BY <1>6, <1>7

\* A step of the agent keeps the invariant of the link.
LEMMA AgentLinkStep ==
  ASSUME IInv, LinkInv, NEW t \in Threads, AgentStep(t)
  PROVE  LinkInv'
  <1> USE DEF LinkInv
  <1>1. PICK c \in Calls :
           /\ serving[t].call = c
           /\ req[t].kind = CallRequest[c].kind /\ req[t].op = CallRequest[c].op
           /\ Move(t)
           /\ UNCHANGED <<phase, result, serving>>
    BY AgentFacts
  <1>2. LinkTypeOK'
    <2>1. unnoted' = unnoted \cup Missed(t) \cup Dropped
      BY DEF AgentStep
    <2>2. Missed(t) \subseteq Calls /\ Dropped \subseteq Calls
      BY <1>1 DEF Missed, Dropped
    <2>3. QED
      BY <1>1, <2>1, <2>2, AgentStepBounded DEF LinkTypeOK
  <1>3. Linked'
    BY <1>1, NobodyServed DEF Move, Linked
  <1>4. QED
    BY <1>2, <1>3, AgentStepBounded, AgentStepEffected, AgentStepNoted

\* The invariant of the link, and what the runs check of it.
LEMMA LinkInvStep == IInv /\ LinkInv /\ [LinkNext]_allVars => LinkInv'
  <1> SUFFICES ASSUME IInv, LinkInv, [LinkNext]_allVars PROVE LinkInv'
    OBVIOUS
  <1>1. CASE UNCHANGED allVars
    BY <1>1 DEF allVars, vars, linkVars, LinkInv, LinkTypeOK, Linked, Bounded, Ahead, Effected,
                Noted, JournalIds
  <1>2. CASE LinkNext
    BY <1>2, DeliverStep, FailsStep, ReturnStep, AgentLinkStep, DiscardStep, CrashLinkStep
       DEF LinkNext
  <1>3. QED
    BY <1>1, <1>2

\* The invariant of the link rests on the one of the agent, which it drives.
LEMMA LinkInductive == LinkSpec => []LinkInv
  <1>1. LinkSpec => []IInv
    BY LinkDrivesAgent, Inductive, PTL
  <1>2. QED
    BY <1>1, LinkInvInit, LinkInvStep, PTL DEF LinkSpec

\* Types of the link's state.
THEOREM LinkTyped == LinkSpec => []LinkTypeOK
  <1>1. LinkInv => LinkTypeOK
    BY DEF LinkInv
  <1>2. QED
    BY <1>1, LinkInductive, PTL

\* A command takes effect no more often than it was sent (OncePerChannel).
THEOREM OnceForEachChannel == LinkSpec => []OncePerChannel
  <1>1. LinkInv => OncePerChannel
    BY DEF LinkInv, LinkTypeOK, Phases, Bounded, OncePerChannel, Deliveries
  <1>2. QED
    BY <1>1, LinkInductive, PTL

\* A keyed command is repeated only when the journal does not hold its effect.
THEOREM KeyedOnce == LinkSpec => []KeyedAtMostOnce
  <1>1. LinkInv => KeyedAtMostOnce
    BY DEF LinkInv, KeyedAtMostOnce, Noted
  <1>2. QED
    BY <1>1, LinkInductive, PTL

\* A success that is reported has taken effect.
THEOREM OkIsTrue == LinkSpec => []OkTookEffect
  <1>1. LinkInv => OkTookEffect
    BY DEF LinkInv, OkTookEffect, Effected
  <1>2. QED
    BY <1>1, LinkInductive, PTL

\* A keyed change that nobody else has the operation id of, that is reported as a
\* success and whose entry the journal was not prevented from keeping took effect
\* exactly once.
THEOREM OkExactlyOnce ==
  LinkSpec => [](\A c \in Calls \ unnoted :
                   /\ result[c] = "ok" /\ CallRequest[c].kind \in {"apply", "rollback"}
                   /\ CallRequest[c].op # NoOp /\ OwnId(c)
                   => effects[c] = 1)
  <1>1. LinkTypeOK /\ KeyedAtMostOnce /\ OkTookEffect =>
          \A c \in Calls \ unnoted :
            /\ result[c] = "ok" /\ CallRequest[c].kind \in {"apply", "rollback"}
            /\ CallRequest[c].op # NoOp /\ OwnId(c)
            => effects[c] = 1
    BY DEF LinkTypeOK, KeyedAtMostOnce, OkTookEffect
  <1>2. QED
    BY <1>1, LinkTyped, KeyedOnce, OkIsTrue, PTL

\* Seen through the link, too, the agent is the two-place store.
THEOREM LinkImplements == LinkSpec => StoreSpec
  BY LinkDrivesAgent, Implements, PTL

-----------------------------------------------------------------------------
(* Without faults.                                                         *)

\* Nothing fails, and the journal has room for every operation id there is.
Benign == Faults = {} /\ IsFiniteSet(OpIds) /\ Cardinality(OpIds) <= JournalLimit

\* An operation that is not recorded finds room in the journal.
LEMMA JournalRoom ==
  ASSUME Benign, journal \in Seq(Entries), JournalSound, NEW op \in OpIds, op \notin JournalIds
  PROVE  Len(journal) < JournalLimit
  <1> DEFINE S == 1..Len(journal)
             T == OpIds \ {op}
             f == [i \in S |-> journal[i].id]
  <1>1. Len(journal) \in Nat /\ DOMAIN journal = 1..Len(journal)
    BY LenProperties
  <1>2. f \in [S -> T] /\ \A i \in S : f[i] = journal[i].id
    <2>1. \A i \in S : journal[i] \in Entries /\ journal[i].id \in JournalIds
      BY <1>1 DEF JournalIds
    <2>2. \A i \in S : journal[i].id \in T
      BY <2>1 DEF Entries
    <2>3. QED
      BY <2>2
  <1>3. IsFiniteSet(S) /\ Cardinality(S) = Len(journal)
    BY <1>1, FS_Interval
  <1>4. IsFiniteSet(T) /\ Cardinality(T) = Cardinality(OpIds) - 1
    BY FS_RemoveElement DEF Benign
  <1>5. Cardinality(OpIds) \in Nat /\ JournalLimit \in Nat
    BY FS_CardinalityType, AgentAssumption DEF Benign
  <1>6. CASE Cardinality(T) < Cardinality(S)
    <2> HIDE DEF f, S, T
    <2>1. \E x, y \in S : x # y /\ f[x] = f[y]
      BY <1>2, <1>3, <1>4, <1>6, FS_PigeonHole
    <2>2. PICK x, y \in S : x # y /\ f[x] = f[y]
      BY <2>1
    <2>3. journal[x].id = journal[y].id
      BY <1>2, <2>2
    <2>4. x \in DOMAIN journal /\ y \in DOMAIN journal
      BY <1>1 DEF S
    <2>5. QED
      BY <2>2, <2>3, <2>4 DEF JournalSound
  <1>7. CASE ~(Cardinality(T) < Cardinality(S))
    BY <1>1, <1>3, <1>4, <1>5, <1>7 DEF Benign
  <1>8. QED
    BY <1>6, <1>7

\* The journal drops nothing, and records every operation that has an id.
LEMMA BenignCommit ==
  ASSUME Benign, IInv, NEW t \in Threads, Handler(t)
  PROVE  /\ JournalIds \subseteq JournalIds'
         /\ pc[t] = "commit" /\ req[t].op # NoOp => journal' # journal
  <1> USE DEF IInv, TypeOK
  <1>1. Move(t)
    BY HandlerMoves
  <1>2. CASE pc[t] # "commit"
    BY <1>1, <1>2 DEF Move, JournalIds
  <1>3. CASE pc[t] = "commit"
    <2>1. Commit(t)
      BY <1>3 DEF Benign, Handler, Acquire, Precheck, ApplyBegin, RollbackBegin, UpdateBegin, Work,
                  Backup, Install, Restart, Poll, Recover, Restore, SwapPrevious, ServiceCommand,
                  IoError
    <2>2. req[t].op \notin JournalIds /\ req[t] \in Kept
      BY <1>1, <1>3 DEF Move
    <2>3. CASE req[t].op = NoOp
      BY <2>1, <2>3, Zenon DEF Commit, JournalPut, JournalIds
    <2>4. CASE req[t].op # NoOp
      <3>1. req[t].op \in OpIds
        BY <2>2, <2>4 DEF Kept
      <3>2. Len(journal) < JournalLimit
        BY <2>2, <3>1, JournalRoom
      <3>3. journal' = Append(journal, [id |-> req[t].op, fp |-> Fingerprint(req[t])])
        BY <2>1, <2>2, <2>4, <3>2, AgentAssumption DEF Commit, JournalPut
      <3>4. /\ DOMAIN journal' = 1..(Len(journal) + 1) /\ DOMAIN journal = 1..Len(journal)
            /\ \A i \in 1..Len(journal) : journal'[i] = journal[i]
            /\ Len(journal') = Len(journal) + 1
        BY <3>3
      <3>5. QED
        BY <3>4 DEF JournalIds
    <2>5. QED
      BY <2>3, <2>4
  <1>4. QED
    BY <1>2, <1>3

\* No command with an operation id is set apart.
AllNoted == \A c \in Calls \cap unnoted : CallRequest[c].op = NoOp

\* No step sets such a command apart where nothing fails.
LEMMA AllNotedStep ==
  ASSUME Benign, IInv, LinkInv, AllNoted, [LinkNext]_allVars
  PROVE  AllNoted'
  <1>1. ASSUME NEW t \in Threads, AgentStep(t) PROVE AllNoted'
    <2>1. Handler(t) /\ unnoted' = unnoted \cup Missed(t) \cup Dropped
      BY <1>1 DEF AgentStep
    <2>2. Dropped = {}
      BY <2>1, BenignCommit DEF Dropped
    <2>3. \A c \in Missed(t) : c \in Calls => CallRequest[c].op = NoOp
      BY <2>1, BenignCommit DEF Missed, LinkInv, Linked
    <2>4. QED
      BY <2>1, <2>2, <2>3 DEF AllNoted
  <1>2. ~AgentCrash
    BY DEF AgentCrash, Crash, Benign
  <1>3. ASSUME unnoted' = unnoted PROVE AllNoted'
    BY <1>3 DEF AllNoted
  <1>4. QED
    BY <1>1, <1>2, <1>3
    DEF LinkNext, HttpSend, SshSend, Deliver, HttpFails, SshFails, Return, Discard, allVars, linkVars

\* Only faults repeat a command: where nothing fails on the agent and the journal
\* has room for every id, a keyed command takes effect once, however late the first
\* answer and however the two deliveries run side by side; a rollback swaps once, as
\* its docstring says.
THEOREM OnlyFaultsRepeat ==
  ASSUME Benign
  PROVE  LinkSpec => [](/\ \A c \in Calls : CallRequest[c].op # NoOp => effects[c] <= 1
                        /\ RollbackSwapsOnce)
  <1>1. LinkInit => AllNoted
    BY DEF LinkInit, AllNoted
  <1>2. IInv /\ LinkInv /\ AllNoted /\ [LinkNext]_allVars => AllNoted'
    BY AllNotedStep
  <1>3. LinkSpec => []IInv
    BY LinkDrivesAgent, Inductive, PTL
  <1>4. AllNoted /\ KeyedAtMostOnce => /\ \A c \in Calls : CallRequest[c].op # NoOp => effects[c] <= 1
                                       /\ RollbackSwapsOnce
    BY DEF AllNoted, KeyedAtMostOnce, RollbackSwapsOnce
  <1>5. QED
    BY <1>1, <1>2, <1>3, <1>4, LinkInductive, KeyedOnce, PTL DEF LinkSpec
=============================================================================

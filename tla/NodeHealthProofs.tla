-------------------------- MODULE NodeHealthProofs --------------------------
(***************************************************************************)
(* What holds of the node statuses and of national mode for any number of  *)
(* nodes and requests and any thresholds, removals and crashes included.   *)
(***************************************************************************)
EXTENDS NodeHealth, TLAPS

-----------------------------------------------------------------------------
(* National mode.                                                          *)

\* The counters count the latest equal findings, as far as they are remembered,
\* and the mode is what they say.
Evidence ==
  /\ \A i \in 1..failures : recent[i] = "cut"
  /\ failures < CounterCap => recent[failures + 1] # "cut"
  /\ \A i \in 1..successes : recent[i] = "reached"
  /\ successes < CounterCap => recent[successes + 1] # "reached"
  /\ NationalEnabled /\ failures >= FailureThreshold => mode = "NATIONAL"
  /\ successes >= RecoveryThreshold => mode = "NORMAL"

\* The new history starts with the new finding and goes on with the old one.
LEMMA Remembered ==
  ASSUME NationalTypeOK, NEW f \in Findings, Remember(f)
  PROVE  /\ recent' \in [1..CounterCap -> Findings]
         /\ recent'[1] = f
         /\ \A i \in 1..CounterCap : i # 1 => recent'[i] = recent[i - 1]
  <1>1. \A i \in 1..CounterCap : i # 1 => i - 1 \in 1..CounterCap
    BY NationalAssumption
  <1>2. 1 \in 1..CounterCap
    BY NationalAssumption
  <1>3. QED
    BY <1>1, <1>2 DEF Remember, NationalTypeOK

\* A poll that reached a node.
LEMMA ReachedStep ==
  ASSUME NationalTypeOK, Evidence, Reached
  PROVE  NationalTypeOK' /\ Evidence'
  <1>1. "reached" \in Findings
    BY DEF Findings
  <1>2. /\ recent' \in [1..CounterCap -> Findings]
        /\ recent'[1] = "reached"
        /\ \A i \in 1..CounterCap : i # 1 => recent'[i] = recent[i - 1]
    BY <1>1, Remembered DEF Reached
  <1>3. /\ failures' = 0
        /\ successes' = IF successes < CounterCap THEN successes + 1 ELSE successes
        /\ mode' = IF mode = "NATIONAL" /\ successes' >= RecoveryThreshold
                   THEN "NORMAL" ELSE mode
    BY DEF Reached, Bumped
  <1>4. NationalTypeOK'
    BY <1>2, <1>3, NationalAssumption DEF NationalTypeOK
  <1>5. \A i \in 1..successes' : recent'[i] = "reached"
    BY <1>2, <1>3, NationalAssumption DEF NationalTypeOK, Evidence
  <1>6. successes' < CounterCap => recent'[successes' + 1] # "reached"
    BY <1>2, <1>3, NationalAssumption DEF NationalTypeOK, Evidence
  <1>7. successes' >= RecoveryThreshold => mode' = "NORMAL"
    BY <1>3, NationalAssumption DEF NationalTypeOK, Evidence
  <1>8. Evidence'
    BY <1>2, <1>3, <1>5, <1>6, <1>7, NationalAssumption DEF Evidence
  <1>9. QED
    BY <1>4, <1>8

\* A poll that found every node cut off.
LEMMA CutStep ==
  ASSUME NationalTypeOK, Evidence, Cut
  PROVE  NationalTypeOK' /\ Evidence'
  <1>1. "cut" \in Findings
    BY DEF Findings
  <1>2. /\ recent' \in [1..CounterCap -> Findings]
        /\ recent'[1] = "cut"
        /\ \A i \in 1..CounterCap : i # 1 => recent'[i] = recent[i - 1]
    BY <1>1, Remembered DEF Cut
  <1>3. /\ successes' = 0
        /\ failures' = IF failures < CounterCap THEN failures + 1 ELSE failures
        /\ mode' = IF NationalEnabled /\ failures' >= FailureThreshold
                   THEN "NATIONAL" ELSE mode
    BY DEF Cut, Bumped
  <1>4. NationalTypeOK'
    BY <1>2, <1>3, NationalAssumption DEF NationalTypeOK
  <1>5. \A i \in 1..failures' : recent'[i] = "cut"
    BY <1>2, <1>3, NationalAssumption DEF NationalTypeOK, Evidence
  <1>6. failures' < CounterCap => recent'[failures' + 1] # "cut"
    BY <1>2, <1>3, NationalAssumption DEF NationalTypeOK, Evidence
  <1>7. NationalEnabled /\ failures' >= FailureThreshold => mode' = "NATIONAL"
    BY <1>3
  <1>8. Evidence'
    BY <1>2, <1>3, <1>5, <1>6, <1>7, NationalAssumption DEF Evidence
  <1>9. QED
    BY <1>4, <1>8

\* The mode agrees with a full run of equal findings.
LEMMA EvidenceRules ==
  ASSUME NationalTypeOK, Evidence
  PROVE  ModeFollowsEvidence
  <1>1. Run(FailureThreshold, "cut") => failures >= FailureThreshold
    BY NationalAssumption DEF NationalTypeOK, Evidence, Run
  <1>2. Run(RecoveryThreshold, "reached") => successes >= RecoveryThreshold
    BY NationalAssumption DEF NationalTypeOK, Evidence, Run
  <1>3. QED
    BY <1>1, <1>2 DEF Evidence, ModeFollowsEvidence

\* And flips only on one.
LEMMA FlipRules ==
  ASSUME NationalTypeOK, Evidence, Reached \/ Cut, mode' # mode
  PROVE  IF mode' = "NATIONAL" THEN Run(FailureThreshold, "cut")'
                               ELSE Run(RecoveryThreshold, "reached")'
  <1>1. Evidence' /\ NationalTypeOK'
    BY ReachedStep, CutStep
  <1>2. CASE Reached
    <2>1. mode' = "NORMAL" /\ successes' >= RecoveryThreshold
      BY <1>2 DEF Reached
    <2>2. QED
      BY <1>1, <2>1, NationalAssumption DEF Evidence, NationalTypeOK, Run
  <1>3. CASE Cut
    <2>1. mode' = "NATIONAL" /\ failures' >= FailureThreshold
      BY <1>3 DEF Cut
    <2>2. QED
      BY <1>1, <2>1, NationalAssumption DEF Evidence, NationalTypeOK, Run
  <1>4. QED
    BY <1>2, <1>3

-----------------------------------------------------------------------------
(* The inductive invariant.                                                *)

\* A node that a row, or the poll's copy of it, shows in service was reached or
\* registered since its last failover.
ArmedInService ==
  \A n \in Nodes : status[n] \in Reachable \/ view[n] \in Reachable => n \in armed

HInv == HealthTypeOK /\ Evidence /\ ArmedInService

\* The master starts with an empty database.
LEMMA InitHInv == HealthInit => HInv
  <1> SUFFICES ASSUME HealthInit PROVE HInv
    OBVIOUS
  <1> USE DEF HealthInit, NationalInit
  <1>1. NationalTypeOK
    BY NationalAssumption DEF NationalTypeOK, Findings
  <1>2. HealthTypeOK
    BY <1>1, NodeAssumption DEF HealthTypeOK, Statuses, NoJob
  <1>3. Evidence
    BY NationalAssumption DEF Evidence
  <1>4. ArmedInService
    BY DEF ArmedInService, Reachable
  <1>5. QED
    BY <1>2, <1>3, <1>4 DEF HInv

\* A step that leaves national mode alone keeps its part of the invariant.
LEMMA NationalStays ==
  ASSUME NationalTypeOK, Evidence, UNCHANGED nationalVars
  PROVE  NationalTypeOK' /\ Evidence'
  BY DEF NationalTypeOK, Evidence, nationalVars

\* The poll forgets what it loaded.
LEMMA Forgotten ==
  ASSUME Forget
  PROVE  /\ view' \in [Nodes -> Statuses] /\ outcome' \in [Nodes -> {"none", "up", "down"}]
         /\ gone' \subseteq Nodes
         /\ view' = [n \in Nodes |-> "ABSENT"]
         /\ \A n \in Nodes : view'[n] \notin Reachable
  BY DEF Forget, Statuses, Reachable

\* A poll starts with the rows as they are.
LEMMA PollBeginStep == ASSUME HInv, PollBegin PROVE HInv'
  <1> USE DEF HInv, PollBegin
  <1>1. NationalTypeOK' /\ Evidence'
    BY NationalStays DEF HealthTypeOK
  <1>2. HealthTypeOK'
    BY <1>1 DEF HealthTypeOK
  <1>3. ArmedInService'
    BY DEF ArmedInService
  <1>4. QED
    BY <1>1, <1>2, <1>3

\* A node is asked.
LEMMA PollNodeStep == ASSUME HInv, NEW n \in Nodes, PollNode(n) PROVE HInv'
  <1> USE DEF HInv, PollNode
  <1>1. NationalTypeOK' /\ Evidence'
    BY NationalStays DEF HealthTypeOK
  <1>2. HealthTypeOK'
    BY <1>1 DEF HealthTypeOK
  <1>3. ArmedInService'
    BY DEF ArmedInService
  <1>4. QED
    BY <1>1, <1>2, <1>3

\* The poll is rolled back.
LEMMA PollAbortStep == ASSUME HInv, PollAbort PROVE HInv'
  <1> USE DEF HInv, PollAbort
  <1>1. NationalTypeOK' /\ Evidence'
    BY NationalStays DEF HealthTypeOK
  <1>2. HealthTypeOK'
    BY <1>1, Forgotten DEF HealthTypeOK
  <1>3. ArmedInService'
    BY Forgotten DEF ArmedInService
  <1>4. QED
    BY <1>1, <1>2, <1>3

\* What a poll that commits does to one row.
LEMMA PolledRow ==
  ASSUME HInv, PollCommit, NEW n \in Nodes
  PROVE  /\ status'[n] \in Statuses
         /\ status'[n] \in {status[n], Polled(n)}
         /\ status'[n] # status[n] => Polled(n) # view[n] /\ n \in Loaded
         /\ n \in Lost => status'[n] \notin Reachable
  <1> USE DEF HInv
  <1>1. status'[n] = IF n \in Loaded \ gone THEN Written(view[n], Polled(n), n)
                     ELSE status[n]
    BY DEF PollCommit
  <1>2. Polled(n) \in Statuses
    BY DEF Polled, Statuses
  <1>3. n \in Lost => n \in Loaded /\ Polled(n) = "OFFLINE" /\ view[n] # "OFFLINE"
    BY DEF Lost, Down, Up, Polled, Reachable
  <1>4. n \in Lost => n \notin gone
    BY <1>3 DEF PollCommit, Stale
  <1>5. QED
    BY <1>1, <1>2, <1>3, <1>4 DEF Written, Reachable, HealthTypeOK

\* The poll's results are written.
LEMMA PollCommitStep == ASSUME HInv, PollCommit PROVE HInv'
  <1> USE DEF HInv
  <1>1. NationalTypeOK' /\ Evidence'
    BY ReachedStep, CutStep DEF HealthTypeOK, PollCommit, UpdateConnectivity
  <1>2. Lost \subseteq Iran /\ Lost \subseteq Nodes /\ Up \subseteq Nodes
    BY NodeAssumption DEF Lost, Down, Up, Loaded
  <1>3. status' \in [Nodes -> Statuses]
    BY PolledRow DEF PollCommit
  <1>4. heard' \in [Nodes -> {"none", "up", "down"}]
    BY DEF PollCommit, HealthTypeOK
  <1>5. HealthTypeOK'
    BY <1>1, <1>2, <1>3, <1>4, Forgotten DEF HealthTypeOK, PollCommit
  <1>6. ASSUME NEW n \in Nodes, status'[n] \in Reachable
        PROVE  n \in armed'
    <2>1. n \notin Lost
      BY <1>6, PolledRow
    <2>2. n \in armed \/ n \in Up
      <3>1. CASE status'[n] = status[n]
        BY <1>6, <3>1 DEF ArmedInService
      <3>2. CASE status'[n] # status[n]
        BY <1>6, <3>2, PolledRow DEF Polled, Reachable
      <3>3. QED
        BY <3>1, <3>2
    <2>3. QED
      BY <2>1, <2>2 DEF PollCommit
  <1>7. ArmedInService'
    BY <1>6, Forgotten DEF ArmedInService, PollCommit
  <1>8. QED
    BY <1>1, <1>5, <1>7

\* One node is handed to the failover.
LEMMA PollFailoverStep == ASSUME HInv, NEW n \in Nodes, PollFailover(n) PROVE HInv'
  <1> USE DEF HInv, PollFailover
  <1>1. NationalTypeOK' /\ Evidence'
    BY NationalStays DEF HealthTypeOK
  <1>2. HealthTypeOK'
    BY <1>1 DEF HealthTypeOK
  <1>3. ArmedInService'
    BY DEF ArmedInService
  <1>4. QED
    BY <1>1, <1>2, <1>3

\* An operator's short request about one row.
LEMMA OperatorStep ==
  ASSUME HInv, NEW n \in Nodes, Register(n) \/ Drain(n) \/ Remove(n)
  PROVE  HInv'
  <1> USE DEF HInv
  <1>1. NationalTypeOK' /\ Evidence'
    BY NationalStays DEF HealthTypeOK, Register, Drain, Remove
  <1>2. /\ status' \in [Nodes -> Statuses]
        /\ armed' \subseteq Nodes
        /\ heard' \in [Nodes -> {"none", "up", "down"}]
        /\ gone' \subseteq Nodes
        /\ UNCHANGED <<link, phase, view, outcome, dropped>>
    BY DEF HealthTypeOK, Register, Drain, Remove, Statuses, pollVars
  <1>3. job' \in [Jobs -> JobRecords \cup {NoJob}]
    <2>1. CASE Register(n) \/ Drain(n)
      BY <2>1 DEF HealthTypeOK, Register, Drain
    <2>2. CASE Remove(n)
      <3>1. \A j \in Jobs : job[j].node = n => job[j] \in JobRecords
        BY NodeAssumption DEF HealthTypeOK, NoJob
      <3>2. \A j \in Jobs : job[j].node = n => [job[j] EXCEPT !.gone = TRUE] \in JobRecords
        BY <3>1 DEF JobRecords
      <3>3. QED
        BY <2>2, <3>2 DEF Remove, HealthTypeOK
    <2>3. QED
      BY <2>1, <2>2
  <1>4. HealthTypeOK'
    BY <1>1, <1>2, <1>3 DEF HealthTypeOK
  <1>5. ArmedInService'
    BY <1>2 DEF ArmedInService, Reachable, Register, Drain, Remove, HealthTypeOK
  <1>6. QED
    BY <1>1, <1>4, <1>5

\* A request loads its row.
LEMMA JobBeginStep ==
  ASSUME HInv, NEW n \in Nodes, NEW j \in Jobs, NEW kind \in JobKinds,
         JobBegin(j, kind, n)
  PROVE  HInv'
  <1> USE DEF HInv
  <1> DEFINE seen == IF kind = "provision" THEN "PROVISIONING" ELSE status[n]
  <1>1. NationalTypeOK' /\ Evidence'
    BY NationalStays DEF HealthTypeOK, JobBegin
  <1>2. seen \in Statuses
    BY DEF HealthTypeOK, Statuses
  <1>3. /\ status' = [status EXCEPT ![n] = seen]
        /\ job' = [job EXCEPT ![j] = [kind |-> kind, node |-> n, view |-> seen,
                                      gone |-> FALSE]]
    BY DEF JobBegin
  <1>4. HealthTypeOK'
    BY <1>1, <1>2, <1>3 DEF HealthTypeOK, JobBegin, pollVars, JobRecords
  <1>5. ArmedInService'
    BY <1>3 DEF ArmedInService, HealthTypeOK, JobBegin, pollVars, Reachable
  <1>6. QED
    BY <1>1, <1>4, <1>5

\* What a request that ends does to its row.
LEMMA EndedRow ==
  ASSUME HInv, NEW j \in Jobs, JobEnd(j)
  PROVE  \E ok \in BOOLEAN :
           /\ job[j].node \in Nodes /\ job[j] \in JobRecords
           /\ status' = IF job[j].gone THEN status
                        ELSE [status EXCEPT ![job[j].node] =
                                Written(job[j].view, JobStatus(job[j], ok), job[j].node)]
           /\ armed' = IF ok /\ job[j].kind # "command" /\ ~job[j].gone
                       THEN armed \cup {job[j].node} ELSE armed
  <1>1. job[j] \in JobRecords
    BY DEF JobEnd, HInv, HealthTypeOK, NoJob
  <1>2. link[job[j].node] \in BOOLEAN
    BY <1>1 DEF HInv, HealthTypeOK, JobRecords
  <1>3. Results(job[j]) \subseteq BOOLEAN
    BY <1>2 DEF Results
  <1>4. QED
    BY <1>1, <1>3 DEF JobEnd, JobRecords

\* A request ends.
LEMMA JobEndStep == ASSUME HInv, NEW j \in Jobs, JobEnd(j) PROVE HInv'
  <1> USE DEF HInv
  <1>1. NationalTypeOK' /\ Evidence'
    BY NationalStays DEF HealthTypeOK, JobEnd
  <1> DEFINE r == job[j]
  <1>2. PICK ok \in BOOLEAN :
          /\ r.node \in Nodes /\ r \in JobRecords
          /\ status' = IF r.gone THEN status
                       ELSE [status EXCEPT ![r.node] = Written(r.view, JobStatus(r, ok), r.node)]
          /\ armed' = IF ok /\ r.kind # "command" /\ ~r.gone
                      THEN armed \cup {r.node} ELSE armed
    BY EndedRow
  <1>3. job' = [job EXCEPT ![j] = NoJob] /\ UNCHANGED <<link, pollVars, heard>>
    BY DEF JobEnd
  <1>4. /\ r.kind \in JobKinds /\ r.view \in Statuses
    BY <1>2 DEF JobRecords
  <1> HIDE DEF r
  <1>5. /\ JobStatus(r, ok) \in Statuses
        /\ JobStatus(r, ok) \in Reachable =>
             JobStatus(r, ok) = r.view \/ (ok /\ r.kind # "command")
    BY <1>4 DEF JobStatus, JobKinds, Statuses, Reachable
  <1>6. status' \in [Nodes -> Statuses] /\ armed' \subseteq Nodes
    BY <1>2, <1>5 DEF HealthTypeOK, Written
  <1>7. HealthTypeOK'
    BY <1>1, <1>3, <1>6 DEF HealthTypeOK, pollVars
  <1>8. ArmedInService'
    BY <1>2, <1>3, <1>5 DEF ArmedInService, HealthTypeOK, Written, pollVars
  <1>9. QED
    BY <1>1, <1>7, <1>8

\* An agent appears or disappears.
LEMMA LinkStep == ASSUME HInv, NEW n \in Nodes, LinkChanges(n) PROVE HInv'
  <1> USE DEF HInv, LinkChanges, pollVars
  <1>1. NationalTypeOK' /\ Evidence'
    BY NationalStays DEF HealthTypeOK
  <1>2. HealthTypeOK'
    BY <1>1 DEF HealthTypeOK
  <1>3. ArmedInService'
    BY DEF ArmedInService
  <1>4. QED
    BY <1>1, <1>2, <1>3

\* The master dies.
LEMMA MasterCrashStep == ASSUME HInv, MasterCrash PROVE HInv'
  <1> USE DEF HInv, MasterCrash
  <1>1. NationalTypeOK' /\ Evidence'
    BY NationalStays DEF HealthTypeOK
  <1>2. HealthTypeOK'
    BY <1>1, Forgotten DEF HealthTypeOK
  <1>3. ArmedInService'
    BY Forgotten DEF ArmedInService
  <1>4. QED
    BY <1>1, <1>2, <1>3

\* Every step preserves the invariant.
LEMMA NextHInv == HInv /\ [HealthNext]_healthVars => HInv'
  <1> SUFFICES ASSUME HInv, [HealthNext]_healthVars PROVE HInv'
    OBVIOUS
  <1>1. CASE Poll
    BY <1>1, PollBeginStep, PollAbortStep, PollCommitStep, PollNodeStep, PollFailoverStep
    DEF Poll
  <1>2. CASE Operators
    BY <1>2, OperatorStep, JobBeginStep DEF Operators
  <1>3. CASE \E j \in Jobs : JobEnd(j)
    BY <1>3, JobEndStep
  <1>4. CASE \E n \in Nodes : LinkChanges(n)
    BY <1>4, LinkStep
  <1>5. CASE MasterCrash
    BY <1>5, MasterCrashStep
  <1>6. CASE UNCHANGED healthVars
    BY <1>6 DEF healthVars, HInv, HealthTypeOK, NationalTypeOK, Evidence, ArmedInService
  <1>7. QED
    BY <1>1, <1>2, <1>3, <1>4, <1>5, <1>6 DEF HealthNext

\* The inductive invariant holds throughout.
THEOREM HealthInductive == HealthSpec => []HInv
  BY InitHInv, NextHInv, PTL DEF HealthSpec

-----------------------------------------------------------------------------
(* What follows.                                                           *)

\* The variables of the master keep their types, and nothing of a poll's session
\* outlives the poll.
THEOREM HealthTypes == HealthSpec => []HealthTypeOK
  <1>1. HInv => HealthTypeOK
    BY DEF HInv
  <1>2. QED
    BY <1>1, HealthInductive, PTL

\* National mode is never behind the evidence of the last polls
\* (national_mode.update_connectivity), for any thresholds.
THEOREM ModeEvident == HealthSpec => []ModeFollowsEvidence
  <1>1. HInv => ModeFollowsEvidence
    BY EvidenceRules DEF HInv, HealthTypeOK
  <1>2. QED
    BY <1>1, HealthInductive, PTL

\* National mode flips only on a full run of equal findings.
THEOREM FlipsJustified == HealthSpec => FlipsAreJustified
  <1> DEFINE Step == mode' # mode =>
        IF mode' = "NATIONAL" THEN Run(FailureThreshold, "cut")'
                              ELSE Run(RecoveryThreshold, "reached")'
  <1>1. HInv /\ [HealthNext]_healthVars => [Step]_nationalVars
    <2> SUFFICES ASSUME HInv, [HealthNext]_healthVars, mode' # mode
                 PROVE  Step
      OBVIOUS
    <2>1. Reached \/ Cut
      BY DEF HealthNext, Poll, Operators, PollBegin, PollAbort, PollCommit, PollNode,
             PollFailover, Register, Drain, Remove, JobBegin, JobEnd, LinkChanges,
             MasterCrash, nationalVars, healthVars, UpdateConnectivity
    <2>2. QED
      BY <2>1, FlipRules DEF HInv, HealthTypeOK
  <1> HIDE DEF Step
  <1>2. HealthSpec => [][Step]_nationalVars
    BY <1>1, HealthInductive, PTL DEF HealthSpec
  <1>3. QED
    BY <1>2 DEF Step, FlipsAreJustified

\* An outage of an Iranian node starts the failover at most once.
THEOREM OneFailover == HealthSpec => OneFailoverPerOutage
  <1> DEFINE Step == dropped' \ dropped \subseteq armed
  <1>1. HInv /\ [HealthNext]_healthVars => [Step]_healthVars
    <2> SUFFICES ASSUME HInv, [HealthNext]_healthVars, NEW n \in dropped' \ dropped
                 PROVE  n \in armed
      OBVIOUS
    <2>1. PollCommit
      BY DEF HealthNext, Poll, Operators, PollBegin, PollAbort, PollNode,
             PollFailover, Register, Drain, Remove, JobBegin, JobEnd, LinkChanges,
             MasterCrash, pollVars, healthVars
    <2>2. n \in Nodes /\ view[n] \in Reachable
      BY <2>1 DEF PollCommit, Lost, Down, Loaded
    <2>3. QED
      BY <2>2 DEF HInv, ArmedInService
  <1> HIDE DEF Step
  <1>2. HealthSpec => [][Step]_healthVars
    BY <1>1, HealthInductive, PTL DEF HealthSpec
  <1>3. QED
    BY <1>2 DEF Step, OneFailoverPerOutage

\* Only requests about a node, and sessions under way before the drain that find the
\* node in another status than the one they loaded, end its drain.
THEOREM DrainKept == HealthSpec => DrainHolds
  <1> DEFINE Step == \A n \in Nodes :
        status[n] = "DRAINING" /\ status'[n] # "DRAINING" => Overtaken(n) \/ Ended(n)
  <1>1. HInv /\ [HealthNext]_healthVars => [Step]_healthVars
    <2> SUFFICES ASSUME HInv, [HealthNext]_healthVars, NEW n \in Nodes,
                        status[n] = "DRAINING", status'[n] # "DRAINING"
                 PROVE  Overtaken(n) \/ Ended(n)
      OBVIOUS
    <2>1. CASE PollCommit
      <3>1. /\ n \in Loaded \ gone /\ status'[n] = Polled(n) /\ Polled(n) # view[n]
            /\ phase = "polling" /\ Unasked = {}
        BY <2>1 DEF PollCommit, Written
      <3>2. outcome[n] \in {"up", "down"} /\ (n \in Up <=> outcome[n] = "up")
        BY <3>1 DEF Unasked, Up, HInv, HealthTypeOK
      <3>3. QED
        BY <3>1, <3>2 DEF Polled, Overtaken, Found
    <2>2. ASSUME NEW j \in Jobs, JobEnd(j)
          PROVE  Overtaken(n) \/ Ended(n)
      <3> DEFINE r == job[j]
      <3>1. PICK ok \in Results(r) :
              status' = IF r.gone THEN status
                        ELSE [status EXCEPT ![r.node] =
                                Written(r.view, JobStatus(r, ok), r.node)]
        BY <2>2 DEF JobEnd
      <3>2. r \in JobRecords /\ job'[j] = NoJob
        BY <2>2 DEF JobEnd, HInv, HealthTypeOK, NoJob
      <3>3. r.node = n /\ status'[n] = JobStatus(r, ok) /\ JobStatus(r, ok) # r.view
        BY <3>1, <3>2 DEF Written, HInv, HealthTypeOK, JobRecords
      <3>4. CASE r.kind = "probe"
        <4>1. ok = link[n] /\ r.view # "DRAINING" /\ JobStatus(r, ok) = Found(link[n])
          BY <3>1, <3>3, <3>4 DEF JobStatus, Results, Found
        <4>2. QED
          BY <3>2, <3>3, <3>4, <4>1 DEF Overtaken
      <3>5. CASE r.kind # "probe"
        BY <3>2, <3>3, <3>5 DEF JobStatus, JobRecords, JobKinds, Ended
      <3>6. QED
        BY <3>4, <3>5
    <2>3. ASSUME NEW m \in Nodes, Register(m) \/ Remove(m)
          PROVE  Ended(n)
      BY <2>3 DEF Register, Remove, Ended, HInv, HealthTypeOK
    <2>4. QED
      BY <2>1, <2>2, <2>3 DEF HealthNext, Poll, Operators, PollBegin, PollAbort, PollNode,
         PollFailover, Drain, JobBegin, LinkChanges, MasterCrash, Present, healthVars,
         HInv, HealthTypeOK
  <1> HIDE DEF Step
  <1>2. HealthSpec => [][Step]_healthVars
    BY <1>1, HealthInductive, PTL DEF HealthSpec
  <1>3. QED
    BY <1>2 DEF Step, DrainHolds
=============================================================================

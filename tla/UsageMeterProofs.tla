-------------------------- MODULE UsageMeterProofs --------------------------
(***************************************************************************)
(* What is proved of the billing of traffic for any nodes, clients, users   *)
(* and traffic: its types, and that nobody is billed for more than a node   *)
(* has carried, except for nodes whose row was deleted.                     *)
(*                                                                         *)
(* NeverOverbilled alone is not inductive.  What is kept is that a bill and *)
(* the traffic that is still to be billed fit together into what the node   *)
(* has carried, both for the rows and for the objects of the poll's         *)
(* session, each against the counter value it will be billed from.          *)
(***************************************************************************)
EXTENDS UsageMeter, TLAPS

\* x bytes are billed for node n, whose counter was seen at the given value.
Within(x, n, seen) == x + Delta(counter[n], seen) <= carried[n]

\* What the next delta of a node is counted from, once the poll has committed.
Seen(n) == IF n \in answered THEN view[n] ELSE recorded[n]

\* The counters; what the poll has loaded; rows that do not exist owe nothing.
CountersInv ==
  \A n \in Nodes :
    /\ counter[n] <= carried[n]
    /\ n \notin removed =>
         /\ n \notin gone
         /\ n \in unasked => n \in nodes /\ n \notin answered /\ view[n] = recorded[n]
         /\ n \in answered => n \in nodes

\* One account and its copy in the session, for a node never removed.
Account(x, copy, n) ==
  n \notin removed =>
    /\ Within(x, n, recorded[n])
    /\ Within(copy, n, Seen(n))
    /\ n \notin nodes => x = 0 /\ copy = 0

AccountsInv ==
  \A n \in Nodes :
    /\ \A c \in Clients : Account(used[c][n], Tally(c)[n], n)
    /\ \A u \in Users : Account(spent[u][n], UserTally(u)[n], n)

UsageInv == UsageTypeOK /\ CountersInv /\ AccountsInv

-----------------------------------------------------------------------------
(* Types.                                                                  *)

LEMMA NoBytesType == NoBytes \in Meters
  BY DEF NoBytes, Meters

LEMMA DeltaType == ASSUME NEW a \in Nat, NEW b \in Nat PROVE Delta(a, b) \in Nat
  BY DEF Delta

\* The usage a session sees is well typed.
LEMMA TallyType ==
  ASSUME UsageTypeOK
  PROVE  /\ \A c \in Clients : Tally(c) \in Meters
         /\ \A u \in Users : UserTally(u) \in Meters
  BY DEF UsageTypeOK, Tally, UserTally

\* Adding to one node's share of a meter gives a meter.
LEMMA MeterAdd ==
  ASSUME NEW m \in Meters, NEW n \in Nodes, NEW d \in Nat
  PROVE  [m EXCEPT ![n] = @ + d] \in Meters
  BY DEF Meters

LEMMA PollNodeType ==
  ASSUME UsageTypeOK, NEW n \in Nodes, NEW up \in BOOLEAN, PollNode(n, up)
  PROVE  UsageTypeOK'
<1> DEFINE delta == IF up THEN Delta(counter[n], view[n]) ELSE 0
           billed == Billed(n, delta)
           payers == Payers(billed)
<1>0. counter[n] \in Nat /\ view[n] \in Nat
  BY DEF UsageTypeOK, Meters
<1>1. delta \in Nat
  BY <1>0, DeltaType
<1>2. billed \subseteq Clients /\ payers \subseteq Users
  BY UsageAssumption DEF Billed, Payers
<1>3. tally' \in [Clients -> Meters]
  <2>1. \A c \in Clients : [Tally(c) EXCEPT ![n] = @ + delta] \in Meters
    BY TallyType, MeterAdd, <1>1
  <2>2. tally' = [c \in Clients |-> IF c \in billed THEN [Tally(c) EXCEPT ![n] = @ + delta]
                                    ELSE tally[c]]
    BY DEF PollNode
  <2> QED
    BY <2>1, <2>2 DEF UsageTypeOK
<1>4. utally' \in [Users -> Meters]
  <2>1. \A u \in Users : [UserTally(u) EXCEPT ![n] = @ + delta] \in Meters
    BY TallyType, MeterAdd, <1>1
  <2>2. utally' = [u \in Users |-> IF u \in payers THEN [UserTally(u) EXCEPT ![n] = @ + delta]
                                   ELSE utally[u]]
    BY DEF PollNode
  <2> QED
    BY <2>1, <2>2 DEF UsageTypeOK
<1>5. held' \subseteq Clients /\ uheld' \subseteq Users
  BY <1>2 DEF PollNode, UsageTypeOK
<1>6. view' \in Meters /\ unasked' \subseteq Nodes /\ answered' \subseteq Nodes
  BY <1>0 DEF PollNode, UsageTypeOK, Meters
<1>7. keys' \in [Clients -> SUBSET Nodes]
  BY DEF PollNode, UsageTypeOK, Keys
<1> QED
  BY <1>3, <1>4, <1>5, <1>6, <1>7 DEF PollNode, UsageTypeOK, rowVars, historyVars

LEMMA TypeStep == UsageTypeOK /\ [UsageNext]_usageVars => UsageTypeOK'
<1> SUFFICES ASSUME UsageTypeOK, [UsageNext]_usageVars PROVE UsageTypeOK'
  OBVIOUS
<1> USE NoBytesType
<1>1. CASE PollBegin
  BY <1>1 DEF PollBegin, UsageTypeOK, rowVars
<1>2. CASE PollCommit
  BY <1>2 DEF PollCommit, Forget, UsageTypeOK, Meters, historyVars
<1>3. CASE PollAbort
  BY <1>3 DEF PollAbort, Forget, UsageTypeOK, rowVars, historyVars
<1>4. ASSUME NEW n \in Nodes, NodeStep(n) PROVE UsageTypeOK'
  <2>1. ASSUME NEW up \in BOOLEAN, PollNode(n, up) PROVE UsageTypeOK'
    BY <2>1, PollNodeType
  <2>2. CASE Register(n)
    BY <2>2 DEF Register, UsageTypeOK, Meters, pollVars, historyVars
  <2>3. CASE Remove(n)
    BY <2>3 DEF Remove, UsageTypeOK, Meters
  <2>4. CASE Traffic(n)
    BY <2>4 DEF Traffic, UsageTypeOK, Meters, pollVars, rowVars
  <2>5. CASE Reboot(n)
    BY <2>5 DEF Reboot, UsageTypeOK, Meters, pollVars, rowVars, historyVars
  <2> QED
    BY <1>4, <2>1, <2>2, <2>3, <2>4, <2>5 DEF NodeStep
<1>5. ASSUME NEW c \in Clients, ClientStep(c) PROVE UsageTypeOK'
  <2>1. ASSUME NEW list \in NodeLists, CreateClient(c, list) PROVE UsageTypeOK'
    BY <2>1, UsageAssumption DEF CreateClient, UsageTypeOK, pollVars
  <2>2. ASSUME NEW list \in NodeLists, NEW state \in {"ENABLED", "DISABLED"},
               UpdateClient(c, state, list)
        PROVE  UsageTypeOK'
    BY <2>2, UsageAssumption DEF UpdateClient, UsageTypeOK, pollVars
  <2>3. CASE ResetTraffic(c)
    BY <2>3, UsageAssumption DEF ResetTraffic, UsageTypeOK, pollVars
  <2>4. CASE DeleteClient(c)
    BY <2>4 DEF DeleteClient, UsageTypeOK, pollVars
  <2> QED
    BY <1>5, <2>1, <2>2, <2>3, <2>4 DEF ClientStep
<1>6. CASE UNCHANGED usageVars
  BY <1>6 DEF usageVars, UsageTypeOK
<1> QED
  BY <1>1, <1>2, <1>3, <1>4, <1>5, <1>6 DEF UsageNext

LEMMA TypeInit == UsageInit => UsageTypeOK
  BY NoBytesType DEF UsageInit, UsageTypeOK

\* The state of the meters keeps its types, for any constants.
THEOREM UsageTyped == UsageSpec => []UsageTypeOK
<1>1. UsageTypeOK /\ [UsageNext]_usageVars => UsageTypeOK'
  BY TypeStep
<1> QED
  BY TypeInit, <1>1, PTL DEF UsageSpec

-----------------------------------------------------------------------------
(* Nobody is billed for more than a node has carried.                      *)

\* Delta as arithmetic.
LEMMA DeltaIs ==
  ASSUME NEW a \in Nat, NEW b \in Nat
  PROVE  Delta(a, b) \in Nat /\ Delta(a, a) = 0
  BY DEF Delta

\* The values the meters and the session hold, as numbers.
LEMMA Numbers ==
  ASSUME UsageTypeOK, NEW n \in Nodes
  PROVE  /\ counter[n] \in Nat /\ recorded[n] \in Nat /\ view[n] \in Nat
         /\ carried[n] \in Nat /\ Seen(n) \in Nat
         /\ \A c \in Clients : used[c][n] \in Nat /\ Tally(c)[n] \in Nat
         /\ \A u \in Users : spent[u][n] \in Nat /\ UserTally(u)[n] \in Nat
<1>1. /\ counter[n] \in Nat /\ recorded[n] \in Nat /\ view[n] \in Nat
      /\ carried[n] \in Nat /\ Seen(n) \in Nat
  BY DEF UsageTypeOK, Meters, Seen
<1>2. ASSUME NEW c \in Clients PROVE used[c][n] \in Nat /\ Tally(c)[n] \in Nat
  BY TallyType DEF UsageTypeOK, Meters
<1>3. ASSUME NEW u \in Users PROVE spent[u][n] \in Nat /\ UserTally(u)[n] \in Nat
  BY TallyType DEF UsageTypeOK, Meters
<1> QED
  BY <1>1, <1>2, <1>3

LEMMA InitUsage == UsageInit => UsageInv
<1> SUFFICES ASSUME UsageInit PROVE UsageInv
  OBVIOUS
<1>1. UsageTypeOK
  BY TypeInit
<1>2. CountersInv
  <2>1. ASSUME NEW n \in Nodes PROVE counter[n] <= carried[n]
    <3>1. counter[n] = 0 /\ carried[n] = 0
      BY DEF UsageInit, NoBytes
    <3> QED
      BY <3>1
  <2> QED
    BY <2>1 DEF UsageInit, CountersInv
<1>3. ASSUME NEW n \in Nodes
      PROVE  /\ counter[n] = 0 /\ recorded[n] = 0 /\ carried[n] = 0 /\ Seen(n) = 0
             /\ \A c \in Clients : used[c][n] = 0 /\ Tally(c)[n] = 0
             /\ \A u \in Users : spent[u][n] = 0 /\ UserTally(u)[n] = 0
  BY DEF UsageInit, Seen, Tally, UserTally, NoBytes
<1>4. AccountsInv
  <2>1. 0 + Delta(0, 0) <= 0
    BY DEF Delta
  <2>2. ASSUME NEW n \in Nodes, NEW x, NEW copy, x = 0, copy = 0 PROVE Account(x, copy, n)
    BY <1>3, <2>1, <2>2 DEF Account, Within
  <2> QED
    BY <1>3, <2>2 DEF AccountsInv
<1> QED
  BY <1>1, <1>2, <1>4 DEF UsageInv

\* The invariant looks at a session only through Tally, UserTally and Seen.
LEMMA AccountsFrame ==
  ASSUME AccountsInv, UNCHANGED <<counter, carried, recorded, nodes, used, spent, removed>>,
         \A n \in Nodes : Seen(n)' = Seen(n),
         \A c \in Clients : Tally(c)' = Tally(c),
         \A u \in Users : UserTally(u)' = UserTally(u)
  PROVE  AccountsInv'
  BY DEF AccountsInv, Account, Within

LEMMA BeginKeeps == UsageInv /\ PollBegin => UsageInv'
<1> SUFFICES ASSUME UsageInv, PollBegin PROVE CountersInv' /\ AccountsInv'
  BY TypeStep DEF UsageInv, UsageNext
<1>1. answered = {} /\ ~polling
  BY DEF UsageInv, UsageTypeOK, PollBegin
<1>2. CountersInv'
  BY <1>1 DEF UsageInv, CountersInv, PollBegin, rowVars
<1>3. AccountsInv'
  BY <1>1, AccountsFrame DEF UsageInv, PollBegin, rowVars, Seen, Tally, UserTally
<1> QED
  BY <1>2, <1>3

LEMMA PollNodeKeeps ==
  ASSUME UsageInv, NEW n \in Nodes, NEW up \in BOOLEAN, PollNode(n, up)
  PROVE  UsageInv'
<1> DEFINE delta == IF up THEN Delta(counter[n], view[n]) ELSE 0
           billed == Billed(n, delta)
           payers == Payers(billed)
<1> SUFFICES CountersInv' /\ AccountsInv'
  BY PollNodeType DEF UsageInv
<1>1. ASSUME n \notin removed
      PROVE  /\ n \in nodes /\ n \notin answered /\ view[n] = recorded[n]
             /\ Seen(n) = recorded[n]
  BY <1>1 DEF UsageInv, CountersInv, PollNode, Seen
<1>2. CountersInv'
  BY DEF UsageInv, CountersInv, PollNode, rowVars, historyVars, UsageTypeOK, Meters
<1>3. /\ \A m \in Nodes \ {n} : Seen(m)' = Seen(m)
      /\ up => Seen(n)' = counter[n]
      /\ n \notin removed /\ ~up => Seen(n)' = recorded[n]
  BY <1>1 DEF PollNode, rowVars, Seen, UsageInv, UsageTypeOK, Meters
<1>4. /\ delta \in Nat
      /\ n \notin removed => delta = IF up THEN Delta(counter[n], recorded[n]) ELSE 0
  BY <1>1, Numbers, DeltaType DEF UsageInv
<1>5. ASSUME NEW c \in Clients
      PROVE  /\ \A m \in Nodes \ {n} : Tally(c)'[m] = Tally(c)[m]
             /\ Tally(c)'[n] \in {Tally(c)[n], Tally(c)[n] + delta}
  <2>1. CASE c \in billed
    <3>1. Tally(c)' = [Tally(c) EXCEPT ![n] = @ + delta]
      BY <2>1 DEF PollNode, Tally
    <3>2. Tally(c) \in [Nodes -> Nat]
      BY TallyType DEF UsageInv, Meters
    <3> HIDE DEF delta
    <3> QED
      BY <3>1, <3>2
  <2>2. CASE c \notin billed
    <3>1. Tally(c)' = Tally(c)
      BY <2>2 DEF PollNode, Tally, rowVars
    <3> QED
      BY <3>1
  <2> QED
    BY <2>1, <2>2
<1>6. ASSUME NEW u \in Users
      PROVE  /\ \A m \in Nodes \ {n} : UserTally(u)'[m] = UserTally(u)[m]
             /\ UserTally(u)'[n] \in {UserTally(u)[n], UserTally(u)[n] + delta}
  <2>1. CASE u \in payers
    <3>1. UserTally(u)' = [UserTally(u) EXCEPT ![n] = @ + delta]
      BY <2>1 DEF PollNode, UserTally
    <3>2. UserTally(u) \in [Nodes -> Nat]
      BY TallyType DEF UsageInv, Meters
    <3> HIDE DEF delta
    <3> QED
      BY <3>1, <3>2
  <2>2. CASE u \notin payers
    <3>1. UserTally(u)' = UserTally(u)
      BY <2>2 DEF PollNode, UserTally, rowVars
    <3> QED
      BY <3>1
  <2> QED
    BY <2>1, <2>2
<1>7. UNCHANGED <<counter, carried, recorded, nodes, used, spent, removed>>
  BY DEF PollNode, rowVars, historyVars
<1>8. ASSUME NEW m \in Nodes, m # n
      PROVE  /\ \A c \in Clients : Account(used[c][m], Tally(c)[m], m)'
             /\ \A u \in Users : Account(spent[u][m], UserTally(u)[m], m)'
  BY <1>3, <1>5, <1>6, <1>7, <1>8 DEF UsageInv, AccountsInv, Account, Within
<1>9. ASSUME NEW x \in Nat, NEW copy \in Nat, NEW new \in {copy, copy + delta},
             n \notin removed, Account(x, copy, n)
      PROVE  /\ x + Delta(counter[n], recorded[n]) <= carried[n]
             /\ new + Delta(counter[n], Seen(n)') <= carried[n]
  <2>1. counter[n] \in Nat /\ recorded[n] \in Nat /\ carried[n] \in Nat
    BY Numbers DEF UsageInv
  <2>2. copy + Delta(counter[n], recorded[n]) <= carried[n]
    BY <1>1, <1>9 DEF Account, Within
  <2>3. Delta(counter[n], recorded[n]) \in Nat /\ Delta(counter[n], counter[n]) = 0
    BY <2>1, DeltaIs
  <2> HIDE DEF delta
  <2>4. new + Delta(counter[n], Seen(n)') <= carried[n]
    BY <1>3, <1>4, <1>9, <2>1, <2>2, <2>3
  <2> QED
    BY <1>9, <2>1, <2>4 DEF Account, Within
<1>10. /\ \A c \in Clients : Account(used[c][n], Tally(c)[n], n)'
       /\ \A u \in Users : Account(spent[u][n], UserTally(u)[n], n)'
  <2>1. n \notin removed' => n \in nodes'
    BY <1>1, <1>7
  <2>2. ASSUME NEW c \in Clients PROVE Account(used[c][n], Tally(c)[n], n)'
    <3>1. Account(used[c][n], Tally(c)[n], n) /\ used[c][n] \in Nat /\ Tally(c)[n] \in Nat
      BY Numbers DEF UsageInv, AccountsInv
    <3> QED
      BY <1>5, <1>7, <1>9, <2>1, <3>1 DEF Account, Within
  <2>3. ASSUME NEW u \in Users PROVE Account(spent[u][n], UserTally(u)[n], n)'
    <3>1. /\ Account(spent[u][n], UserTally(u)[n], n)
          /\ spent[u][n] \in Nat /\ UserTally(u)[n] \in Nat
      BY Numbers DEF UsageInv, AccountsInv
    <3> QED
      BY <1>6, <1>7, <1>9, <2>1, <3>1 DEF Account, Within
  <2> QED
    BY <2>2, <2>3
<1>11. AccountsInv'
  BY <1>8, <1>10 DEF AccountsInv
<1> QED
  BY <1>2, <1>11

LEMMA CommitKeeps == UsageInv /\ PollCommit => UsageInv'
<1> SUFFICES ASSUME UsageInv, PollCommit PROVE CountersInv' /\ AccountsInv'
  BY TypeStep DEF UsageInv, UsageNext
<1>1. CountersInv'
  BY DEF UsageInv, CountersInv, PollCommit, Forget, historyVars
<1>2. ASSUME NEW n \in Nodes, n \notin removed
      PROVE  recorded'[n] = Seen(n) /\ Seen(n)' = Seen(n)
  BY <1>2 DEF UsageInv, CountersInv, PollCommit, Forget, Seen
<1>3. ASSUME NEW c \in Clients PROVE used'[c] = Tally(c) /\ Tally(c)' = Tally(c)
  BY DEF PollCommit, Forget, Tally
<1>4. ASSUME NEW u \in Users PROVE spent'[u] = UserTally(u) /\ UserTally(u)' = UserTally(u)
  BY DEF PollCommit, Forget, UserTally
<1>5. UNCHANGED <<counter, carried, nodes, removed>>
  BY DEF PollCommit, historyVars
<1>6. AccountsInv'
  BY <1>2, <1>3, <1>4, <1>5 DEF UsageInv, AccountsInv, Account, Within
<1> QED
  BY <1>1, <1>6

LEMMA AbortKeeps == UsageInv /\ PollAbort => UsageInv'
<1> SUFFICES ASSUME UsageInv, PollAbort PROVE CountersInv' /\ AccountsInv'
  BY TypeStep DEF UsageInv, UsageNext
<1>1. CountersInv'
  BY DEF UsageInv, CountersInv, PollAbort, Forget, rowVars, historyVars
<1>2. ASSUME NEW n \in Nodes PROVE Seen(n)' = recorded[n]
  BY DEF PollAbort, Forget, Seen, rowVars
<1>3. /\ \A c \in Clients : Tally(c)' = used[c]
      /\ \A u \in Users : UserTally(u)' = spent[u]
  BY DEF PollAbort, Forget, Tally, UserTally, rowVars
<1>4. UNCHANGED <<counter, carried, recorded, nodes, used, spent, removed>>
  BY DEF PollAbort, rowVars, historyVars
<1>5. AccountsInv'
  BY <1>2, <1>3, <1>4 DEF UsageInv, AccountsInv, Account, Within
<1> QED
  BY <1>1, <1>5

LEMMA RegisterKeeps ==
  ASSUME UsageInv, NEW n \in Nodes, Register(n)
  PROVE  UsageInv'
<1> SUFFICES CountersInv' /\ AccountsInv'
  BY TypeStep DEF UsageInv, UsageNext, NodeStep
<1>1. n \notin removed => n \notin unasked /\ n \notin answered
  BY DEF UsageInv, CountersInv, Register
<1>2. CountersInv'
  BY <1>1 DEF UsageInv, UsageTypeOK, Meters, CountersInv, Register, pollVars, historyVars
<1>3. /\ recorded'[n] = 0 /\ (n \notin removed => Seen(n)' = 0)
      /\ \A m \in Nodes \ {n} : Seen(m)' = Seen(m)
  BY <1>1 DEF Register, pollVars, Seen, UsageInv, UsageTypeOK, Meters
<1>4. /\ \A c \in Clients : Tally(c)' = Tally(c)
      /\ \A u \in Users : UserTally(u)' = UserTally(u)
  BY DEF Register, pollVars, Tally, UserTally
<1>5. /\ UNCHANGED <<counter, carried, used, spent, removed>> /\ nodes' = nodes \cup {n}
      /\ \A m \in Nodes \ {n} : recorded'[m] = recorded[m]
  BY DEF Register, historyVars, UsageInv, UsageTypeOK, Meters
<1>6. 0 + Delta(counter[n], 0) <= carried[n]
  <2>1. counter[n] \in Nat /\ counter[n] <= carried[n]
    BY Numbers DEF UsageInv, CountersInv
  <2> QED
    BY <2>1 DEF Delta
<1>7. ASSUME NEW x, NEW copy, n \notin removed, Account(x, copy, n) PROVE x = 0 /\ copy = 0
  BY <1>7 DEF Account, Register
<1>8. ASSUME NEW m \in Nodes \ removed, NEW x, NEW copy, Account(x, copy, m)
      PROVE  /\ x + Delta(counter[m], recorded'[m]) <= carried[m]
             /\ copy + Delta(counter[m], Seen(m)') <= carried[m]
             /\ m \notin nodes' => x = 0 /\ copy = 0
  <2>1. CASE m = n
    BY <1>3, <1>5, <1>6, <1>7, <1>8, <2>1
  <2>2. CASE m # n
    BY <1>3, <1>5, <1>8, <2>2 DEF Account, Within
  <2> QED
    BY <2>1, <2>2
<1>9. ASSUME NEW m \in Nodes, NEW c \in Clients PROVE Account(used[c][m], Tally(c)[m], m)'
  <2>1. Account(used[c][m], Tally(c)[m], m)
    BY DEF UsageInv, AccountsInv
  <2> QED
    BY <1>4, <1>5, <1>8, <2>1 DEF Account, Within
<1>10. ASSUME NEW m \in Nodes, NEW u \in Users
       PROVE  Account(spent[u][m], UserTally(u)[m], m)'
  <2>1. Account(spent[u][m], UserTally(u)[m], m)
    BY DEF UsageInv, AccountsInv
  <2> QED
    BY <1>4, <1>5, <1>8, <2>1 DEF Account, Within
<1> QED
  BY <1>2, <1>9, <1>10 DEF AccountsInv

\* The books of a removed node are closed; the others are left alone.
LEMMA RemoveKeeps ==
  ASSUME UsageInv, NEW n \in Nodes, Remove(n)
  PROVE  UsageInv'
<1> SUFFICES CountersInv' /\ AccountsInv'
  BY TypeStep DEF UsageInv, UsageNext, NodeStep
<1>1. /\ UNCHANGED <<counter, carried, used, spent, unasked, answered, view, held, tally,
                     uheld, utally>>
      /\ removed' = removed \cup {n} /\ gone' \subseteq gone \cup {n}
      /\ \A m \in Nodes \ {n} : recorded'[m] = recorded[m] /\ (m \in nodes' <=> m \in nodes)
  BY DEF Remove, UsageInv, UsageTypeOK, Meters
<1>2. CountersInv'
  BY <1>1 DEF UsageInv, CountersInv
<1>3. /\ \A m \in Nodes \ {n} : Seen(m)' = Seen(m)
      /\ \A c \in Clients : Tally(c)' = Tally(c)
      /\ \A u \in Users : UserTally(u)' = UserTally(u)
  BY <1>1 DEF Seen, Tally, UserTally
<1>4. AccountsInv'
  BY <1>1, <1>3 DEF UsageInv, AccountsInv, Account, Within
<1> QED
  BY <1>2, <1>4

\* A node carries one more byte, or restarts its counter.
LEMMA CounterKeeps ==
  ASSUME UsageInv, NEW n \in Nodes, Traffic(n) \/ Reboot(n)
  PROVE  UsageInv'
<1> SUFFICES CountersInv' /\ AccountsInv'
  BY TypeStep DEF UsageInv, UsageNext, NodeStep
<1>1. /\ \A m \in Nodes \ {n} : counter'[m] = counter[m] /\ carried'[m] = carried[m]
      /\ \/ counter'[n] = counter[n] + 1 /\ carried'[n] = carried[n] + 1
         \/ counter'[n] = 0 /\ carried'[n] = carried[n]
  BY DEF Traffic, Reboot, historyVars, UsageInv, UsageTypeOK, Meters
<1>2. UNCHANGED <<rowVars, pollVars, removed>>
  BY DEF Traffic, Reboot, historyVars
<1>3. /\ UNCHANGED <<nodes, recorded, used, spent, removed>>
      /\ \A m \in Nodes : Seen(m)' = Seen(m)
      /\ \A c \in Clients : Tally(c)' = Tally(c)
      /\ \A u \in Users : UserTally(u)' = UserTally(u)
  BY <1>2 DEF rowVars, pollVars, Seen, Tally, UserTally
<1>4. CountersInv'
  <2>1. \A m \in Nodes : counter'[m] <= carried'[m]
    BY <1>1, Numbers DEF UsageInv, CountersInv
  <2> QED
    BY <1>2, <2>1 DEF UsageInv, CountersInv, rowVars, pollVars
<1>5. ASSUME NEW x \in Nat, NEW seen \in Nat, x + Delta(counter[n], seen) <= carried[n]
      PROVE  x + Delta(counter'[n], seen) <= carried'[n]
  <2>1. counter[n] \in Nat /\ carried[n] \in Nat
    BY Numbers DEF UsageInv
  <2> QED
    BY <1>1, <1>5, <2>1 DEF Delta
<1>6. ASSUME NEW m \in Nodes \ removed, NEW x \in Nat, NEW copy \in Nat, Account(x, copy, m)
      PROVE  /\ x + Delta(counter'[m], recorded[m]) <= carried'[m]
             /\ copy + Delta(counter'[m], Seen(m)) <= carried'[m]
             /\ m \notin nodes => x = 0 /\ copy = 0
  BY <1>1, <1>5, <1>6, Numbers DEF Account, Within, UsageInv
<1>7. AccountsInv'
  BY <1>3, <1>6, Numbers DEF UsageInv, AccountsInv, Account, Within
<1> QED
  BY <1>4, <1>7

LEMMA ClientKeeps ==
  ASSUME UsageInv, NEW c \in Clients, ClientStep(c)
  PROVE  UsageInv'
<1> SUFFICES CountersInv' /\ AccountsInv'
  BY TypeStep DEF UsageInv, UsageNext
<1>1. UNCHANGED <<counter, nodes, recorded, pollVars, carried, removed>>
  BY DEF ClientStep, CreateClient, UpdateClient, ResetTraffic, DeleteClient
<1>2. CountersInv'
  BY <1>1 DEF UsageInv, CountersInv, pollVars
<1>3. /\ \A d \in Clients : used'[d] \in {used[d], NoBytes}
      /\ \A u \in Users : spent'[u] \in {spent[u], NoBytes}
  BY UsageAssumption
     DEF ClientStep, CreateClient, UpdateClient, ResetTraffic, DeleteClient, UsageInv, UsageTypeOK
<1>4. ASSUME NEW n \in Nodes
      PROVE  /\ Seen(n)' = Seen(n)
             /\ \A d \in Clients : Tally(d)'[n] \in {Tally(d)[n], 0}
             /\ \A u \in Users : UserTally(u)'[n] \in {UserTally(u)[n], 0}
             /\ \A d \in Clients : used'[d][n] \in {used[d][n], 0}
             /\ \A u \in Users : spent'[u][n] \in {spent[u][n], 0}
  BY <1>1, <1>3 DEF pollVars, Seen, Tally, UserTally, NoBytes
<1>5. ASSUME NEW n \in Nodes \ removed, NEW x \in Nat, NEW copy \in Nat,
             Account(x, copy, n), NEW y \in {x, 0}, NEW copy2 \in {copy, 0}
      PROVE  Account(y, copy2, n)
  <2>1. /\ counter[n] \in Nat /\ recorded[n] \in Nat /\ Seen(n) \in Nat /\ carried[n] \in Nat
        /\ counter[n] <= carried[n]
    BY Numbers DEF UsageInv, CountersInv
  <2>2. y + Delta(counter[n], recorded[n]) <= carried[n]
    BY <1>5, <2>1 DEF Account, Within, Delta
  <2>3. copy2 + Delta(counter[n], Seen(n)) <= carried[n]
    BY <1>5, <2>1 DEF Account, Within, Delta
  <2> QED
    BY <1>5, <2>2, <2>3 DEF Account, Within
<1>6. AccountsInv'
  <2>1. ASSUME NEW n \in Nodes, NEW d \in Clients PROVE Account(used[d][n], Tally(d)[n], n)'
    <3>1. Account(used'[d][n], Tally(d)'[n], n)
      BY <1>4, <1>5, Numbers DEF UsageInv, AccountsInv, Account
    <3> QED
      BY <1>1, <1>4, <3>1 DEF Account, Within
  <2>2. ASSUME NEW n \in Nodes, NEW u \in Users PROVE Account(spent[u][n], UserTally(u)[n], n)'
    <3>1. Account(spent'[u][n], UserTally(u)'[n], n)
      BY <1>4, <1>5, Numbers DEF UsageInv, AccountsInv, Account
    <3> QED
      BY <1>1, <1>4, <3>1 DEF Account, Within
  <2> QED
    BY <2>1, <2>2 DEF AccountsInv
<1> QED
  BY <1>2, <1>6

LEMMA UsageStep == UsageInv /\ [UsageNext]_usageVars => UsageInv'
<1> SUFFICES ASSUME UsageInv, [UsageNext]_usageVars PROVE UsageInv'
  OBVIOUS
<1>1. CASE PollBegin \/ PollCommit \/ PollAbort
  BY <1>1, BeginKeeps, CommitKeeps, AbortKeeps
<1>2. ASSUME NEW n \in Nodes, NodeStep(n) PROVE UsageInv'
  BY <1>2, PollNodeKeeps, RegisterKeeps, RemoveKeeps, CounterKeeps DEF NodeStep
<1>3. ASSUME NEW c \in Clients, ClientStep(c) PROVE UsageInv'
  BY <1>3, ClientKeeps
<1>4. CASE UNCHANGED usageVars
  <2>1. UsageTypeOK' /\ CountersInv'
    BY <1>4, TypeStep DEF usageVars, UsageInv, CountersInv
  <2>2. AccountsInv'
    BY <1>4, AccountsFrame DEF usageVars, UsageInv, Seen, Tally, UserTally
  <2> QED
    BY <2>1, <2>2 DEF UsageInv
<1> QED
  BY <1>1, <1>2, <1>3, <1>4 DEF UsageNext

LEMMA InvBills == UsageInv => NeverOverbilled
<1> SUFFICES ASSUME UsageInv, NEW n \in Nodes \ removed
             PROVE  /\ \A c \in Clients : used[c][n] <= carried[n]
                    /\ \A u \in Users : spent[u][n] <= carried[n]
  BY DEF NeverOverbilled, BilledWithin
<1>1. ASSUME NEW x \in Nat, NEW copy, Account(x, copy, n) PROVE x <= carried[n]
  <2>1. counter[n] \in Nat /\ recorded[n] \in Nat /\ carried[n] \in Nat
    BY Numbers DEF UsageInv
  <2> QED
    BY <1>1, <2>1 DEF Account, Within, Delta
<1> QED
  BY <1>1, Numbers DEF UsageInv, AccountsInv

\* No client and no user is billed for more than a node has carried, for every node
\* that was never removed: whatever resets, reboots, removals of other nodes, crashes of
\* the master, rolled back polls and changes of clients during a poll happen.
THEOREM BilledAtMostCarried == UsageSpec => []NeverOverbilled
<1>1. UsageInv /\ [UsageNext]_usageVars => UsageInv'
  BY UsageStep
<1> QED
  BY InitUsage, <1>1, InvBills, PTL DEF UsageSpec

-----------------------------------------------------------------------------
(* The bill and the recorded counters move together.                       *)

\* What the poll is about to bill for a node.
Due(n) == IF n \in answered THEN Delta(view[n], recorded[n]) ELSE 0

\* What the session knows of the nodes whose row is still the one it loaded.
SessionInv ==
  /\ \A n \in unasked : n \notin answered /\ (n \notin gone => n \in nodes /\ view[n] = recorded[n])
  /\ \A n \in answered : n \notin gone => n \in nodes
  /\ \A c \in held : c \notin touched => client[c] = "ENABLED" /\ keys[c] = serves[c]

\* The copies in the session are ahead of the rows by what the poll will record.
BillInv ==
  \A n \in Nodes :
    n \notin gone \cap answered =>
      /\ \A c \in Clients :
           client[c] = "ENABLED" /\ c \notin touched =>
             Tally(c)[n] = used[c][n] + IF n \in serves[c] THEN Due(n) ELSE 0
      /\ \A u \in Users :
           ClientsOf(u) \cap touched = {} =>
             UserTally(u)[n] = spent[u][n] + IF PaysFor(u, n) THEN Due(n) ELSE 0

MeterInv == UsageTypeOK /\ SessionInv /\ BillInv

\* Outside a poll, and after one, the session's view is the rows'.
LEMMA IdleBill ==
  ASSUME UsageTypeOK, answered = {}, held = {}, uheld = {}
  PROVE  BillInv
<1>1. ASSUME NEW n \in Nodes PROVE Due(n) = 0
  BY DEF Due
<1>2. ASSUME NEW c \in Clients, NEW n \in Nodes PROVE Tally(c) = used[c] /\ used[c][n] \in Nat
  BY DEF Tally, UsageTypeOK, Meters
<1>3. ASSUME NEW u \in Users, NEW n \in Nodes
      PROVE  UserTally(u) = spent[u] /\ spent[u][n] \in Nat
  BY DEF UserTally, UsageTypeOK, Meters
<1> QED
  BY <1>1, <1>2, <1>3 DEF BillInv

LEMMA MeterInit == UsageInit => MeterInv
<1> SUFFICES ASSUME UsageInit PROVE MeterInv
  OBVIOUS
<1>1. UsageTypeOK
  BY TypeInit
<1>2. SessionInv /\ BillInv
  BY <1>1, IdleBill DEF UsageInit, SessionInv
<1> QED
  BY <1>1, <1>2 DEF MeterInv

\* The ends of the session, and its beginning.
LEMMA SessionKeeps ==
  ASSUME MeterInv, PollBegin \/ PollCommit \/ PollAbort
  PROVE  MeterInv'
<1>1. UsageTypeOK'
  BY TypeStep DEF MeterInv, UsageNext
<1>2. /\ answered' = {} /\ held' = {} /\ uheld' = {} /\ gone' = {}
      /\ unasked' = {} \/ (unasked' = nodes' /\ view' = recorded')
  BY DEF MeterInv, UsageTypeOK, PollBegin, PollCommit, PollAbort, Forget, rowVars
<1>3. BillInv'
  <2>1. /\ \A n \in Nodes : Due(n)' = 0
        /\ \A c \in Clients : Tally(c)' = used'[c]
        /\ \A u \in Users : UserTally(u)' = spent'[u]
    BY <1>2 DEF Due, Tally, UserTally
  <2>2. /\ \A c \in Clients, n \in Nodes : used'[c][n] \in Nat
        /\ \A u \in Users, n \in Nodes : spent'[u][n] \in Nat
    BY <1>1 DEF UsageTypeOK, Meters
  <2> QED
    BY <2>1, <2>2 DEF BillInv
<1>4. SessionInv'
  BY <1>2 DEF SessionInv
<1> QED
  BY <1>1, <1>3, <1>4 DEF MeterInv

\* What the poll is about to record of a node, and the copies in its session, when it has
\* asked node n.
LEMMA PollNodeCopies ==
  ASSUME MeterInv, NEW n \in Nodes, NEW up \in BOOLEAN, PollNode(n, up),
         NEW delta, delta = IF up THEN Delta(counter[n], view[n]) ELSE 0
  PROVE  /\ \A m \in Nodes \ {n} : Due(m)' = Due(m)
         /\ n \notin gone => Due(n)' = delta
         /\ Due(n) = 0
         /\ \A c \in Clients :
              /\ \A m \in Nodes \ {n} : Tally(c)'[m] = Tally(c)[m]
              /\ Tally(c)'[n] = Tally(c)[n] + IF c \in Billed(n, delta) THEN delta ELSE 0
         /\ \A u \in Users :
              /\ \A m \in Nodes \ {n} : UserTally(u)'[m] = UserTally(u)[m]
              /\ UserTally(u)'[n] = UserTally(u)[n]
                                    + IF u \in Payers(Billed(n, delta)) THEN delta ELSE 0
<1> DEFINE billed == Billed(n, delta)
           payers == Payers(billed)
<1>2. /\ UNCHANGED <<counter, rowVars, gone, touched>> /\ n \in unasked /\ n \notin answered
      /\ unasked' = unasked \ {n} /\ answered' = IF up THEN answered \cup {n} ELSE answered
      /\ view' = IF up THEN [view EXCEPT ![n] = counter[n]] ELSE view
  BY DEF PollNode, historyVars, MeterInv, SessionInv
<1>3. counter[n] \in Nat /\ view[n] \in Nat /\ recorded[n] \in Nat /\ delta \in Nat
  BY Numbers, DeltaType DEF MeterInv
<1>5. /\ \A m \in Nodes \ {n} : Due(m)' = Due(m)
      /\ n \notin gone => Due(n)' = delta
      /\ Due(n) = 0
  <2>1. \A m \in Nodes \ {n} : Due(m)' = Due(m)
    BY <1>2 DEF Due, rowVars, MeterInv, UsageTypeOK, Meters
  <2>2. ASSUME n \notin gone PROVE Due(n)' = delta
    BY <1>2, <2>2 DEF Due, rowVars, MeterInv, SessionInv, UsageTypeOK, Meters
  <2> QED
    BY <1>2, <2>1, <2>2 DEF Due
<1>6. ASSUME NEW c \in Clients
      PROVE  /\ \A m \in Nodes \ {n} : Tally(c)'[m] = Tally(c)[m]
             /\ Tally(c)'[n] = Tally(c)[n] + IF c \in billed THEN delta ELSE 0
  <2>1. Tally(c) \in [Nodes -> Nat]
    BY TallyType DEF MeterInv, Meters
  <2>2. CASE c \in billed
    <3>1. Tally(c)' = [Tally(c) EXCEPT ![n] = @ + delta]
      BY <2>2 DEF PollNode, Tally
    <3> QED
      BY <2>1, <2>2, <3>1
  <2>3. CASE c \notin billed
    <3>1. Tally(c)' = Tally(c)
      BY <2>3 DEF PollNode, Tally, rowVars
    <3> QED
      BY <2>1, <2>3, <3>1
  <2> QED
    BY <2>2, <2>3
<1>7. ASSUME NEW u \in Users
      PROVE  /\ \A m \in Nodes \ {n} : UserTally(u)'[m] = UserTally(u)[m]
             /\ UserTally(u)'[n] = UserTally(u)[n] + IF u \in payers THEN delta ELSE 0
  <2>1. UserTally(u) \in [Nodes -> Nat]
    BY TallyType DEF MeterInv, Meters
  <2>2. CASE u \in payers
    <3>1. UserTally(u)' = [UserTally(u) EXCEPT ![n] = @ + delta]
      BY <2>2 DEF PollNode, UserTally
    <3> QED
      BY <2>1, <2>2, <3>1
  <2>3. CASE u \notin payers
    <3>1. UserTally(u)' = UserTally(u)
      BY <2>3 DEF PollNode, UserTally, rowVars
    <3> QED
      BY <2>1, <2>3, <3>1
  <2> QED
    BY <2>2, <2>3
<1> QED
  BY <1>5, <1>6, <1>7

LEMMA PollNodeBills ==
  ASSUME MeterInv, NEW n \in Nodes, NEW up \in BOOLEAN, PollNode(n, up)
  PROVE  MeterInv'
<1> DEFINE delta == IF up THEN Delta(counter[n], view[n]) ELSE 0
           billed == Billed(n, delta)
           payers == Payers(billed)
<1>1. UsageTypeOK'
  BY PollNodeType DEF MeterInv
<1>2. /\ UNCHANGED <<counter, rowVars, gone, touched>> /\ n \in unasked /\ n \notin answered
      /\ unasked' = unasked \ {n} /\ answered' = IF up THEN answered \cup {n} ELSE answered
      /\ view' = IF up THEN [view EXCEPT ![n] = counter[n]] ELSE view
  BY DEF PollNode, historyVars, MeterInv, SessionInv
<1>3. counter[n] \in Nat /\ view[n] \in Nat /\ recorded[n] \in Nat /\ delta \in Nat
  BY Numbers, DeltaType DEF MeterInv
<1>4. SessionInv'
  <2>1. \A c \in held' : c \notin touched' => client'[c] = "ENABLED" /\ keys'[c] = serves'[c]
    BY <1>2 DEF MeterInv, SessionInv, UsageTypeOK, PollNode, Billed, Keys, rowVars
  <2> QED
    BY <1>2, <2>1 DEF MeterInv, SessionInv, UsageTypeOK, Meters, rowVars
<1>5. /\ \A m \in Nodes \ {n} : Due(m)' = Due(m)
      /\ n \notin gone => Due(n)' = delta
      /\ Due(n) = 0
  BY PollNodeCopies
<1>6. ASSUME NEW c \in Clients
      PROVE  /\ \A m \in Nodes \ {n} : Tally(c)'[m] = Tally(c)[m]
             /\ Tally(c)'[n] = Tally(c)[n] + IF c \in billed THEN delta ELSE 0
  BY PollNodeCopies
<1>7. ASSUME NEW u \in Users
      PROVE  /\ \A m \in Nodes \ {n} : UserTally(u)'[m] = UserTally(u)[m]
             /\ UserTally(u)'[n] = UserTally(u)[n] + IF u \in payers THEN delta ELSE 0
  BY PollNodeCopies
<1>8. /\ \A c \in Clients : c \notin touched =>
             (c \in billed <=> delta > 0 /\ client[c] = "ENABLED" /\ n \in serves[c])
      /\ \A u \in Users : ClientsOf(u) \cap touched = {} =>
             (u \in payers <=> delta > 0 /\ PaysFor(u, n))
  <2>1. \A c \in Clients : c \notin touched => Keys(c) = serves[c]
    BY DEF Keys, MeterInv, SessionInv
  <2> QED
    BY <2>1 DEF Billed, Payers, PaysFor, ClientsOf
<1>9. UNCHANGED <<used, spent, client, serves, gone, touched>> /\ \A u, m : PaysFor(u, m)' <=> PaysFor(u, m)
  BY <1>2 DEF rowVars, PaysFor
<1>10. ASSUME NEW m \in Nodes, m \notin gone' \cap answered', NEW c \in Clients,
              client'[c] = "ENABLED", c \notin touched'
       PROVE  Tally(c)'[m] = used'[c][m] + IF m \in serves[c] THEN Due(m)' ELSE 0
  <2> HIDE DEF delta, billed
  <2>1. Tally(c)[m] = used[c][m] + IF m \in serves[c] THEN Due(m) ELSE 0
    BY <1>2, <1>9, <1>10 DEF MeterInv, BillInv
  <2>2. used[c][m] \in Nat
    BY Numbers DEF MeterInv
  <2>3. CASE m # n
    BY <1>5, <1>6, <1>9, <2>1, <2>3
  <2>4. CASE m = n /\ n \notin gone
    BY <1>3, <1>5, <1>6, <1>8, <1>9, <1>10, <2>1, <2>2, <2>4
  <2>5. CASE m = n /\ n \in gone
    <3>1. ~up
      BY <1>2, <1>9, <1>10, <2>5
    <3>2. delta = 0 /\ Due(m)' = 0
      BY <1>2, <2>5, <3>1 DEF delta, Due
    <3> QED
      BY <1>5, <1>6, <1>9, <2>1, <2>2, <2>5, <3>2
  <2> QED
    BY <2>3, <2>4, <2>5
<1>11. ASSUME NEW m \in Nodes, m \notin gone' \cap answered', NEW u \in Users,
              ClientsOf(u) \cap touched' = {}
       PROVE  UserTally(u)'[m] = spent'[u][m] + IF PaysFor(u, m)' THEN Due(m)' ELSE 0
  <2> HIDE DEF delta, payers
  <2>1. UserTally(u)[m] = spent[u][m] + IF PaysFor(u, m) THEN Due(m) ELSE 0
    BY <1>2, <1>9, <1>11 DEF MeterInv, BillInv
  <2>2. spent[u][m] \in Nat
    BY Numbers DEF MeterInv
  <2>3. CASE m # n
    BY <1>5, <1>7, <1>9, <2>1, <2>3
  <2>4. CASE m = n /\ n \notin gone
    <3>1. u \in payers <=> delta > 0 /\ PaysFor(u, n)
      BY <1>8, <1>9, <1>11
    <3> QED
      BY <1>3, <1>5, <1>7, <1>9, <2>1, <2>2, <2>4, <3>1
  <2>5. CASE m = n /\ n \in gone
    <3>1. ~up
      BY <1>2, <1>9, <1>11, <2>5
    <3>2. delta = 0 /\ Due(m)' = 0
      BY <1>2, <2>5, <3>1 DEF delta, Due
    <3> QED
      BY <1>5, <1>7, <1>9, <2>1, <2>2, <2>5, <3>2
  <2> QED
    BY <2>3, <2>4, <2>5
<1>12. BillInv'
  BY <1>9, <1>10, <1>11 DEF BillInv, ClientsOf
<1> QED
  BY <1>1, <1>4, <1>12 DEF MeterInv

\* Steps that leave the session and the accounts alone, or touch one node's row.
LEMMA NodeBills ==
  ASSUME MeterInv, NEW n \in Nodes, Register(n) \/ Remove(n) \/ Traffic(n) \/ Reboot(n)
  PROVE  MeterInv'
<1>1. UsageTypeOK'
  BY TypeStep DEF MeterInv, UsageNext, NodeStep
<1>2. UNCHANGED <<client, serves, used, spent, unasked, answered, view, held, tally, keys,
                  uheld, utally, touched>>
  BY DEF Register, Remove, Traffic, Reboot, rowVars, pollVars, historyVars
<1>3. /\ gone' \subseteq gone \cup {n} /\ gone \subseteq gone'
      /\ \A m \in Nodes \ {n} : recorded'[m] = recorded[m] /\ (m \in nodes' <=> m \in nodes)
      /\ \/ n \in nodes' /\ (n \in nodes => recorded'[n] = recorded[n])
         \/ n \notin nodes' /\ (n \in unasked \cup answered => n \in gone')
         \/ nodes' = nodes /\ recorded' = recorded
  BY DEF Register, Remove, Traffic, Reboot, rowVars, pollVars, MeterInv, UsageTypeOK, Meters
<1>4. SessionInv'
  BY <1>2, <1>3 DEF MeterInv, SessionInv, UsageTypeOK
<1>5. ASSUME NEW m \in Nodes, m \notin gone' \cap answered'
      PROVE  m \notin gone \cap answered /\ Due(m)' = Due(m)
  BY <1>2, <1>3, <1>5 DEF Due, MeterInv, SessionInv
<1>6. /\ \A c \in Clients : Tally(c)' = Tally(c)
      /\ \A u \in Users : UserTally(u)' = UserTally(u)
      /\ \A u, m : PaysFor(u, m)' <=> PaysFor(u, m)
  BY <1>2 DEF Tally, UserTally, PaysFor
<1>7. BillInv'
  BY <1>2, <1>5, <1>6 DEF MeterInv, BillInv, ClientsOf
<1> QED
  BY <1>1, <1>4, <1>7 DEF MeterInv

LEMMA ClientBills ==
  ASSUME MeterInv, NEW c \in Clients, ClientStep(c)
  PROVE  MeterInv'
<1>1. UsageTypeOK'
  BY TypeStep DEF MeterInv, UsageNext
<1>2. UNCHANGED <<nodes, recorded, pollVars>> /\ touched' = touched \cup {c}
  BY DEF ClientStep, CreateClient, UpdateClient, ResetTraffic, DeleteClient
<1>3. /\ \A d \in Clients \ {c} :
           client'[d] = client[d] /\ serves'[d] = serves[d] /\ used'[d] = used[d]
      /\ \A u \in Users : c \notin ClientsOf(u) => spent'[u] = spent[u]
  BY DEF ClientStep, CreateClient, UpdateClient, ResetTraffic, DeleteClient, MeterInv,
         UsageTypeOK, ClientsOf
<1>4. SessionInv'
  BY <1>2, <1>3 DEF MeterInv, SessionInv, UsageTypeOK, pollVars
<1>5. ASSUME NEW n \in Nodes, n \notin gone' \cap answered'
      PROVE  Due(n)' = Due(n) /\ n \notin gone \cap answered
  BY <1>2, <1>5 DEF Due, pollVars
<1>6. ASSUME NEW d \in Clients, d \notin touched'
      PROVE  /\ d \notin touched /\ client'[d] = client[d] /\ used'[d] = used[d]
             /\ serves'[d] = serves[d] /\ Tally(d)' = Tally(d)
  BY <1>2, <1>3, <1>6 DEF Tally, pollVars
<1>7. ASSUME NEW u \in Users, ClientsOf(u) \cap touched' = {}
      PROVE  /\ ClientsOf(u) \cap touched = {} /\ spent'[u] = spent[u]
             /\ UserTally(u)' = UserTally(u) /\ \A n : PaysFor(u, n)' <=> PaysFor(u, n)
  <2>1. c \notin ClientsOf(u) /\ ClientsOf(u) \subseteq Clients
    BY <1>2, <1>7 DEF ClientsOf
  <2> QED
    BY <1>2, <1>3, <1>7, <2>1 DEF UserTally, PaysFor, ClientsOf, pollVars
<1>8. BillInv'
  BY <1>5, <1>6, <1>7 DEF MeterInv, BillInv, ClientsOf
<1> QED
  BY <1>1, <1>4, <1>8 DEF MeterInv

LEMMA MeterStep == MeterInv /\ [UsageNext]_usageVars => MeterInv'
<1> SUFFICES ASSUME MeterInv, [UsageNext]_usageVars PROVE MeterInv'
  OBVIOUS
<1>1. CASE PollBegin \/ PollCommit \/ PollAbort
  BY <1>1, SessionKeeps
<1>2. ASSUME NEW n \in Nodes, NodeStep(n) PROVE MeterInv'
  BY <1>2, PollNodeBills, NodeBills DEF NodeStep
<1>3. ASSUME NEW c \in Clients, ClientStep(c) PROVE MeterInv'
  BY <1>3, ClientBills
<1>4. CASE UNCHANGED usageVars
  <2>1. UsageTypeOK' /\ SessionInv'
    BY <1>4, TypeStep DEF usageVars, MeterInv, SessionInv
  <2>2. BillInv'
    BY <1>4 DEF usageVars, MeterInv, BillInv, Tally, UserTally, Due, PaysFor, ClientsOf
  <2> QED
    BY <2>1, <2>2 DEF MeterInv
<1> QED
  BY <1>1, <1>2, <1>3, <1>4 DEF UsageNext

\* The copies in the session are ahead of the rows, by something they were billed and by
\* no more than the poll will record, except for those that were reset since.
AheadInv ==
  /\ \A c \in Clients :
       /\ c \in held => /\ \A n \in Nodes : used[c][n] <= tally[c][n]
                        /\ \E n \in Nodes : used[c][n] < tally[c][n]
       /\ c \notin late /\ client[c] # "ABSENT" =>
            \A n \in Nodes : n \notin gone \cap answered => Tally(c)[n] <= used[c][n] + Due(n)
  /\ \A u \in Users :
       /\ u \in uheld => /\ \A n \in Nodes : spent[u][n] <= utally[u][n]
                         /\ \E n \in Nodes : spent[u][n] < utally[u][n]
       /\ u \notin ulate =>
            \A n \in Nodes : n \notin gone \cap answered => UserTally(u)[n] <= spent[u][n] + Due(n)

\* Due is a number.
LEMMA DueType == ASSUME UsageTypeOK, NEW n \in Nodes PROVE Due(n) \in Nat
  BY Numbers, DeltaType DEF Due

\* Without a session there are no copies.
LEMMA IdleAhead ==
  ASSUME UsageTypeOK, answered = {}, held = {}, uheld = {}
  PROVE  AheadInv
<1>1. \A n \in Nodes : Due(n) = 0
  BY DEF Due
<1>2. /\ \A c \in Clients : Tally(c) = used[c]
      /\ \A u \in Users : UserTally(u) = spent[u]
  BY DEF Tally, UserTally
<1> QED
  BY <1>1, <1>2, Numbers DEF AheadInv

\* A node is asked: each copy grows by what is due from the node, or stays.
LEMMA PollNodeAhead ==
  ASSUME MeterInv, AheadInv, NEW n \in Nodes, NEW up \in BOOLEAN, PollNode(n, up)
  PROVE  AheadInv'
<1> DEFINE delta == IF up THEN Delta(counter[n], view[n]) ELSE 0
           billed == Billed(n, delta)
           payers == Payers(billed)
<1>1. /\ UNCHANGED <<counter, used, spent, client, gone, late, ulate>>
      /\ answered' = IF up THEN answered \cup {n} ELSE answered
      /\ held' = held \cup billed /\ uheld' = uheld \cup payers
      /\ UsageTypeOK'
  BY PollNodeType DEF PollNode, rowVars, historyVars, MeterInv
<1>2. delta \in Nat /\ (~up => delta = 0) /\ (billed # {} => delta > 0)
  <2>1. counter[n] \in Nat /\ view[n] \in Nat
    BY Numbers DEF MeterInv
  <2>2. billed # {} => delta > 0
    BY DEF Billed
  <2>3. QED
    BY <2>1, <2>2, DeltaType
<1>3. payers # {} => delta > 0
  BY <1>2 DEF Payers
<1>4. /\ \A m \in Nodes \ {n} : Due(m)' = Due(m)
      /\ n \notin gone => Due(n)' = delta
      /\ Due(n) = 0 /\ \A m \in Nodes : Due(m) \in Nat /\ Due(m)' \in Nat
  <2>1. ASSUME NEW m \in Nodes PROVE Due(m) \in Nat /\ Due(m)' \in Nat
    <3>1. Due(m) \in Nat
      BY DueType DEF MeterInv
    <3>2. recorded'[m] \in Nat /\ view'[m] \in Nat
      BY <1>1 DEF UsageTypeOK, Meters
    <3>3. Due(m)' \in Nat
      BY <3>2 DEF Due, Delta
    <3>4. QED
      BY <3>1, <3>3
  <2> QED
    BY <2>1, PollNodeCopies DEF MeterInv
<1>5. ASSUME NEW m \in Nodes, m \notin gone' \cap answered'
      PROVE  /\ m \notin gone \cap answered
             /\ \A x, y, z \in Nat : x <= y + Due(m) /\ z = x + (IF m = n THEN delta ELSE 0)
                                   => z <= y + Due(m)'
  <2>1. m \notin gone \cap answered
    BY <1>1, <1>5
  <2>2. m = n /\ n \in gone => delta = 0
    BY <1>1, <1>2, <1>5
  <2> HIDE DEF delta
  <2>3. QED
    BY <1>2, <1>4, <2>1, <2>2
<1> HIDE DEF delta
<1>6. ASSUME NEW x \in Meters, NEW copy \in Meters, NEW new \in Meters, NEW got \in {0, delta},
             \A m \in Nodes \ {n} : new[m] = copy[m], new[n] = copy[n] + got,
             \A m \in Nodes : x[m] <= copy[m]
      PROVE  /\ \A m \in Nodes : x[m] <= new[m]
             /\ (got > 0 \/ \E m \in Nodes : x[m] < copy[m]) => \E m \in Nodes : x[m] < new[m]
  <2>1. \A m \in Nodes : x[m] \in Nat /\ copy[m] \in Nat /\ new[m] \in Nat
    BY DEF Meters
  <2>2. got \in Nat
    BY <1>2, <1>6
  <2>3. QED
    BY <1>6, <2>1, <2>2
<1>7. ASSUME NEW c \in Clients
      PROVE  /\ Tally(c) \in Meters /\ Tally(c)' \in Meters /\ used[c] \in Meters
             /\ \A m \in Nodes \ {n} : Tally(c)'[m] = Tally(c)[m]
             /\ Tally(c)'[n] = Tally(c)[n] + IF c \in billed THEN delta ELSE 0
             /\ \A m \in Nodes : used[c][m] <= Tally(c)[m]
  <2>0. Tally(c)' \in Meters
    BY <1>1 DEF UsageTypeOK, Tally
  <2>1. Tally(c) \in Meters /\ used[c] \in Meters /\ Tally(c)' \in Meters
    BY <2>0, TallyType DEF MeterInv, UsageTypeOK
  <2>2. \A m \in Nodes : used[c][m] <= Tally(c)[m]
    BY <2>1, Numbers DEF AheadInv, Tally, MeterInv
  <2>3. QED
    BY <2>1, <2>2, PollNodeCopies DEF delta
<1>8. ASSUME NEW u \in Users
      PROVE  /\ UserTally(u) \in Meters /\ UserTally(u)' \in Meters /\ spent[u] \in Meters
             /\ \A m \in Nodes \ {n} : UserTally(u)'[m] = UserTally(u)[m]
             /\ UserTally(u)'[n] = UserTally(u)[n] + IF u \in payers THEN delta ELSE 0
             /\ \A m \in Nodes : spent[u][m] <= UserTally(u)[m]
  <2>0. UserTally(u)' \in Meters
    BY <1>1 DEF UsageTypeOK, UserTally
  <2>1. UserTally(u) \in Meters /\ spent[u] \in Meters /\ UserTally(u)' \in Meters
    BY <2>0, TallyType DEF MeterInv, UsageTypeOK
  <2>2. \A m \in Nodes : spent[u][m] <= UserTally(u)[m]
    BY <2>1, Numbers DEF AheadInv, UserTally, MeterInv
  <2>3. QED
    BY <2>1, <2>2, PollNodeCopies DEF delta
<1> HIDE DEF billed, payers
<1>9. ASSUME NEW c \in Clients
      PROVE  /\ c \in held' => /\ \A m \in Nodes : used'[c][m] <= tally'[c][m]
                               /\ \E m \in Nodes : used'[c][m] < tally'[c][m]
             /\ c \notin late' /\ client'[c] # "ABSENT" =>
                  \A m \in Nodes : m \notin gone' \cap answered' =>
                                   Tally(c)'[m] <= used'[c][m] + Due(m)'
  <2> DEFINE got == IF c \in billed THEN delta ELSE 0
  <2>1. got \in {0, delta} /\ got \in Nat /\ (c \in billed => got > 0)
    BY <1>2
  <2>2. /\ \A m \in Nodes : used[c][m] <= Tally(c)'[m]
        /\ (got > 0 \/ \E m \in Nodes : used[c][m] < Tally(c)[m]) =>
             \E m \in Nodes : used[c][m] < Tally(c)'[m]
    BY <1>6, <1>7, <2>1
  <2>3. c \in held' => Tally(c)' = tally'[c] /\ (c \in billed \/ (c \in held /\ Tally(c) = tally[c]))
    BY <1>1 DEF Tally
  <2>4. c \in held' => \E m \in Nodes : used[c][m] < Tally(c)'[m]
    BY <2>1, <2>2, <2>3 DEF AheadInv
  <2>5. ASSUME c \notin late, client[c] # "ABSENT", NEW m \in Nodes, m \notin gone' \cap answered'
        PROVE  Tally(c)'[m] <= used[c][m] + Due(m)'
    <3>1. Tally(c)[m] <= used[c][m] + Due(m)
      BY <1>5, <2>5 DEF AheadInv
    <3>2. /\ Tally(c)[m] \in Nat /\ used[c][m] \in Nat /\ Tally(c)'[m] \in Nat
          /\ Tally(c)[m] + (IF m = n THEN delta ELSE 0) \in Nat
      BY <1>2, <1>7 DEF Meters
    <3>3. Tally(c)'[m] <= Tally(c)[m] + (IF m = n THEN delta ELSE 0)
      BY <1>2, <1>7, <3>2
    <3>4. Tally(c)[m] + (IF m = n THEN delta ELSE 0) <= used[c][m] + Due(m)'
      BY <1>5, <2>5, <3>1, <3>2
    <3>5. QED
      BY <1>4, <3>2, <3>3, <3>4
  <2>6. QED
    BY <1>1, <2>2, <2>3, <2>4, <2>5
<1>10. ASSUME NEW u \in Users
       PROVE  /\ u \in uheld' => /\ \A m \in Nodes : spent'[u][m] <= utally'[u][m]
                                 /\ \E m \in Nodes : spent'[u][m] < utally'[u][m]
              /\ u \notin ulate' =>
                   \A m \in Nodes : m \notin gone' \cap answered' =>
                                    UserTally(u)'[m] <= spent'[u][m] + Due(m)'
  <2> DEFINE got == IF u \in payers THEN delta ELSE 0
  <2>1. got \in {0, delta} /\ got \in Nat /\ (u \in payers => got > 0)
    BY <1>2, <1>3
  <2>2. /\ \A m \in Nodes : spent[u][m] <= UserTally(u)'[m]
        /\ (got > 0 \/ \E m \in Nodes : spent[u][m] < UserTally(u)[m]) =>
             \E m \in Nodes : spent[u][m] < UserTally(u)'[m]
    BY <1>6, <1>8, <2>1
  <2>3. u \in uheld' =>
          UserTally(u)' = utally'[u] /\ (u \in payers \/ (u \in uheld /\ UserTally(u) = utally[u]))
    BY <1>1 DEF UserTally
  <2>4. u \in uheld' => \E m \in Nodes : spent[u][m] < UserTally(u)'[m]
    BY <2>1, <2>2, <2>3 DEF AheadInv
  <2>5. ASSUME u \notin ulate, NEW m \in Nodes, m \notin gone' \cap answered'
        PROVE  UserTally(u)'[m] <= spent[u][m] + Due(m)'
    <3>1. UserTally(u)[m] <= spent[u][m] + Due(m)
      BY <1>5, <2>5 DEF AheadInv
    <3>2. /\ UserTally(u)[m] \in Nat /\ spent[u][m] \in Nat /\ UserTally(u)'[m] \in Nat
          /\ UserTally(u)[m] + (IF m = n THEN delta ELSE 0) \in Nat
      BY <1>2, <1>8 DEF Meters
    <3>3. UserTally(u)'[m] <= UserTally(u)[m] + (IF m = n THEN delta ELSE 0)
      BY <1>2, <1>8, <3>2
    <3>4. UserTally(u)[m] + (IF m = n THEN delta ELSE 0) <= spent[u][m] + Due(m)'
      BY <1>5, <2>5, <3>1, <3>2
    <3>5. QED
      BY <1>4, <3>2, <3>3, <3>4
  <2>6. QED
    BY <1>1, <2>2, <2>3, <2>4, <2>5
<1> QED
  BY <1>9, <1>10 DEF AheadInv

\* A node's row or counter changes: what is due, and the copies, stay.
LEMMA NodeAhead ==
  ASSUME MeterInv, AheadInv, NEW n \in Nodes, Register(n) \/ Remove(n) \/ Traffic(n) \/ Reboot(n)
  PROVE  AheadInv'
<1>1. /\ UNCHANGED <<client, used, spent, answered, view, held, tally, uheld, utally, late, ulate>>
      /\ gone \subseteq gone'
      /\ \A m \in Nodes : recorded'[m] = recorded[m] \/ m \notin answered \/ m \in gone'
  BY DEF Register, Remove, Traffic, Reboot, rowVars, pollVars, historyVars, MeterInv, SessionInv,
         UsageTypeOK, Meters
<1>2. \A m \in Nodes : m \notin gone' \cap answered' =>
         m \notin gone \cap answered /\ Due(m)' = Due(m)
  BY <1>1 DEF Due
<1>3. /\ \A c \in Clients : Tally(c)' = Tally(c)
      /\ \A u \in Users : UserTally(u)' = UserTally(u)
  BY <1>1 DEF Tally, UserTally
<1> QED
  BY <1>1, <1>2, <1>3 DEF AheadInv

\* A request about a client: a reset after the billing is late, one before it is not.
LEMMA ClientAhead ==
  ASSUME MeterInv, AheadInv, NEW c \in Clients, ClientStep(c)
  PROVE  AheadInv'
<1>1. UNCHANGED <<recorded, pollVars>> /\ \A n \in Nodes : Due(n)' = Due(n) /\ Due(n) \in Nat
  BY DueType DEF ClientStep, CreateClient, UpdateClient, ResetTraffic, DeleteClient, pollVars, Due,
                 MeterInv
<1>2. /\ \A d \in Clients : d # c => used'[d] = used[d] /\ client'[d] = client[d]
      /\ used'[c] = used[c] \/ used'[c] = NoBytes
      /\ used'[c] # used[c] => client'[c] = "ABSENT" \/ c \notin held \/ c \in late'
      /\ client'[c] # "ABSENT" /\ client[c] = "ABSENT" => c \notin held
      /\ late \subseteq late' /\ ulate \subseteq ulate'
  <2>1. ASSUME ResetTraffic(c), c \in held PROVE c \in late'
    <3>1. tally[c] # used[c]
      <4>1. PICK n \in Nodes : used[c][n] < tally[c][n]
        BY <2>1 DEF AheadInv
      <4>2. used[c][n] \in Nat /\ tally[c][n] \in Nat
        BY DEF MeterInv, UsageTypeOK, Meters
      <4>3. QED
        BY <4>1, <4>2
    <3>2. QED
      BY <2>1, <3>1 DEF ResetTraffic, ClientBilled
  <2>2. QED
    BY <2>1 DEF ClientStep, CreateClient, UpdateClient, ResetTraffic, DeleteClient, MeterInv,
                UsageTypeOK
<1>3. \A u \in Users :
        spent'[u] = spent[u] \/ (spent'[u] = NoBytes /\ (u \notin uheld \/ u \in ulate'))
  <2>1. ASSUME ResetTraffic(c), Owner[c] \in uheld PROVE Owner[c] \in ulate'
    <3>1. utally[Owner[c]] # spent[Owner[c]]
      <4> DEFINE u == Owner[c]
      <4>1. u \in Users
        BY UsageAssumption
      <4>2. PICK n \in Nodes : spent[u][n] < utally[u][n]
        BY <2>1, <4>1 DEF AheadInv
      <4>3. spent[u][n] \in Nat /\ utally[u][n] \in Nat
        BY <4>1 DEF MeterInv, UsageTypeOK, Meters
      <4>4. QED
        BY <4>2, <4>3
    <3>2. QED
      BY <2>1, <3>1 DEF ResetTraffic, UserBilled
  <2>2. QED
    BY <2>1 DEF ClientStep, CreateClient, UpdateClient, ResetTraffic, DeleteClient, MeterInv,
                UsageTypeOK
<1>4. \A n \in Nodes : NoBytes[n] = 0
  BY DEF NoBytes
<1>5. ASSUME NEW d \in Clients
      PROVE  /\ d \in held' => /\ \A n \in Nodes : used'[d][n] <= tally'[d][n]
                               /\ \E n \in Nodes : used'[d][n] < tally'[d][n]
             /\ d \notin late' /\ client'[d] # "ABSENT" =>
                  \A n \in Nodes : n \notin gone' \cap answered' =>
                                   Tally(d)'[n] <= used'[d][n] + Due(n)'
  <2>1. \A n \in Nodes : used[d][n] \in Nat /\ tally[d][n] \in Nat
    BY DEF MeterInv, UsageTypeOK, Meters
  <2>2. UNCHANGED <<held, tally, gone, answered>>
    BY <1>1 DEF pollVars
  <2>3. \A n \in Nodes : used'[d][n] <= used[d][n] /\ used'[d][n] \in Nat
    BY <1>2, <1>4, <2>1
  <2>4. d \in held' => /\ \A n \in Nodes : used'[d][n] <= tally'[d][n]
                       /\ \E n \in Nodes : used'[d][n] < tally'[d][n]
    BY <2>1, <2>2, <2>3 DEF AheadInv
  <2>5. ASSUME d \notin late', client'[d] # "ABSENT", NEW n \in Nodes, n \notin gone' \cap answered'
        PROVE  Tally(d)'[n] <= used'[d][n] + Due(n)'
    <3>1. CASE d \notin held
      BY <1>1, <2>2, <2>3, <3>1 DEF Tally
    <3>2. CASE d \in held
      <4>1. used'[d] = used[d] /\ client[d] # "ABSENT" /\ d \notin late
        BY <1>2, <2>5, <3>2
      <4>2. QED
        BY <1>1, <2>2, <2>5, <4>1 DEF AheadInv, Tally
    <3>3. QED
      BY <3>1, <3>2
  <2>6. QED
    BY <2>4, <2>5
<1>6. ASSUME NEW u \in Users
      PROVE  /\ u \in uheld' => /\ \A n \in Nodes : spent'[u][n] <= utally'[u][n]
                                /\ \E n \in Nodes : spent'[u][n] < utally'[u][n]
             /\ u \notin ulate' =>
                  \A n \in Nodes : n \notin gone' \cap answered' =>
                                   UserTally(u)'[n] <= spent'[u][n] + Due(n)'
  <2>1. \A n \in Nodes : spent[u][n] \in Nat /\ utally[u][n] \in Nat
    BY DEF MeterInv, UsageTypeOK, Meters
  <2>2. UNCHANGED <<uheld, utally, gone, answered>>
    BY <1>1 DEF pollVars
  <2>3. \A n \in Nodes : spent'[u][n] <= spent[u][n] /\ spent'[u][n] \in Nat
    BY <1>3, <1>4, <2>1
  <2>4. u \in uheld' => /\ \A n \in Nodes : spent'[u][n] <= utally'[u][n]
                        /\ \E n \in Nodes : spent'[u][n] < utally'[u][n]
    BY <2>1, <2>2, <2>3 DEF AheadInv
  <2>5. ASSUME u \notin ulate', NEW n \in Nodes, n \notin gone' \cap answered'
        PROVE  UserTally(u)'[n] <= spent'[u][n] + Due(n)'
    <3>1. CASE u \notin uheld
      BY <1>1, <2>2, <2>3, <3>1 DEF UserTally
    <3>2. CASE u \in uheld
      <4>1. spent'[u] = spent[u] /\ u \notin ulate
        BY <1>2, <1>3, <2>5, <3>2
      <4>2. QED
        BY <1>1, <2>2, <2>5, <4>1 DEF AheadInv, UserTally
    <3>3. QED
      BY <3>1, <3>2
  <2>6. QED
    BY <2>4, <2>5
<1> QED
  BY <1>5, <1>6 DEF AheadInv

\* Every step keeps the copies ahead by what is due.
LEMMA AheadStep == MeterInv /\ AheadInv /\ [UsageNext]_usageVars => AheadInv'
<1> SUFFICES ASSUME MeterInv, AheadInv, [UsageNext]_usageVars PROVE AheadInv'
  OBVIOUS
<1>1. CASE PollBegin \/ PollCommit \/ PollAbort
  <2>1. UsageTypeOK' /\ answered' = {} /\ held' = {} /\ uheld' = {}
    BY <1>1, TypeStep DEF UsageNext, MeterInv, UsageTypeOK, PollBegin, PollCommit, PollAbort, Forget
  <2>2. /\ \A n \in Nodes : Due(n)' = 0
        /\ \A c \in Clients : Tally(c)' = used'[c]
        /\ \A u \in Users : UserTally(u)' = spent'[u]
    BY <2>1 DEF Due, Tally, UserTally
  <2>3. /\ \A c \in Clients : \A n \in Nodes : used'[c][n] \in Nat
        /\ \A u \in Users : \A n \in Nodes : spent'[u][n] \in Nat
    BY <2>1 DEF UsageTypeOK, Meters
  <2>4. QED
    BY <2>1, <2>2, <2>3 DEF AheadInv
<1>2. ASSUME NEW n \in Nodes, NodeStep(n) PROVE AheadInv'
  BY <1>2, PollNodeAhead, NodeAhead DEF NodeStep
<1>3. ASSUME NEW c \in Clients, ClientStep(c) PROVE AheadInv'
  BY <1>3, ClientAhead
<1>4. CASE UNCHANGED usageVars
  BY <1>4 DEF usageVars, AheadInv, Tally, UserTally, Due
<1> QED
  BY <1>1, <1>2, <1>3, <1>4 DEF UsageNext

\* A step that records nothing bills nothing.
LEMMA NoGrowth ==
  ASSUME UsageTypeOK, NEW n \in Nodes,
         recorded'[n] = recorded[n] \/ n \notin nodes \/ n \notin nodes'
  PROVE  Growth(n) = 0
<1>1. recorded[n] \in Nat
  BY DEF UsageTypeOK, Meters
<1> QED
  BY <1>1, DeltaIs DEF Growth

LEMMA CommitBills ==
  ASSUME MeterInv, AheadInv, PollCommit
  PROVE  BilledStep /\ ResetStep
<1>1. /\ \A c \in Clients : used'[c] = Tally(c)
      /\ \A u \in Users : spent'[u] = UserTally(u)
      /\ gone \cap answered = {} /\ UNCHANGED <<nodes, client, touched>>
  BY DEF PollCommit, historyVars, Tally, UserTally, StaleRow
<1>2. ASSUME NEW n \in Nodes PROVE Growth(n) = Due(n) /\ Due(n) \in Nat
  <2>1. recorded[n] \in Nat /\ view[n] \in Nat
    BY Numbers DEF MeterInv
  <2>2. CASE n \in answered
    BY <1>1, <2>1, <2>2, DeltaIs DEF PollCommit, Growth, Due, MeterInv, SessionInv
  <2>3. CASE n \notin answered
    <3>1. recorded'[n] = recorded[n] /\ Due(n) = 0
      BY <2>3 DEF PollCommit, Due
    <3> QED
      BY <3>1, NoGrowth DEF MeterInv
  <2> QED
    BY <2>2, <2>3
<1>3. BilledStep
  BY <1>1, <1>2 DEF BilledStep, MeterInv, BillInv
<1>4. ASSUME NEW c \in Clients \ late, NEW n \in Nodes
      PROVE  used'[c][n] <= used[c][n] + Growth(n)
  <2>1. used[c][n] \in Nat
    BY Numbers DEF MeterInv
  <2>2. CASE c \notin held
    BY <1>1, <1>2, <2>1, <2>2 DEF Tally
  <2>3. CASE c \in held
    BY <1>1, <1>2, <2>3 DEF AheadInv, PollCommit, StaleRow
  <2> QED
    BY <2>2, <2>3
<1>5. ASSUME NEW u \in Users \ ulate, NEW n \in Nodes
      PROVE  spent'[u][n] <= spent[u][n] + Growth(n)
  BY <1>1, <1>2 DEF AheadInv
<1> QED
  BY <1>3, <1>4, <1>5 DEF ResetStep

LEMMA StepBills ==
  ASSUME MeterInv, AheadInv, UsageNext
  PROVE  BilledStep /\ ResetStep
<1>1. CASE PollCommit
  BY <1>1, CommitBills
<1>2. CASE ~PollCommit
  <2>1. ASSUME NEW n \in Nodes PROVE Growth(n) = 0
    <3>1. recorded'[n] = recorded[n] \/ n \notin nodes \/ n \notin nodes'
      BY <1>2 DEF UsageNext, NodeStep, ClientStep, PollBegin, PollAbort, PollNode, Register,
         Remove, Traffic, Reboot, CreateClient, UpdateClient, ResetTraffic, DeleteClient,
         rowVars, MeterInv, UsageTypeOK, Meters
    <3> QED
      BY <3>1, NoGrowth DEF MeterInv
  <2>2. /\ \A c \in Clients : used'[c] = used[c] \/ (used'[c] = NoBytes /\ c \in touched')
        /\ \A u \in Users : \/ spent'[u] = spent[u]
                            \/ spent'[u] = NoBytes /\ ClientsOf(u) \cap touched' # {}
    BY <1>2, UsageAssumption
       DEF UsageNext, NodeStep, ClientStep, PollBegin, PollAbort, PollNode, Register,
         Remove, Traffic, Reboot, CreateClient, UpdateClient, ResetTraffic, DeleteClient,
         rowVars, MeterInv, UsageTypeOK, ClientsOf
  <2>3. /\ \A c \in Clients, n \in Nodes : used[c][n] \in Nat
        /\ \A u \in Users, n \in Nodes : spent[u][n] \in Nat
    BY Numbers DEF MeterInv
  <2>4. BilledStep
    BY <2>1, <2>2, <2>3 DEF BilledStep
  <2>5. ResetStep
    BY <2>1, <2>2, <2>3 DEF ResetStep, NoBytes
  <2> QED
    BY <2>4, <2>5
<1> QED
  BY <1>1, <1>2

\* Initially nothing was billed.
LEMMA AheadInit == UsageInit => AheadInv
  BY TypeInit, IdleAhead DEF UsageInit

\* In every step a client in service since before the poll, and its user, pay exactly
\* what the recorded counters of their nodes grow by: for any nodes, clients, users
\* and faults, deleted rows included.
THEOREM UsageBilledOnce == UsageSpec => BilledOnce
<1>1. MeterInv /\ [UsageNext]_usageVars => MeterInv'
  BY MeterStep
<1>2. MeterInv /\ AheadInv /\ [UsageNext]_usageVars => AheadInv'
  BY AheadStep
<1>3. MeterInv /\ AheadInv /\ [UsageNext]_usageVars => [BilledStep]_usageVars
  BY StepBills
<1> QED
  BY MeterInit, AheadInit, <1>1, <1>2, <1>3, PTL DEF UsageSpec, BilledOnce

\* A reset is only undone by a poll that had billed the client, or a client of the
\* user, before the reset.
THEOREM UsageResetHolds == UsageSpec => ResetHolds
<1>1. MeterInv /\ [UsageNext]_usageVars => MeterInv'
  BY MeterStep
<1>2. MeterInv /\ AheadInv /\ [UsageNext]_usageVars => AheadInv'
  BY AheadStep
<1>3. MeterInv /\ AheadInv /\ [UsageNext]_usageVars => [ResetStep]_usageVars
  BY StepBills
<1> QED
  BY MeterInit, AheadInit, <1>1, <1>2, <1>3, PTL DEF UsageSpec, ResetHolds
=============================================================================

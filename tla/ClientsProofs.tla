---------------------------- MODULE ClientsProofs ----------------------------
(***************************************************************************)
(* Capacity and entitlement for any users, plans, payloads, requests and   *)
(* numbers of clients, on both databases.                                  *)
(***************************************************************************)
EXTENDS Clients, FiniteSetTheorems, WellFoundedInduction, TLAPS

-----------------------------------------------------------------------------
(* Types.                                                                  *)

Rows == [user : Users \cup {NoUser}, plan : Plans \cup {NoPlan},
         enabled : BOOLEAN, used : Amounts, expires : Nat]
Accounts == [created : BOOLEAN, active : BOOLEAN, quota : Amounts, used : Amounts, expires : Nat]
Pending == [quota : Amounts \cup {Unset}, expires : Nat \cup {Unset}]
Reads == [kind : {"none", "create", "insert", "update", "write", "reset", "delete", "limits"},
          user : Users \cup {NoUser}, sub : 0..MaxSubs, row : Rows, seen : SUBSET Subs,
          new : Rows, limits : Pending]

Manages(r) == req[r].kind \in {"create", "insert", "update", "write", "reset", "delete"}
OfClient(r) == req[r].kind \in {"update", "write", "reset", "delete"}
Settled(r) == req[r].kind \in {"insert", "write"}

\* What a request is about, which lock it has, and that there was room when it
\* decided for one more.
Owner(r) == req[r].kind # "none" => req[r].user \in Users /\ user[req[r].user].created
Locked(r) == req[r].kind \in {"create", "insert", "write"} => Holds(r)
Client(r) ==
  /\ OfClient(r) => /\ req[r].sub \in Subs /\ req[r].row.user = req[r].user
                    /\ sub[req[r].sub].user \in {req[r].user, NoUser}
  /\ req[r].kind \in {"create", "insert"} => req[r].sub = 0
Room(r) == Settled(r) =>
  /\ req[r].new.user = req[r].user
  /\ req[r].kind = "write" /\ req[r].new.enabled =>
       \/ req[r].new.plan = req[r].row.plan /\ req[r].row.enabled
       \/ Capacity(req[r].new.plan, req[r].seen)
  /\ req[r].kind = "insert" => Capacity(req[r].new.plan, req[r].seen)

\* What was read is still so.
Fresh(r) ==
  /\ OfClient(r) => req[r].row = sub[req[r].sub]
  /\ Settled(r) => Devices(req[r].user, req[r].new.plan) \ {req[r].sub} \subseteq req[r].seen

\* SQLite's lock is one.
Whole(r) == Sqlite /\ Manages(r) => (\A v \in Users : lock[v] = r) /\ Fresh(r)

ReqOK(r) == Owner(r) /\ Locked(r) /\ Client(r) /\ Room(r) /\ Whole(r)

Typed ==
  /\ database \in Databases /\ now \in Nat /\ lock \in [Users -> Requests \cup {Free}]
  /\ user \in [Users -> Accounts] /\ sub \in [Subs -> Rows] /\ req \in [Requests -> Reads]
Owned == \A s \in Subs : sub[s].user # NoUser => user[sub[s].user].created

ClientsInv == Typed /\ Owned /\ \A r \in Requests : ReqOK(r)

LEMMA Records ==
  /\ Idle \in Reads /\ Idle.kind = "none"
  /\ NoClient \in Rows /\ NoClient.user = NoUser /\ NoClient.enabled = FALSE
  /\ Kept \in Pending
  /\ Subs \subseteq Nat /\ IsFiniteSet(Subs) /\ 0 \notin Subs
  <1>1. NoClient \in Rows /\ NoClient.user = NoUser /\ NoClient.enabled = FALSE
    BY DEF NoClient, Rows, Amounts, Never
  <1>2. Kept \in Pending
    BY DEF Kept, Pending
  <1>3. Subs \subseteq Nat /\ IsFiniteSet(Subs) /\ 0 \notin Subs
    BY FS_Interval, ClientsAssumption DEF Subs
  <1>4. Idle \in Reads /\ Idle.kind = "none"
    BY <1>1, <1>2, ClientsAssumption DEF Idle, Reads
  <1>5. QED
    BY <1>1, <1>2, <1>3, <1>4

-----------------------------------------------------------------------------
(* The newest of the page's clients.                                       *)

LEMMA Newest ==
  ASSUME NEW S \in SUBSET Subs, S # {}
  PROVE  \E m \in S : \A o \in S : o <= m
  <1> DEFINE R == OpToRel(<, Nat)
             Away == {MaxSubs - s : s \in S}
  <1>1. IsWellFoundedOn(R, Nat)
    BY NatLessThanWellFounded
  <1>2. \A a, b \in Nat : a < b => <<a, b>> \in R
    BY DEF OpToRel
  <1>3. Away \subseteq Nat /\ Away # {}
    <2>1. \A s \in S : MaxSubs - s \in Nat
      BY ClientsAssumption DEF Subs
    <2>2. QED
      BY <2>1
  <1> HIDE DEF R
  <1>4. PICK a \in Away : \A b \in Away : ~(<<b, a>> \in R)
    BY <1>1, <1>3, WFMin
  <1>5. PICK m \in S : a = MaxSubs - m
    BY <1>4
  <1>6. \A o \in S : ~(MaxSubs - o < MaxSubs - m)
    BY <1>2, <1>3, <1>4, <1>5
  <1>7. QED
    BY <1>6, ClientsAssumption DEF Subs

\* The entitlement by token and the one by user agree on every subscription.
LEMMA SameRules ==
  ASSUME NEW s \in Subs, NEW u, sub[s].user = u, u # NoUser
  PROVE  Lookup(s) <=> s \in PageRows(u)
  BY DEF Lookup, PageRows, SubsOf

\* Every token that is let in finds a page of its own user.
LEMMA PageFound == PageMatchesToken
  <1> SUFFICES ASSUME NEW s \in Subs, Lookup(s)
               PROVE  PageRows(sub[s].user) # {} /\ Page(s) >= s /\ Lookup(Page(s))
    BY DEF PageMatchesToken
  <1> DEFINE shown == PageRows(sub[s].user)
  <1>1. s \in shown /\ sub[s].user # NoUser
    BY SameRules DEF Lookup
  <1>2. shown \in SUBSET Subs
    BY DEF PageRows, SubsOf
  <1>3. \E t \in shown : \A o \in shown : o <= t
    BY <1>1, <1>2, Newest
  <1>4. Page(s) \in shown /\ \A o \in shown : o <= Page(s)
    BY <1>3 DEF Page
  <1>5. sub[Page(s)].user = sub[s].user /\ Page(s) \in Subs
    BY <1>4 DEF PageRows, SubsOf
  <1>6. Lookup(Page(s))
    BY <1>1, <1>4, <1>5, SameRules
  <1>7. Page(s) >= s
    BY <1>1, <1>4, <1>5, Records
  <1>8. QED
    BY <1>1, <1>6, <1>7

\* The two copies of the entitlement rules never disagree: a token that is let in
\* always finds a page.
THEOREM PageForToken == ClientsSpec => []PageMatchesToken
  BY PageFound, PTL

-----------------------------------------------------------------------------
(* The locks and what was read under them.                                 *)

Created == \A v \in Users : user[v].created => user'[v].created

\* On SQLite nobody manages beside the holder of a lock, nor while it is free.
LEMMA Alone ==
  ASSUME ClientsInv, Sqlite, NEW r \in Requests, NEW v \in Users, lock[v] \in {r, Free}
  PROVE  \A q \in Requests \ {r} : ~Manages(q)
  BY ClientsAssumption DEF ClientsInv, ReqOK, Whole

LEMMA NobodyManages ==
  ASSUME ClientsInv, Sqlite, Writable
  PROVE  \A q \in Requests : ~Manages(q)
  BY ClientsAssumption DEF ClientsInv, ReqOK, Whole, Owner, Writable, Manages

\* A request that does nothing keeps what it knows: nobody takes its lock, its
\* client changes hands to nobody, and on SQLite nothing changes at all.
LEMMA Keeps ==
  ASSUME ClientsInv, NEW q \in Requests, req'[q] = req[q], database' = database, Created,
         \A v \in Users : lock[v] = q => lock'[v] = q,
         \A s \in Subs : OfClient(q) /\ s = req[q].sub => sub'[s].user \in {sub[s].user, NoUser},
         Sqlite /\ Manages(q) => sub' = sub
  PROVE  ReqOK(q)'
  <1>1. ReqOK(q)
    BY DEF ClientsInv
  <1>2. Owner(q)'
    BY <1>1 DEF ReqOK, Owner, Created
  <1>3. Locked(q)'
    BY <1>1 DEF ReqOK, Locked, Holds, Owner
  <1>4. Client(q)'
    BY <1>1 DEF ReqOK, Client, OfClient
  <1>5. Room(q)'
    BY <1>1 DEF ReqOK, Room, Settled, Capacity
  <1>6. Whole(q)'
    <2> SUFFICES ASSUME Sqlite, Manages(q) PROVE (\A v \in Users : lock'[v] = q) /\ Fresh(q)'
      BY DEF Whole, Sqlite, Manages
    <2>1. sub' = sub
      OBVIOUS
    <2>2. Fresh(q)'
      BY <1>1, <2>1 DEF ReqOK, Whole, Fresh, OfClient, Settled, Devices, SubsOf
    <2>3. QED
      BY <1>1, <2>2 DEF ReqOK, Whole
  <1>7. QED
    BY <1>2, <1>3, <1>4, <1>5, <1>6 DEF ReqOK

\* A client's request that is over.
LEMMA Leaves ==
  ASSUME ClientsInv, NEW r \in Requests, Leave(r), database' = database, Created,
         \A q \in Requests \ {r} : \A s \in Subs :
            OfClient(q) /\ s = req[q].sub => sub'[s].user \in {sub[s].user, NoUser},
         Sqlite /\ sub' # sub => \A q \in Requests \ {r} : ~Manages(q)
  PROVE  (\A q \in Requests : ReqOK(q)') /\ req' \in [Requests -> Reads]
         /\ lock' \in [Users -> Requests \cup {Free}]
  <1>1. /\ req' = [req EXCEPT ![r] = Idle]
        /\ lock' = [v \in Users |-> IF lock[v] = r THEN Free ELSE lock[v]]
    BY DEF Leave
  <1>2. lock' \in [Users -> Requests \cup {Free}]
    BY <1>1 DEF ClientsInv, Typed
  <1>3. req'[r] = Idle /\ (\A q \in Requests : q # r => req'[q] = req[q])
        /\ req' \in [Requests -> Reads]
    BY <1>1, Records DEF ClientsInv, Typed
  <1>4. ReqOK(r)'
    BY <1>3, Records
    DEF ReqOK, Owner, Locked, Client, OfClient, Room, Settled, Whole, Manages
  <1>5. ASSUME NEW q \in Requests, q # r PROVE ReqOK(q)'
    <2>1. \A v \in Users : lock[v] = q => lock'[v] = q
      BY <1>1, <1>5
    <2>2. \A s \in Subs : OfClient(q) /\ s = req[q].sub => sub'[s].user \in {sub[s].user, NoUser}
      BY <1>5
    <2>3. Sqlite /\ Manages(q) => sub' = sub
      BY <1>5
    <2>4. QED
      BY <1>3, <1>5, <2>1, <2>2, <2>3, Keeps
  <1>6. QED
    BY <1>2, <1>3, <1>4, <1>5

\* Who leaves with a change of the clients has the lock.
LEMMA Last ==
  ASSUME ClientsInv, NEW r \in Requests, Holds(r) \/ Writable, req[r].kind # "none", Sqlite
  PROVE  \A q \in Requests \ {r} : ~Manages(q)
  <1>1. req[r].user \in Users
    BY DEF ClientsInv, ReqOK, Owner
  <1>2. lock[req[r].user] \in {r, Free}
    BY <1>1 DEF Holds, Writable
  <1>3. QED
    BY <1>1, <1>2, Alone

LEMMA Moments ==
  ASSUME Typed
  PROVE  /\ \A d \in Durations : Until(d) \in Nat
         /\ \A p \in Plans : Plan[p].duration \in Durations
  BY ClientsAssumption DEF Typed, Until, Durations, Never

LEMMA Accounted ==
  ASSUME Typed, NEW u \in Users, NEW quota \in Amounts, NEW expires \in Nat,
         user' = [user EXCEPT ![u].quota = quota, ![u].expires = expires]
  PROVE  user' \in [Users -> Accounts] /\ Created
  <1> DEFINE x == [user[u] EXCEPT !.quota = quota, !.expires = expires]
  <1>1. user[u] \in Accounts
    BY DEF Typed
  <1>2. x \in Accounts /\ x.created = user[u].created
    BY <1>1 DEF Accounts
  <1>3. user' = [user EXCEPT ![u] = x]
    OBVIOUS
  <1> HIDE DEF x
  <1>4. QED
    BY <1>2, <1>3 DEF Typed, Created

LEMMA Limiting ==
  ASSUME Typed, NEW u \in Users, NEW given \in Pending, Limited(u, given)
  PROVE  user' \in [Users -> Accounts] /\ Created
  <1> PICK quota \in Amounts : quota = IF given.quota = Unset THEN user[u].quota ELSE given.quota
    BY DEF Typed, Accounts, Pending
  <1> PICK expires \in Nat : expires = IF given.expires = Unset THEN user[u].expires ELSE given.expires
    BY DEF Typed, Accounts, Pending
  <1>1. user' = [user EXCEPT ![u].quota = quota, ![u].expires = expires]
    BY DEF Limited
  <1>2. QED
    BY <1>1, Accounted

LEMMA Assigning ==
  ASSUME NEW was, NEW new, NEW S, new \in S
  PROVE  Assigned(was, new) \in S \cup {Unset}
  BY DEF Assigned

\* A client more; nobody has its id.
LEMMA Added ==
  ASSUME ClientsInv, NEW s \in Subs, NEW x \in Rows, x.user \in Users,
         sub' = [sub EXCEPT ![s] = x], user'[x.user].created, Created
  PROVE  sub' \in [Subs -> Rows] /\ Owned'
  <1>1. sub' \in [Subs -> Rows]
    BY DEF ClientsInv, Typed
  <1>2. \A t \in Subs : sub'[t] = IF t = s THEN x ELSE sub[t]
    BY DEF ClientsInv, Typed
  <1>3. ASSUME NEW t \in Subs, sub'[t].user # NoUser PROVE user'[sub'[t].user].created
    <2>1. CASE t = s
      BY <1>2, <2>1
    <2>2. CASE t # s
      <3>1. sub'[t] = sub[t] /\ sub[t] \in Rows /\ user[sub[t].user].created
        BY <1>2, <1>3, <2>2 DEF ClientsInv, Typed, Owned
      <3>2. sub[t].user \in Users
        BY <1>3, <3>1 DEF Rows
      <3>3. QED
        BY <3>1, <3>2 DEF Created
    <2>3. QED
      BY <2>1, <2>2
  <1>4. QED
    BY <1>1, <1>3 DEF Owned

LEMMA FreshId ==
  ASSUME ClientsInv, NEW s \in Subs, NextId(s), Postgres
  PROVE  \A q \in Requests : s # req[q].sub
  <1>1. ~Taken(s)
    BY Records DEF NextId
  <1>2. QED
    BY <1>1 DEF Taken, Mentioned

LEMMA Dialects == ASSUME ClientsInv PROVE Sqlite <=> ~Postgres
  BY DEF ClientsInv, Typed, Databases, Sqlite, Postgres

\* Changes that leave every client to its owner.
LEMMA SameOwners ==
  ASSUME ClientsInv, \A t \in Subs : sub'[t].user \in {sub[t].user, NoUser}, Created
  PROVE  Owned'
  <1> SUFFICES ASSUME NEW t \in Subs, sub'[t].user # NoUser PROVE user'[sub'[t].user].created
    BY DEF Owned
  <1>1. sub'[t].user = sub[t].user /\ sub[t].user \in Users /\ user[sub[t].user].created
    BY DEF ClientsInv, Typed, Owned, Rows
  <1>2. QED
    BY <1>1 DEF Created

-----------------------------------------------------------------------------
(* The steps keep the invariant.                                           *)

LEMMA Taking ==
  ASSUME Typed, NEW r \in Requests, NEW u \in Users, Takes(r, u)
  PROVE  /\ lock' \in [Users -> Requests \cup {Free}]
         /\ \A v \in Users : lock[v] # Free => lock'[v] = lock[v]
         /\ lock'[u] = r /\ (Sqlite => \A v \in Users : lock'[v] = r)
  BY ClientsAssumption DEF Takes, Covers, Typed

\* A request gets further and changes no row.
LEMMA Moves ==
  ASSUME ClientsInv, NEW r \in Requests, NEW x \in Reads, req' = [req EXCEPT ![r] = x],
         lock' \in [Users -> Requests \cup {Free}],
         \A v \in Users : lock[v] # Free => lock'[v] = lock[v],
         UNCHANGED <<database, now, user, sub>>, ReqOK(r)'
  PROVE  ClientsInv'
  <1>1. (\A q \in Requests : q # r => req'[q] = req[q]) /\ req' \in [Requests -> Reads]
    BY DEF ClientsInv, Typed
  <1>2. ASSUME NEW q \in Requests, q # r PROVE ReqOK(q)'
    <2>1. \A v \in Users : lock[v] = q => lock'[v] = q
      BY ClientsAssumption
    <2>2. \A s \in Subs : sub'[s].user = sub[s].user
      OBVIOUS
    <2>3. Created
      BY DEF Created
    <2>4. QED
      BY <1>1, <1>2, <2>1, <2>2, <2>3, Keeps
  <1>3. Typed' /\ Owned'
    BY <1>1 DEF ClientsInv, Typed, Owned
  <1>4. QED
    BY <1>2, <1>3 DEF ClientsInv

LEMMA InvEnter ==
  ASSUME ClientsInv, NEW r \in Requests, NEW u \in Users, CreateEnter(r, u)
  PROVE  ClientsInv'
  <1> PICK x : x = [Idle EXCEPT !.kind = "create", !.user = u]
    OBVIOUS
  <1>1. x \in Reads /\ x.kind = "create" /\ x.user = u /\ x.sub = 0
    BY Records DEF Reads, Idle
  <1>2. req' = [req EXCEPT ![r] = x] /\ UNCHANGED <<database, now, user, sub>>
        /\ Takes(r, u) /\ user[u].created
    BY DEF CreateEnter
  <1>3. req'[r] = x
    BY <1>2 DEF ClientsInv, Typed
  <1>4. /\ lock' \in [Users -> Requests \cup {Free}]
        /\ \A v \in Users : lock[v] # Free => lock'[v] = lock[v]
        /\ lock'[u] = r /\ (Sqlite => \A v \in Users : lock'[v] = r)
    BY <1>2, Taking DEF ClientsInv
  <1>5. ReqOK(r)'
    BY <1>1, <1>2, <1>3, <1>4
    DEF ReqOK, Owner, Locked, Holds, Client, OfClient, Room, Settled, Whole, Fresh, Sqlite
  <1>6. QED
    BY <1>1, <1>2, <1>4, <1>5, Moves

LEMMA InvFetch ==
  ASSUME ClientsInv, NEW r \in Requests, NEW kind \in {"update", "reset", "delete"},
         NEW s \in Subs, Fetch(r, kind, s)
  PROVE  ClientsInv'
  <1> PICK u : u = sub[s].user
    OBVIOUS
  <1> PICK x : x = [Idle EXCEPT !.kind = kind, !.user = u, !.sub = s, !.row = sub[s]]
    OBVIOUS
  <1>1. sub[s] \in Rows /\ u \in Users /\ user[u].created
    BY DEF Fetch, ClientsInv, Typed, Owned, Rows
  <1>2. x \in Reads /\ x.kind = kind /\ x.user = u /\ x.sub = s /\ x.row = sub[s]
    <2>1. s \in 0..MaxSubs
      BY ClientsAssumption DEF Subs
    <2>2. QED
      BY <1>1, <2>1, Records DEF Reads
  <1>3. /\ req' = [req EXCEPT ![r] = x] /\ UNCHANGED <<database, now, user, sub>>
        /\ IF Sqlite THEN Takes(r, u) ELSE lock' = lock
    BY DEF Fetch
  <1>4. req'[r] = x
    BY <1>3 DEF ClientsInv, Typed
  <1>5. /\ lock' \in [Users -> Requests \cup {Free}]
        /\ \A v \in Users : lock[v] # Free => lock'[v] = lock[v]
        /\ Sqlite => \A v \in Users : lock'[v] = r
    BY <1>1, <1>3, Taking DEF ClientsInv, Typed
  <1>6. Client(r)' /\ Fresh(r)'
    BY <1>2, <1>3, <1>4 DEF Client, Fresh, OfClient, Settled
  <1>7. ReqOK(r)'
    BY <1>1, <1>2, <1>3, <1>4, <1>5, <1>6
    DEF ReqOK, Owner, Locked, Room, Settled, Whole, Sqlite
  <1>8. QED
    BY <1>2, <1>3, <1>5, <1>7, Moves

LEMMA InvLock ==
  ASSUME ClientsInv, NEW r \in Requests, LockUser(r)
  PROVE  ClientsInv'
  <1>1. /\ req' = req /\ UNCHANGED <<database, now, user, sub>> /\ Takes(r, req[r].user)
        /\ req[r].kind \in {"update", "reset", "delete"} /\ ~Holds(r)
    BY DEF LockUser
  <1>2. req[r].user \in Users
    BY <1>1 DEF ClientsInv, ReqOK, Owner
  <1>3. /\ lock' \in [Users -> Requests \cup {Free}]
        /\ \A v \in Users : lock[v] # Free => lock'[v] = lock[v]
    BY <1>1, <1>2, Taking DEF ClientsInv
  <1>4. Postgres
    BY <1>1, <1>2, Dialects DEF ClientsInv, ReqOK, Whole, Manages, Holds
  <1>5. ReqOK(r)'
    BY <1>1, <1>4, ClientsAssumption
    DEF ClientsInv, ReqOK, Owner, Locked, Client, OfClient, Room, Settled, Capacity, Whole, Sqlite, Postgres
  <1>6. req[r] \in Reads /\ req' = [req EXCEPT ![r] = req[r]]
    BY <1>1 DEF ClientsInv, Typed
  <1>7. QED
    BY <1>1, <1>3, <1>5, <1>6, Moves

LEMMA InvCheck ==
  ASSUME ClientsInv, NEW r \in Requests, NEW p \in Plans \cup {NoPlan}, NEW single_active \in BOOLEAN,
         NEW given \in Terms, CreateCheck(r, p, single_active, given)
  PROVE  ClientsInv'
  <1> PICK u : u = req[r].user
    OBVIOUS
  <1>1. req[r] \in Reads /\ req[r].kind = "create" /\ u \in Users /\ user[u].created
        /\ user[u] \in Accounts /\ lock[u] = r /\ (Sqlite => \A v \in Users : lock[v] = r)
        /\ req[r].sub = 0
    BY DEF CreateCheck, ClientsInv, Typed, ReqOK, Owner, Locked, Holds, Client, Whole, Manages
  <1>2. given.quota \in Amounts \cup {Unset} /\ given.duration \in Durations \cup {Unset}
    BY ClientsAssumption DEF Limits
  <1>3. PICK expires : expires = IF given.duration # Unset THEN Until(given.duration)
                                 ELSE IF p # NoPlan THEN Until(Plan[p].duration) ELSE user[u].expires
    OBVIOUS
  <1>4. expires \in Nat
    BY <1>1, <1>2, <1>3, Moments DEF Accounts, ClientsInv
  <1>5. PICK quota : quota = IF given.quota # Unset THEN given.quota ELSE user[u].quota
    OBVIOUS
  <1>6. quota \in Amounts
    BY <1>1, <1>2, <1>5 DEF Accounts
  <1>7. PICK limits : limits = IF p = NoPlan /\ (given.quota # Unset \/ given.duration # Unset)
                               THEN [quota |-> Assigned(user[u].quota, quota),
                                     expires |-> Assigned(user[u].expires, expires)] ELSE Kept
    OBVIOUS
  <1>8. limits \in Pending
    <2>1. Assigned(user[u].quota, quota) \in Amounts \cup {Unset}
          /\ Assigned(user[u].expires, expires) \in Nat \cup {Unset}
      BY <1>4, <1>6, Assigning
    <2>2. QED
      BY <1>7, <2>1, Records DEF Pending
  <1> PICK new : new = NewClient(u, p, expires)
    OBVIOUS
  <1> PICK x : x = [req[r] EXCEPT !.kind = "insert", !.seen = Devices(u, p), !.new = new,
                                  !.limits = limits]
    OBVIOUS
  <1>9. new \in Rows /\ new.user = u /\ new.plan = p
    BY <1>1, <1>4 DEF NewClient, Rows, Amounts
  <1>10. /\ x \in Reads /\ x.kind = "insert" /\ x.user = u /\ x.seen = Devices(u, p) /\ x.new = new
         /\ x.sub = 0
    <2>1. Devices(u, p) \subseteq Subs
      BY DEF Devices, SubsOf
    <2>2. QED
      BY <1>1, <1>8, <1>9, <2>1 DEF Reads
  <1>11. /\ req' = [req EXCEPT ![r] = x] /\ UNCHANGED <<database, now, user, sub, lock>>
         /\ Capacity(p, Devices(u, p))
    BY <1>3, <1>5, <1>7 DEF CreateCheck
  <1>12. req'[r] = x
    BY <1>11 DEF ClientsInv, Typed
  <1>13. Owner(r)' /\ Locked(r)' /\ Client(r)'
    BY <1>1, <1>10, <1>11, <1>12 DEF Owner, Locked, Holds, Client, OfClient
  <1>14. Room(r)'
    BY <1>9, <1>10, <1>11, <1>12 DEF Room, Settled, Capacity
  <1>15. Fresh(r)'
    <2>1. Devices(u, p)' = Devices(u, p)
      BY <1>11 DEF Devices, SubsOf
    <2>2. /\ req'[r].kind = "insert" /\ req'[r].user = u /\ req'[r].new.plan = p
          /\ req'[r].seen = Devices(u, p)
      BY <1>9, <1>10, <1>12
    <2>3. Devices(req[r].user, req[r].new.plan)' = Devices(u, p)'
      BY <2>2 DEF Devices, SubsOf
    <2>4. QED
      BY <2>1, <2>2, <2>3 DEF Fresh, OfClient, Settled
  <1>16. ReqOK(r)'
    <2>1. Sqlite' => \A v \in Users : lock'[v] = r
      BY <1>1, <1>11 DEF Sqlite
    <2>2. Whole(r)'
      BY <1>15, <2>1 DEF Whole
    <2>3. QED
      BY <1>13, <1>14, <2>2 DEF ReqOK
  <1>17. lock' \in [Users -> Requests \cup {Free}]
    BY <1>11 DEF ClientsInv, Typed
  <1>18. QED
    BY <1>10, <1>11, <1>16, <1>17, Moves

LEMMA InvUpdate ==
  ASSUME ClientsInv, NEW r \in Requests, NEW f \in Patches, UpdateCheck(r, f)
  PROVE  ClientsInv'
  <1> PICK u : u = req[r].user
    OBVIOUS
  <1> PICK s : s = req[r].sub
    OBVIOUS
  <1> PICK row : row = req[r].row
    OBVIOUS
  <1> PICK p : p = Patched(row, f)
    OBVIOUS
  <1> PICK counted : counted = Devices(u, p) \ {s}
    OBVIOUS
  <1>1. /\ req[r] \in Reads /\ req[r].kind = "update" /\ u \in Users /\ user[u].created
        /\ user[u] \in Accounts /\ lock[u] = r /\ row \in Rows /\ row.user = u /\ s \in Subs
        /\ sub[s].user \in {u, NoUser}
    BY DEF UpdateCheck, ClientsInv, Typed, ReqOK, Owner, Holds, Client, OfClient, Reads
  <1>2. f \in Patch
    BY ClientsAssumption
  <1>3. PICK dated : dated = IF f.duration # Unset THEN Until(f.duration)
                             ELSE IF f.clear THEN user[u].expires ELSE row.expires
    OBVIOUS
  <1>4. dated \in Nat
    BY <1>1, <1>2, <1>3, Moments DEF Patch, Accounts, Rows, ClientsInv
  <1>5. PICK expires : expires = IF f.expires # Unset THEN Until(f.expires) ELSE dated
    OBVIOUS
  <1>6. expires \in Nat
    BY <1>2, <1>4, <1>5, Moments DEF Patch, Durations, ClientsInv
  <1>7. p \in Plans \cup {NoPlan}
    BY <1>1, <1>2 DEF Patched, Patch, Rows
  <1>8. PICK on \in BOOLEAN : on = IF f.enabled = "keep" THEN row.enabled ELSE f.enabled = "yes"
    BY <1>1 DEF Rows
  <1>9. PICK new : new = [row EXCEPT !.plan = p, !.expires = expires,
                            !.enabled = IF f.enabled = "keep" THEN @ ELSE f.enabled = "yes"]
    OBVIOUS
  <1>10. new \in Rows /\ new.user = u /\ new.plan = p /\ new.enabled = on
    BY <1>1, <1>6, <1>7, <1>8, <1>9 DEF Rows
  <1>11. PICK limits : limits =
           [quota |-> IF p = NoPlan /\ f.quota # Unset THEN Assigned(user[u].quota, f.quota) ELSE Unset,
            expires |-> IF (p = NoPlan /\ f.duration # Unset) \/ (p = NoPlan /\ f.expires # Unset)
                        THEN Assigned(user[u].expires, expires) ELSE Unset]
    OBVIOUS
  <1>12. limits \in Pending
    <2>1. Assigned(user[u].expires, expires) \in Nat \cup {Unset}
      BY <1>6, Assigning
    <2>2. f.quota # Unset => Assigned(user[u].quota, f.quota) \in Amounts \cup {Unset}
      BY <1>2, Assigning DEF Patch
    <2>3. QED
      BY <1>11, <2>1, <2>2 DEF Pending
  <1> PICK x : x = [req[r] EXCEPT !.kind = "write", !.seen = counted, !.new = new,
                                  !.limits = limits]
    OBVIOUS
  <1>13. /\ x \in Reads /\ x.kind = "write" /\ x.user = u /\ x.sub = s /\ x.row = row
         /\ x.seen = counted /\ x.new = new
    <2>1. counted \subseteq Subs
      BY DEF Devices, SubsOf
    <2>2. QED
      BY <1>1, <1>10, <1>12, <2>1 DEF Reads
  <1>14. /\ req' = [req EXCEPT ![r] = x] /\ UNCHANGED <<database, now, user, sub, lock>>
         /\ RoomFor(row, f, counted)
    <2>1. /\ req' = [req EXCEPT ![r].kind = "write", ![r].seen = counted, ![r].new = new,
                                ![r].limits = limits]
          /\ RoomFor(row, f, counted)
      BY <1>3, <1>5, <1>9, <1>11, Zenon DEF UpdateCheck
    <2>2. UNCHANGED <<database, now, user, sub, lock>>
      BY DEF UpdateCheck
    <2>3. QED
      BY <2>1, <2>2
  <1>15. req'[r] = x
    BY <1>14 DEF ClientsInv, Typed
  <1>16. Owner(r)' /\ Locked(r)' /\ Client(r)'
    BY <1>1, <1>13, <1>14, <1>15 DEF Owner, Locked, Holds, Client, OfClient
  <1>17. on => (p = row.plan /\ row.enabled) \/ Capacity(p, counted)
    <2>1. CASE f.enabled = "yes"
      BY <1>14, <2>1 DEF RoomFor
    <2>2. CASE f.enabled = "keep"
      BY <1>8, <1>14, <2>2 DEF RoomFor, Patched, Capacity
    <2>3. CASE f.enabled = "no"
      BY <1>8, <2>3
    <2>4. QED
      BY <1>2, <2>1, <2>2, <2>3 DEF Patch
  <1>18. Room(r)'
    BY <1>10, <1>13, <1>15, <1>17 DEF Room, Settled, Capacity
  <1>19. Whole(r)'
    <2> SUFFICES ASSUME Sqlite PROVE (\A v \in Users : lock'[v] = r) /\ Fresh(r)'
      BY <1>14 DEF Whole, Sqlite
    <2>1. (\A v \in Users : lock[v] = r) /\ row = sub[s]
      BY <1>1 DEF ClientsInv, ReqOK, Whole, Fresh, OfClient, Manages
    <2>2. Devices(u, p)' = Devices(u, p)
      BY <1>14 DEF Devices, SubsOf
    <2>3. /\ req'[r].kind = "write" /\ req'[r].user = u /\ req'[r].new.plan = p
          /\ req'[r].seen = counted /\ req'[r].sub = s /\ req'[r].row = row
      BY <1>10, <1>13, <1>15
    <2>4. Devices(req[r].user, req[r].new.plan)' = Devices(u, p)'
      BY <2>3 DEF Devices, SubsOf
    <2>5. Fresh(r)'
      BY <1>14, <2>1, <2>2, <2>3, <2>4 DEF Fresh, OfClient, Settled
    <2>6. QED
      BY <1>14, <2>1, <2>5
  <1>20. lock' \in [Users -> Requests \cup {Free}]
    BY <1>14 DEF ClientsInv, Typed
  <1>21. ReqOK(r)'
    BY <1>16, <1>18, <1>19 DEF ReqOK
  <1>22. QED
    BY <1>13, <1>14, <1>20, <1>21, Moves

\* What the unit of work leaves of the row.
LEMMA Merged ==
  ASSUME NEW was \in Rows, NEW new \in Rows, NEW row \in Rows
  PROVE  /\ Written(was, new, row) \in Rows
         /\ \A c \in {"user", "plan", "enabled"} :
              Written(was, new, row)[c] = IF new[c] = was[c] THEN row[c] ELSE new[c]
         /\ new.user = was.user => Written(was, new, row).user = row.user
  <1>1. DOMAIN row = {"user", "plan", "enabled", "used", "expires"}
    BY DEF Rows
  <1> PICK w : w = Written(was, new, row)
    OBVIOUS
  <1>2. w = [c \in {"user", "plan", "enabled", "used", "expires"} |->
               IF new[c] = was[c] THEN row[c] ELSE new[c]]
    BY <1>1 DEF Written
  <1>3. w = [user |-> w.user, plan |-> w.plan, enabled |-> w.enabled, used |-> w.used,
             expires |-> w.expires]
    BY <1>2
  <1>4. /\ w.user \in Users \cup {NoUser} /\ w.plan \in Plans \cup {NoPlan}
        /\ w.enabled \in BOOLEAN /\ w.used \in Amounts /\ w.expires \in Nat
    BY <1>2 DEF Rows
  <1>5. w \in Rows
    BY <1>3, <1>4 DEF Rows
  <1>6. QED
    BY <1>2, <1>5

\* A request that is over, with or without a change.
LEMMA Ends ==
  ASSUME ClientsInv, NEW r \in Requests, req[r].kind # "none", Leave(r),
         UNCHANGED <<database, now>>, sub' \in [Subs -> Rows], user' \in [Users -> Accounts],
         Created, Owned', sub' # sub => Holds(r) \/ Writable,
         \A q \in Requests \ {r} : \A s \in Subs :
            OfClient(q) /\ s = req[q].sub => sub'[s].user \in {sub[s].user, NoUser}
  PROVE  ClientsInv'
  <1>1. Sqlite /\ sub' # sub => \A q \in Requests \ {r} : ~Manages(q)
    BY Last
  <1>2. (\A q \in Requests : ReqOK(q)') /\ req' \in [Requests -> Reads]
        /\ lock' \in [Users -> Requests \cup {Free}]
    BY <1>1, Leaves
  <1>3. QED
    BY <1>2 DEF ClientsInv, Typed

\* A new id is that of no client's request, or on SQLite nobody else has one.
LEMMA FreshClient ==
  ASSUME ClientsInv, NEW r \in Requests, req[r].kind # "none", Holds(r) \/ Writable,
         NEW s \in Subs, NextId(s), NEW x, sub' = [sub EXCEPT ![s] = x],
         NEW q \in Requests \ {r}, NEW t \in Subs, t = req[q].sub, OfClient(q)
  PROVE  sub'[t] = sub[t]
  <1>1. Postgres
    BY Last, Dialects DEF Manages, OfClient
  <1>2. t # s
    BY <1>1, FreshId
  <1>3. QED
    BY <1>2 DEF ClientsInv, Typed

LEMMA InvCommit ==
  ASSUME ClientsInv, NEW r \in Requests, Commit(r)
  PROVE  ClientsInv'
  <1> PICK s : s = req[r].sub
    OBVIOUS
  <1> PICK new : new = req[r].new
    OBVIOUS
  <1>1. /\ req[r] \in Reads /\ Settled(r) /\ req[r].kind # "none" /\ Holds(r)
        /\ req[r].user \in Users /\ user[req[r].user].created
        /\ new \in Rows /\ new.user = req[r].user /\ Leave(r) /\ UNCHANGED <<database, now>>
    BY DEF Commit, ClientsInv, Typed, ReqOK, Owner, Locked, Room, Settled, Reads
  <1>2. user' \in [Users -> Accounts] /\ Created
    <2>1. Limited(req[r].user, req[r].limits) /\ req[r].limits \in Pending
      BY <1>1 DEF Commit, Reads
    <2>2. QED
      BY <1>1, <2>1, Limiting DEF ClientsInv
  <1>3. ASSUME req[r].kind = "insert" PROVE ClientsInv'
    <2>1. PICK t \in Subs : NextId(t) /\ sub' = [sub EXCEPT ![t] = new]
      BY <1>3 DEF Commit
    <2>2. sub' \in [Subs -> Rows] /\ Owned'
      <3>1. user'[new.user].created
        BY <1>1, <1>2 DEF Created
      <3>2. QED
        BY <1>1, <1>2, <2>1, <3>1, Added
    <2>3. \A q \in Requests \ {r} : \A o \in Subs :
             OfClient(q) /\ o = req[q].sub => sub'[o].user \in {sub[o].user, NoUser}
      BY <1>1, <2>1, FreshClient
    <2>4. QED
      BY <1>1, <1>2, <2>2, <2>3, Ends
  <1>4. ASSUME req[r].kind = "write" PROVE ClientsInv'
    <2>1. /\ s \in Subs /\ req[r].row \in Rows /\ req[r].row.user = new.user /\ sub[s] \in Rows
      BY <1>1, <1>4 DEF ClientsInv, Typed, ReqOK, Client, OfClient, Reads
    <2> PICK w : w = Written(req[r].row, new, sub[s])
      OBVIOUS
    <2>2. w \in Rows /\ w.user = sub[s].user
      BY <1>1, <2>1, Merged
    <2>3. sub' = [sub EXCEPT ![s] = w]
      BY <1>4 DEF Commit
    <2>4. sub' \in [Subs -> Rows] /\ \A t \in Subs : sub'[t].user = sub[t].user
      BY <2>1, <2>2, <2>3 DEF ClientsInv, Typed
    <2>5. Owned'
      BY <1>2, <2>4, SameOwners
    <2>6. QED
      BY <1>1, <1>2, <2>4, <2>5, Ends
  <1>5. QED
    BY <1>1, <1>3, <1>4 DEF Settled

LEMMA InvSmall ==
  ASSUME ClientsInv, NEW r \in Requests, ResetTraffic(r) \/ DeleteClient(r) \/ Refuse(r)
  PROVE  ClientsInv'
  <1> PICK s : s = req[r].sub
    OBVIOUS
  <1> PICK row : row = req[r].row
    OBVIOUS
  <1>1. Leave(r) /\ UNCHANGED <<database, now>> /\ req[r].kind # "none" /\ req[r].user \in Users
    BY DEF ResetTraffic, DeleteClient, Refuse, ClientsInv, ReqOK, Owner
  <1>2. CASE ResetTraffic(r)
    <2>1. Holds(r) /\ s \in Subs /\ row \in Rows /\ sub[s] \in Rows
      BY <1>2 DEF ResetTraffic, ClientsInv, Typed, ReqOK, Client, OfClient, Reads
    <2>2. PICK reset : reset = [row EXCEPT !.used = 0]
      OBVIOUS
    <2>3. reset \in Rows /\ reset.user = row.user
      BY <2>1, <2>2 DEF Rows, Amounts
    <2>4. PICK w : w = Written(row, reset, sub[s])
      OBVIOUS
    <2>5. w \in Rows /\ w.user = sub[s].user
      BY <2>1, <2>3, <2>4, Merged
    <2>6. sub' = [sub EXCEPT ![s] = w] /\ user' = [user EXCEPT ![req[r].user].used = 0]
      BY <1>2, <2>2, <2>4 DEF ResetTraffic
    <2>7. sub' \in [Subs -> Rows] /\ \A t \in Subs : sub'[t].user = sub[t].user
      BY <2>1, <2>5, <2>6 DEF ClientsInv, Typed
    <2>8. PICK account : account = [user[req[r].user] EXCEPT !.used = 0]
      OBVIOUS
    <2>9. user' \in [Users -> Accounts] /\ Created
      <3>1. account \in Accounts /\ account.created = user[req[r].user].created
        BY <1>1, <2>8 DEF ClientsInv, Typed, Accounts, Amounts
      <3>2. user' = [user EXCEPT ![req[r].user] = account]
        BY <2>6, <2>8
      <3>3. QED
        BY <1>1, <3>1, <3>2 DEF ClientsInv, Typed, Created
    <2>10. Owned'
      BY <2>7, <2>9, SameOwners
    <2>11. QED
      BY <1>1, <2>1, <2>7, <2>9, <2>10, Ends
  <1>3. CASE DeleteClient(r)
    <2>1. sub' = [sub EXCEPT ![s] = NoClient] /\ user' = user /\ Holds(r)
      BY <1>3 DEF DeleteClient
    <2>2. sub' \in [Subs -> Rows] /\ \A t \in Subs : sub'[t].user \in {sub[t].user, NoUser}
      BY <2>1, Records DEF ClientsInv, Typed
    <2>3. user' \in [Users -> Accounts] /\ Created
      BY <2>1 DEF ClientsInv, Typed, Created
    <2>4. Owned'
      BY <2>2, <2>3, SameOwners
    <2>5. QED
      BY <1>1, <2>1, <2>2, <2>3, <2>4, Ends
  <1>4. CASE Refuse(r)
    <2>1. sub' = sub /\ user' = user
      BY <1>4 DEF Refuse
    <2>2. sub' \in [Subs -> Rows] /\ user' \in [Users -> Accounts] /\ Created /\ Owned'
      BY <2>1 DEF ClientsInv, Typed, Created, Owned
    <2>3. QED
      BY <1>1, <2>1, <2>2, Ends
  <1>5. QED
    BY <1>2, <1>3, <1>4

\* The other writers.
LEMMA Stays ==
  ASSUME ClientsInv, UNCHANGED <<database, lock, req>>, now' \in Nat,
         sub' \in [Subs -> Rows], user' \in [Users -> Accounts], Created, Owned',
         sub' # sub => Writable,
         \A q \in Requests : \A s \in Subs :
            OfClient(q) /\ s = req[q].sub => sub'[s].user \in {sub[s].user, NoUser}
  PROVE  ClientsInv'
  <1>1. \A q \in Requests : Sqlite /\ Manages(q) => sub' = sub
    BY NobodyManages
  <1>2. \A q \in Requests : ReqOK(q)'
    BY <1>1, Keeps
  <1>3. QED
    BY <1>2 DEF ClientsInv, Typed

\* A client from elsewhere.
LEMMA AddsClient ==
  ASSUME ClientsInv, Writable, UNCHANGED <<database, now, lock, req>>, NEW s \in Subs, NextId(s),
         NEW u \in Users, NEW p \in Plans \cup {NoPlan}, NEW e \in Nat,
         sub' = [sub EXCEPT ![s] = NewClient(u, p, e)],
         user' \in [Users -> Accounts], Created, user'[u].created
  PROVE  ClientsInv'
  <1>1. NewClient(u, p, e) \in Rows /\ NewClient(u, p, e).user = u
    BY DEF NewClient, Rows, Amounts
  <1>2. sub' \in [Subs -> Rows] /\ Owned'
    BY <1>1, Added
  <1>3. ASSUME NEW q \in Requests, NEW t \in Subs, OfClient(q), t = req[q].sub
        PROVE  sub'[t] = sub[t]
    <2>1. Postgres
      BY <1>3, NobodyManages, Dialects DEF OfClient, Manages
    <2>2. t # s
      BY <1>3, <2>1, FreshId
    <2>3. QED
      BY <2>2 DEF ClientsInv, Typed
  <1>4. now' \in Nat
    BY DEF ClientsInv, Typed
  <1>5. QED
    BY <1>2, <1>3, <1>4, Stays

LEMMA InvProvision ==
  ASSUME ClientsInv, NEW u \in Users, NEW p \in Plans \cup {NoPlan}, NEW q \in Amounts,
         NEW d \in Durations, Provision(u, p, q, d)
  PROVE  ClientsInv'
  <1>1. PICK quota : quota = IF p = NoPlan THEN q ELSE Plan[p].quota
    OBVIOUS
  <1>2. quota \in Amounts
    BY <1>1, ClientsAssumption
  <1>3. PICK expires : expires = Until(IF p = NoPlan THEN d ELSE Plan[p].duration)
    OBVIOUS
  <1>4. expires \in Nat
    <2>1. CASE p = NoPlan
      BY <1>3, <2>1, Moments DEF ClientsInv
    <2>2. CASE p # NoPlan
      BY <1>3, <2>2, Moments DEF ClientsInv
    <2>3. QED
      BY <2>1, <2>2
  <1>5. PICK account : account = [created |-> TRUE, active |-> TRUE, quota |-> quota,
                                  used |-> 0, expires |-> expires]
    OBVIOUS
  <1>6. account \in Accounts /\ account.created
    BY <1>2, <1>4, <1>5 DEF Accounts, Amounts
  <1>7. /\ Writable /\ user' = [user EXCEPT ![u] = account] /\ UNCHANGED <<database, now, lock, req>>
        /\ \E s \in Subs : NextId(s) /\ sub' = [sub EXCEPT ![s] = NewClient(u, p, expires)]
    BY <1>1, <1>3, <1>5 DEF Provision
  <1>8. user' \in [Users -> Accounts] /\ Created /\ user'[u].created
    BY <1>6, <1>7 DEF ClientsInv, Typed, Created
  <1>9. QED
    BY <1>4, <1>7, <1>8, AddsClient

LEMMA InvSubscription ==
  ASSUME ClientsInv, NEW u \in Users, NEW p \in Plans, CreateSubscription(u, p)
  PROVE  ClientsInv'
  <1>1. PICK expires : expires = now + Plan[p].duration
    OBVIOUS
  <1>2. expires \in Nat
    <2>1. Plan[p].duration \in Durations
      BY Moments DEF ClientsInv
    <2>2. QED
      BY <1>1, <2>1 DEF ClientsInv, Typed, Durations
  <1>3. /\ Writable /\ user[u].created /\ UNCHANGED <<database, now, user, lock, req>>
        /\ \E s \in Subs : NextId(s) /\ sub' = [sub EXCEPT ![s] = NewClient(u, p, expires)]
    BY <1>1 DEF CreateSubscription
  <1>4. user' \in [Users -> Accounts] /\ Created /\ user'[u].created
    BY <1>3 DEF ClientsInv, Typed, Created
  <1>5. QED
    BY <1>2, <1>3, <1>4, AddsClient

LEMMA InvLimits ==
  ASSUME ClientsInv, NEW r \in Requests,
         (\E u \in Users, given \in Terms : LimitsLoad(r, u, given)) \/ LimitsCommit(r)
  PROVE  ClientsInv'
  <1>1. ASSUME NEW u \in Users, NEW given \in Terms, LimitsLoad(r, u, given) PROVE ClientsInv'
    <2>1. given.quota \in Amounts \cup {Unset} /\ given.duration \in Durations \cup {Unset}
      BY ClientsAssumption DEF Limits
    <2>2. user[u] \in Accounts /\ user[u].created
      BY <1>1 DEF LimitsLoad, ClientsInv, Typed
    <2>3. PICK expires : expires = IF given.duration = Unset THEN user[u].expires
                                   ELSE Until(given.duration)
      OBVIOUS
    <2>4. expires \in Nat
      BY <2>1, <2>2, <2>3, Moments DEF Accounts, ClientsInv
    <2>5. PICK quota : quota = IF given.quota = Unset THEN user[u].quota ELSE given.quota
      OBVIOUS
    <2>6. quota \in Amounts
      BY <2>1, <2>2, <2>5 DEF Accounts
    <2>7. PICK seen : seen = {s \in SubsOf(u) : sub[s].plan = NoPlan /\ sub[s].enabled
                                                 /\ sub[s].expires # expires}
      OBVIOUS
    <2>8. seen \subseteq Subs
      BY <2>7 DEF SubsOf
    <2>9. PICK new : new = [NoClient EXCEPT !.expires = expires]
      OBVIOUS
    <2>10. new \in Rows
      BY <2>4, <2>9, Records DEF Rows
    <2>11. PICK limits : limits = [quota |-> Assigned(user[u].quota, quota),
                                   expires |-> Assigned(user[u].expires, expires)]
      OBVIOUS
    <2>12. limits \in Pending
      <3>1. Assigned(user[u].quota, quota) \in Amounts \cup {Unset}
            /\ Assigned(user[u].expires, expires) \in Nat \cup {Unset}
        BY <2>4, <2>6, Assigning
      <3>2. QED
        BY <2>11, <3>1 DEF Pending
    <2>13. PICK x : x = [Idle EXCEPT !.kind = "limits", !.user = u, !.seen = seen, !.new = new,
                                     !.limits = limits]
      OBVIOUS
    <2>14. x \in Reads /\ x.kind = "limits" /\ x.user = u
      BY <2>8, <2>10, <2>12, <2>13, Records DEF Reads
    <2>15. req' = [req EXCEPT ![r] = x] /\ UNCHANGED <<database, now, user, sub, lock>>
      BY <1>1, <2>3, <2>5, <2>7, <2>9, <2>11, <2>13 DEF LimitsLoad
    <2>16. req'[r] = x /\ lock' \in [Users -> Requests \cup {Free}]
      BY <2>15 DEF ClientsInv, Typed
    <2>17. ReqOK(r)'
      BY <2>2, <2>14, <2>15, <2>16
      DEF ReqOK, Owner, Locked, Client, OfClient, Room, Settled, Whole, Manages
    <2>18. QED
      BY <2>14, <2>15, <2>16, <2>17, Moves
  <1>2. ASSUME LimitsCommit(r) PROVE ClientsInv'
    <2>1. /\ req[r] \in Reads /\ req[r].kind = "limits" /\ Writable /\ req[r].user \in Users
          /\ Leave(r) /\ UNCHANGED <<database, now>>
      BY <1>2 DEF LimitsCommit, ClientsInv, Typed, ReqOK, Owner
    <2>2. user' \in [Users -> Accounts] /\ Created
      <3>1. Limited(req[r].user, req[r].limits) /\ req[r].limits \in Pending
        BY <1>2, <2>1 DEF LimitsCommit, Reads
      <3>2. QED
        BY <2>1, <3>1, Limiting DEF ClientsInv
    <2>3. PICK expires \in Nat : expires = req[r].new.expires
      BY <2>1 DEF Reads, Rows
    <2>4. sub' = [s \in Subs |-> IF s \in req[r].seen THEN [sub[s] EXCEPT !.expires = expires]
                                ELSE sub[s]]
      BY <1>2, <2>3 DEF LimitsCommit
    <2>5. sub' \in [Subs -> Rows] /\ \A t \in Subs : sub'[t].user = sub[t].user
      <3> SUFFICES ASSUME NEW t \in Subs PROVE sub'[t] \in Rows /\ sub'[t].user = sub[t].user
        BY <2>4
      <3>1. sub[t] \in Rows /\ [sub[t] EXCEPT !.expires = expires] \in Rows
            /\ [sub[t] EXCEPT !.expires = expires].user = sub[t].user
        BY DEF ClientsInv, Typed, Rows
      <3>2. QED
        BY <2>4, <3>1
    <2>6. Owned'
      BY <2>2, <2>5, SameOwners
    <2>7. QED
      BY <2>1, <2>2, <2>5, <2>6, Ends
  <1>3. QED
    BY <1>1, <1>2

LEMMA InvUser ==
  ASSUME ClientsInv, NEW u \in Users, NEW b \in BOOLEAN, SetActive(u, b)
  PROVE  ClientsInv'
  <1>1. user' = [user EXCEPT ![u].active = b] /\ UNCHANGED <<database, now, sub, lock, req>>
    BY DEF SetActive
  <1>2. user' \in [Users -> Accounts] /\ \A v \in Users : user'[v].created = user[v].created
    BY <1>1 DEF ClientsInv, Typed, Accounts
  <1>3. Created /\ Owned' /\ sub' \in [Subs -> Rows] /\ now' \in Nat
    BY <1>1, <1>2, SameOwners DEF ClientsInv, Typed, Created
  <1>4. QED
    BY <1>1, <1>2, <1>3, Stays

LEMMA InvBill ==
  ASSUME ClientsInv, NEW s \in Subs, Bill(s)
  PROVE  ClientsInv'
  <1>1. sub[s].user \in Users
    BY DEF Bill, ClientsInv, Typed, Rows
  <1>2. /\ Writable /\ sub' = [sub EXCEPT ![s].used = 1]
        /\ user' = [user EXCEPT ![sub[s].user].used = 1] /\ UNCHANGED <<database, now, lock, req>>
    BY DEF Bill
  <1>3. user' \in [Users -> Accounts] /\ \A v \in Users : user'[v].created = user[v].created
    BY <1>1, <1>2 DEF ClientsInv, Typed, Accounts, Amounts
  <1>4. sub' \in [Subs -> Rows] /\ \A t \in Subs : sub'[t].user = sub[t].user
    BY <1>2 DEF ClientsInv, Typed, Rows, Amounts
  <1>5. Created /\ Owned' /\ now' \in Nat
    BY <1>2, <1>3, <1>4, SameOwners DEF ClientsInv, Typed, Created
  <1>6. QED
    BY <1>2, <1>3, <1>4, <1>5, Stays

LEMMA InvManager ==
  ASSUME ClientsInv, NEW r \in Requests, ManagerStep(r)
  PROVE  ClientsInv'
  BY InvEnter, InvFetch, InvLock, InvCheck, InvUpdate, InvCommit, InvSmall DEF ManagerStep

LEMMA InvStep == ClientsInv /\ [ClientsNext]_clientsVars => ClientsInv'
  <1> SUFFICES ASSUME ClientsInv, [ClientsNext]_clientsVars PROVE ClientsInv'
    OBVIOUS
  <1>1. CASE Tick \/ UNCHANGED clientsVars
    <2>1. UNCHANGED <<database, user, sub, lock, req>> /\ now' \in Nat
      BY <1>1 DEF Tick, clientsVars, ClientsInv, Typed
    <2>2. sub' \in [Subs -> Rows] /\ user' \in [Users -> Accounts] /\ Created /\ Owned'
      BY <2>1 DEF ClientsInv, Typed, Created, Owned
    <2>3. QED
      BY <2>1, <2>2, Stays
  <1>2. QED
    BY <1>1, InvProvision, InvManager, InvSubscription, InvLimits, InvUser, InvBill DEF ClientsNext

LEMMA InvInit == DatabaseInit /\ ClientsInit => ClientsInv
  <1> SUFFICES ASSUME DatabaseInit, ClientsInit PROVE ClientsInv
    OBVIOUS
  <1>1. Typed
    BY Records DEF DatabaseInit, ClientsInit, Typed, Accounts, Amounts, Never
  <1>2. Owned
    BY Records DEF ClientsInit, Owned
  <1>3. ASSUME NEW r \in Requests PROVE ReqOK(r)
    <2>1. req[r].kind = "none"
      BY Records DEF ClientsInit
    <2>2. QED
      BY <2>1 DEF ReqOK, Owner, Locked, Client, OfClient, Room, Settled, Whole, Manages
  <1>4. QED
    BY <1>1, <1>2, <1>3 DEF ClientsInv

-----------------------------------------------------------------------------
(* Capacity.                                                               *)

\* No more of them, or not too many.
Within(u, p) == Devices(u, p)' \subseteq Devices(u, p)
                \/ Cardinality(Devices(u, p)') <= Plan[p].max_devices

\* One besides the clients that were counted.
LEMMA OneMore ==
  ASSUME NEW u \in Users, NEW p \in Plans, NEW counted \in SUBSET Subs, Capacity(p, counted),
         NEW t \in Subs, Devices(u, p)' \subseteq counted \cup {t}
  PROVE  Within(u, p)
  <1>1. Cardinality(counted) < Plan[p].max_devices
    BY ClientsAssumption DEF Capacity
  <1>2. IsFiniteSet(counted) /\ Cardinality(counted) \in Nat
    BY Records, FS_Subset, FS_CardinalityType
  <1>3. IsFiniteSet(counted \cup {t}) /\ Cardinality(counted \cup {t}) <= Cardinality(counted) + 1
        /\ Cardinality(counted \cup {t}) \in Nat
    <2>1. /\ IsFiniteSet(counted \cup {t})
          /\ \/ Cardinality(counted \cup {t}) = Cardinality(counted)
             \/ Cardinality(counted \cup {t}) = Cardinality(counted) + 1
      BY <1>2, FS_AddElement
    <2>2. QED
      BY <1>2, <2>1
  <1>4. Cardinality(Devices(u, p)') <= Cardinality(counted \cup {t})
        /\ Cardinality(Devices(u, p)') \in Nat
    BY <1>3, FS_Subset, FS_CardinalityType
  <1>5. Plan[p].max_devices \in Nat
    BY ClientsAssumption
  <1>6. QED
    BY <1>1, <1>2, <1>3, <1>4, <1>5 DEF Within

\* A client is added for v on plan k.
Adds(s, v, k) == /\ \A t \in Subs : t # s => sub'[t] = sub[t]
                 /\ sub'[s].user = v /\ sub'[s].plan = k

LEMMA AddedDevice ==
  ASSUME NEW s \in Subs, NEW v, NEW k, Adds(s, v, k), NEW u, NEW p
  PROVE  Devices(u, p)' \subseteq Devices(u, p) \cup {s}
         /\ (u # v \/ p # k => Devices(u, p)' \subseteq Devices(u, p))
  BY DEF Devices, SubsOf, Adds

LEMMA AddsOne ==
  ASSUME ClientsInv, NEW s \in Subs, NEW v, NEW k, NEW e,
         sub' = [sub EXCEPT ![s] = NewClient(v, k, e)]
  PROVE  Adds(s, v, k)
  BY DEF ClientsInv, Typed, NewClient, Adds

LEMMA ProvisionWithin ==
  ASSUME ClientsInv, NEW v \in Users, NEW k \in Plans \cup {NoPlan}, NEW q, NEW d,
         Provision(v, k, q, d), NEW u \in Users, NEW p \in Plans
  PROVE  Within(u, p)
  <1>1. ~user[v].created /\ \E s \in Subs : \E e : sub' = [sub EXCEPT ![s] = NewClient(v, k, e)]
    BY DEF Provision
  <1>2. PICK s \in Subs : \E e : sub' = [sub EXCEPT ![s] = NewClient(v, k, e)]
    BY <1>1
  <1> Adds(s, v, k)
    BY <1>2, AddsOne
  <1>3. CASE u # v
    <2>1. Devices(u, p)' \subseteq Devices(u, p)
      BY <1>3, AddedDevice
    <2>2. QED
      BY <2>1 DEF Within
  <1>4. CASE u = v
    <2>1. Devices(u, p) = {}
      BY <1>1, <1>4, ClientsAssumption DEF Devices, SubsOf, ClientsInv, Owned
    <2>2. Devices(u, p)' \subseteq {s}
      BY <2>1, AddedDevice
    <2>3. Cardinality(Devices(u, p)') \in {0, 1}
      <3>1. CASE Devices(u, p)' = {}
        BY <3>1, FS_EmptySet
      <3>2. CASE Devices(u, p)' = {s}
        BY <3>2, FS_Singleton
      <3>3. QED
        BY <2>2, <3>1, <3>2
    <2>4. QED
      BY <2>3, ClientsAssumption DEF Within
  <1>5. QED
    BY <1>3, <1>4

\* What a request decided from, as far as capacity goes, is still so.
Current(r) ==
  /\ req[r].kind = "write" =>
       \A c \in {"plan", "enabled"} : sub[req[r].sub][c] = req[r].row[c]
  /\ Devices(req[r].user, req[r].new.plan) \ {req[r].sub} \subseteq req[r].seen

\* On SQLite it always is.
LEMMA NotOvertaken ==
  ASSUME ClientsInv, NEW r \in Requests, Settled(r), ~Overtaken(r)
  PROVE  Current(r)
  <1>1. CASE Sqlite
    <2>1. Manages(r)
      BY DEF Settled, Manages
    <2>2. Fresh(r)
      BY <1>1, <2>1 DEF ClientsInv, ReqOK, Whole
    <2>3. req[r].kind = "write" => req[r].row = sub[req[r].sub]
      BY <2>2 DEF Fresh, OfClient
    <2>4. QED
      BY <2>2, <2>3 DEF Fresh, Current
  <1>2. CASE Postgres
    BY <1>2 DEF Overtaken, Current
  <1>3. QED
    BY <1>1, <1>2, Dialects

LEMMA InsertWithin ==
  ASSUME ClientsInv, NEW r \in Requests, Commit(r), req[r].kind = "insert",
         NEW u \in Users, NEW p \in Plans, Current(r) \/ u # req[r].user
  PROVE  Within(u, p)
  <1> PICK new : new = req[r].new
    OBVIOUS
  <1>1. /\ new \in Rows /\ new.user = req[r].user /\ Capacity(new.plan, req[r].seen)
        /\ req[r].seen \subseteq Subs /\ req[r].sub = 0
    BY DEF ClientsInv, Typed, ReqOK, Client, Room, Settled, Reads
  <1>2. PICK t \in Subs : sub' = [sub EXCEPT ![t] = new]
    BY DEF Commit
  <1>3. Adds(t, new.user, new.plan)
    BY <1>2 DEF ClientsInv, Typed, Adds
  <1>4. CASE u = new.user /\ p = new.plan
    <2>1. Devices(u, p) \ {req[r].sub} \subseteq req[r].seen
      BY <1>1, <1>4 DEF Current
    <2>2. Devices(u, p)' \subseteq Devices(u, p) \cup {t}
      BY <1>3, AddedDevice
    <2>3. 0 \notin Devices(u, p)
      BY Records DEF Devices, SubsOf
    <2>4. QED
      BY <1>1, <1>4, <2>1, <2>2, <2>3, OneMore
  <1>5. CASE ~(u = new.user /\ p = new.plan)
    <2>1. Devices(u, p)' \subseteq Devices(u, p)
      BY <1>3, <1>5, AddedDevice
    <2>2. QED
      BY <2>1 DEF Within
  <1>6. QED
    BY <1>4, <1>5

\* Steps that move no client to another owner or plan and enable none.
LEMMA OthersWithin ==
  ASSUME \A t \in Subs : \/ sub'[t] = NoClient
                         \/ /\ sub'[t].user = sub[t].user /\ sub'[t].plan = sub[t].plan
                            /\ sub'[t].enabled = sub[t].enabled,
         NEW u \in Users, NEW p \in Plans
  PROVE  Within(u, p)
  <1>1. Devices(u, p)' \subseteq Devices(u, p)
    BY Records, ClientsAssumption DEF Devices, SubsOf
  <1>2. QED
    BY <1>1 DEF Within

\* An enabled client that changes its plan, and one that is enabled, is counted.
LEMMA WriteWithin ==
  ASSUME ClientsInv, NEW r \in Requests, Commit(r), req[r].kind = "write",
         NEW u \in Users, NEW p \in Plans, Current(r) \/ u # req[r].user
  PROVE  Within(u, p)
  <1> PICK s : s = req[r].sub
    OBVIOUS
  <1> PICK row : row = req[r].row
    OBVIOUS
  <1> PICK new : new = req[r].new
    OBVIOUS
  <1>1. /\ s \in Subs /\ sub[s] \in Rows /\ row \in Rows /\ new \in Rows /\ row.user = new.user
        /\ new.user = req[r].user /\ sub[s].user \in {new.user, NoUser}
        /\ new.enabled => (new.plan = row.plan /\ row.enabled) \/ Capacity(new.plan, req[r].seen)
        /\ req[r].seen \subseteq Subs
    BY DEF ClientsInv, Typed, ReqOK, Client, OfClient, Room, Settled, Reads
  <1>2. sub' = [sub EXCEPT ![s] = Written(row, new, sub[s])]
    BY DEF Commit
  <1>3. /\ \A t \in Subs : t # s => sub'[t] = sub[t]
        /\ sub'[s] = Written(row, new, sub[s])
    BY <1>1, <1>2 DEF ClientsInv, Typed
  <1>4. /\ sub'[s].user = sub[s].user
        /\ sub'[s].plan = IF new.plan = row.plan THEN sub[s].plan ELSE new.plan
        /\ sub'[s].enabled = IF new.enabled = row.enabled THEN sub[s].enabled ELSE new.enabled
    BY <1>1, <1>3, Merged
  <1>5. CASE s \in Devices(u, p) \/ s \notin Devices(u, p)'
    <2>1. Devices(u, p)' \subseteq Devices(u, p)
      BY <1>3, <1>5 DEF Devices, SubsOf
    <2>2. QED
      BY <2>1 DEF Within
  <1>6. CASE s \notin Devices(u, p) /\ s \in Devices(u, p)'
    <2>1. sub'[s].user = u /\ sub'[s].plan = p /\ sub'[s].enabled
      BY <1>6 DEF Devices, SubsOf
    <2>2. u = req[r].user /\ Current(r)
      BY <1>1, <1>4, <2>1, ClientsAssumption
    <2>3. sub[s].plan = row.plan /\ sub[s].enabled = row.enabled
      BY <2>2 DEF Current
    <2>4. new.plan = p /\ new.enabled
      BY <1>4, <2>1, <2>3
    <2>5. ~(new.plan = row.plan /\ row.enabled)
      BY <1>1, <1>4, <1>6, <2>1, <2>3, <2>4 DEF Devices, SubsOf
    <2>6. Capacity(p, req[r].seen)
      BY <1>1, <2>4, <2>5
    <2>7. Devices(u, p) \ {s} \subseteq req[r].seen
      BY <2>2, <2>4 DEF Current
    <2>8. Devices(u, p)' \subseteq req[r].seen \cup {s}
      BY <1>3, <2>7 DEF Devices, SubsOf
    <2>9. QED
      BY <1>1, <2>6, <2>8, OneMore
  <1>7. QED
    BY <1>5, <1>6

LEMMA CommitWithin ==
  ASSUME ClientsInv, NEW r \in Requests, Commit(r), NEW u \in Users, NEW p \in Plans
  PROVE  Within(u, p) \/ (req[r].user = u /\ Overtaken(r) /\ Commit(r))
  <1>1. Settled(r)
    BY DEF Commit, Settled
  <1>2. CASE req[r].user = u /\ Overtaken(r)
    BY <1>2
  <1>3. CASE ~(req[r].user = u /\ Overtaken(r))
    <2>1. Current(r) \/ u # req[r].user
      BY <1>1, <1>3, NotOvertaken
    <2>2. QED
      BY <1>1, <2>1, InsertWithin, WriteWithin DEF Settled
  <1>4. QED
    BY <1>2, <1>3

\* A reset and a deletion.
LEMMA SmallWithin ==
  ASSUME ClientsInv, NEW r \in Requests, ResetTraffic(r) \/ DeleteClient(r),
         NEW u \in Users, NEW p \in Plans
  PROVE  Within(u, p)
  <1> PICK s : s = req[r].sub
    OBVIOUS
  <1> PICK row : row = req[r].row
    OBVIOUS
  <1>1. s \in Subs /\ sub[s] \in Rows /\ row \in Rows
    BY DEF ResetTraffic, DeleteClient, ClientsInv, Typed, ReqOK, Client, OfClient, Reads
  <1>2. CASE ResetTraffic(r)
    <2>1. PICK reset : reset = [row EXCEPT !.used = 0]
      OBVIOUS
    <2>2. /\ reset \in Rows /\ reset.user = row.user /\ reset.plan = row.plan
          /\ reset.enabled = row.enabled
      BY <1>1, <2>1 DEF Rows, Amounts
    <2>3. sub' = [sub EXCEPT ![s] = Written(row, reset, sub[s])]
      BY <1>2, <2>1 DEF ResetTraffic
    <2>4. PICK w : w = Written(row, reset, sub[s])
      OBVIOUS
    <2>5. w.user = sub[s].user /\ w.plan = sub[s].plan /\ w.enabled = sub[s].enabled
      BY <1>1, <2>2, <2>4, Merged
    <2>6. \A t \in Subs : sub'[t] = sub[t] \/ (t = s /\ sub'[t] = w)
      BY <2>3, <2>4 DEF ClientsInv, Typed
    <2>7. \A t \in Subs : sub'[t].user = sub[t].user /\ sub'[t].plan = sub[t].plan
                          /\ sub'[t].enabled = sub[t].enabled
      BY <2>5, <2>6
    <2>8. QED
      BY <2>7, OthersWithin
  <1>3. CASE DeleteClient(r)
    <2>1. \A t \in Subs : sub'[t] = NoClient \/ sub'[t] = sub[t]
      BY <1>1, <1>3 DEF DeleteClient, ClientsInv, Typed
    <2>2. QED
      BY <2>1, OthersWithin
  <1>4. QED
    BY <1>2, <1>3

LEMMA LimitsWithin ==
  ASSUME ClientsInv, NEW r \in Requests, LimitsCommit(r), NEW u \in Users, NEW p \in Plans
  PROVE  Within(u, p)
  <1>1. PICK x : sub' = [s \in Subs |-> IF s \in req[r].seen THEN [sub[s] EXCEPT !.expires = x]
                                         ELSE sub[s]]
    BY DEF LimitsCommit
  <1>2. ASSUME NEW t \in Subs
        PROVE  sub'[t].user = sub[t].user /\ sub'[t].plan = sub[t].plan
               /\ sub'[t].enabled = sub[t].enabled
    <2>1. sub[t] \in Rows
      BY DEF ClientsInv, Typed
    <2>2. QED
      BY <1>1, <2>1 DEF Rows
  <1>3. QED
    BY <1>2, OthersWithin

LEMMA BillWithin ==
  ASSUME ClientsInv, NEW s \in Subs, Bill(s), NEW u \in Users, NEW p \in Plans
  PROVE  Within(u, p)
  <1>1. sub' = [sub EXCEPT ![s].used = 1]
    BY DEF Bill
  <1>2. \A t \in Subs : sub'[t].user = sub[t].user /\ sub'[t].plan = sub[t].plan
                        /\ sub'[t].enabled = sub[t].enabled
    BY <1>1 DEF ClientsInv, Typed, Rows
  <1>3. QED
    BY <1>2, OthersWithin

\* The subscription endpoint adds to one user and plan only.
LEMMA SubscriptionWithin ==
  ASSUME ClientsInv, NEW v \in Users, NEW k \in Plans, CreateSubscription(v, k),
         NEW u \in Users, NEW p \in Plans
  PROVE  Within(u, p) \/ CreateSubscription(u, p)
  <1>1. CASE u = v /\ p = k
    BY <1>1
  <1>2. CASE ~(u = v /\ p = k)
    <2> PICK e : e = now + Plan[k].duration
      OBVIOUS
    <2>1. PICK s \in Subs : sub' = [sub EXCEPT ![s] = NewClient(v, k, e)]
      BY DEF CreateSubscription
    <2> Adds(s, v, k)
      BY <2>1, AddsOne
    <2>2. Devices(u, p)' \subseteq Devices(u, p)
      BY <1>2, AddedDevice
    <2>3. QED
      BY <2>2 DEF Within
  <1>3. QED
    BY <1>1, <1>2

Allowed(u, p) == \/ Within(u, p) \/ CreateSubscription(u, p)
                 \/ \E r \in Requests : req[r].user = u /\ Overtaken(r) /\ Commit(r)

LEMMA ManagerWithin ==
  ASSUME ClientsInv, NEW r \in Requests, ManagerStep(r), NEW u \in Users, NEW p \in Plans
  PROVE  Allowed(u, p)
  <1>1. CASE sub' = sub
    BY <1>1, OthersWithin DEF Allowed
  <1>2. CASE Commit(r)
    BY <1>2, CommitWithin DEF Allowed
  <1>3. CASE ResetTraffic(r) \/ DeleteClient(r)
    BY <1>3, SmallWithin DEF Allowed
  <1>4. QED
    BY <1>1, <1>2, <1>3
    DEF ManagerStep, CreateEnter, Fetch, LockUser, CreateCheck, UpdateCheck, Refuse

LEMMA StepWithin ==
  ASSUME ClientsInv, [ClientsNext]_clientsVars, NEW u \in Users, NEW p \in Plans
  PROVE  Allowed(u, p)
  <1>1. CASE sub' = sub
    BY <1>1, OthersWithin DEF Allowed
  <1>2. CASE \E r \in Requests : ManagerStep(r)
    BY <1>2, ManagerWithin
  <1>3. CASE \E v \in Users, k \in Plans : CreateSubscription(v, k)
    BY <1>3, SubscriptionWithin DEF Allowed
  <1>4. QED
    BY <1>1, <1>2, <1>3, ProvisionWithin, LimitsWithin, BillWithin
    DEF Allowed, ClientsNext, LimitsLoad, SetActive, Tick, clientsVars

\* No sequence of the client manager's requests, however they overlap, brings a
\* user above the devices of a plan on SQLite; on PostgreSQL only a commit does that
\* was overtaken after its read.
THEOREM CapacityKept == ClientsSpec => PlanCapacity
  <1>1. ClientsInv /\ [ClientsNext]_clientsVars
        => [\A u \in Users, p \in Plans :
             LET devices == {s \in Subs : sub[s].user = u /\ sub[s].plan = p /\ sub[s].enabled}
                 after == {s \in Subs : sub'[s].user = u /\ sub'[s].plan = p /\ sub'[s].enabled}
             IN after \subseteq devices \/ Cardinality(after) <= Plan[p].max_devices
                \/ CreateSubscription(u, p)
                \/ \E r \in Requests : req[r].user = u /\ Overtaken(r) /\ Commit(r)]_clientsVars
    <2> SUFFICES ASSUME ClientsInv, [ClientsNext]_clientsVars, NEW u \in Users, NEW p \in Plans
                 PROVE  LET devices == {s \in Subs : sub[s].user = u /\ sub[s].plan = p /\ sub[s].enabled}
                            after == {s \in Subs : sub'[s].user = u /\ sub'[s].plan = p /\ sub'[s].enabled}
                        IN after \subseteq devices \/ Cardinality(after) <= Plan[p].max_devices
                           \/ CreateSubscription(u, p)
                           \/ \E r \in Requests : req[r].user = u /\ Overtaken(r) /\ Commit(r)
      OBVIOUS
    <2>1. Devices(u, p) = {s \in Subs : sub[s].user = u /\ sub[s].plan = p /\ sub[s].enabled}
      BY DEF Devices, SubsOf
    <2>2. Devices(u, p)' = {s \in Subs : sub'[s].user = u /\ sub'[s].plan = p /\ sub'[s].enabled}
      BY DEF Devices, SubsOf
    <2>3. Allowed(u, p)
      BY StepWithin
    <2>4. QED
      BY <2>1, <2>2, <2>3 DEF Allowed, Within
  <1>2. QED
    BY <1>1, InvInit, InvStep, PTL DEF ClientsSpec, PlanCapacity
=============================================================================

------------------------------- MODULE Clients -------------------------------
(***************************************************************************)
(* Clients (rows of the subscriptions table), the limits of the users that *)
(* own them, and the public links, which decide anew at every request.     *)
(* On SQLite a client manager request holds the one write lock from before *)
(* its first read (BEGIN IMMEDIATE) and the other requests wait for it to  *)
(* commit.  On PostgreSQL it holds an advisory lock of its user, which it  *)
(* takes after it has read the client, and nobody else asks for.  Times    *)
(* are ticks, amounts of traffic 0 or 1.                                   *)
(***************************************************************************)
EXTENDS MasterDatabase, Integers, FiniteSets

CONSTANTS
  Users, NoUser,
  Plans, NoPlan, Plan,  \* Plan[p]: quota, duration (0: none) and max_devices
  Requests, Free,
  Terms, Patches,       \* the limits and the payloads of update_client that are tried
  MaxSubs,              \* bound: subscriptions at one time
  MaxTime               \* bound of the clock

Amounts == {0, 1}    \* gigabytes; as a quota, 0 is unlimited
Durations == {0, 1}  \* days; 0 is unlimited
Never == 0           \* expires_at is NULL
Unset == -1          \* a field the payload leaves out
Limits == [quota : Amounts \cup {Unset}, duration : Durations \cup {Unset}]
Patch == [clear : BOOLEAN, plan : Plans \cup {NoPlan}, quota : Amounts \cup {Unset},
          duration : Durations \cup {Unset}, enabled : {"yes", "no", "keep"},
          expires : {1, Unset}]

ASSUME ClientsAssumption ==
  /\ NoUser \notin Users /\ NoPlan \notin Plans /\ Free \notin Requests
  /\ Plan \in [Plans -> [quota : Amounts, duration : Durations, max_devices : Nat \ {0}]]
  /\ Terms \subseteq Limits /\ Patches \subseteq Patch
  /\ MaxSubs \in Nat /\ MaxTime \in Nat

VARIABLES
  now,
  user,  \* per user: created, active, quota, used, expires
  sub,   \* per subscription: user (NoUser: no row), plan, enabled, used, expires
  lock,  \* per user: the request that holds it (SQLite's one lock: every user's)
  req    \* per request: what it has read and what it is about to write

clientsVars == <<database, now, user, sub, lock, req>>

Subs == 1..MaxSubs
Times == 0..(MaxTime + 1)
UserRows == [created : BOOLEAN, active : BOOLEAN,
             quota : Amounts, used : Amounts, expires : Times]
SubRows == [user : Users \cup {NoUser}, plan : Plans \cup {NoPlan},
            enabled : BOOLEAN, used : Amounts, expires : Times]
NoClient == [user |-> NoUser, plan |-> NoPlan, enabled |-> FALSE, used |-> 0, expires |-> Never]
NewClient(u, p, e) == [user |-> u, plan |-> p, enabled |-> TRUE, used |-> 0, expires |-> e]
Kept == [quota |-> Unset, expires |-> Unset]
Idle == [kind |-> "none", user |-> NoUser, sub |-> 0, row |-> NoClient, seen |-> {},
         new |-> NoClient, limits |-> Kept]

SubsOf(u) == {s \in Subs : sub[s].user = u}
Expired(e) == e # Never /\ e <= now
Until(d) == IF d = 0 THEN Never ELSE now + d
Larger(a, b) == IF a < b THEN b ELSE a

\* The next id; PostgreSQL gives none again that a request may still name.
Mentioned(s) == \E r \in Requests : s = req[r].sub \/ s \in req[r].seen
Taken(s) == sub[s].user # NoUser \/ (Postgres /\ Mentioned(s))
NextId(s) == \A t \in Subs : (Taken(t) => t < s) /\ (t = s - 1 => Taken(t))

\* The unit of work writes the columns that differ from what was read.
Written(was, new, row) == [c \in DOMAIN row |-> IF new[c] = was[c] THEN row[c] ELSE new[c]]
Assigned(was, new) == IF new = was THEN Unset ELSE new

-----------------------------------------------------------------------------
(* Entitlement, as the parts of the program compute it.                    *)

Quota(s) == IF sub[s].plan # NoPlan THEN Plan[sub[s].plan].quota ELSE user[sub[s].user].quota
Used(s) == Larger(user[sub[s].user].used, sub[s].used)
QuotaLeft(s) == Quota(s) # 0 => Used(s) < Quota(s)

\* The public links: a subscription without a date falls back to the user's.
LinkExpiry(s) == IF sub[s].expires # Never THEN sub[s].expires ELSE user[sub[s].user].expires
\* The panel, build_route_config: with a plan only the subscription's date counts.
PanelExpiry(s) == IF sub[s].plan # NoPlan THEN sub[s].expires ELSE LinkExpiry(s)

\* secure_subscription._lookup: may the bearer of this token get anything?
Lookup(s) ==
  /\ sub[s].user # NoUser /\ sub[s].enabled
  /\ user[sub[s].user].active
  /\ ~Expired(LinkExpiry(s))
  /\ QuotaLeft(s)

\* (variant: the page takes the panel's date)
PageRows_Panel(u) == {s \in SubsOf(u) :
  /\ user[u].active /\ sub[s].enabled
  /\ ~Expired(PanelExpiry(s))
  /\ sub[s].plan = NoPlan => QuotaLeft(s)}

\* subscription_server._subscription_rows: what the page of a user may show, of
\* which it takes the newest.
PageRows(u) == {s \in SubsOf(u) :
  /\ user[u].active /\ sub[s].enabled
  /\ ~Expired(LinkExpiry(s))
  /\ QuotaLeft(s)}
Page(s) == CHOOSE t \in PageRows(sub[s].user) : \A o \in PageRows(sub[s].user) : o <= t

-----------------------------------------------------------------------------
(* The client manager.                                                     *)

\* The enabled clients of u on plan p, which _ensure_plan_capacity counts.
Devices(u, p) == {s \in SubsOf(u) : sub[s].plan = p /\ sub[s].enabled}
Capacity(p, counted) == p # NoPlan => Cardinality(counted) < Plan[p].max_devices
AnyEnabled(u) == \E s \in SubsOf(u) : sub[s].enabled

\* _lock_sqlite_write locks everybody, _lock_user one user.
Covers(u, v) == v = u \/ Sqlite
Takes(r, u) ==
  /\ \A v \in Users : Covers(u, v) => lock[v] = Free
  /\ lock' = [v \in Users |-> IF Covers(u, v) THEN r ELSE lock[v]]
Holds(r) == lock[req[r].user] = r
Leave(r) ==
  /\ lock' = [v \in Users |-> IF lock[v] = r THEN Free ELSE lock[v]]
  /\ req' = [req EXCEPT ![r] = Idle]

\* create_client locks its user and then reads.
CreateEnter(r, u) ==
  /\ req[r] = Idle /\ user[u].created /\ Takes(r, u)
  /\ req' = [req EXCEPT ![r] = [Idle EXCEPT !.kind = "create", !.user = u]]
  /\ UNCHANGED <<database, now, user, sub>>

\* The other requests read the client under SQLite's lock ...
Fetch(r, kind, s) ==
  /\ req[r] = Idle /\ sub[s].user # NoUser
  /\ IF Sqlite THEN Takes(r, sub[s].user) ELSE UNCHANGED lock
  /\ req' = [req EXCEPT ![r] = [Idle EXCEPT !.kind = kind, !.user = sub[s].user, !.sub = s,
                                           !.row = sub[s]]]
  /\ UNCHANGED <<database, now, user, sub>>

\* ... or before PostgreSQL's, and keep what they have read.
LockUser(r) ==
  /\ req[r].kind \in {"update", "reset", "delete"} /\ ~Holds(r)
  /\ Takes(r, req[r].user)
  /\ UNCHANGED <<database, now, user, sub, req>>

\* create_client: the checks, for a plan p and the payload's limits, which without a
\* plan become the user's own.
CreateCheck(r, p, single_active, given) ==
  LET u == req[r].user
      expires == IF given.duration # Unset THEN Until(given.duration)
                 ELSE IF p # NoPlan THEN Until(Plan[p].duration) ELSE user[u].expires
      quota == IF given.quota # Unset THEN given.quota ELSE user[u].quota
      own == p = NoPlan /\ (given.quota # Unset \/ given.duration # Unset)
  IN /\ req[r].kind = "create"
     /\ user[u].active
     /\ single_active => ~AnyEnabled(u)
     /\ Capacity(p, Devices(u, p))
     /\ ~Expired(expires)
     /\ req' = [req EXCEPT ![r].kind = "insert", ![r].seen = Devices(u, p),
          ![r].new = NewClient(u, p, expires),
          ![r].limits = IF own THEN [quota |-> Assigned(user[u].quota, quota),
                                     expires |-> Assigned(user[u].expires, expires)] ELSE Kept]
     /\ UNCHANGED <<database, now, user, sub, lock>>

\* The plan after the patch of a client that was read as row.
Patched(row, f) == IF f.clear THEN NoPlan ELSE IF f.plan = NoPlan THEN row.plan ELSE f.plan

\* (variant: an enabled client may move to a full plan)
RoomFor_Enabling(row, f, counted) == f.enabled = "yes" => Capacity(Patched(row, f), counted)

\* Counted: an enabled client that changes its plan, every client that is enabled.
RoomFor(row, f, counted) ==
  (f.plan # NoPlan /\ row.enabled) \/ f.enabled = "yes" => Capacity(Patched(row, f), counted)

\* update_client.  Without a plan the limits given become the user's own.
UpdateCheck(r, f) ==
  LET row == req[r].row
      u == req[r].user
      p == Patched(row, f)
      counted == Devices(u, p) \ {req[r].sub}
      dated == IF f.duration # Unset THEN Until(f.duration)
               ELSE IF f.clear THEN user[u].expires ELSE row.expires
      effective == IF p = NoPlan /\ f.duration = Unset /\ dated = Never THEN user[u].expires ELSE dated
      expires == IF f.expires # Unset THEN Until(f.expires) ELSE dated
      own(given) == p = NoPlan /\ given # Unset
  IN /\ req[r].kind = "update" /\ Holds(r)
     /\ ~(f.clear /\ f.plan # NoPlan)
     /\ RoomFor(row, f, counted)
     /\ f.enabled = "yes" => ~Expired(effective)
     /\ req' = [req EXCEPT ![r].kind = "write", ![r].seen = counted,
          ![r].new = [row EXCEPT !.plan = p, !.expires = expires,
                                 !.enabled = IF f.enabled = "keep" THEN @ ELSE f.enabled = "yes"],
          ![r].limits =
            [quota |-> IF own(f.quota) THEN Assigned(user[u].quota, f.quota) ELSE Unset,
             expires |-> IF own(f.duration) \/ own(f.expires)
                         THEN Assigned(user[u].expires, expires) ELSE Unset]]
     /\ UNCHANGED <<database, now, user, sub, lock>>

\* A row that is gone fails the whole commit (StaleDataError).
Present(s, was, new) == new # was => sub[s].user # NoUser
Limited(u, given) ==
  user' = [user EXCEPT ![u].quota = IF given.quota = Unset THEN @ ELSE given.quota,
                       ![u].expires = IF given.expires = Unset THEN @ ELSE given.expires]

\* The new client, or the columns that changed, and the user's limits.
Commit(r) ==
  LET s == req[r].sub
  IN /\ \/ /\ req[r].kind = "insert"
           /\ \E t \in Subs : NextId(t) /\ sub' = [sub EXCEPT ![t] = req[r].new]
        \/ /\ req[r].kind = "write" /\ Present(s, req[r].row, req[r].new)
           /\ sub' = [sub EXCEPT ![s] = Written(req[r].row, req[r].new, @)]
     /\ Limited(req[r].user, req[r].limits)
     /\ Leave(r) /\ UNCHANGED <<database, now>>

ResetTraffic(r) ==
  LET s == req[r].sub
      reset == [req[r].row EXCEPT !.used = 0]
  IN /\ req[r].kind = "reset" /\ Holds(r) /\ Present(s, req[r].row, reset)
     /\ sub' = [sub EXCEPT ![s] = Written(req[r].row, reset, @)]
     /\ user' = [user EXCEPT ![req[r].user].used = 0]
     /\ Leave(r) /\ UNCHANGED <<database, now>>

DeleteClient(r) ==
  /\ req[r].kind = "delete" /\ Holds(r)
  /\ sub' = [sub EXCEPT ![req[r].sub] = NoClient]
  /\ Leave(r) /\ UNCHANGED <<database, now, user>>

\* 404, 409, 422 or a failed commit: the session is closed and the lock with it.
Refuse(r) ==
  /\ req[r].kind # "none"
  /\ Leave(r) /\ UNCHANGED <<database, now, user, sub>>

-----------------------------------------------------------------------------
(* The other writers.                                                      *)

\* They commit under SQLite's write lock.
Writable == Sqlite => \A u \in Users : lock[u] = Free

\* create_user_with_subscription: the user and its first client, with a plan or
\* with limits of its own, in one transaction.
Provision(u, p, q, d) ==
  LET quota == IF p = NoPlan THEN q ELSE Plan[p].quota
      expires == Until(IF p = NoPlan THEN d ELSE Plan[p].duration)
  IN /\ Writable /\ ~user[u].created
     /\ user' = [user EXCEPT ![u] = [created |-> TRUE, active |-> TRUE, quota |-> quota,
                                     used |-> 0, expires |-> expires]]
     /\ \E s \in Subs : NextId(s) /\ sub' = [sub EXCEPT ![s] = NewClient(u, p, expires)]
     /\ UNCHANGED <<database, now, lock, req>>

\* create_subscription of the reseller API: neither lock nor capacity.
CreateSubscription(u, p) == \E s \in Subs :
  /\ Writable /\ user[u].created /\ NextId(s)
  /\ sub' = [sub EXCEPT ![s] = NewClient(u, p, now + Plan[p].duration)]
  /\ UNCHANGED <<database, now, user, lock, req>>

\* update_user_limits reads the user's enabled clients without a plan; those of
\* another date than the user's new one ...
LimitsLoad(r, u, given) ==
  LET expires == IF given.duration = Unset THEN user[u].expires ELSE Until(given.duration)
      quota == IF given.quota = Unset THEN user[u].quota ELSE given.quota
  IN /\ req[r] = Idle /\ user[u].created
     /\ req' = [req EXCEPT ![r] = [Idle EXCEPT !.kind = "limits", !.user = u,
          !.seen = {s \in SubsOf(u) : sub[s].plan = NoPlan /\ sub[s].enabled
                                      /\ sub[s].expires # expires},
          !.new = [NoClient EXCEPT !.expires = expires],
          !.limits = [quota |-> Assigned(user[u].quota, quota),
                      expires |-> Assigned(user[u].expires, expires)]]]
     /\ UNCHANGED <<database, now, user, sub, lock>>

\* ... get it; one that is gone fails the commit.
LimitsCommit(r) ==
  /\ req[r].kind = "limits" /\ Writable
  /\ \A s \in req[r].seen : sub[s].user # NoUser
  /\ sub' = [s \in Subs |-> IF s \in req[r].seen
                            THEN [sub[s] EXCEPT !.expires = req[r].new.expires] ELSE sub[s]]
  /\ Limited(req[r].user, req[r].limits)
  /\ Leave(r) /\ UNCHANGED <<database, now>>

SetActive(u, b) ==
  /\ Writable /\ user[u].created
  /\ user' = [user EXCEPT ![u].active = b]
  /\ UNCHANGED <<database, now, sub, lock, req>>

\* The poll bills a client and its user (see UsageMeter).
Bill(s) ==
  /\ Writable /\ sub[s].user # NoUser /\ sub[s].enabled
  /\ sub' = [sub EXCEPT ![s].used = 1]
  /\ user' = [user EXCEPT ![sub[s].user].used = 1]
  /\ UNCHANGED <<database, now, lock, req>>

Tick ==
  /\ now < MaxTime
  /\ now' = now + 1
  /\ UNCHANGED <<database, user, sub, lock, req>>

ClientsInit ==
  /\ now = 1 /\ lock = [u \in Users |-> Free] /\ req = [r \in Requests |-> Idle]
  /\ user = [u \in Users |-> [created |-> FALSE, active |-> FALSE, quota |-> 0,
                             used |-> 0, expires |-> Never]]
  /\ sub = [s \in Subs |-> NoClient]

ManagerStep(r) ==
  \/ \E u \in Users : CreateEnter(r, u)
  \/ \E s \in Subs, kind \in {"update", "reset", "delete"} : Fetch(r, kind, s)
  \/ LockUser(r)
  \/ \E p \in Plans \cup {NoPlan}, single_active \in BOOLEAN, given \in Terms :
       CreateCheck(r, p, single_active, given)
  \/ \E f \in Patches : UpdateCheck(r, f)
  \/ Commit(r) \/ ResetTraffic(r) \/ DeleteClient(r) \/ Refuse(r)

ClientsNext ==
  \/ \E u \in Users, p \in Plans \cup {NoPlan}, q \in Amounts, d \in Durations :
       Provision(u, p, q, d)
  \/ \E r \in Requests : ManagerStep(r)
  \/ \E u \in Users, p \in Plans : CreateSubscription(u, p)
  \/ \E r \in Requests, u \in Users, given \in Terms : LimitsLoad(r, u, given)
  \/ \E r \in Requests : LimitsCommit(r)
  \/ \E u \in Users, b \in BOOLEAN : SetActive(u, b)
  \/ \E s \in Subs : Bill(s)
  \/ Tick

ClientsSpec == DatabaseInit /\ ClientsInit /\ [][ClientsNext]_clientsVars

-----------------------------------------------------------------------------
(* Properties.                                                             *)

ClientsTypeOK ==
  /\ now \in 1..(MaxTime + 1)
  /\ user \in [Users -> UserRows]
  /\ sub \in [Subs -> SubRows]
  /\ lock \in [Users -> Requests \cup {Free}]
  /\ \A r \in Requests : req[r].user \in Users \cup {NoUser} /\ req[r].sub \in 0..MaxSubs

\* PostgreSQL: the client changed between its read and the commit, or the
\* subscription endpoint has added one since they were counted.
Overtaken(r) ==
  /\ Postgres
  /\ \/ /\ req[r].kind = "write"
        /\ \E c \in {"plan", "enabled"} : sub[req[r].sub][c] # req[r].row[c]
     \/ ~(Devices(req[r].user, req[r].new.plan) \ {req[r].sub} \subseteq req[r].seen)

\* No sequence of creations, plan changes, enablings and deletions, of several
\* requests at once, brings a user above the max_devices of a plan, except the
\* subscription endpoint, which does not count, and on PostgreSQL a request that
\* was overtaken: update_client decides from the client it read before it had the
\* lock (client_manager._ensure_plan_capacity, _lock_user).
PlanCapacity == [][\A u \in Users, p \in Plans :
  LET devices == {s \in Subs : sub[s].user = u /\ sub[s].plan = p /\ sub[s].enabled}
      after == {s \in Subs : sub'[s].user = u /\ sub'[s].plan = p /\ sub'[s].enabled}
  IN after \subseteq devices \/ Cardinality(after) <= Plan[p].max_devices
     \/ CreateSubscription(u, p)
     \/ \E r \in Requests : req[r].user = u /\ Overtaken(r) /\ Commit(r)]_clientsVars

\* A token that secure_subscription lets in always finds a page: the two copies
\* of the entitlement rules, one by token and one by user, agree, and the page is
\* one of the same user that is in force itself.
PageMatchesToken == \A s \in Subs :
  Lookup(s) => /\ PageRows(sub[s].user) # {}
               /\ Page(s) >= s /\ Lookup(Page(s))
=============================================================================

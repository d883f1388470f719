------------------------------ MODULE Sessions ------------------------------
(***************************************************************************)
(* Accounts and their credentials: refresh tokens that are rotated, short  *)
(* access tokens that nothing revokes, API keys, the worker that deletes   *)
(* expired rows, the password command and the seed at every start.         *)
(* A request reads in one step and commits in a later one, except those    *)
(* whose effect does not depend on what came between: the refresh, one     *)
(* conditional UPDATE, and the revocation of a key.                        *)
(***************************************************************************)
EXTENDS Naturals

CONSTANTS
  Users, Admin,      \* accounts; the one named by settings.admin_user
  Passwords, FirstPassword,
  MaxTokens,         \* bound: refresh tokens ever issued
  Keys,              \* API keys
  Requests,          \* concurrent requests
  NoUser,
  RefreshLife, AccessLife, KeyLife,  \* lifetimes in ticks; KeyLife 0: no expiry
  MaxTime            \* bound of the clock

ASSUME SessionsAssumption ==
  /\ Admin \in Users /\ NoUser \notin Users
  /\ MaxTokens \in Nat
  /\ FirstPassword \in Passwords
  /\ RefreshLife \in Nat \ {0} /\ AccessLife \in Nat \ {0}
  /\ KeyLife \in Nat /\ MaxTime \in Nat

VARIABLES
  now,
  active, password,          \* per user
  row, owner, expires, root, \* per refresh token; root: the login it stems from (history)
  access,                    \* per user: when its last access token expires
  key, keyOwner, keyExpires, \* per API key
  req                        \* per request: what it has read

tokens == <<row, owner, expires, root>>
keys == <<key, keyOwner, keyExpires>>
vars == <<now, active, password, tokens, access, keys, req>>

\* Tokens are drawn at random and never repeat: numbered as they are issued.
Tokens == 1..MaxTokens
NoToken == 0

Asking(kind, u, t) == [kind |-> kind, user |-> u, token |-> t]
Idle == Asking("none", NoUser, NoToken)
Kinds == {"none", "login", "logout", "create_key"}

\* (variant: the expiry is left to the worker)
Usable_Stale(t) == row[t] = "valid"
\* The conditions of rotate_refresh's UPDATE.
Usable(t) == row[t] = "valid" /\ expires[t] > now

KeyUsable(k) == key[k] = "valid" /\ (KeyLife = 0 \/ keyExpires[k] > now)

\* current_user: the account is read from the database at every request.
Authenticated(u) ==
  /\ active[u]
  /\ \/ access[u] > now
     \/ \E k \in Keys : keyOwner[k] = u /\ KeyUsable(k)

\* Inserts a token for u that belongs to the login r.
Issue(t, u, r) ==
  /\ root[t] = NoToken /\ \A s \in 1..(t - 1) : root[s] # NoToken
  /\ owner' = [owner EXCEPT ![t] = u]
  /\ expires' = [expires EXCEPT ![t] = now + RefreshLife]
  /\ root' = [root EXCEPT ![t] = r]
  /\ access' = [access EXCEPT ![u] = now + AccessLife]

Begin(r, ask) == req[r] = Idle /\ req' = [req EXCEPT ![r] = ask]
Close(r) == req' = [req EXCEPT ![r] = Idle]

Tick ==
  /\ now < MaxTime
  /\ now' = now + 1
  /\ UNCHANGED <<active, password, tokens, access, keys, req>>

\* login: the password is verified, then the tokens are stored.
LoginBegin(r, u, p) ==
  /\ active[u] /\ password[u] = p
  /\ Begin(r, Asking("login", u, NoToken))
  /\ UNCHANGED <<now, active, password, tokens, access, keys>>

LoginEnd(r) ==
  /\ req[r].kind = "login"
  /\ \E t \in Tokens : /\ Issue(t, req[r].user, t)
                       /\ row' = [row EXCEPT ![t] = "valid"]
  /\ Close(r)
  /\ UNCHANGED <<now, active, password, keys>>

\* (variant: the old token is left to expire)
Rotated_Kept(old, new) == [row EXCEPT ![new] = "valid"]
\* What the UPDATE and the INSERT of a rotation leave in the table.
Rotated(old, new) == [row EXCEPT ![old] = "revoked", ![new] = "valid"]

\* refresh: one transaction, rolled back for an inactive account.
Refresh(t) ==
  /\ Usable(t)
  /\ active[owner[t]]
  /\ \E n \in Tokens \ {t} : /\ Issue(n, owner[t], root[t])
                             /\ row' = Rotated(t, n)
  /\ UNCHANGED <<now, active, password, keys, req>>

\* logout: the row is loaded whatever its state, then overwritten; a row the
\* worker has deleted meanwhile makes the UPDATE fail.
LogoutBegin(r, t) ==
  /\ row[t] # "none" /\ Authenticated(owner[t])
  /\ Begin(r, Asking("logout", owner[t], t))
  /\ UNCHANGED <<now, active, password, tokens, access, keys>>

LogoutEnd(r) ==
  /\ req[r].kind = "logout"
  /\ row' = [row EXCEPT ![req[r].token] = IF @ = "none" THEN "none" ELSE "revoked"]
  /\ Close(r)
  /\ UNCHANGED <<now, active, password, owner, expires, root, access, keys>>

CreateKeyBegin(r, u) ==
  /\ Authenticated(u)
  /\ Begin(r, Asking("create_key", u, NoToken))
  /\ UNCHANGED <<now, active, password, tokens, access, keys>>

CreateKeyEnd(r) == \E k \in Keys :
  /\ req[r].kind = "create_key" /\ key[k] = "none"
  /\ key' = [key EXCEPT ![k] = "valid"]
  /\ keyOwner' = [keyOwner EXCEPT ![k] = req[r].user]
  /\ keyExpires' = [keyExpires EXCEPT ![k] = now + KeyLife]
  /\ Close(r)
  /\ UNCHANGED <<now, active, password, tokens, access>>

\* Only the owner finds the key; a second revocation changes nothing.
RevokeKey(k) ==
  /\ key[k] = "valid" /\ Authenticated(keyOwner[k])
  /\ key' = [key EXCEPT ![k] = "revoked"]
  /\ UNCHANGED <<now, active, password, tokens, access, keyOwner, keyExpires, req>>

\* update_user from the panel.
SetActive(u, b) ==
  /\ active' = [active EXCEPT ![u] = b]
  /\ UNCHANGED <<now, password, tokens, access, keys, req>>

\* pars2ray password: the administrator's hash, and the account active again.
ChangePassword(p) ==
  /\ password' = [password EXCEPT ![Admin] = p]
  /\ active' = [active EXCEPT ![Admin] = TRUE]
  /\ UNCHANGED <<now, tokens, access, keys, req>>

\* The master starts again: open requests are lost, ensure_seed runs.
Restart ==
  /\ active' = [active EXCEPT ![Admin] = TRUE]
  /\ req' = [r \in Requests |-> Idle]
  /\ UNCHANGED <<now, password, tokens, access, keys>>

\* (variant: only revoked rows are deleted)
Expired_Revoked(t) == row[t] = "revoked" /\ expires[t] < now
\* The rows the worker's DELETE takes.
Expired(t) == row[t] # "none" /\ expires[t] < now

Cleanup ==
  /\ \E t \in Tokens : Expired(t)
  /\ row' = [t \in Tokens |-> IF Expired(t) THEN "none" ELSE row[t]]
  /\ UNCHANGED <<now, active, password, owner, expires, root, access, keys, req>>

Init ==
  /\ now = 0
  /\ active = [u \in Users |-> TRUE]
  /\ password = [u \in Users |-> FirstPassword]
  /\ row = [t \in Tokens |-> "none"]
  /\ owner = [t \in Tokens |-> NoUser]
  /\ expires = [t \in Tokens |-> 0]
  /\ root = [t \in Tokens |-> NoToken]
  /\ access = [u \in Users |-> 0]
  /\ key = [k \in Keys |-> "none"]
  /\ keyOwner = [k \in Keys |-> NoUser]
  /\ keyExpires = [k \in Keys |-> 0]
  /\ req = [r \in Requests |-> Idle]

RequestStep(r) ==
  \/ \E u \in Users, p \in Passwords : LoginBegin(r, u, p)
  \/ \E t \in Tokens : LogoutBegin(r, t)
  \/ \E u \in Users : CreateKeyBegin(r, u)
  \/ LoginEnd(r) \/ LogoutEnd(r) \/ CreateKeyEnd(r)

Next ==
  \/ Tick
  \/ \E r \in Requests : RequestStep(r)
  \/ \E t \in Tokens : Refresh(t)
  \/ \E k \in Keys : RevokeKey(k)
  \/ \E u \in Users, b \in BOOLEAN : SetActive(u, b)
  \/ \E p \in Passwords : ChangePassword(p)
  \/ Restart
  \/ Cleanup

Spec == Init /\ [][Next]_vars

\* worker.main calls cleanup in a loop and survives its exceptions.
FairSpec == Spec /\ WF_vars(Cleanup)

-----------------------------------------------------------------------------
(* Properties.                                                             *)

SessionsTypeOK ==
  /\ now \in Nat
  /\ active \in [Users -> BOOLEAN] /\ password \in [Users -> Passwords]
  /\ row \in [Tokens -> {"none", "valid", "revoked"}]
  /\ owner \in [Tokens -> Users \cup {NoUser}]
  /\ expires \in [Tokens -> Nat]
  /\ root \in [Tokens -> Tokens \cup {NoToken}]
  /\ access \in [Users -> Nat]
  /\ key \in [Keys -> {"none", "valid", "revoked"}]
  /\ keyOwner \in [Keys -> Users \cup {NoUser}] /\ keyExpires \in [Keys -> Nat]
  /\ req \in [Requests -> [kind : Kinds, user : Users \cup {NoUser},
                           token : Tokens \cup {NoToken}]]

\* A login has at most one refresh token that still works, whatever refreshes,
\* logouts that loaded the row earlier, restarts and clean-ups come between
\* ("Refresh tokens are one-time rotated": rotate_refresh's conditional UPDATE).
OneLiveToken == \A s, t \in Tokens :
  root[s] = root[t] /\ row[s] = "valid" /\ row[t] = "valid" => s = t

\* Anything that lets u act now or later without its password.
Holds(u) ==
  \/ access[u] > now
  \/ \E t \in Tokens : owner[t] = u /\ row[t] = "valid" /\ expires[t] > now
  \/ \E k \in Keys : /\ keyOwner[k] = u /\ key[k] = "valid"
                     /\ KeyLife = 0 \/ keyExpires[k] > now
  \/ \E r \in Requests : req[r].user = u /\ req[r].kind \in {"login", "create_key"}

\* An account whose tokens and keys have all run out or been revoked is
\* reached again through its current password only: no refresh, late logout, key
\* request, clean-up, reactivation or restart brings a credential back
\* (rotate_refresh, current_user, ensure_seed).
OnlyLoginReopens == [][\A u \in Users :
  ~Holds(u) /\ Holds(u)' =>
    \E r \in Requests, p \in Passwords : LoginBegin(r, u, p)]_vars

\* A login is known by its first token; its token in force is the one that works.
Working(l) == {t \in Tokens : root[t] = l /\ row[t] = "valid" /\ expires[t] > now}
OneOf(S) == IF S = {} THEN NoToken ELSE CHOOSE t \in S : TRUE

Accounts == [l \in Tokens |-> IF root[l] = l THEN owner[l] ELSE NoUser]
Current == [l \in Tokens |-> OneOf(Working(l))]
Drawn == {t \in Tokens : root[t] # NoToken}
Verified == [r \in Requests |-> IF req[r].kind = "login" THEN req[r].user ELSE NoUser]

Login == INSTANCE Logins
  WITH Ids <- Tokens, account <- Accounts, current <- Current, drawn <- Drawn, asking <- Verified

\* Sessions implements logins: whatever requests, expiry, clean-ups and restarts
\* come between, a token works once and is replaced by a new one in the same step,
\* in a login that stays with its account, and no late logout, refresh or clean-up
\* brings back a login that is over (issue_tokens, rotate_refresh).
LoginsSpec == Login!Spec

\* The worker removes every expired row in the end, also one that was never
\* revoked (worker.cleanup).
ExpiredAreRemoved == \A t \in Tokens :
  (row[t] # "none" /\ expires[t] < now) ~> row[t] = "none"
=============================================================================

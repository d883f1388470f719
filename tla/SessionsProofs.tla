--------------------------- MODULE SessionsProofs ---------------------------
(***************************************************************************)
(* What holds of sessions for any accounts, keys, requests and lifetimes,  *)
(* and that they implement logins.                                         *)
(***************************************************************************)
EXTENDS Sessions, TLAPS

-----------------------------------------------------------------------------
(* Types.                                                                  *)

\* Issuing a token keeps the types of what it writes.
LEMMA IssueTyped ==
  ASSUME SessionsTypeOK, NEW t \in Tokens, NEW u \in Users, NEW r \in Tokens, Issue(t, u, r)
  PROVE  /\ owner' \in [Tokens -> Users \cup {NoUser}]
         /\ expires' \in [Tokens -> Nat]
         /\ root' \in [Tokens -> Tokens \cup {NoToken}]
         /\ access' \in [Users -> Nat]
  BY SessionsAssumption DEF Issue, SessionsTypeOK

\* The requests always hold records of their type.
LEMMA ReqTyped ==
  ASSUME SessionsTypeOK, NEW r \in Requests, NEW k \in Kinds,
         NEW u \in Users \cup {NoUser}, NEW t \in Tokens \cup {NoToken},
         req' = [req EXCEPT ![r] = Asking(k, u, t)]
  PROVE  req' \in [Requests -> [kind : Kinds, user : Users \cup {NoUser},
                                token : Tokens \cup {NoToken}]]
  BY DEF Asking, SessionsTypeOK

LEMMA IdleTyped == Idle \in [kind : Kinds, user : Users \cup {NoUser}, token : Tokens \cup {NoToken}]
  BY DEF Idle, Asking, Kinds

LEMMA ClosedTyped ==
  ASSUME SessionsTypeOK, NEW r \in Requests, Close(r)
  PROVE  req' \in [Requests -> [kind : Kinds, user : Users \cup {NoUser},
                                token : Tokens \cup {NoToken}]]
  BY IdleTyped DEF Close, SessionsTypeOK

\* A login or a key request names an account, a logout names a token.
Asks == \A r \in Requests :
  /\ req[r].kind \in {"login", "create_key"} => req[r].user \in Users
  /\ req[r].kind = "logout" => req[r].token \in Tokens

\* A row that is stored was issued, to an account and for a login that was issued
\* itself: a token that is still to be issued belongs to nothing.
Lineage == \A t \in Tokens :
  /\ row[t] # "none" => root[t] # NoToken
  /\ root[t] # NoToken => owner[t] \in Users /\ root[root[t]] = root[t]

Sound == SessionsTypeOK /\ Asks /\ Lineage

LEMMA SoundInit == Init => Sound
  BY SessionsAssumption, IdleTyped DEF Init, Sound, SessionsTypeOK, Asks, Lineage, Idle, Asking

\* A token issued to an account, for itself or for a login that was issued.
LEMMA IssueSound ==
  ASSUME Sound, NEW t \in Tokens, NEW u \in Users, NEW r \in Tokens, Issue(t, u, r),
         r = t \/ root[r] = r,
         \A s \in Tokens : row'[s] # "none" => s = t \/ row[s] # "none"
  PROVE  Lineage'
  <1>1. root[t] = NoToken /\ t # NoToken /\ r # NoToken
    BY DEF Issue, Tokens, NoToken
  <1>2. /\ owner' = [owner EXCEPT ![t] = u]
        /\ root' = [root EXCEPT ![t] = r]
    BY DEF Issue
  <1>3. \A s \in Tokens : root[s] # NoToken => root[s] # t
    BY <1>1 DEF Sound, Lineage
  <1>4. QED
    BY <1>1, <1>2, <1>3 DEF Sound, Lineage, SessionsTypeOK

LEMMA SoundRequest ==
  ASSUME Sound, NEW r \in Requests, RequestStep(r)
  PROVE  Sound'
  <1> USE DEF Sound
  <1>1. CASE \E u \in Users, p \in Passwords : LoginBegin(r, u, p)
    <2>1. PICK u \in Users, p \in Passwords : LoginBegin(r, u, p)
      BY <1>1
    <2>2. req' = [req EXCEPT ![r] = Asking("login", u, NoToken)]
      BY <2>1 DEF LoginBegin, Begin
    <2>3. SessionsTypeOK'
      BY <2>1, <2>2, ReqTyped DEF LoginBegin, tokens, keys, SessionsTypeOK, Kinds
    <2>4. Asks'
      BY <2>2 DEF Asks, Asking, SessionsTypeOK
    <2>5. Lineage'
      BY <2>1 DEF LoginBegin, tokens, Lineage
    <2>6. QED
      BY <2>3, <2>4, <2>5
  <1>2. CASE \E t \in Tokens : LogoutBegin(r, t)
    <2>1. PICK t \in Tokens : LogoutBegin(r, t)
      BY <1>2
    <2>2. req' = [req EXCEPT ![r] = Asking("logout", owner[t], t)]
      BY <2>1 DEF LogoutBegin, Begin
    <2>3. SessionsTypeOK'
      BY <2>1, <2>2, ReqTyped DEF LogoutBegin, tokens, keys, SessionsTypeOK, Kinds
    <2>4. Asks'
      BY <2>2 DEF Asks, Asking, SessionsTypeOK
    <2>5. Lineage'
      BY <2>1 DEF LogoutBegin, tokens, Lineage
    <2>6. QED
      BY <2>3, <2>4, <2>5
  <1>3. CASE \E u \in Users : CreateKeyBegin(r, u)
    <2>1. PICK u \in Users : CreateKeyBegin(r, u)
      BY <1>3
    <2>2. req' = [req EXCEPT ![r] = Asking("create_key", u, NoToken)]
      BY <2>1 DEF CreateKeyBegin, Begin
    <2>3. SessionsTypeOK'
      BY <2>1, <2>2, ReqTyped DEF CreateKeyBegin, tokens, keys, SessionsTypeOK, Kinds
    <2>4. Asks'
      BY <2>2 DEF Asks, Asking, SessionsTypeOK
    <2>5. Lineage'
      BY <2>1 DEF CreateKeyBegin, tokens, Lineage
    <2>6. QED
      BY <2>3, <2>4, <2>5
  <1>4. CASE LoginEnd(r)
    <2>1. PICK t \in Tokens : /\ Issue(t, req[r].user, t)
                              /\ row' = [row EXCEPT ![t] = "valid"]
      BY <1>4 DEF LoginEnd
    <2>2. req[r].user \in Users
      BY <1>4 DEF LoginEnd, Asks
    <2>3. SessionsTypeOK'
      BY <1>4, <2>1, <2>2, IssueTyped, ClosedTyped DEF LoginEnd, keys, SessionsTypeOK
    <2>4. Asks'
      BY <1>4 DEF LoginEnd, Close, Asks, Idle, Asking, SessionsTypeOK
    <2>5. \A s \in Tokens : row'[s] # "none" => s = t \/ row[s] # "none"
      BY <2>1 DEF SessionsTypeOK
    <2>6. Lineage'
      BY <2>1, <2>2, <2>5, IssueSound
    <2>7. QED
      BY <2>3, <2>4, <2>6
  <1>5. CASE LogoutEnd(r)
    <2>1. \A t \in Tokens : row'[t] # "none" => row[t] # "none"
      BY <1>5 DEF LogoutEnd, SessionsTypeOK
    <2>2. SessionsTypeOK'
      BY <1>5, ClosedTyped DEF LogoutEnd, keys, SessionsTypeOK
    <2>3. Asks'
      BY <1>5 DEF LogoutEnd, Close, Asks, Idle, Asking, SessionsTypeOK
    <2>4. Lineage'
      BY <1>5, <2>1 DEF LogoutEnd, Lineage
    <2>5. QED
      BY <2>2, <2>3, <2>4
  <1>6. CASE CreateKeyEnd(r)
    <2>1. PICK k \in Keys :
            /\ key' = [key EXCEPT ![k] = "valid"]
            /\ keyOwner' = [keyOwner EXCEPT ![k] = req[r].user]
            /\ keyExpires' = [keyExpires EXCEPT ![k] = now + KeyLife]
      BY <1>6 DEF CreateKeyEnd
    <2>2. req[r].user \in Users
      BY <1>6 DEF CreateKeyEnd, Asks
    <2>3. SessionsTypeOK'
      BY <1>6, <2>1, <2>2, ClosedTyped, SessionsAssumption DEF CreateKeyEnd, tokens, SessionsTypeOK
    <2>4. Asks'
      BY <1>6 DEF CreateKeyEnd, Close, Asks, Idle, Asking, SessionsTypeOK
    <2>5. Lineage'
      BY <1>6 DEF CreateKeyEnd, tokens, Lineage
    <2>6. QED
      BY <2>3, <2>4, <2>5
  <1>7. QED
    BY <1>1, <1>2, <1>3, <1>4, <1>5, <1>6 DEF RequestStep

\* What a rotation writes.
LEMMA Rotation ==
  ASSUME Sound, NEW t \in Tokens, Refresh(t)
  PROVE  \E n \in Tokens \ {t} : /\ Issue(n, owner[t], root[t])
                                 /\ row' = [row EXCEPT ![t] = "revoked", ![n] = "valid"]
                                 /\ owner[t] \in Users /\ root[t] \in Tokens
                                 /\ root[root[t]] = root[t]
  <1>1. row[t] = "valid"
    BY DEF Refresh, Usable
  <1>2. root[t] # NoToken
    BY <1>1 DEF Sound, Lineage
  <1>3. owner[t] \in Users /\ root[t] \in Tokens /\ root[root[t]] = root[t]
    BY <1>2 DEF Sound, Lineage, SessionsTypeOK
  <1>4. QED
    BY <1>3 DEF Refresh, Rotated

LEMMA SoundStep == Sound /\ [Next]_vars => Sound'
  <1> SUFFICES ASSUME Sound, [Next]_vars PROVE Sound'
    OBVIOUS
  <1> USE DEF Sound
  <1>1. CASE Tick
    BY <1>1 DEF Tick, tokens, keys, SessionsTypeOK, Asks, Lineage
  <1>2. CASE \E r \in Requests : RequestStep(r)
    BY <1>2, SoundRequest
  <1>3. CASE \E t \in Tokens : Refresh(t)
    <2>1. PICK t \in Tokens : Refresh(t)
      BY <1>3
    <2>2. PICK n \in Tokens \ {t} :
            /\ Issue(n, owner[t], root[t])
            /\ row' = [row EXCEPT ![t] = "revoked", ![n] = "valid"]
            /\ owner[t] \in Users /\ root[t] \in Tokens
            /\ root[root[t]] = root[t]
      BY <2>1, Rotation
    <2>3. SessionsTypeOK'
      BY <2>1, <2>2, IssueTyped DEF Refresh, keys, SessionsTypeOK
    <2>4. Asks'
      BY <2>1 DEF Refresh, Asks
    <2>5. \A s \in Tokens : row'[s] # "none" => s = n \/ row[s] # "none"
      BY <2>1, <2>2 DEF SessionsTypeOK, Refresh, Usable
    <2>6. Lineage'
      BY <2>2, <2>5, IssueSound
    <2>7. QED
      BY <2>3, <2>4, <2>6
  <1>4. CASE \E k \in Keys : RevokeKey(k)
    BY <1>4 DEF RevokeKey, tokens, SessionsTypeOK, Asks, Lineage
  <1>5. CASE \E u \in Users, b \in BOOLEAN : SetActive(u, b)
    BY <1>5 DEF SetActive, tokens, keys, SessionsTypeOK, Asks, Lineage
  <1>6. CASE \E p \in Passwords : ChangePassword(p)
    BY <1>6, SessionsAssumption DEF ChangePassword, tokens, keys, SessionsTypeOK, Asks, Lineage
  <1>7. CASE Restart
    BY <1>7, IdleTyped, SessionsAssumption
    DEF Restart, tokens, keys, SessionsTypeOK, Asks, Idle, Asking, Lineage
  <1>8. CASE Cleanup
    BY <1>8 DEF Cleanup, keys, SessionsTypeOK, Asks, Lineage
  <1>9. CASE UNCHANGED vars
    BY <1>9 DEF vars, tokens, keys, SessionsTypeOK, Asks, Lineage
  <1>10. QED
    BY <1>1, <1>2, <1>3, <1>4, <1>5, <1>6, <1>7, <1>8, <1>9 DEF Next

LEMMA SoundAlways == Spec => []Sound
  BY SoundInit, SoundStep, PTL DEF Spec

\* Types of the accounts' state, for any constants.
THEOREM SessionsTyped == Spec => []SessionsTypeOK
  <1>1. Sound => SessionsTypeOK
    BY DEF Sound
  <1>2. QED
    BY <1>1, SoundAlways, PTL

-----------------------------------------------------------------------------
(* One working refresh token per login.                                    *)

LEMMA OneLiveStep == Sound /\ OneLiveToken /\ [Next]_vars => OneLiveToken'
  <1> SUFFICES ASSUME Sound, OneLiveToken, [Next]_vars PROVE OneLiveToken'
    OBVIOUS
  <1>1. CASE \E r \in Requests : LoginEnd(r)
    <2>1. PICK r \in Requests, t \in Tokens : /\ Issue(t, req[r].user, t)
                                             /\ row' = [row EXCEPT ![t] = "valid"]
      BY <1>1 DEF LoginEnd
    <2>2. root' = [root EXCEPT ![t] = t] /\ root[t] = NoToken /\ t # NoToken
      BY <2>1 DEF Issue, Tokens, NoToken
    <2>3. \A s \in Tokens : row[s] = "valid" => root[s] # t
      BY <2>2 DEF Sound, Lineage
    <2>4. QED
      BY <2>1, <2>2, <2>3 DEF OneLiveToken, Sound, SessionsTypeOK
  <1>2. CASE \E t \in Tokens : Refresh(t)
    <2>1. PICK t \in Tokens : Refresh(t)
      BY <1>2
    <2>2. PICK n \in Tokens \ {t} :
            /\ Issue(n, owner[t], root[t])
            /\ row' = [row EXCEPT ![t] = "revoked", ![n] = "valid"]
      BY <2>1, Rotation
    <2>3. row[t] = "valid" /\ root' = [root EXCEPT ![n] = root[t]]
      BY <2>1, <2>2 DEF Refresh, Usable, Issue
    <2>4. \A s \in Tokens \ {t} : row[s] = "valid" => root[s] # root[t]
      BY <2>3 DEF OneLiveToken
    <2>5. QED
      BY <2>2, <2>3, <2>4 DEF OneLiveToken, Sound, SessionsTypeOK
  <1>3. ASSUME root' = root, \A t \in Tokens : row'[t] = "valid" => row[t] = "valid"
        PROVE  OneLiveToken'
    BY <1>3 DEF OneLiveToken
  <1>4. CASE \E r \in Requests : LogoutEnd(r)
    BY <1>3, <1>4 DEF LogoutEnd, Sound, SessionsTypeOK
  <1>5. CASE Cleanup
    BY <1>3, <1>5 DEF Cleanup
  <1>6. ASSUME UNCHANGED tokens PROVE OneLiveToken'
    BY <1>3, <1>6 DEF tokens
  <1>7. CASE \E r \in Requests : RequestStep(r)
    BY <1>1, <1>4, <1>6, <1>7 DEF RequestStep, LoginBegin, LogoutBegin, CreateKeyBegin, CreateKeyEnd
  <1>8. QED
    BY <1>2, <1>5, <1>6, <1>7 DEF Next, vars, Tick, RevokeKey, SetActive, ChangePassword, Restart

\* A login has at most one refresh token that works, for any accounts, requests and
\* lifetimes: the conditional UPDATE takes the one that is rotated.
THEOREM OneLive == Spec => []OneLiveToken
  <1>1. Init => OneLiveToken
    BY DEF Init, OneLiveToken
  <1>2. QED
    BY <1>1, SoundAlways, OneLiveStep, PTL DEF Spec

-----------------------------------------------------------------------------
(* The way back into an account.                                           *)

\* Whoever is authenticated holds a credential.
LEMMA AuthenticatedHolds ==
  ASSUME NEW u \in Users, Authenticated(u)
  PROVE  Holds(u)
  BY DEF Authenticated, KeyUsable, Holds

LEMMA ReopenRequest ==
  ASSUME Sound, NEW r \in Requests, RequestStep(r), NEW u \in Users, ~Holds(u), Holds(u)'
  PROVE  \E p \in Passwords : LoginBegin(r, u, p)
  <1> USE DEF Sound
  <1>1. CASE \E v \in Users, p \in Passwords : LoginBegin(r, v, p)
    <2>1. PICK v \in Users, p \in Passwords : LoginBegin(r, v, p)
      BY <1>1
    <2>2. CASE v = u
      BY <2>1, <2>2
    <2>3. CASE v # u
      BY <2>1, <2>3 DEF LoginBegin, Begin, Asking, Holds, tokens, keys, SessionsTypeOK
    <2>4. QED
      BY <2>2, <2>3
  <1>2. CASE \E t \in Tokens : LogoutBegin(r, t)
    BY <1>2 DEF LogoutBegin, Begin, Asking, Holds, tokens, keys, SessionsTypeOK
  <1>3. CASE \E v \in Users : CreateKeyBegin(r, v)
    <2>1. PICK v \in Users : CreateKeyBegin(r, v)
      BY <1>3
    <2>2. v # u
      BY <2>1, AuthenticatedHolds DEF CreateKeyBegin
    <2>3. QED
      BY <2>1, <2>2 DEF CreateKeyBegin, Begin, Asking, Holds, tokens, keys, SessionsTypeOK
  <1>4. CASE LoginEnd(r)
    <2>1. PICK t \in Tokens : /\ Issue(t, req[r].user, t)
                              /\ row' = [row EXCEPT ![t] = "valid"]
      BY <1>4 DEF LoginEnd
    <2>2. req[r].user # u
      BY <1>4 DEF LoginEnd, Holds
    <2>3. QED
      BY <1>4, <2>1, <2>2 DEF LoginEnd, Issue, Close, Idle, Asking, Holds, keys, SessionsTypeOK
  <1>5. CASE LogoutEnd(r)
    BY <1>5 DEF LogoutEnd, Close, Idle, Asking, Holds, keys, SessionsTypeOK
  <1>6. CASE CreateKeyEnd(r)
    <2>1. req[r].user # u
      BY <1>6 DEF CreateKeyEnd, Holds
    <2>2. QED
      BY <1>6, <2>1 DEF CreateKeyEnd, Close, Idle, Asking, Holds, tokens, SessionsTypeOK
  <1>7. QED
    BY <1>1, <1>2, <1>3, <1>4, <1>5, <1>6 DEF RequestStep

LEMMA ReopenStep ==
  ASSUME Sound, [Next]_vars, NEW u \in Users, ~Holds(u), Holds(u)'
  PROVE  \E r \in Requests, p \in Passwords : LoginBegin(r, u, p)
  <1> USE DEF Sound
  <1>1. CASE Tick
    BY <1>1 DEF Tick, tokens, keys, Holds, SessionsTypeOK
  <1>2. CASE \E r \in Requests : RequestStep(r)
    BY <1>2, ReopenRequest
  <1>3. CASE \E t \in Tokens : Refresh(t)
    <2>1. PICK t \in Tokens : Refresh(t)
      BY <1>3
    <2>2. PICK n \in Tokens \ {t} :
            /\ Issue(n, owner[t], root[t])
            /\ row' = [row EXCEPT ![t] = "revoked", ![n] = "valid"]
      BY <2>1, Rotation
    <2>3. owner[t] # u
      BY <2>1 DEF Refresh, Usable, Holds
    <2>4. QED
      BY <2>1, <2>2, <2>3 DEF Refresh, Issue, Holds, keys, SessionsTypeOK
  <1>4. CASE \E k \in Keys : RevokeKey(k)
    BY <1>4 DEF RevokeKey, tokens, Holds, SessionsTypeOK
  <1>5. CASE \E v \in Users, b \in BOOLEAN : SetActive(v, b)
    BY <1>5 DEF SetActive, tokens, keys, Holds
  <1>6. CASE \E p \in Passwords : ChangePassword(p)
    BY <1>6 DEF ChangePassword, tokens, keys, Holds
  <1>7. CASE Restart
    BY <1>7 DEF Restart, tokens, keys, Holds, Idle, Asking
  <1>8. CASE Cleanup
    BY <1>8 DEF Cleanup, keys, Holds
  <1>9. CASE UNCHANGED vars
    BY <1>9 DEF vars, tokens, keys, Holds
  <1>10. QED
    BY <1>1, <1>2, <1>3, <1>4, <1>5, <1>6, <1>7, <1>8, <1>9 DEF Next

\* An account without a credential is reached again through its password only.
THEOREM LoginReopens == Spec => OnlyLoginReopens
  <1>1. Sound /\ [Next]_vars => [\A u \in Users :
          ~Holds(u) /\ Holds(u)' =>
            \E r \in Requests, p \in Passwords : LoginBegin(r, u, p)]_vars
    BY ReopenStep
  <1>2. QED
    BY <1>1, SoundAlways, PTL DEF Spec, OnlyLoginReopens

-----------------------------------------------------------------------------
(* Sessions implements logins.                                             *)

\* What stands for a set of at most one token.
LEMMA OneOfFacts ==
  /\ OneOf({}) = NoToken
  /\ \A t \in Tokens : OneOf({t}) = t
  /\ \A S \in SUBSET Tokens : S # {} => OneOf(S) # NoToken
  <1>1. NoToken \notin Tokens
    BY DEF NoToken, Tokens
  <1>2. QED
    BY <1>1 DEF OneOf

\* At most one token of a login works.
LEMMA WorkingOne ==
  ASSUME OneLiveToken, NEW l \in Tokens, NEW t \in Working(l)
  PROVE  Working(l) = {t}
  BY DEF OneLiveToken, Working

\* A step that draws no token, asks nothing and only lets tokens stop working.
LEMMA EndRefines ==
  ASSUME OneLiveToken, UNCHANGED <<Accounts, Drawn, Verified>>,
         \A l \in Tokens : Working(l)' \subseteq Working(l)
  PROVE  Login!Next
  <1> DEFINE S == {l \in Tokens : Working(l)' = {}}
  <1>1. ASSUME NEW l \in Tokens
        PROVE  OneOf(Working(l)') = IF l \in S THEN NoToken ELSE OneOf(Working(l))
    <2>1. CASE Working(l)' = {}
      BY <2>1, OneOfFacts
    <2>2. CASE Working(l)' # {}
      <3>1. PICK t \in Working(l)' : t \in Working(l)
        BY <2>2
      <3>2. Working(l)' = Working(l)
        BY <3>1, WorkingOne
      <3>3. QED
        BY <2>2, <3>2
    <2>3. QED
      BY <2>1, <2>2
  <1>2. Current' = [l \in Tokens |-> IF l \in S THEN NoToken ELSE Current[l]]
    BY <1>1 DEF Current
  <1>3. Login!End(S) /\ S \in SUBSET Tokens
    BY <1>2 DEF Login!End
  <1>4. QED
    BY <1>3 DEF Login!Next

\* The password was verified; the other requests stay what they are.
LEMMA AskRefines ==
  ASSUME Sound, NEW r \in Requests, NEW u \in Users, NEW p \in Passwords, LoginBegin(r, u, p)
  PROVE  Login!Next
  <1>1. req[r] = Idle /\ req' = [req EXCEPT ![r] = Asking("login", u, NoToken)]
    BY DEF LoginBegin, Begin
  <1>2. Verified[r] = NoUser /\ Verified' = [Verified EXCEPT ![r] = u]
    <2>1. req[r].kind = "none" /\ req'[r].kind = "login" /\ req'[r].user = u
      BY <1>1 DEF Idle, Asking, Sound, SessionsTypeOK
    <2>2. \A q \in Requests : q # r => req'[q] = req[q]
      BY <1>1 DEF Sound, SessionsTypeOK
    <2>3. QED
      BY <2>1, <2>2 DEF Verified
  <1>3. UNCHANGED <<Accounts, Current, Drawn>>
    BY DEF LoginBegin, tokens, Accounts, Current, Working, Drawn
  <1>4. Login!Ask(r, u)
    BY <1>2, <1>3 DEF Login!Ask
  <1>5. QED
    BY <1>4 DEF Login!Next

\* The token of a new login is drawn; no other login notices.
LEMMA OpenRefines ==
  ASSUME Sound, NEW r \in Requests, LoginEnd(r)
  PROVE  Login!Next
  <1> USE DEF Sound
  <1>1. PICK t \in Tokens : /\ Issue(t, req[r].user, t)
                            /\ row' = [row EXCEPT ![t] = "valid"]
    BY DEF LoginEnd
  <1>2. /\ req[r].kind = "login" /\ req[r].user \in Users
        /\ req' = [req EXCEPT ![r] = Idle] /\ now' = now
    BY DEF LoginEnd, Close, Asks
  <1>3. /\ root[t] = NoToken /\ t # NoToken /\ now + RefreshLife > now
        /\ owner' = [owner EXCEPT ![t] = req[r].user]
        /\ expires' = [expires EXCEPT ![t] = now + RefreshLife]
        /\ root' = [root EXCEPT ![t] = t]
    BY <1>1, SessionsAssumption DEF Issue, Tokens, NoToken, SessionsTypeOK
  <1>4. \A s \in Tokens : root[s] # t
    BY <1>3 DEF Lineage
  <1>5. Verified[r] = req[r].user /\ Verified' = [Verified EXCEPT ![r] = NoUser]
    BY <1>2 DEF Verified, Idle, Asking, SessionsTypeOK
  <1>6. Accounts[t] = NoUser /\ Accounts' = [Accounts EXCEPT ![t] = req[r].user]
    BY <1>3 DEF Accounts, SessionsTypeOK
  <1>7. t \notin Drawn /\ Drawn' = Drawn \cup {t}
    BY <1>3 DEF Drawn, SessionsTypeOK
  <1>8. Working(t)' = {t}
    BY <1>1, <1>2, <1>3, <1>4 DEF Working, SessionsTypeOK
  <1>9. \A l \in Tokens \ {t} : Working(l)' = Working(l)
    <2>1. \A s \in Tokens \ {t} : root'[s] = root[s] /\ row'[s] = row[s] /\ expires'[s] = expires[s]
      BY <1>1, <1>3 DEF SessionsTypeOK
    <2>2. root'[t] = t
      BY <1>3 DEF SessionsTypeOK
    <2>3. \A l \in Tokens \ {t}, s \in Tokens : s \in Working(l)' <=> s \in Working(l)
      BY <1>2, <1>3, <1>4, <2>1, <2>2 DEF Working, Tokens, NoToken
    <2>4. QED
      BY <2>3 DEF Working
  <1>10. Current' = [Current EXCEPT ![t] = t]
    BY <1>8, <1>9, OneOfFacts DEF Current
  <1>11. Login!Open(r, t, t)
    BY <1>2, <1>5, <1>6, <1>7, <1>10, SessionsAssumption DEF Login!Open
  <1>12. QED
    BY <1>11 DEF Login!Next

\* A rotation replaces the token in force.
LEMMA RotateRefines ==
  ASSUME Sound, OneLiveToken, NEW t \in Tokens, Refresh(t)
  PROVE  Login!Next
  <1> USE DEF Sound
  <1>1. PICK n \in Tokens \ {t} :
          /\ Issue(n, owner[t], root[t])
          /\ row' = [row EXCEPT ![t] = "revoked", ![n] = "valid"]
          /\ root[t] \in Tokens /\ root[root[t]] = root[t]
    BY Rotation
  <1> PICK l \in Tokens : l = root[t]
    BY <1>1
  <1>2. row[t] = "valid" /\ expires[t] > now /\ now' = now /\ req' = req
    BY DEF Refresh, Usable
  <1>3. /\ root[n] = NoToken /\ n # NoToken /\ now + RefreshLife > now
        /\ owner' = [owner EXCEPT ![n] = owner[t]]
        /\ expires' = [expires EXCEPT ![n] = now + RefreshLife]
        /\ root' = [root EXCEPT ![n] = l]
    BY <1>1, SessionsAssumption DEF Issue, Tokens, NoToken, SessionsTypeOK
  <1>4. l # n /\ l # NoToken
    BY <1>1, <1>3 DEF Tokens, NoToken
  <1>5. Accounts' = Accounts
    BY <1>3, <1>4 DEF Accounts, SessionsTypeOK
  <1>6. Verified' = Verified
    BY <1>2 DEF Verified
  <1>7. n \notin Drawn /\ Drawn' = Drawn \cup {n}
    BY <1>3, <1>4 DEF Drawn, SessionsTypeOK
  <1>8. Working(l) = {t}
    BY <1>1, <1>2, WorkingOne DEF Working
  <1>9. Working(l)' = {n}
    <2>1. \A s \in Tokens : s \in Working(l)' <=> s = n \/ (s # t /\ s \in Working(l))
      BY <1>1, <1>2, <1>3, <1>4 DEF Working, SessionsTypeOK
    <2>2. QED
      BY <1>8, <2>1 DEF Working
  <1>10. \A m \in Tokens \ {l} : Working(m)' = Working(m)
    <2>1. \A s \in Tokens \ {t, n} : root'[s] = root[s] /\ row'[s] = row[s] /\ expires'[s] = expires[s]
      BY <1>1, <1>3 DEF SessionsTypeOK
    <2>2. root'[t] = l /\ root'[n] = l
      BY <1>3 DEF SessionsTypeOK
    <2>3. \A m \in Tokens \ {l}, s \in Tokens : s \in Working(m)' <=> s \in Working(m)
      BY <1>2, <1>3, <1>4, <2>1, <2>2 DEF Working, Tokens, NoToken
    <2>4. QED
      BY <2>3 DEF Working
  <1>11. Current[l] # NoToken /\ Current' = [Current EXCEPT ![l] = n]
    <2>1. OneOf(Working(l)) = t /\ OneOf(Working(l)') = n /\ t # NoToken
      BY <1>8, <1>9, OneOfFacts DEF Tokens, NoToken
    <2>2. \A m \in Tokens : OneOf(Working(m)') = IF m = l THEN n ELSE Current[m]
      BY <1>10, <2>1 DEF Current
    <2>3. QED
      BY <1>1, <2>1, <2>2 DEF Current
  <1>12. Login!Rotate(l, n)
    BY <1>5, <1>6, <1>7, <1>11 DEF Login!Rotate
  <1>13. QED
    BY <1>1, <1>12 DEF Login!Next

\* The other steps of a request leave logins alone, but for a logout.
LEMMA RequestRefines ==
  ASSUME Sound, OneLiveToken, NEW r \in Requests, RequestStep(r)
  PROVE  Login!Next
  <1> USE DEF Sound
  <1>1. CASE \E u \in Users, p \in Passwords : LoginBegin(r, u, p)
    BY <1>1, AskRefines
  <1>2. CASE LoginEnd(r)
    BY <1>2, OpenRefines
  <1>3. CASE (\E t \in Tokens : LogoutBegin(r, t)) \/ (\E u \in Users : CreateKeyBegin(r, u))
    <2>1. req[r].kind = "none" /\ req'[r].kind \in {"logout", "create_key"}
      BY <1>3 DEF LogoutBegin, CreateKeyBegin, Begin, Idle, Asking, SessionsTypeOK
    <2>2. Verified' = Verified
      <3>1. \A q \in Requests : q # r => req'[q] = req[q]
        BY <1>3 DEF LogoutBegin, CreateKeyBegin, Begin, SessionsTypeOK
      <3>2. QED
        BY <2>1, <3>1 DEF Verified
    <2>3. UNCHANGED <<tokens, now>>
      BY <1>3 DEF LogoutBegin, CreateKeyBegin
    <2>4. QED
      BY <2>2, <2>3, EndRefines DEF tokens, Accounts, Drawn, Working
  <1>4. CASE CreateKeyEnd(r)
    <2>1. UNCHANGED <<tokens, now>> /\ req[r].kind # "login" /\ req' = [req EXCEPT ![r] = Idle]
      BY <1>4 DEF CreateKeyEnd, Close
    <2>2. Verified' = Verified
      BY <2>1 DEF Verified, Idle, Asking, SessionsTypeOK
    <2>3. QED
      BY <2>1, <2>2, EndRefines DEF tokens, Accounts, Drawn, Working
  <1>5. CASE LogoutEnd(r)
    <2>1. /\ req[r].kind # "login" /\ req' = [req EXCEPT ![r] = Idle]
          /\ UNCHANGED <<now, owner, expires, root>>
          /\ \A t \in Tokens : row'[t] = "valid" => row[t] = "valid"
      BY <1>5 DEF LogoutEnd, Close, SessionsTypeOK
    <2>2. Verified' = Verified
      BY <2>1 DEF Verified, Idle, Asking, SessionsTypeOK
    <2>3. \A l \in Tokens : Working(l)' \subseteq Working(l)
      BY <2>1 DEF Working
    <2>4. QED
      BY <2>1, <2>2, <2>3, EndRefines DEF Accounts, Drawn
  <1>6. QED
    BY <1>1, <1>2, <1>3, <1>4, <1>5 DEF RequestStep

LEMMA LoginsStep ==
  ASSUME Sound, OneLiveToken, [Next]_vars
  PROVE  [Login!Next]_Login!loginVars
  <1> USE DEF Sound
  <1>1. CASE \E r \in Requests : RequestStep(r)
    BY <1>1, RequestRefines
  <1>2. CASE \E t \in Tokens : Refresh(t)
    BY <1>2, RotateRefines
  <1>3. CASE Tick
    <2>1. UNCHANGED <<tokens, req>> /\ now' > now
      BY <1>3 DEF Tick, SessionsTypeOK
    <2>2. \A l \in Tokens : Working(l)' \subseteq Working(l)
      <3>1. now' \in Nat
        BY <1>3 DEF Tick, SessionsTypeOK
      <3>2. \A t \in Tokens : expires'[t] > now' => expires[t] > now
        BY <2>1, <3>1 DEF tokens, SessionsTypeOK
      <3>3. QED
        BY <2>1, <3>2 DEF Working, tokens
    <2>3. QED
      BY <2>1, <2>2, EndRefines DEF tokens, Accounts, Drawn, Verified
  <1>4. CASE Cleanup
    <2>1. /\ UNCHANGED <<now, owner, expires, root, req>>
          /\ \A t \in Tokens : row'[t] = "valid" => row[t] = "valid"
      BY <1>4 DEF Cleanup
    <2>2. \A l \in Tokens : Working(l)' \subseteq Working(l)
      BY <2>1 DEF Working
    <2>3. QED
      BY <2>1, <2>2, EndRefines DEF Accounts, Drawn, Verified
  <1>5. CASE Restart
    <2>1. Verified' = [r \in Requests |-> NoUser]
      BY <1>5 DEF Restart, Verified, Idle, Asking
    <2>2. UNCHANGED <<Accounts, Current, Drawn>>
      BY <1>5 DEF Restart, tokens, Accounts, Current, Working, Drawn
    <2>3. QED
      BY <2>1, <2>2 DEF Login!Forget, Login!Next
  <1>6. ASSUME UNCHANGED <<tokens, now, req>> PROVE [Login!Next]_Login!loginVars
    BY <1>6, EndRefines DEF tokens, Accounts, Drawn, Verified, Working
  <1>7. QED
    BY <1>1, <1>2, <1>3, <1>4, <1>5, <1>6
    DEF Next, vars, RevokeKey, SetActive, ChangePassword

\* Sessions implements logins, for any accounts, requests and lifetimes: a refresh
\* token works once, and what has ended stays ended.
THEOREM ImplementsLogins == Spec => LoginsSpec
  <1>1. Init => Login!Init
    <2> SUFFICES ASSUME Init PROVE Login!Init
      OBVIOUS
    <2>1. \A l \in Tokens : Working(l) = {} /\ l # NoToken
      BY DEF Init, Working, Tokens, NoToken
    <2>2. QED
      BY <2>1, OneOfFacts DEF Init, Login!Init, Accounts, Current, Drawn, Verified, Idle, Asking
  <1>2. QED
    BY <1>1, LoginsStep, SoundAlways, OneLive, PTL DEF Spec, LoginsSpec, Login!Spec

\* Of an implemented login: once it is over no token of it works again, it never
\* changes hands, and a token that was replaced or has ended never works again.
THEOREM OverIsFinal ==
  Spec => [][/\ \A l \in Tokens : Accounts[l] # NoUser =>
                  /\ Accounts'[l] = Accounts[l]
                  /\ Current[l] = NoToken => Current'[l] = NoToken
             /\ \A l \in Tokens, t \in Drawn : Current'[l] = t => Current[l] = t]_vars
  <1>1. ASSUME [Login!Next]_Login!loginVars
        PROVE  /\ \A l \in Tokens : Accounts[l] # NoUser =>
                    /\ Accounts'[l] = Accounts[l]
                    /\ Current[l] = NoToken => Current'[l] = NoToken
               /\ \A l \in Tokens, t \in Drawn : Current'[l] = t => Current[l] = t
    <2>1. Accounts = [l \in Tokens |-> Accounts[l]] /\ Current = [l \in Tokens |-> Current[l]]
      BY DEF Accounts, Current
    <2>2. NoToken \notin Drawn
      BY DEF Drawn, Tokens, NoToken
    <2>3. CASE \E r \in Requests, u \in Users : Login!Ask(r, u)
      BY <2>3 DEF Login!Ask
    <2>4. CASE \E r \in Requests, l \in Tokens, t \in Tokens : Login!Open(r, l, t)
      BY <2>1, <2>4 DEF Login!Open
    <2>5. CASE \E l \in Tokens, t \in Tokens : Login!Rotate(l, t)
      BY <2>1, <2>5 DEF Login!Rotate
    <2>6. CASE \E S \in SUBSET Tokens : Login!End(S)
      BY <2>2, <2>6 DEF Login!End
    <2>7. CASE Login!Forget
      BY <2>7 DEF Login!Forget
    <2>8. CASE UNCHANGED Login!loginVars
      BY <2>8 DEF Login!loginVars
    <2>9. QED
      BY <1>1, <2>3, <2>4, <2>5, <2>6, <2>7, <2>8 DEF Login!Next
  <1>2. Sound /\ OneLiveToken /\ [Next]_vars =>
          [/\ \A l \in Tokens : Accounts[l] # NoUser =>
                /\ Accounts'[l] = Accounts[l]
                /\ Current[l] = NoToken => Current'[l] = NoToken
           /\ \A l \in Tokens, t \in Drawn : Current'[l] = t => Current[l] = t]_vars
    BY <1>1, LoginsStep
  <1>3. QED
    BY <1>2, SoundAlways, OneLive, PTL DEF Spec
=============================================================================

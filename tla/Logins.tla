------------------------------- MODULE Logins -------------------------------
(***************************************************************************)
(* What a login promises: it belongs to one account, has one refresh token *)
(* in force, every token is drawn anew and replaces the one before, and a  *)
(* login that has none left is over for good.  Sessions is the detailed    *)
(* specification and implements this one.                                  *)
(***************************************************************************)
CONSTANTS
  Ids,       \* logins
  Tokens, NoToken,
  Users, NoUser,
  Requests   \* requests of the password, one at a time each

VARIABLES
  account,   \* per login: whose it is
  current,   \* per login: the token in force
  drawn,     \* the tokens that were ever in force
  asking     \* per request: the account whose password was verified

loginVars == <<account, current, drawn, asking>>

Init ==
  /\ account = [l \in Ids |-> NoUser] /\ current = [l \in Ids |-> NoToken]
  /\ drawn = {} /\ asking = [r \in Requests |-> NoUser]

Ask(r, u) ==
  /\ asking[r] = NoUser
  /\ asking' = [asking EXCEPT ![r] = u]
  /\ UNCHANGED <<account, current, drawn>>

\* A verified password opens one login.
Open(r, l, t) ==
  /\ asking[r] # NoUser /\ account[l] = NoUser /\ t \notin drawn
  /\ account' = [account EXCEPT ![l] = asking[r]]
  /\ current' = [current EXCEPT ![l] = t]
  /\ drawn' = drawn \cup {t}
  /\ asking' = [asking EXCEPT ![r] = NoUser]

\* The token in force is exchanged for a new one.
Rotate(l, t) ==
  /\ current[l] # NoToken /\ t \notin drawn
  /\ current' = [current EXCEPT ![l] = t]
  /\ drawn' = drawn \cup {t}
  /\ UNCHANGED <<account, asking>>

\* A logout, or the tokens of several logins run out.
End(S) ==
  /\ UNCHANGED <<asking, drawn, account>>
  /\ current' = [l \in Ids |-> IF l \in S THEN NoToken ELSE current[l]]

\* The open requests are lost.
Forget == asking' = [r \in Requests |-> NoUser] /\ UNCHANGED <<account, current, drawn>>

Next ==
  \/ \E S \in SUBSET Ids : End(S)
  \/ \E r \in Requests, u \in Users : Ask(r, u)
  \/ \E r \in Requests, l \in Ids, t \in Tokens : Open(r, l, t)
  \/ \E l \in Ids, t \in Tokens : Rotate(l, t)
  \/ Forget

Spec == Init /\ [][Next]_loginVars
=============================================================================

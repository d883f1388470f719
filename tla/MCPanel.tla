------------------------------- MODULE MCPanel -------------------------------
(***************************************************************************)
(* Clients: one user, a plan of one device, two requests at a time and two *)
(* clients; of the patches every field alone and the pairs that meet in    *)
(* one check.  Inbounds: one node, a run of the autopilot and two          *)
(* requests.  Documents: two editors that ask for one configuration, and   *)
(* one advised that REALITY could not carry.  Links: every profile that    *)
(* gives two fields, or two beside those of a REALITY inbound.             *)
(* Either kind of database for the first two.                              *)
(***************************************************************************)
EXTENDS Panel, FiniteSetsExt, TLC

CONSTANTS u1, basic, q1, q2, n1, p1, k1

PlanMC == basic :> [quota |-> 1, duration |-> 1, max_devices |-> 1]
TermsMC == {[quota |-> Unset, duration |-> Unset], [quota |-> 1, duration |-> Unset],
            [quota |-> Unset, duration |-> 1]}
Unchanged == [clear |-> FALSE, plan |-> NoPlan, quota |-> Unset, duration |-> Unset,
              enabled |-> "keep", expires |-> Unset]
PatchesMC ==
  {[Unchanged EXCEPT !.clear = TRUE], [Unchanged EXCEPT !.plan = basic],
   [Unchanged EXCEPT !.quota = 1], [Unchanged EXCEPT !.duration = 0],
   [Unchanged EXCEPT !.expires = 1], [Unchanged EXCEPT !.enabled = "yes"],
   [Unchanged EXCEPT !.enabled = "no"], [Unchanged EXCEPT !.clear = TRUE, !.enabled = "yes"],
   [Unchanged EXCEPT !.plan = basic, !.enabled = "yes"],
   [Unchanged EXCEPT !.duration = 1, !.enabled = "yes"]}
\* Of every part; a permutation of them is one of the part that is at work.
RequestsMC == {q1, q2}
\* One request is looked at with everything, on SQLite, but the traffic of one client,
\* which only a reset looks at, and from the second day on an active user.  Requests
\* race for a place on the first day, with a user without a quota and no traffic.
Working == {r \in Requests : req[r] # Idle}
Racing == Working = Requests
ClientsBound ==
  \/ /\ Sqlite /\ ~Racing
     /\ Cardinality({s \in Subs : sub[s].used > 0}) <= 1
     /\ (\E u \in Users : user[u].used > 0) => \A r \in Working : req[r].kind = "reset"
     /\ now > 1 => \A r \in Working : user[req[r].user].active
  \/ /\ now = 1 /\ (Racing => \A r \in Requests : req[r].kind \notin {"limits", "reset"})
     /\ \A s \in Subs : sub[s].used = 0
     /\ \A u \in Users : /\ user[u].active = user[u].created /\ user[u].used = 0
                         /\ user[u].quota = 0 /\ user[u].expires = Never

FaultsMC == {"refuse", "raise", "lost", "crash"}
\* A node that has drifted says no more, two actors are at work, the operator's
\* inbounds have one port, the agent remembers one operation, and clients come when
\* the node is registered.
InboundsBound ==
  /\ drifted = {}
  /\ Cardinality({p \in Passes : pass[p] # Resting} \cup {c \in Calls : call[c] # Quiet}) <= 2
  /\ \A i \in ProfileIds : row[i].kind = "own" => row[i].port = 1
  /\ \A n \in Nodes : Cardinality(journal[n]) <= 1
  /\ (\E k \in Profiles : profile[k] # Unborn) \/ (\E c \in Calls : call[c].pc = "client") =>
       registered = Nodes /\ authorised

\* The documents and the links do not look at the database.
PanelBound == ClientsBound /\ InboundsBound /\ (part \in {"documents", "links"} => Sqlite)

Plain == [protocol |-> "vless", transport |-> "websocket", security |-> "none",
          keys |-> {"sni"}, extras |-> {"path"}]
AskedMC == {Plain}
AdvisedMC == {[protocol |-> "trojan", transport |-> "quic", security |-> "reality",
               keys |-> Keys, extras |-> {}]}

Twos == UNION {kSubset(k, FieldNames) : k \in 0..2}
GivensMC == Twos \cup {{"server_name", "public_key", "private_key"} \cup two : two \in Twos}

Symmetry == Permutations(RequestsMC)
=============================================================================

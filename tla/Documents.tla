------------------------------ MODULE Documents ------------------------------
(***************************************************************************)
(* The stored document of a subscription (config_enc): direct              *)
(* configurations, which the AI may redesign while they are created, and   *)
(* custom links.  Every request loads the whole document, and writes a     *)
(* whole document back: what others committed in between is lost.          *)
(* Configurations are what the validator tells apart; of addresses, ports  *)
(* and names nothing is kept.                                              *)
(***************************************************************************)
EXTENDS Naturals, FiniteSets

CONSTANTS
  Asked,        \* the configurations that are asked for
  Advised,      \* what the model answers
  Editors,      \* concurrent requests
  Limit,        \* entries of a document (100)
  MaxDirect     \* bound: direct configurations ever created

Protocols == {"vless", "vmess", "shadowsocks"}
Transports == {"tcp", "grpc", "websocket", "httpupgrade", "xhttp", "quic"}
Securities == {"none", "tls", "reality"}
RealityTransports == {"tcp", "xhttp", "grpc"}
PathTransports == {"websocket", "httpupgrade", "xhttp"}
Keys == {"sni", "fingerprint", "public_key", "short_id"}  \* fields that are given
Extras == {"flow", "host", "path", "service_name"}
Conf == [protocol : Protocols, transport : Transports, security : Securities,
         keys : SUBSET Keys, extras : SUBSET Extras]
\* What arrives as JSON: any text for the enumerations, any of the fields.
Text == STRING
Advice == [protocol : Text, transport : Text, security : Text,
           keys : SUBSET Keys, extras : SUBSET Extras]

ASSUME DocumentsAssumption ==
  /\ Asked \subseteq Conf /\ Asked # {} /\ Advised \subseteq Advice
  /\ Limit \in Nat /\ MaxDirect \in Nat

VARIABLES
  doc,   \* the document, or Gone with the subscription
  edit,  \* per request: what it does and the document it has loaded
  count  \* direct configurations created

docVars == <<doc, edit, count>>

ConfigIds == 1..MaxDirect
Entry(i, conf, asked) == [id |-> i, conf |-> conf, asked |-> asked, on |-> TRUE]
Empty == [direct |-> {}, links |-> 0]   \* links: how many custom links
Gone == [direct |-> {}, links |-> Limit + 1]
Kinds == {"create", "replace", "switch", "delete", "custom", "append"}
NoEdit == [kind |-> "none", id |-> 0, conf |-> CHOOSE c \in Asked : TRUE, on |-> TRUE,
            seen |-> Empty, late |-> FALSE]

-----------------------------------------------------------------------------
(* config_decision.                                                        *)

Known(value, allowed, fallback) == IF value \in allowed THEN value ELSE fallback

\* (variant: the transports REALITY runs over are left to the model)
Carried_Any(security, transport) == transport
\* REALITY moves to tcp when the transport cannot carry it.
Carried(security, transport) ==
  IF security = "reality" /\ transport \notin RealityTransports THEN "tcp" ELSE transport

\* The fields that make sense for what was chosen.
Cleared(conf) == [conf EXCEPT
  !.keys = {k \in conf.keys : /\ conf.security # "none"
                              /\ k \in {"public_key", "short_id"} => conf.security = "reality"},
  !.extras = {x \in conf.extras :
    /\ x = "flow" => conf.protocol = "vless"
    /\ x \in {"host", "path"} => conf.transport \in PathTransports
    /\ x = "service_name" => conf.transport = "grpc"}]

ValidateDecision(value, fallback) ==
  LET security == Known(value.security, Securities, fallback.security)
      chosen == [protocol |-> Known(value.protocol, Protocols, fallback.protocol),
                 transport |-> Carried(security,
                                 Known(value.transport, Transports, fallback.transport)),
                 security |-> security,
                 keys |-> fallback.keys \cup value.keys,
                 extras |-> fallback.extras \cup value.extras]
  IN Cleared(IF security = "reality" /\ chosen.keys # Keys THEN fallback ELSE chosen)

\* decide_config: disabled, failed or silent, it returns the fallback as it is.
Decided(fallback) == {fallback} \cup {ValidateDecision(value, fallback) : value \in Advised}

-----------------------------------------------------------------------------
(* direct_configs and custom-configs.                                      *)

Begin(r, request) ==
  /\ edit[r] = NoEdit /\ doc # Gone
  /\ edit' = [edit EXCEPT ![r] = [request EXCEPT !.seen = doc]]
  /\ UNCHANGED <<doc, count>>

Request(kind, i) == [NoEdit EXCEPT !.kind = kind, !.id = i]

\* create_direct_config: entitlement and node access hold, the model is asked.
CreateBegin(r, kind, conf) == Begin(r, [Request(kind, 0) EXCEPT !.conf = conf])
\* update_direct_config and delete_direct_config, of an entry that is loaded.
ChangeBegin(r, kind, i, on) ==
  /\ \E e \in doc.direct : e.id = i
  /\ Begin(r, [Request(kind, i) EXCEPT !.on = on])
CustomBegin(r, kind) == Begin(r, Request(kind, 0))

\* The commit: whoever has loaded the document before is late now.
Write(r, new) ==
  /\ doc # Gone /\ doc' = new
  /\ edit' = [q \in Editors |-> IF q = r \/ edit[q] = NoEdit THEN NoEdit
                                ELSE [edit[q] EXCEPT !.late = TRUE]]

\* (variant: only the direct configurations are written)
Saved_Alone(seen, rows) == [Empty EXCEPT !.direct = rows]
\* _save: the rest of the document as it was loaded.
Saved(seen, rows) == [seen EXCEPT !.direct = rows]

CreateSave(r) ==
  LET kept == IF edit[r].kind = "replace" THEN {} ELSE edit[r].seen.direct
      asked == edit[r].conf
  IN /\ edit[r].kind \in {"create", "replace"}
     /\ Cardinality(kept) < Limit
     /\ count < MaxDirect /\ count' = count + 1
     /\ \E conf \in Decided(asked) :
          Write(r, Saved(edit[r].seen, kept \cup {Entry(count', conf, asked)}))

SwitchSave(r) ==
  /\ edit[r].kind = "switch"
  /\ Write(r, Saved(edit[r].seen, {IF e.id = edit[r].id THEN [e EXCEPT !.on = edit[r].on] ELSE e :
                                   e \in edit[r].seen.direct}))
  /\ UNCHANGED count

DeleteSave(r) ==
  /\ edit[r].kind = "delete"
  /\ Write(r, Saved(edit[r].seen, {e \in edit[r].seen.direct : e.id # edit[r].id}))
  /\ UNCHANGED count

\* create_custom_config: n links after, or instead of, those loaded; the direct
\* configurations are not carried over, and the subscription gets a new token.
CustomSave(r, n) ==
  LET links == IF edit[r].kind = "append" THEN edit[r].seen.links + n ELSE n
  IN /\ edit[r].kind \in {"custom", "append"}
     /\ links <= Limit
     /\ Write(r, [Empty EXCEPT !.links = links])
     /\ UNCHANGED count

\* 404, 409 or 422, a design that does not fit its field, or no row to update.
Fail(r) ==
  /\ edit[r] # NoEdit /\ edit' = [edit EXCEPT ![r] = NoEdit]
  /\ UNCHANGED <<doc, count>>

\* delete_client.
DeleteSubscription == doc # Gone /\ doc' = Gone /\ UNCHANGED <<edit, count>>

DocInit == doc = Empty /\ edit = [r \in Editors |-> NoEdit] /\ count = 0

EditStep(r) ==
  \/ \E kind \in {"create", "replace"}, conf \in Asked : CreateBegin(r, kind, conf)
  \/ \E i \in ConfigIds, on \in BOOLEAN : ChangeBegin(r, "switch", i, on)
  \/ \E i \in ConfigIds : ChangeBegin(r, "delete", i, TRUE)
  \/ \E kind \in {"custom", "append"} : CustomBegin(r, kind)
  \/ CreateSave(r) \/ SwitchSave(r) \/ DeleteSave(r)
  \/ \E n \in 1..Limit : CustomSave(r, n)
  \/ Fail(r)

DocNext == (\E r \in Editors : EditStep(r)) \/ DeleteSubscription

DocSpec == DocInit /\ [][DocNext]_docVars

-----------------------------------------------------------------------------
(* Properties.                                                             *)

DocTypeOK ==
  /\ count \in 0..MaxDirect
  /\ doc.direct \subseteq [id : ConfigIds, conf : Conf, asked : Conf, on : BOOLEAN]
  /\ doc.links \in 0..(Limit + 1)

\* REALITY over a transport that carries it, with every key it needs.
Coherent(conf) ==
  conf.security = "reality" => conf.transport \in RealityTransports /\ conf.keys = Keys

\* Whatever the model answers, a stored configuration works with REALITY if it
\* uses it, unless the request itself asked for one that does not
\* (validate_decision, "The local validator is authoritative").
StoredCoherent == \A e \in doc.direct : Coherent(e.conf) \/ ~Coherent(e.asked)

\* What the subscription page serves of the document (_stored_links).
Served(d) == {e.id : e \in {x \in d.direct : x.on}}

\* A request takes away, brings back or switches only the configuration it names,
\* and keeps the custom links, unless it is a replacement or another request has
\* committed since it loaded the document (_save writes back all it had loaded).
OthersKept == [][\A r \in Editors :
  doc' # doc /\ doc' # Gone /\ edit[r] # NoEdit /\ edit'[r] = NoEdit
    /\ edit[r].kind \in {"create", "switch", "delete"} /\ ~edit[r].late =>
      /\ doc'.links = doc.links
      /\ Served(doc') \ {edit[r].id, count'} = Served(doc) \ {edit[r].id, count'}]_docVars
=============================================================================

----------------------------- MODULE PanelProofs -----------------------------
(***************************************************************************)
(* What holds of stored documents for any configurations asked for, any    *)
(* answers of the model and any number of requests at one time; which of   *)
(* the links fit, for any fields that profiles give; and that all that is  *)
(* proved of the four parts of the panel holds of the panel.               *)
(***************************************************************************)
EXTENDS Panel, ClientsProofs, InboundsProofs

-----------------------------------------------------------------------------
(* Documents.                                                              *)

EntryRecords == [id : Nat, conf : Conf, asked : Conf, on : BOOLEAN]
DocRecords == [direct : SUBSET EntryRecords, links : Nat]
EditRecords == [kind : Kinds \cup {"none"}, id : Nat, conf : Conf, on : BOOLEAN,
                seen : DocRecords, late : BOOLEAN]

\* An entry is coherent when its request was.
Sound(e) == Coherent(e.conf) \/ ~Coherent(e.asked)

\* Every document that is stored or loaded is sound, and a request that is not
\* late has loaded what is stored.
DocInv ==
  /\ doc \in DocRecords /\ edit \in [Editors -> EditRecords] /\ count \in Nat
  /\ \A e \in doc.direct : Sound(e)
  /\ \A r \in Editors : \A e \in edit[r].seen.direct : Sound(e)
  /\ \A r \in Editors :
       edit[r].kind # "none" /\ ~edit[r].late /\ doc # Gone => edit[r].seen = doc

-----------------------------------------------------------------------------
(* The validator.                                                          *)

\* Clearing the fields that do not apply leaves a configuration coherent.
LEMMA ClearedCoherent ==
  ASSUME NEW conf \in Conf
  PROVE  /\ Cleared(conf) \in Conf
         /\ Coherent(conf) => Coherent(Cleared(conf))
  <1> DEFINE keys == {k \in conf.keys : /\ conf.security # "none"
                                        /\ k \in {"public_key", "short_id"} => conf.security = "reality"}
             extras == {x \in conf.extras :
                          /\ x = "flow" => conf.protocol = "vless"
                          /\ x \in {"host", "path"} => conf.transport \in PathTransports
                          /\ x = "service_name" => conf.transport = "grpc"}
             c == [conf EXCEPT !.keys = keys, !.extras = extras]
  <1>1. Cleared(conf) = c
    BY DEF Cleared
  <1>2. keys \subseteq conf.keys /\ extras \subseteq conf.extras
    OBVIOUS
  <1>3. conf.security = "reality" => keys = conf.keys
    OBVIOUS
  <1> HIDE DEF keys, extras
  <1>4. c \in Conf /\ c.security = conf.security /\ c.transport = conf.transport /\ c.keys = keys
    BY <1>2 DEF Conf
  <1>5. QED
    BY <1>1, <1>3, <1>4 DEF Coherent

\* Whatever the model answers, the decision is coherent if the request was.
LEMMA DecisionCoherent ==
  ASSUME NEW fallback \in Conf, NEW value \in Advice
  PROVE  /\ ValidateDecision(value, fallback) \in Conf
         /\ Coherent(fallback) => Coherent(ValidateDecision(value, fallback))
  <1> DEFINE security == Known(value.security, Securities, fallback.security)
             transport == Carried(security, Known(value.transport, Transports, fallback.transport))
             protocol == Known(value.protocol, Protocols, fallback.protocol)
             keys == fallback.keys \cup value.keys
             extras == fallback.extras \cup value.extras
             chosen == [protocol |-> protocol, transport |-> transport, security |-> security,
                        keys |-> keys, extras |-> extras]
  <1>1. security \in Securities /\ protocol \in Protocols
    BY DEF Known, Conf
  <1>2. transport \in Transports /\ (security = "reality" => transport \in RealityTransports)
    BY DEF Known, Conf, Carried, Transports, RealityTransports
  <1>3. keys \in SUBSET Keys /\ extras \in SUBSET Extras
    BY DEF Conf, Advice
  <1> HIDE DEF security, transport, protocol, keys, extras
  <1>4. chosen \in Conf
    BY <1>1, <1>2, <1>3 DEF Conf
  <1>5. chosen.security = security /\ chosen.transport = transport /\ chosen.keys = keys
    OBVIOUS
  <1>6. ValidateDecision(value, fallback) =
          Cleared(IF security = "reality" /\ keys # Keys THEN fallback ELSE chosen)
    BY DEF ValidateDecision, security, transport, protocol, keys, extras
  <1> HIDE DEF chosen
  <1>7. CASE security = "reality" /\ keys # Keys
    BY <1>6, <1>7, ClearedCoherent
  <1>8. CASE ~(security = "reality" /\ keys # Keys)
    <2>1. Coherent(chosen)
      BY <1>2, <1>5, <1>8 DEF Coherent
    <2>2. QED
      BY <1>4, <1>6, <1>8, <2>1, ClearedCoherent
  <1>9. QED
    BY <1>7, <1>8

LEMMA DecidedSound ==
  ASSUME NEW asked \in Conf, NEW conf \in Decided(asked), NEW i \in Nat
  PROVE  Entry(i, conf, asked) \in EntryRecords /\ Sound(Entry(i, conf, asked))
  <1>1. conf \in Conf /\ (Coherent(asked) => Coherent(conf))
    <2>1. CASE conf = asked
      BY <2>1
    <2>2. CASE \E value \in Advised : conf = ValidateDecision(value, asked)
      BY <2>2, DecisionCoherent, DocumentsAssumption
    <2>3. QED
      BY <2>1, <2>2 DEF Decided
  <1>2. QED
    BY <1>1 DEF Entry, EntryRecords, Sound

-----------------------------------------------------------------------------
(* The requests.                                                           *)

LEMMA IdleEdit == NoEdit \in EditRecords /\ NoEdit.kind = "none" /\ NoEdit.seen.direct = {}
                  /\ NoEdit.late = FALSE
  <1>1. (CHOOSE c \in Asked : TRUE) \in Conf
    BY DocumentsAssumption
  <1>2. QED
    BY <1>1 DEF NoEdit, EditRecords, DocRecords, Empty

LEMMA Documents0 == Gone \in DocRecords /\ Gone.direct = {} /\ Empty \in DocRecords /\ Empty.direct = {}
  BY DocumentsAssumption DEF Gone, Empty, DocRecords

LEMMA BeginKeeps ==
  ASSUME DocInv, NEW r \in Editors, NEW request \in EditRecords, Begin(r, request)
  PROVE  DocInv'
  <1> DEFINE x == [request EXCEPT !.seen = doc]
  <1>1. x \in EditRecords /\ x.seen = doc
    BY DEF DocInv, EditRecords
  <1>2. edit' = [edit EXCEPT ![r] = x] /\ doc' = doc /\ count' = count
    BY DEF Begin
  <1> HIDE DEF x
  <1>3. edit' \in [Editors -> EditRecords]
    BY <1>1, <1>2 DEF DocInv
  <1>4. \A q \in Editors : edit'[q] = IF q = r THEN x ELSE edit[q]
    BY <1>2 DEF DocInv
  <1>5. QED
    BY <1>1, <1>2, <1>3, <1>4 DEF DocInv, Sound, Coherent

LEMMA WriteKeeps ==
  ASSUME DocInv, NEW r \in Editors, NEW new \in DocRecords, \A e \in new.direct : Sound(e),
         Write(r, new), count' \in Nat
  PROVE  DocInv'
  <1> DEFINE x(q) == [edit[q] EXCEPT !.late = TRUE]
  <1>1. doc' = new /\ \A q \in Editors : edit'[q] = NoEdit \/ edit'[q] = x(q)
    BY DEF Write
  <1>2. \A q \in Editors : x(q) \in EditRecords /\ x(q).seen = edit[q].seen /\ x(q).late = TRUE
    BY DEF DocInv, EditRecords
  <1> HIDE DEF x
  <1>3. \A q \in Editors : edit'[q] \in EditRecords
    BY <1>1, <1>2, IdleEdit
  <1>4. edit' \in [Editors -> EditRecords]
    BY <1>3 DEF Write
  <1>5. \A q \in Editors : \A e \in edit'[q].seen.direct : Sound(e)
    BY <1>1, <1>2, IdleEdit DEF DocInv
  <1>6. \A q \in Editors : edit'[q].kind # "none" => edit'[q].late
    BY <1>1, <1>2, IdleEdit
  <1>7. QED
    BY <1>1, <1>4, <1>5, <1>6 DEF DocInv, Sound, Coherent

LEMMA BeginsKeep ==
  ASSUME DocInv, NEW r \in Editors,
         \/ \E kind \in {"create", "replace"}, conf \in Asked : CreateBegin(r, kind, conf)
         \/ \E i \in ConfigIds, on \in BOOLEAN : ChangeBegin(r, "switch", i, on)
         \/ \E i \in ConfigIds : ChangeBegin(r, "delete", i, TRUE)
         \/ \E kind \in {"custom", "append"} : CustomBegin(r, kind)
  PROVE  DocInv'
  <1>1. ASSUME NEW kind \in Kinds, NEW i \in Nat, NEW conf \in Conf, NEW on \in BOOLEAN
        PROVE  /\ Request(kind, i) \in EditRecords
               /\ [Request(kind, i) EXCEPT !.conf = conf] \in EditRecords
               /\ [Request(kind, i) EXCEPT !.on = on] \in EditRecords
    <2>1. Request(kind, i) \in EditRecords
      BY IdleEdit DEF Request, EditRecords
    <2>2. QED
      BY <2>1 DEF EditRecords
  <1>2. ConfigIds \subseteq Nat /\ Asked \subseteq Conf /\ Asked # {}
    BY DocumentsAssumption DEF ConfigIds
  <1>3. ASSUME NEW kind \in {"create", "replace"}, NEW conf \in Asked, CreateBegin(r, kind, conf)
        PROVE  DocInv'
    <2>1. [Request(kind, 0) EXCEPT !.conf = conf] \in EditRecords
      BY <1>1, <1>2 DEF Kinds
    <2>2. QED
      BY <1>3, <2>1, BeginKeeps DEF CreateBegin
  <1>4. ASSUME NEW kind \in {"switch", "delete"}, NEW i \in ConfigIds, NEW on \in BOOLEAN,
               ChangeBegin(r, kind, i, on)
        PROVE  DocInv'
    <2>1. [Request(kind, i) EXCEPT !.on = on] \in EditRecords
      BY <1>1, <1>2 DEF Kinds
    <2>2. QED
      BY <1>4, <2>1, BeginKeeps DEF ChangeBegin
  <1>5. ASSUME NEW kind \in {"custom", "append"}, CustomBegin(r, kind)
        PROVE  DocInv'
    <2>1. Request(kind, 0) \in EditRecords
      BY <1>1, <1>2 DEF Kinds
    <2>2. QED
      BY <1>5, <2>1, BeginKeeps DEF CustomBegin
  <1>6. QED
    BY <1>3, <1>4, <1>5

LEMMA SavedSound ==
  ASSUME NEW seen \in DocRecords, NEW new \in SUBSET EntryRecords, \A e \in new : Sound(e)
  PROVE  /\ Saved(seen, new) \in DocRecords /\ \A e \in Saved(seen, new).direct : Sound(e)
         /\ Saved(seen, new).direct = new /\ Saved(seen, new).links = seen.links
  <1>1. /\ Saved(seen, new) \in DocRecords
        /\ Saved(seen, new).direct = new /\ Saved(seen, new).links = seen.links
    BY DEF Saved, DocRecords
  <1>2. QED
    BY <1>1

LEMMA CreateKeeps ==
  ASSUME DocInv, NEW r \in Editors, CreateSave(r)
  PROVE  DocInv'
  <1> DEFINE x == edit[r]
             kept == IF x.kind = "replace" THEN {} ELSE x.seen.direct
  <1>1. x \in EditRecords /\ x.seen \in DocRecords /\ x.conf \in Conf
        /\ kept \in SUBSET EntryRecords /\ \A e \in kept : Sound(e)
    BY DEF DocInv, EditRecords, DocRecords
  <1>2. count' \in Nat
    BY DEF CreateSave, DocInv
  <1>3. PICK conf \in Decided(x.conf) : Write(r, Saved(x.seen, kept \cup {Entry(count', conf, x.conf)}))
    BY DEF CreateSave
  <1>4. PICK e \in EntryRecords : e = Entry(count', conf, x.conf) /\ Sound(e)
    BY <1>1, <1>2, DecidedSound
  <1>5. PICK new \in SUBSET EntryRecords :
          new = kept \cup {e} /\ \A f \in new : Sound(f)
    BY <1>1, <1>4
  <1>6. PICK saved : saved = Saved(x.seen, new)
    OBVIOUS
  <1>7. saved \in DocRecords /\ \A f \in saved.direct : Sound(f)
    BY <1>1, <1>5, <1>6, SavedSound
  <1>8. Write(r, saved)
    BY <1>3, <1>4, <1>5, <1>6
  <1>9. QED
    BY <1>2, <1>7, <1>8, WriteKeeps

\* The entries as they were loaded, some of them switched or left out.
LEMMA RestKeeps ==
  ASSUME DocInv, NEW r \in Editors, SwitchSave(r) \/ DeleteSave(r)
  PROVE  DocInv'
  <1> DEFINE x == edit[r]
             switched == {IF e.id = x.id THEN [e EXCEPT !.on = x.on] ELSE e : e \in x.seen.direct}
             left == {e \in x.seen.direct : e.id # x.id}
  <1>1. x \in EditRecords /\ x.seen \in DocRecords /\ x.on \in BOOLEAN
        /\ x.seen.direct \in SUBSET EntryRecords /\ \A e \in x.seen.direct : Sound(e)
    BY DEF DocInv, EditRecords, DocRecords
  <1>2. \A e \in EntryRecords : /\ [e EXCEPT !.on = x.on] \in EntryRecords
                                /\ Sound(e) => Sound([e EXCEPT !.on = x.on])
    BY <1>1 DEF EntryRecords, Sound
  <1>3. switched \in SUBSET EntryRecords /\ \A e \in switched : Sound(e)
    BY <1>1, <1>2
  <1>4. left \in SUBSET EntryRecords /\ \A e \in left : Sound(e)
    BY <1>1
  <1>5. PICK new \in SUBSET EntryRecords : (\A e \in new : Sound(e)) /\ Write(r, Saved(x.seen, new))
                                          /\ count' = count
    <2>1. CASE SwitchSave(r)
      BY <1>3, <2>1 DEF SwitchSave
    <2>2. CASE DeleteSave(r)
      BY <1>4, <2>2 DEF DeleteSave
    <2>3. QED
      BY <2>1, <2>2
  <1>6. PICK saved : saved = Saved(x.seen, new)
    OBVIOUS
  <1>7. saved \in DocRecords /\ \A f \in saved.direct : Sound(f)
    BY <1>1, <1>5, <1>6, SavedSound
  <1>8. QED
    BY <1>5, <1>6, <1>7, WriteKeeps DEF DocInv

LEMMA CustomKeeps ==
  ASSUME DocInv, NEW r \in Editors, NEW n \in Nat, CustomSave(r, n)
  PROVE  DocInv'
  <1>1. edit[r].seen.links \in Nat
    BY DEF DocInv, EditRecords, DocRecords
  <1>2. PICK links \in Nat : Write(r, [Empty EXCEPT !.links = links]) /\ count' = count
    BY <1>1 DEF CustomSave
  <1>3. PICK new : new = [Empty EXCEPT !.links = links]
    OBVIOUS
  <1>4. new \in DocRecords /\ new.direct = {}
    BY <1>3 DEF Empty, DocRecords
  <1>5. QED
    BY <1>2, <1>3, <1>4, WriteKeeps DEF DocInv

LEMMA DocInvInit == DocInit => DocInv
  BY IdleEdit, Documents0 DEF DocInit, DocInv

LEMMA DocInvStep == DocInv /\ [DocNext]_docVars => DocInv'
  <1> SUFFICES ASSUME DocInv, [DocNext]_docVars PROVE DocInv'
    OBVIOUS
  <1>1. ASSUME NEW r \in Editors, EditStep(r) PROVE DocInv'
    <2>1. CASE Fail(r)
      <3>1. edit' = [edit EXCEPT ![r] = NoEdit] /\ doc' = doc /\ count' = count
        BY <2>1 DEF Fail
      <3>2. \A q \in Editors : edit'[q] = IF q = r THEN NoEdit ELSE edit[q]
        BY <3>1 DEF DocInv
      <3>3. edit' \in [Editors -> EditRecords]
        BY <3>1, IdleEdit DEF DocInv
      <3>4. QED
        BY <3>1, <3>2, <3>3, IdleEdit DEF DocInv, Sound, Coherent
    <2>2. CASE \E n \in 1..Limit : CustomSave(r, n)
      BY <2>2, CustomKeeps, DocumentsAssumption
    <2>3. QED
      BY <1>1, <2>1, <2>2, BeginsKeep, CreateKeeps, RestKeeps DEF EditStep
  <1>2. CASE DeleteSubscription
    BY <1>2, Documents0 DEF DeleteSubscription, DocInv, Sound, Coherent
  <1>3. CASE UNCHANGED docVars
    BY <1>3 DEF docVars, DocInv, Sound, Coherent
  <1>4. QED
    BY <1>1, <1>2, <1>3 DEF DocNext

LEMMA DocInvAlways == DocSpec => []DocInv
  BY DocInvInit, DocInvStep, PTL DEF DocSpec

-----------------------------------------------------------------------------
(* The theorems.                                                           *)

\* Whatever the model answers, no stored configuration fails at REALITY unless the
\* one asked for did.
THEOREM DesignsCoherent == DocSpec => []StoredCoherent
  <1>1. DocInv => StoredCoherent
    BY DEF DocInv, StoredCoherent, Sound
  <1>2. QED
    BY <1>1, DocInvAlways, PTL

\* A request that is not overtaken takes away, brings back or switches only what it names.
THEOREM OthersStay == DocSpec => OthersKept
  <1>1. ASSUME DocInv, [DocNext]_docVars, NEW r \in Editors,
               doc' # doc, doc' # Gone, edit[r] # NoEdit, edit'[r] = NoEdit,
               edit[r].kind \in {"create", "switch", "delete"}, ~edit[r].late
        PROVE  /\ doc'.links = doc.links
               /\ Served(doc') \ {edit[r].id, count'} = Served(doc) \ {edit[r].id, count'}
    <2>1. PICK q \in Editors : EditStep(q)
      BY <1>1 DEF DocNext, docVars, DeleteSubscription
    <2>2. CreateSave(q) \/ SwitchSave(q) \/ DeleteSave(q) \/ \E n \in 1..Limit : CustomSave(q, n)
      BY <1>1, <2>1 DEF EditStep, CreateBegin, ChangeBegin, CustomBegin, Begin, Fail
    <2>3. \E new : Write(q, new)
      BY <2>2 DEF CreateSave, SwitchSave, DeleteSave, CustomSave
    <2>4. q = r
      <3> SUFFICES ASSUME q # r PROVE FALSE
        OBVIOUS
      <3>1. edit'[r] = [edit[r] EXCEPT !.late = TRUE]
        BY <1>1, <2>3 DEF Write
      <3>2. edit[r] \in EditRecords
        BY <1>1 DEF DocInv
      <3>3. edit'[r].late = TRUE
        BY <3>1, <3>2 DEF EditRecords
      <3>4. QED
        BY <1>1, <3>3, IdleEdit
    <2>5. doc # Gone /\ edit[r].seen = doc /\ doc \in DocRecords
      BY <1>1, <2>3 DEF Write, DocInv
    <2> DEFINE x == edit[r]
               switched == {IF e.id = x.id THEN [e EXCEPT !.on = x.on] ELSE e : e \in doc.direct}
               left == {e \in doc.direct : e.id # x.id}
    <2>6. doc.direct \in SUBSET EntryRecords /\ x.on \in BOOLEAN /\ count' \in Nat /\ x.conf \in Conf
          /\ x \in EditRecords
      BY <1>1, <2>5, DocInvStep DEF DocInv, EditRecords, DocRecords
    <2>7. CASE CreateSave(r)
      <3>1. x.kind = "create"
        BY <1>1, <2>7 DEF CreateSave
      <3>2. PICK conf \in Decided(x.conf) :
              doc' = Saved(doc, doc.direct \cup {Entry(count', conf, x.conf)})
        BY <2>5, <2>7, <3>1 DEF CreateSave, Write
      <3>3. PICK e : e = Entry(count', conf, x.conf)
        OBVIOUS
      <3> e.id = count'
        BY <3>3 DEF Entry
      <3>4. doc'.direct = doc.direct \cup {e} /\ doc'.links = doc.links
        BY <2>5, <3>2, <3>3 DEF Saved, DocRecords
      <3>5. QED
        BY <3>3, <3>4 DEF Served
    <2>8. CASE SwitchSave(r)
      <3>1. doc' = Saved(doc, switched)
        BY <2>5, <2>8 DEF SwitchSave, Write
      <3>2. doc'.direct = switched /\ doc'.links = doc.links
        BY <2>5, <3>1 DEF Saved, DocRecords
      <3>3. \A e \in doc.direct : [e EXCEPT !.on = x.on].id = e.id
        BY <2>6 DEF EntryRecords
      <3>4. ASSUME NEW j, j # x.id
            PROVE  (\E e \in switched : e.id = j /\ e.on) <=> (\E e \in doc.direct : e.id = j /\ e.on)
        <4> DEFINE F(e) == IF e.id = x.id THEN [e EXCEPT !.on = x.on] ELSE e
        <4>1. \A e \in doc.direct : F(e).id = e.id /\ (e.id # x.id => F(e) = e)
          BY <3>3
        <4>2. switched = {F(e) : e \in doc.direct}
          OBVIOUS
        <4> HIDE DEF F, switched
        <4>3. QED
          BY <3>4, <4>1, <4>2
      <3> HIDE DEF switched
      <3>5. Served(doc') \ {x.id} = Served(doc) \ {x.id}
        BY <3>2, <3>4 DEF Served
      <3>6. QED
        BY <3>2, <3>5
    <2>9. CASE DeleteSave(r)
      <3>1. doc' = Saved(doc, left)
        BY <2>5, <2>9 DEF DeleteSave, Write
      <3>2. doc'.direct = left /\ doc'.links = doc.links
        BY <2>5, <3>1 DEF Saved, DocRecords
      <3>3. QED
        BY <3>2 DEF Served
    <2>10. QED
      BY <1>1, <2>2, <2>4, <2>7, <2>8, <2>9 DEF CustomSave
  <1>2. DocInv /\ [DocNext]_docVars => [\A r \in Editors :
          doc' # doc /\ doc' # Gone /\ edit[r] # NoEdit /\ edit'[r] = NoEdit
            /\ edit[r].kind \in {"create", "switch", "delete"} /\ ~edit[r].late =>
              /\ doc'.links = doc.links
              /\ Served(doc') \ {edit[r].id, count'} = Served(doc) \ {edit[r].id, count'}]_docVars
    BY <1>1
  <1>3. QED
    BY <1>2, DocInvAlways, PTL DEF DocSpec, OthersKept

-----------------------------------------------------------------------------
(* Links.                                                                  *)

LEMMA ProfileFields ==
  ASSUME NEW p \in Profile
  PROVE  /\ p.core \in Cores /\ p.protocol \in LinkProtocols /\ p.transport \in LinkTransports
         /\ p.security \in {"none", "tls", "reality"}
         /\ p.names \subseteq {"server_name", "another"}
  BY DEF Profile

\* Where a name of the core's differs from the link's.
LEMMA NetworkFits ==
  ASSUME NEW p \in Profile
  PROVE  /\ UrlLink(p).network = Built(p).network
              <=> ~(p.core = "sing-box" /\ p.transport \in {"xhttp", "kcp"})
         /\ VmessLink(p).network = Built(p).network
              <=> /\ ~(p.core = "sing-box" /\ p.transport \in {"xhttp", "kcp"})
                  /\ p.transport # "websocket"
         /\ SsLink(p).network = Built(p).network <=> p.transport = "tcp"
         /\ Built(p).network = "tcp" <=> p.transport = "tcp"
  BY ProfileFields
     DEF UrlLink, VmessLink, SsLink, Built, Network, SingboxNetwork, Cores, LinkTransports

\* The inbound is tuned away from what a link means as Untuned says.
LEMMA TunedFits ==
  ASSUME NEW p \in Profile
  PROVE  Built(p).tuned = {} <=> Untuned(p)
  BY ProfileFields DEF Built, Untuned, Cores

LEMMA SecurityFits ==
  ASSUME NEW p \in Profile
  PROVE  /\ UrlLink(p).security = Built(p).security
              <=> ~(p.core = "sing-box" /\ p.security = "reality")
         /\ VmessLink(p).security = Built(p).security <=> p.security # "reality"
         /\ SsLink(p).security = Built(p).security <=> p.security = "none"
         /\ Built(p).security = "reality" <=> p.security = "reality" /\ p.core # "sing-box"
  BY ProfileFields DEF UrlLink, VmessLink, SsLink, Built, Secured, Cores

\* Over REALITY a URL link fits when RealityGiven holds.
LEMMA RealityFits ==
  ASSUME NEW p \in Profile, p.security = "reality"
  PROVE  (/\ UrlLink(p).sni \in Built(p).names /\ UrlLink(p).sid \in Built(p).ids
          /\ UrlLink(p).pbk # "" /\ Built(p).key # "") <=> RealityGiven(p)
  <1>1. UrlLink(p).pbk # "" <=> "public_key" \in p.given
    BY DEF UrlLink, OnlyReality, Get
  <1>2. Built(p).key # "" <=> "private_key" \in p.given
    BY DEF Built, Get
  <1>3. UrlLink(p).sni \in Built(p).names
          <=> "server_name" \in p.given /\ ("server_names" \in p.given => "server_name" \in p.names)
    BY ProfileFields DEF UrlLink, Built, ServerNames, Get
  <1>4. UrlLink(p).sid \in Built(p).ids
          <=> ("short_ids" \in p.given => Get(p, "short_id", "") \in p.ids)
    BY DEF UrlLink, Built, ShortIds, OnlyReality
  <1>5. QED
    BY <1>1, <1>2, <1>3, <1>4 DEF RealityGiven

\* The same place is spelled out by the URL and by the core configuration.
LEMMA UrlFits ==
  ASSUME NEW p \in Profile, p.protocol \in {"vless", "trojan"}
  PROVE  Fits(UrlLink(p), Built(p)) <=> Dialable(p)
  <1>1. UrlLink(p).place = Built(p).place
    <2>1. UrlLink(p).place = Place(p)
      BY Zenon DEF UrlLink, Place
    <2>2. QED
      BY <2>1 DEF Built
  <1>2. UrlLink(p).proof = Built(p).proof
    BY DEF UrlLink, Built, Proof
  <1>3. Dialable(p) <=> /\ SingboxKnows(p) /\ Untuned(p)
                        /\ p.security = "reality" => RealityGiven(p)
    BY DEF Dialable
  <1>4. QED
    BY <1>1, <1>2, <1>3, NetworkFits, SecurityFits, TunedFits, RealityFits DEF Fits, SingboxKnows

\* A VMess link has a path where gRPC has a service and QUIC and mKCP nothing.
LEMMA VmessFits ==
  ASSUME NEW p \in Profile, p.protocol = "vmess"
  PROVE  Fits(VmessLink(p), Built(p)) <=> Dialable(p)
  <1>1. VmessLink(p).proof = Built(p).proof
    BY DEF VmessLink, Built, Proof
  <1>2. VmessLink(p).place = Built(p).place <=> p.transport \in PathNetworks
    <2>1. VmessLink(p).place[1] \in {"path", "/"}
      BY DEF VmessLink, Get
    <2>2. p.transport = "grpc" => Built(p).place[1] \in {"service_name", "pars2ray"}
      BY DEF Built, Place, Get, PathNetworks
    <2>3. p.transport \notin PathNetworks \cup {"grpc"} => Built(p).place[1] = ""
      BY DEF Built, Place, PathNetworks
    <2>4. p.transport \in PathNetworks => VmessLink(p).place = Built(p).place
      <3>1. p.transport \in PathNetworks => Place(p) = <<Get(p, "path", "/"), Get(p, "host", "")>>
        BY Zenon DEF Place, PathNetworks
      <3>2. QED
        BY <3>1 DEF VmessLink, Built
    <2>5. QED
      BY <2>1, <2>2, <2>3, <2>4
  <1>3. Dialable(p) <=> /\ SingboxKnows(p) /\ Untuned(p)
                        /\ p.transport \in {"tcp", "httpupgrade", "xhttp"}
                        /\ p.security # "reality"
    BY DEF Dialable
  <1>4. QED
    BY <1>1, <1>2, <1>3, NetworkFits, SecurityFits, TunedFits, ProfileFields
       DEF Fits, SingboxKnows, PathNetworks, LinkTransports, Cores

LEMMA SsFits ==
  ASSUME NEW p \in Profile, p.protocol = "shadowsocks"
  PROVE  Fits(SsLink(p), Built(p)) <=> Dialable(p)
  <1>1. SsLink(p).proof = Built(p).proof <=> "method" \in p.given /\ "password" \notin p.given
    BY DEF SsLink, Built, Proof, Get
  <1>2. p.transport = "tcp" => Built(p).tuned = {}
    BY DEF Built, Tuning
  <1>3. Dialable(p) <=> /\ p.transport = "tcp" /\ p.security = "none"
                        /\ "method" \in p.given /\ "password" \notin p.given
    BY DEF Dialable
  <1>4. QED
    BY <1>1, <1>2, <1>3, NetworkFits, SecurityFits DEF Fits

\* The link of a subscription page, by protocol.
LEMMA PageFitsNow ==
  ASSUME shown \in Profile
  PROVE  PageLinksFit
  <1>1. CASE shown.protocol \in {"vless", "trojan"}
    BY <1>1, UrlFits DEF PageLinksFit, PageLink
  <1>2. CASE shown.protocol = "vmess"
    BY <1>2, VmessFits DEF PageLinksFit, PageLink
  <1>3. CASE shown.protocol = "shadowsocks"
    BY <1>3, SsFits DEF PageLinksFit, PageLink
  <1>4. QED
    BY <1>1, <1>2, <1>3, ProfileFields DEF LinkProtocols

\* The panel's own link against the page's, by protocol.
LEMMA PanelAgreesNow ==
  ASSUME shown \in Profile
  PROVE  PanelLinksAgree
  <1>1. CASE shown.protocol = "vless"
    <2>1. PageLink(shown) = UrlLink(shown) /\ PanelLink(shown) = VlessLink(shown)
      BY <1>1 DEF PageLink, PanelLink
    <2>2. Alike(VlessLink(shown), UrlLink(shown)) <=> shown.transport # "websocket"
      BY DEF Alike, VlessLink, UrlLink
    <2>3. QED
      BY <1>1, <2>1, <2>2 DEF PanelLinksAgree
  <1>2. CASE shown.protocol = "vmess"
    <2>1. PageLink(shown) = VmessLink(shown)
      BY <1>2 DEF PageLink
    <2>2. PanelLink(shown) = [VmessLink(shown) EXCEPT !.sni = ""]
      BY <1>2 DEF PanelLink
    <2>3. Alike([VmessLink(shown) EXCEPT !.sni = ""], VmessLink(shown))
            <=> (shown.security = "tls" => "server_name" \notin shown.given)
      BY DEF Alike, VmessLink, Get
    <2>4. QED
      BY <1>2, <2>1, <2>2, <2>3 DEF PanelLinksAgree
  <1>3. CASE shown.protocol = "trojan"
    <2>1. PageLink(shown) = UrlLink(shown) /\ PanelLink(shown) = Bare
      BY <1>3 DEF PageLink, PanelLink
    <2>2. UrlLink(shown).security # Bare.security
      BY ProfileFields DEF UrlLink, Bare
    <2>3. QED
      BY <1>3, <2>1, <2>2 DEF PanelLinksAgree, Alike
  <1>4. CASE shown.protocol = "shadowsocks"
    <2>1. PageLink(shown) = SsLink(shown) /\ PanelLink(shown) = Bare
      BY <1>4 DEF PageLink, PanelLink
    <2>2. SsLink(shown).security # Bare.security
      BY DEF SsLink, Bare
    <2>3. QED
      BY <1>4, <2>1, <2>2 DEF PanelLinksAgree, Alike
  <1>5. QED
    BY <1>1, <1>2, <1>3, <1>4, ProfileFields DEF LinkProtocols

-----------------------------------------------------------------------------
(* The panel.                                                              *)

\* A step of the panel is a step of one part; the others stand still.
LEMMA PartSteps ==
  [PanelNext]_panelVars =>
    /\ [ClientsNext]_clientsVars /\ [InboundsNext]_inboundVars /\ [DocNext]_docVars
    /\ UNCHANGED shown
  BY DEF PanelNext, panelVars

\* The panel behaves as each of its parts says.
THEOREM PanelParts == PanelSpec => ClientsSpec /\ InboundsSpec /\ DocSpec
  <1>1. PanelInit => DatabaseInit /\ ClientsInit /\ InboundsInit /\ DocInit
    BY DEF PanelInit
  <1>2. QED
    BY <1>1, PartSteps, PTL DEF PanelSpec, ClientsSpec, InboundsSpec, DocSpec

\* The profile that is looked at stays what it is.
LEMMA ShownStays == PanelSpec => [](shown \in Profile)
  <1>1. SomeProfile \in Profile
    <2>1. [core |-> "xray", protocol |-> "vless", transport |-> "tcp", security |-> "none",
           given |-> {}, names |-> {}, ids |-> {}] \in Profile
      BY LinksAssumption DEF Profile, Cores, LinkProtocols, LinkTransports
    <2>2. QED
      BY <2>1 DEF SomeProfile
  <1>2. PanelInit => shown \in Profile
    BY <1>1 DEF PanelInit, LinksInit
  <1>3. shown \in Profile /\ UNCHANGED shown => (shown \in Profile)'
    OBVIOUS
  <1>4. QED
    BY <1>2, <1>3, PartSteps, PTL DEF PanelSpec

\* Whatever fields profiles give together, the link of a subscription page says what
\* the inbound takes for exactly the profiles of Dialable (PageLinksFit).
THEOREM PageFits == PanelSpec => []PageLinksFit
  BY ShownStays, PageFitsNow, PTL

\* ... and the panel's own link dials like it for exactly the profiles that
\* PanelLinksAgree names.
THEOREM PanelAgrees == PanelSpec => []PanelLinksAgree
  BY ShownStays, PanelAgreesNow, PTL

\* What the run of the panel checks of the other parts holds of it for every value
\* of the constants.
THEOREM PanelSafe ==
  PanelSpec => /\ []PageMatchesToken /\ []ListedIsInForce /\ []ClientsResolve
               /\ []StoredCoherent /\ PlanCapacity /\ OthersKept
  BY PanelParts, PageForToken, CapacityKept, ClientsKeepUp, PanelTruthful, DesignsCoherent,
     OthersStay, PTL
=============================================================================

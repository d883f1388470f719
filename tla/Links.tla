-------------------------------- MODULE Links --------------------------------
(***************************************************************************)
(* Descriptions of one inbound, made in different places from its profile: *)
(* the core configuration that config_builder derives, which the node      *)
(* runs; the share link of the subscription page, which the client dials;  *)
(* and the share link that the panel shows for the client.  A field of the *)
(* profile's configuration is given, with a value of its own, or left to   *)
(* the default of whoever reads it.  Whether a core or an app puts up with *)
(* a difference between the descriptions is not decided here.              *)
(***************************************************************************)
EXTENDS FiniteSets

FieldNames == {"path", "host", "service_name", "grpc_multi_mode", "xhttp_mode", "quic_security",
               "quic_key", "header_type", "server_name", "server_names", "short_id", "short_ids",
               "public_key", "private_key", "method", "password"}

CONSTANT Givens     \* the sets of fields that are given together
ASSUME LinksAssumption == Givens \subseteq SUBSET FieldNames /\ {} \in Givens

VARIABLE shown      \* the profile that is looked at

Cores == {"xray", "sing-box"}
LinkProtocols == {"vless", "vmess", "trojan", "shadowsocks"}
LinkTransports == {"tcp", "grpc", "websocket", "httpupgrade", "xhttp", "quic", "kcp"}

\* names and ids: what is in the lists server_names and short_ids, if they are given.
Profile == {p \in [core : Cores, protocol : LinkProtocols, transport : LinkTransports,
                   security : {"none", "tls", "reality"}, given : Givens,
                   names : SUBSET {"server_name", "another"}, ids : SUBSET {"", "short_id"}] :
              /\ "server_names" \in p.given \/ p.names = {}
              /\ "short_ids" \in p.given \/ p.ids = {}}
PathNetworks == {"websocket", "httpupgrade", "xhttp"}

\* cfg.get(field, default): the field of this profile, or a default.
Get(p, field, default) == IF field \in p.given THEN field ELSE default

-----------------------------------------------------------------------------
(* config_builder: what the inbound takes.                                 *)

\* (variant: the transport keeps the panel's name)
Network_Panel(transport) == transport
\* _transport_settings: the core's name of a transport.
Network(transport) == IF transport = "websocket" THEN "ws" ELSE transport

\* build_singbox has names of its own.
SingboxNetwork(transport) ==
  CASE transport = "xhttp" -> "http" [] transport = "kcp" -> "udp"
    [] OTHER -> Network(transport)

\* The part of the stream that a client has to match: the path, or the service.
Place(p) ==
  CASE p.transport \in PathNetworks -> <<Get(p, "path", "/"), Get(p, "host", "")>>
    [] p.transport = "grpc" -> <<Get(p, "service_name", "pars2ray"), "">>
    [] OTHER -> <<"", "">>

\* What build_xray makes of a transport beyond that, by the transport.
Tuning(transport) ==
  CASE transport = "grpc" -> {"grpc_multi_mode"}
    [] transport = "xhttp" -> {"xhttp_mode"}
    [] transport = "quic" -> {"quic_security", "quic_key", "header_type"}
    [] transport = "kcp" -> {"header_type"}
    [] OTHER -> {}

\* _security_settings; sing-box knows no REALITY and serves TLS for it.
Secured(p) == IF p.core = "sing-box" /\ p.security = "reality" THEN "tls" ELSE p.security

\* The names and ids a REALITY server accepts.
ServerNames(p) == IF "server_names" \in p.given THEN p.names
                  ELSE {Get(p, "server_name", "www.cloudflare.com")}
ShortIds(p) == IF "short_ids" \in p.given THEN p.ids ELSE {Get(p, "short_id", "")}

\* What proves the client: its id, or the method and password of shadowsocks.
Proof(p) ==
  IF p.protocol = "shadowsocks"
  THEN <<Get(p, "method", "2022-blake3-aes-128-gcm"), Get(p, "password", "client id")>>
  ELSE <<"", "client id">>

\* build_config, for one client.
Built(p) == [network |-> IF p.core = "xray" THEN Network(p.transport)
                         ELSE SingboxNetwork(p.transport),
             place |-> Place(p),
             tuned |-> IF p.core = "xray" THEN p.given \cap Tuning(p.transport) ELSE {},
             security |-> Secured(p), key |-> Get(p, "private_key", ""),
             names |-> ServerNames(p), ids |-> ShortIds(p), proof |-> Proof(p)]

-----------------------------------------------------------------------------
(* subscription_server: what the link dials.                               *)

OnlyReality(p, value) == IF p.security = "reality" THEN value ELSE ""

\* The URL of a VLESS or Trojan link, in its own defaults.
UrlLink(p) == [network |-> IF p.transport = "websocket" THEN "ws" ELSE p.transport,
               place |-> CASE p.transport \in PathNetworks ->
                                <<Get(p, "path", "/"), Get(p, "host", "")>>
                           [] p.transport = "grpc" -> <<Get(p, "service_name", "pars2ray"), "">>
                           [] OTHER -> <<"", "">>,
               security |-> p.security, sni |-> Get(p, "server_name", ""),
               pbk |-> OnlyReality(p, Get(p, "public_key", "")),
               sid |-> OnlyReality(p, Get(p, "short_id", "")), proof |-> <<"", "client id">>]

\* The JSON of a VMess link takes the panel's name of the transport, has a path and
\* a host for every network and knows TLS only.
VmessLink(p) == [network |-> p.transport, place |-> <<Get(p, "path", "/"), Get(p, "host", "")>>,
                 security |-> IF p.security = "tls" THEN "tls" ELSE "none",
                 sni |-> Get(p, "server_name", ""), pbk |-> "", sid |-> "",
                 proof |-> <<"", "client id">>]

\* A shadowsocks link holds a method and the client's id.
SsLink(p) == [network |-> "tcp", place |-> <<"", "">>, security |-> "none", sni |-> "", pbk |-> "",
              sid |-> "", proof |-> <<Get(p, "method", "aes-128-gcm"), "client id">>]

\* _inbound_links.
PageLink(p) == CASE p.protocol = "vmess" -> VmessLink(p)
                 [] p.protocol = "shadowsocks" -> SsLink(p)
                 [] OTHER -> UrlLink(p)

-----------------------------------------------------------------------------
(* inbounds: what the panel shows for the client.                          *)

\* _vless_link: the transport keeps the panel's name, and a server name is named
\* only where it is used.
VlessLink(p) == [UrlLink(p) EXCEPT !.network = p.transport,
                                   !.sni = IF p.security = "none" THEN "" ELSE @]

\* _config_links: a Trojan link says nothing beyond the address, a VMess link no
\* server name, and there is no link for shadowsocks.
Bare == [network |-> "", place |-> <<"", "">>, security |-> "", sni |-> "", pbk |-> "", sid |-> "",
         proof |-> <<"", "client id">>]
\* (variant: the JSON's server name is there)
PanelLink_Named(p) == CASE p.protocol = "vless" -> VlessLink(p)
                        [] p.protocol = "vmess" -> VmessLink(p)
                        [] OTHER -> Bare
PanelLink(p) == CASE p.protocol = "vless" -> VlessLink(p)
                  [] p.protocol = "vmess" -> [VmessLink(p) EXCEPT !.sni = ""]
                  [] OTHER -> Bare

LinksInit == shown \in Profile

-----------------------------------------------------------------------------
(* Properties.                                                             *)

\* The link says what the inbound takes: nothing of the stream is tuned away from
\* what an unmentioned setting means, plain TCP has no place, and REALITY wants a
\* name and an id that the server accepts and the two halves of a key.
Fits(link, inbound) ==
  /\ link.network = inbound.network /\ (inbound.network # "tcp" => link.place = inbound.place)
  /\ inbound.tuned = {}
  /\ link.security = inbound.security /\ link.proof = inbound.proof
  /\ inbound.security = "reality" =>
       /\ link.sni \in inbound.names /\ link.sid \in inbound.ids
       /\ link.pbk # "" /\ inbound.key # ""

SingboxKnows(p) == p.core = "sing-box" =>
  p.security # "reality" /\ p.transport \notin {"xhttp", "kcp"}
Untuned(p) == p.core = "xray" => p.given \cap Tuning(p.transport) = {}

\* The REALITY settings that a link can carry.
RealityGiven(p) ==
  /\ {"server_name", "public_key", "private_key"} \subseteq p.given
  /\ "server_names" \in p.given => "server_name" \in p.names
  /\ "short_ids" \in p.given => Get(p, "short_id", "") \in p.ids

\* The profiles whose links say what their inbounds take.
Dialable(p) ==
  CASE p.protocol \in {"vless", "trojan"} ->
         SingboxKnows(p) /\ Untuned(p) /\ (p.security = "reality" => RealityGiven(p))
    [] p.protocol = "vmess" ->
         /\ SingboxKnows(p) /\ Untuned(p)
         /\ p.transport \in {"tcp", "httpupgrade", "xhttp"} /\ p.security # "reality"
    [] OTHER -> /\ p.transport = "tcp" /\ p.security = "none"
                /\ "method" \in p.given /\ "password" \notin p.given

\* The link on a subscription page says what the inbound takes that is built from
\* the same profile for the profiles of Dialable and for no other: VLESS and Trojan
\* unless a setting is tuned that links never mention, and over REALITY only with a
\* server name, an accepted short id and both keys; VMess neither over websocket,
\* gRPC, QUIC or mKCP nor with REALITY; shadowsocks only bare and with a method but
\* no password of its own (_inbound_links against config_builder.build_config).
PageLinksFit == Fits(PageLink(shown), Built(shown)) <=> Dialable(shown)

\* Two links dial alike; without TLS and REALITY a server name means nothing.
Alike(a, b) ==
  /\ a.network = b.network /\ a.place = b.place /\ a.security = b.security
  /\ a.pbk = b.pbk /\ a.sid = b.sid /\ a.proof = b.proof
  /\ b.security # "none" => a.sni = b.sni

\* The link the panel shows for a client and the one on the client's page, made by
\* two pieces of code, dial alike for VLESS except over websocket, for VMess except
\* for a TLS server name, and never for Trojan (_config_links, _inbound_links).
PanelLinksAgree == Alike(PanelLink(shown), PageLink(shown)) <=>
  \/ shown.protocol = "vless" /\ shown.transport # "websocket"
  \/ shown.protocol = "vmess" /\ (shown.security = "tls" => "server_name" \notin shown.given)
=============================================================================

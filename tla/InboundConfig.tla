---------------------------- MODULE InboundConfig ----------------------------
(***************************************************************************)
(* One row of the inbounds table from the API's validators to the node and *)
(* to the client.  The master accepts or refuses a create or an update, it *)
(* turns the row into a node specification, the agent's three config       *)
(* builders turn that into a server, and the subscription turns the same   *)
(* row into a client.  Nothing but these functions keeps the two ends in   *)
(* agreement.                                                              *)
(*                                                                         *)
(* A row is abstracted to the fields these functions branch on: `certs`    *)
(* stands for both certificate paths, `keys` for the complete REALITY      *)
(* material, `sni` for server_name, `shake` for the ShadowTLS handshake    *)
(* server, `method` for the Shadowsocks method, `flow` for Vision, `chain` *)
(* for an upstream inbound that is a valid exit.  `acme` is the value of   *)
(* extra.acme: absent, false, true with no email ("bare"), true with the   *)
(* older extra.acme_email ("legacy"), or an object: with an email          *)
(* ("mail"), without ("nomail"), with HTTP-01 disabled ("nohttp").         *)
(***************************************************************************)
EXTENDS Naturals, Sequences

CONSTANTS Kinds, Networks

VARIABLE row        \* the stored row, or None before the first create

\* What the checks of single fields let through (validate_update_inbound).
Domains ==
  [kind |-> Kinds, core |-> {"singbox", "xray"}, network |-> Networks,
   tls |-> BOOLEAN, reality |-> BOOLEAN, certs |-> BOOLEAN, keys |-> BOOLEAN,
   sni |-> BOOLEAN, flow |-> BOOLEAN, shake |-> BOOLEAN, method |-> BOOLEAN,
   chain |-> BOOLEAN,
   acme |-> {"absent", "false", "bare", "legacy", "mail", "nomail", "nohttp"}]

\* The same of a whole row (validate_inbound_basics).
Inbound ==
  [kind: Domains.kind, core: Domains.core, network: Domains.network,
   tls: BOOLEAN, reality: BOOLEAN, certs: BOOLEAN, keys: BOOLEAN, sni: BOOLEAN,
   flow: BOOLEAN, shake: BOOLEAN, method: BOOLEAN, chain: BOOLEAN,
   acme: Domains.acme]

None == [kind |-> "none"]

------------------------------------------------------------------------------
(* The master's validators.                                                *)

acme_enabled(r) == r.acme \notin {"absent", "false"}

acme_email(r) == r.acme \in {"legacy", "mail", "nohttp"}

validate_acme_for_core(r) ==
  r.acme \in {"mail", "nomail", "nohttp"} =>
    /\ acme_email(r)
    /\ r.core = "xray" => r.acme # "nohttp"

validate_vless_flow(r) ==
  r.flow => r.kind = "vless" /\ r.network = "tcp" /\ r.tls

\* Mutant: hysteria2 is accepted without TLS.
validate_effective_security_lax(r) ==
  /\ r.core = "xray" => r.kind \in {"vless", "vmess", "trojan", "shadowsocks"}
  /\ r.core = "singbox" => r.network \notin {"xhttp", "mkcp"}
  /\ r.kind = "hysteria2" => ~r.reality
  /\ r.tls /\ ~r.reality /\ ~acme_enabled(r) => r.certs
  /\ r.reality =>
       /\ r.kind = "vless" /\ r.sni /\ r.keys
       /\ r.core = "xray" => r.network \in {"tcp", "xhttp", "grpc"}

validate_effective_security(r) ==
  /\ r.core = "xray" => r.kind \in {"vless", "vmess", "trojan", "shadowsocks"}
  /\ r.core = "singbox" => r.network \notin {"xhttp", "mkcp"}
  /\ r.kind = "hysteria2" => r.tls /\ ~r.reality
  /\ r.tls /\ ~r.reality /\ ~acme_enabled(r) => r.certs
  /\ r.reality =>
       /\ r.kind = "vless" /\ r.sni /\ r.keys
       /\ r.core = "xray" => r.network \in {"tcp", "xhttp", "grpc"}

\* The part of validate_upstream that reads the entry: its core.
validate_upstream_core(r) == r.chain => r.core # "xray"

validate_inbound(r) ==
  /\ r.reality => r.tls /\ r.keys
  /\ acme_enabled(r) =>
       /\ ~r.reality /\ r.tls /\ r.sni
       /\ acme_email(r)
       /\ validate_acme_for_core(r)
  /\ validate_effective_security(r)
  /\ validate_vless_flow(r)
  /\ r.kind = "shadowtls" => r.shake

validate_effective_update(r) ==
  /\ validate_vless_flow(r)
  /\ validate_effective_security(r)
  /\ validate_acme_for_core(r)

create_inbound ==
  /\ row = None
  /\ \E r \in Inbound :
       /\ validate_inbound(r)
       /\ validate_upstream_core(r)
       /\ row' = r

(* A patch of one field; patches of two fields store the same rows.  The   *)
(* upstream is validated only when the patch names it.                     *)
update_inbound(f) ==
  /\ row # None
  /\ \E v \in Domains[f] :
       LET new == [row EXCEPT ![f] = v] IN
       /\ validate_effective_update(new)
       /\ f = "chain" => validate_upstream_core(new)
       /\ row' = new

------------------------------------------------------------------------------
(* The node: specification, certificates, config builders.                 *)

\* Hysteria2 on the default core runs in the official Hysteria server.
coreOfInbound(r) ==
  IF r.kind = "hysteria2" /\ r.core = "singbox" THEN "hysteria" ELSE r.core

\* The TLS message of build_node_spec, or no message at all.
SpecTls(r) ==
  [present |-> r.tls \/ r.shake, enabled |-> r.tls,
   reality |-> (r.tls \/ r.shake) /\ r.reality]

\* The agent obtains this inbound's certificate itself.
Managed(r) == r.core = "xray" \/ r.kind = "hysteria2"

(* Manager.requests: one ACME inbound it refuses fails the whole apply.    *)
requests(r) ==
  acme_enabled(r) =>
    /\ SpecTls(r).enabled /\ ~SpecTls(r).reality /\ r.sni
    /\ Managed(r) => r.acme = "mail"

injectPaths(r) ==
  IF acme_enabled(r) /\ Managed(r) THEN "managed"
  ELSE IF r.certs THEN "files" ELSE "none"

\* A transport: its name on the wire and the settings it carries.
Carrying(n, fields) == [name |-> n, fields |-> fields]

Plain == Carrying("tcp", {})

PathAndHost == {"ws", "http", "h2", "httpupgrade"}

Layer(t) == IF ~t.enabled THEN "none" ELSE IF t.reality THEN "reality" ELSE "tls"

singbox_users(r) ==
  CASE r.kind \in {"vless", "vmess"} -> <<"uuid">>
    [] r.kind = "hysteria2"          -> <<"name", "password">>
    [] r.kind = "tuic"               -> <<"uuid", "password">>
    [] OTHER                         -> <<"password">>

xray_users(r) ==
  CASE r.kind \in {"vless", "vmess"} -> <<"uuid">>
    [] r.kind = "hysteria2"          -> <<"name", "password">>
    [] OTHER                         -> <<"password">>

hysteria_userpass(r) == <<"name", "password">>

\* sing-box has no xhttp and no mkcp.
buildTransport(r) ==
  CASE r.network = "h2"              -> Carrying("http", {"path", "host"})
    [] r.network \in PathAndHost     -> Carrying(r.network, {"path", "host"})
    [] r.network = "grpc"            -> Carrying("grpc", {"service"})
    [] OTHER                         -> Plain

\* "acme", whatever its value, drops the paths for sing-box's own ACME.
acmeBlock(r) == IF r.acme # "absent" THEN "acme" ELSE injectPaths(r)

buildTLS(r) == IF r.kind = "shadowtls" THEN "none" ELSE Layer(SpecTls(r))

\* The chain outbound is added with a route rule.
singbox_inbound(r) ==
  [ok |-> r.network \notin {"xhttp", "mkcp"}, security |-> buildTLS(r),
   cert |-> acmeBlock(r), transport |-> buildTransport(r),
   users |-> singbox_users(r), flow |-> r.kind = "vless" /\ r.flow,
   exit |-> r.chain]

buildNetworkSettings(r) ==
  CASE r.network = "h2"          -> Carrying("http", {"path", "host"})
    [] r.network \in PathAndHost -> Carrying(r.network, {"path", "host"})
    [] r.network = "xhttp"       -> Carrying("xhttp", {"path", "host", "mode"})
    [] r.network = "grpc"        -> Carrying("grpc", {"service"})
    [] OTHER                     -> Plain

buildStream(r) == Layer(SpecTls(r))

xray_inbound(r) ==
  [ok |-> r.kind # "hysteria2" \/ (r.tls /\ ~r.reality),
   security |-> buildStream(r), cert |-> injectPaths(r),
   transport |-> buildNetworkSettings(r), users |-> xray_users(r),
   flow |-> r.kind = "vless" /\ r.flow, exit |-> FALSE]

hysteria_config(r) ==
  [ok |-> r.tls /\ injectPaths(r) # "none", security |-> "tls",
   cert |-> injectPaths(r), transport |-> Plain, users |-> hysteria_userpass(r),
   flow |-> FALSE, exit |-> FALSE]

Server(r) ==
  CASE coreOfInbound(r) = "singbox"  -> singbox_inbound(r)
    [] coreOfInbound(r) = "xray"     -> xray_inbound(r)
    [] coreOfInbound(r) = "hysteria" -> hysteria_config(r)

------------------------------------------------------------------------------
(* The client: share links, sing-box outbounds, Clash proxies.             *)

\* A document that cannot be rendered, and one that can.
Unsupported == [ok |-> FALSE]

Client(security, transport, users, flow) ==
  [ok |-> TRUE, security |-> security, transport |-> transport, users |-> users,
   flow |-> flow]

\* Mutant: an inbound with TLS is announced as TLS even under REALITY.
append_security_tls_first(r) ==
  IF r.tls THEN "tls" ELSE IF r.reality THEN "reality" ELSE "none"

append_security(r) ==
  IF r.reality THEN "reality" ELSE IF r.tls THEN "tls" ELSE "none"

append_transport(r) ==
  CASE r.network = "h2"          -> Carrying("http", {"path", "host"})
    [] r.network \in PathAndHost -> Carrying(r.network, {"path", "host"})
    [] r.network = "grpc"        -> Carrying("grpc", {"service"})
    [] r.network = "xhttp"       -> Carrying("xhttp", {"path", "host", "mode"})
    [] OTHER                     -> Plain

vless_uri(r) ==
  IF r.reality /\ ~r.keys THEN Unsupported
  ELSE Client(append_security(r), append_transport(r), <<"uuid">>, r.flow)

hysteria2_uri(r) ==
  IF ~r.tls THEN Unsupported ELSE Client("tls", Plain, <<"name", "password">>, FALSE)

password_uri(r) ==
  IF r.reality /\ ~r.keys THEN Unsupported
  ELSE Client(append_security(r), append_transport(r), <<"password">>, FALSE)

tuic_uri(r) ==
  IF r.reality /\ ~r.keys THEN Unsupported
  ELSE Client(append_security(r), Plain, <<"uuid", "password">>, FALSE)

\* gRPC carries its service name in the path; no mode is carried.
vmess_uri(r) ==
  Client(IF r.tls THEN "tls" ELSE "none",
         CASE r.network = "grpc" -> Carrying("grpc", {"service"})
           [] r.network = "h2"   -> Carrying("http", {"path", "host"})
           [] r.network = "tcp"  -> Plain
           [] OTHER              -> Carrying(r.network, {"path", "host"}),
         <<"uuid">>, FALSE)

shadowsocks_uri(r) ==
  IF ~r.method THEN Unsupported ELSE Client("none", Plain, <<"password">>, FALSE)

endpoint_uri(r) ==
  CASE r.kind = "vless"       -> vless_uri(r)
    [] r.kind = "hysteria2"   -> hysteria2_uri(r)
    [] r.kind = "trojan"      -> password_uri(r)
    [] r.kind = "tuic"        -> tuic_uri(r)
    [] r.kind = "vmess"       -> vmess_uri(r)
    [] r.kind = "shadowsocks" -> shadowsocks_uri(r)
    [] OTHER                  -> Unsupported

singbox_transport(r) ==
  CASE r.network = "h2"          -> Carrying("http", {"path", "host"})
    [] r.network \in PathAndHost -> Carrying(r.network, {"path", "host"})
    [] r.network = "grpc"        -> Carrying("grpc", {"service"})
    [] OTHER                     -> Plain

singbox_outbound(r) ==
  IF \/ r.network \in {"xhttp", "mkcp"} \/ r.kind \in {"anytls", "shadowtls"}
     \/ r.kind = "shadowsocks" /\ ~r.method
  THEN Unsupported
  ELSE Client(IF ~r.tls THEN "none" ELSE IF r.reality THEN "reality" ELSE "tls",
              singbox_transport(r),
              CASE r.kind \in {"vless", "vmess"} -> <<"uuid">>
                [] r.kind = "hysteria2"          -> <<"name", "password">>
                [] r.kind = "tuic"               -> <<"uuid", "password">>
                [] OTHER                         -> <<"password">>,
              r.kind = "vless" /\ r.flow)

\* No TUIC for Clash; its Trojan is always TLS; HTTPUpgrade is written as "ws".
clash_proxy(r) ==
  IF \/ r.kind \notin {"vless", "vmess", "trojan", "hysteria2", "shadowsocks"}
     \/ /\ r.kind \in {"vless", "vmess", "trojan"}
        /\ r.network \notin {"tcp", "ws", "httpupgrade", "grpc"}
     \/ r.kind = "shadowsocks" /\ ~r.method
  THEN Unsupported
  ELSE Client(CASE r.kind \in {"vless", "vmess"} ->
                     IF ~r.tls THEN "none" ELSE IF r.reality THEN "reality" ELSE "tls"
                [] r.kind \in {"trojan", "hysteria2"} -> "tls"
                [] OTHER                         -> "none",
              CASE r.kind \in {"hysteria2", "shadowsocks"} -> Plain
                [] r.network \in {"ws", "httpupgrade"} -> Carrying("ws", {"path", "host"})
                [] r.network = "grpc" -> Carrying("grpc", {"service"})
                [] OTHER              -> Plain,
              CASE r.kind \in {"vless", "vmess"} -> <<"uuid">>
                [] r.kind = "hysteria2"          -> <<"name", "password">>
                [] OTHER                         -> <<"password">>,
              r.kind = "vless" /\ r.flow)

Clients(r) == {c \in {endpoint_uri(r), singbox_outbound(r), clash_proxy(r)} : c.ok}

------------------------------------------------------------------------------
ConfigInit == row = None

ConfigNext ==
  \/ create_inbound
  \/ \E f \in DOMAIN Domains : update_inbound(f)

ConfigSpec == ConfigInit /\ [][ConfigNext]_row

------------------------------------------------------------------------------
(* Rows the master accepts though the agent cannot build them: an ACME     *)
(* object the node-managed certificates do not support (the validator asks *)
(* by core, the agent by core and protocol), the older email field, and    *)
(* the ACME rows only an update can reach.                                 *)
AcmeBlindSpot(r) ==
  /\ acme_enabled(r)
  /\ \/ Managed(r) /\ r.acme # "mail"
     \/ ~r.tls \/ r.reality \/ ~r.sni

(* Every row the API accepted, by create or by any sequence of updates,    *)
(* is one the agent's builders accept: otherwise one inbound blocks every  *)
(* later push to its node.  The ACME rows above are the only exception.    *)
AgentBuilds ==
  row # None /\ ~AcmeBlindSpot(row) => requests(row) /\ Server(row).ok

(* A link, outbound or proxy that is rendered for the client speaks to the *)
(* server the agent builds from the same row: security layer, transport    *)
(* with its settings (but xhttp's mode, which has a default) and flow      *)
(* agree.  Transports are compared for the protocols that have one.  A row *)
(* with REALITY and no TLS, which only an update can store, and Trojan     *)
(* without TLS, which Clash does not have, are left out; so is HTTPUpgrade *)
(* for Clash, which clash_proxy writes as plain WebSocket.  The credential *)
(* has the parts the server checks for every row without exception.        *)
ClientMatchesServer ==
  row # None => \A client \in Clients(row) :
    /\ client.users = Server(row).users
    /\ (row.reality => row.tls)
         /\ (row.network = "tcp" \/ row.kind \in {"vless", "vmess", "trojan"})
         /\ (row.kind = "shadowsocks" => ~row.tls)
         /\ (row.kind = "trojan" => row.tls)
         /\ (row.network = "httpupgrade" => client # clash_proxy(row)) =>
        /\ client.security = Server(row).security
        /\ client.transport.name = Server(row).transport.name
        /\ client.transport.fields \ {"mode"} = Server(row).transport.fields \ {"mode"}
        /\ client.flow = Server(row).flow

(* What was asked for is what runs: a stored row is one the agent builds,  *)
(* and every document handed to a client fits what it builds.              *)
BuiltAsAsked == AgentBuilds /\ ClientMatchesServer

(* A TLS inbound serves the certificate its administrator chose: the files *)
(* of the row, or a certificate obtained by ACME when that is enabled.     *)
(* An explicit `acme: false` on sing-box is the exception.                 *)
ChosenCertificate ==
  row # None /\ row.tls /\ ~row.reality /\ ~AcmeBlindSpot(row)
      /\ ~(row.acme = "false" /\ coreOfInbound(row) = "singbox") =>
    Server(row).cert = CASE ~acme_enabled(row)  -> "files"
                         [] Managed(row)        -> "managed"
                         [] OTHER               -> "acme"

(* What an update can store and a create cannot: REALITY without TLS, ACME *)
(* settings the create path refuses, ShadowTLS without a handshake server, *)
(* an Xray entry that keeps its chain.  Nothing else gets past the weaker  *)
(* validation of the update.                                               *)
UpdateGaps ==
  row # None =>
    \/ validate_inbound(row) /\ validate_upstream_core(row)
    \/ row.reality /\ ~row.tls
    \/ acme_enabled(row) /\ (row.reality \/ ~row.tls \/ ~row.sni \/ row.acme = "bare")
    \/ row.kind = "shadowtls" /\ ~row.shake
    \/ row.chain /\ row.core = "xray"

(* core.go of an inbound's upstream outbound: "When set, the agent adds it *)
(* and routes this inbound's traffic through it."                          *)
ChainIsRouted == row # None /\ row.chain => Server(row).exit
==============================================================================

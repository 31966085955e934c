------------------------------ MODULE SubLinks ------------------------------
(***************************************************************************)
(* The links of a subscription (api/mod.rs, db/repo.rs): the revocable     *)
(* token, the permanent id, named tokens and the alias, the handlers that  *)
(* change them, and a request that is answered from one.  A request is a   *)
(* sequence of SELECTs without a transaction, and the edits fall between   *)
(* them.  Requests write nothing here, so one at a time is enough; the     *)
(* WireGuard peer that a download creates is WireGuard's, the documents'   *)
(* contents are InboundConfig's, re-encryption of a token is Rekey's.      *)
(***************************************************************************)
EXTENDS Naturals, FiniteSets

CONSTANTS
    LinkUsers,    \* the ids that users are ever given
    Aliases,      \* what an alias may be
    Lower,        \* Lower[a]: the alias in lower case
    NoOwner,      \* the owner of a link that opens nothing
    Unset,        \* no alias, no title, no stored copy of a token
    MaxTokens,    \* bound on the tokens ever generated
    MaxLinkEdits  \* bound on edits

\* Tokens (numbers here), ids and aliases are told apart.
ASSUME LinksAssumption ==
    /\ MaxTokens \in Nat /\ MaxTokens >= 2
    /\ Lower \in [Aliases -> Aliases]
    /\ LinkUsers \intersect Nat = {} /\ Aliases \intersect Nat = {}
    /\ LinkUsers \intersect Aliases = {}
    /\ NoOwner \notin LinkUsers /\ Unset \notin Aliases /\ Unset \notin Nat
    /\ Unset \notin {"own", "named", "default"}

VARIABLES
    created, live,       \* the ids that were given, and those whose row is there
    hash, enc,           \* user -> the token, and the token of the stored copy
    alias, title,        \* user -> the alias and the title of the subscription
    status, things,      \* user -> "active" or "suppressed", and what the groups give
    named,               \* user_subscriptions: [token, user]
    default_title,       \* the title of the settings, or Unset
    tokens,              \* tokens generated so far; token t is the number t
    visit,               \* the request, or NoVisit
    owner,               \* history: link -> whose it was last made to be
    was,                 \* history: what was true at some moment of the request
    linkEdits

links == <<created, live, hash, enc, alias, named, tokens, owner>>
subVars == <<links, title, status, things, default_title, visit, was, linkEdits>>

\* What a user's groups give: inbounds, external services, WireGuard interfaces.
Things == {"inbound", "service", "wg"}

LinkSpace == (1 .. MaxTokens) \union LinkUsers \union Aliases

NoVisit == [pc |-> "idle", route |-> "none", link |-> Unset, u |-> NoOwner, title |-> Unset,
            alias |-> Unset, status |-> "none", things |-> {}, out |-> "none", gives |-> {}]

\* One user; or two, of whom the other is from before tokens were stored,
\* has an alias and is disabled.
SubInit ==
    \E u, v \in LinkUsers, a \in Aliases : \E other \in {{}, {v}} :
        /\ u # v
        /\ live = {u} \union other /\ created = live
        /\ hash = [w \in LinkUsers |-> IF w \in other THEN 2 ELSE 1]
        /\ enc = [w \in LinkUsers |-> IF w \in other THEN Unset ELSE 1]
        /\ alias = [w \in LinkUsers |-> IF w \in other THEN a ELSE Unset]
        /\ title = [w \in LinkUsers |-> Unset]
        /\ status = [w \in LinkUsers |-> IF w \in other THEN "suppressed" ELSE "active"]
        /\ things = [w \in LinkUsers |-> Things]
        /\ owner = [l \in LinkSpace |->
                       IF l \in {u, 1} THEN u
                       ELSE IF v \in other /\ l \in {v, 2, Lower[a]} THEN v ELSE NoOwner]
        /\ named = {} /\ tokens = 2 /\ default_title = Unset
        /\ visit = NoVisit /\ was = {} /\ linkEdits = 0

-----------------------------------------------------------------------------
(* The edits.                                                              *)

\* What is true now of the links and of the users.
Facts ==
    {<<"owner", l, owner[l]>> : l \in LinkSpace}
    \union {<<"named", n.token, n.user>> : n \in named}
    \union {<<"status", u, status[u]>> : u \in live}
    \union {<<"title", u, title[u]>> : u \in live}
    \union UNION {{<<"thing", u, t>> : t \in things[u]} : u \in live}

Edited ==
    /\ linkEdits < MaxLinkEdits /\ linkEdits' = linkEdits + 1
    /\ was' = IF visit = NoVisit THEN {} ELSE was \union Facts'
    /\ UNCHANGED visit

Fresh == tokens + 1
HasToken == tokens < MaxTokens

\* The links in S open nothing any more.
Disown(S) == [l \in LinkSpace |-> IF l \in S THEN NoOwner ELSE owner[l]]

create_user(u) ==
    /\ u \in LinkUsers \ created /\ HasToken
    /\ created' = created \union {u} /\ live' = live \union {u} /\ tokens' = Fresh
    /\ hash' = [hash EXCEPT ![u] = Fresh] /\ enc' = [enc EXCEPT ![u] = Fresh]
    /\ alias' = [alias EXCEPT ![u] = Unset]
    /\ title' = [title EXCEPT ![u] = Unset]
    /\ status' = [status EXCEPT ![u] = "active"]
    /\ owner' = [owner EXCEPT ![u] = u, ![Fresh] = u]
    /\ UNCHANGED <<things, named, default_title>> /\ Edited

\* The row's named links go with it.
delete_user(u) ==
    /\ u \in live
    /\ live' = live \ {u}
    /\ named' = {n \in named : n.user # u}
    /\ owner' = Disown({l \in LinkSpace : owner[l] = u})
    /\ UNCHANGED <<created, hash, enc, alias, title, status, things, default_title, tokens>>
    /\ Edited

\* rotate_subscription_token: hash and copy in one statement.
rotate_subscription(u) ==
    /\ u \in live /\ HasToken
    /\ tokens' = Fresh
    /\ hash' = [hash EXCEPT ![u] = Fresh] /\ enc' = [enc EXCEPT ![u] = Fresh]
    /\ owner' = [Disown({hash[u]}) EXCEPT ![Fresh] = u]
    /\ UNCHANGED <<created, live, alias, title, status, things, named, default_title>>
    /\ Edited

create_user_subscription(u) ==
    /\ u \in live /\ HasToken
    /\ tokens' = Fresh
    /\ named' = named \union {[token |-> Fresh, user |-> u]}
    /\ owner' = [owner EXCEPT ![Fresh] = u]
    /\ UNCHANGED <<created, live, hash, enc, alias, title, status, things, default_title>>
    /\ Edited

delete_user_subscription(n) ==
    /\ n \in named
    /\ named' = named \ {n}
    /\ owner' = Disown({n.token})
    /\ UNCHANGED <<created, live, hash, enc, alias, title, status, things, default_title, tokens>>
    /\ Edited

\* Mutant: an alias is taken only when it is written in the same case.
Taken_exact(u, a) == \E v \in live \ {u} : alias[v] = a

\* users_subscription_alias_lower_uniq (migration 0028).
Taken(u, a) == \E v \in live \ {u} : alias[v] # Unset /\ Lower[alias[v]] = Lower[a]

\* set_alias: a taken one is a conflict and changes nothing.
set_alias(u, a) ==
    /\ u \in live
    /\ a # Unset => ~Taken(u, a)
    /\ alias' = [alias EXCEPT ![u] = a]
    /\ owner' = [l \in LinkSpace |->
                    IF a # Unset /\ l = Lower[a] THEN u
                    ELSE IF alias[u] # Unset /\ l = Lower[alias[u]] THEN NoOwner
                    ELSE owner[l]]
    /\ UNCHANGED <<created, live, hash, enc, title, status, things, named, default_title, tokens>>
    /\ Edited

\* update_user, expiry and quota: the user is suppressed or served again, is
\* titled or not.
update_user(u) ==
    /\ u \in live
    /\ \/ /\ status' = [status EXCEPT ![u] = IF status[u] = "active" THEN "suppressed" ELSE "active"]
          /\ UNCHANGED title
       \/ /\ title' = [title EXCEPT ![u] = IF title[u] = Unset THEN "own" ELSE Unset]
          /\ UNCHANGED status
    /\ UNCHANGED <<links, things, default_title>> /\ Edited

\* Groups, inbounds, services and interfaces of the user come and go.
Regrant(u, t) ==
    /\ u \in live
    /\ things' = [things EXCEPT ![u] = IF t \in things[u] THEN things[u] \ {t}
                                       ELSE things[u] \union {t}]
    /\ UNCHANGED <<links, title, status, default_title>> /\ Edited

update_settings ==
    /\ default_title' = IF default_title = Unset THEN "default" ELSE Unset
    /\ UNCHANGED <<links, title, status, things>> /\ Edited

-----------------------------------------------------------------------------
(* A request.                                                             *)

\* Handlers that begin with load_subscription.
Loading == {"links", "app", "app-unknown", "singbox", "speedtest", "services", "wg", "wg-one", "qr-one"}
\* Handlers that begin with get_user_by_subscription_token.
ByToken == Loading \union {"page", "qr-all"}
\* Handlers that begin with get_user_by_alias: format_for_ua tells an
\* application from a browser.
ByAlias == {"alias", "alias-browser"}
\* Handlers of the panel, which begin with owned_user.
ByOwner == {"preview", "preview-unknown", "reveal", "reveal-named"}
Previews == {"preview", "preview-unknown"}

Stays == UNCHANGED <<links, title, status, things, default_title, was, linkEdits>>

Visit(route, link, u, pc) ==
    /\ visit = NoVisit
    /\ visit' = [NoVisit EXCEPT !.pc = pc, !.route = route, !.link = link, !.u = u]
    /\ was' = Facts
    /\ UNCHANGED <<links, title, status, things, default_title, linkEdits>>

\* Somebody opens a link, in an application or in a browser; the panel asks
\* about a user, or about a named link it listed under a user.
Open ==
    \/ \E route \in ByToken, l \in (1 .. tokens) \union LinkUsers :
            Visit(route, l, NoOwner, "hash")
    \/ \E route \in ByAlias, a \in Aliases : Visit(route, a, NoOwner, "alias")
    \/ \E route \in Previews \union {"reveal"}, u \in LinkUsers : Visit(route, u, u, "owned")
    \/ \E l \in 1 .. tokens, u \in LinkUsers :
            /\ [token |-> l, user |-> u] \in named \/ owner[l] = NoOwner
            /\ Visit("reveal-named", l, u, "owned")

Goes(pc) == visit' = [visit EXCEPT !.pc = pc]
Ends(out) == visit' = [visit EXCEPT !.pc = "done", !.out = out]
Hands(S) == visit' = [visit EXCEPT !.pc = "done", !.out = "link", !.gives = S]

\* The row is read once, and used from then on as it was.
Found(u, name, pc) ==
    visit' = [visit EXCEPT !.pc = pc, !.u = u, !.title = name,
                       !.alias = alias[u], !.status = status[u]]

\* get_user_by_subscription_token: the token of a user,
SelectHash ==
    /\ visit.pc = "hash"
    /\ IF \E u \in live : hash[u] = visit.link
       THEN \E u \in live : hash[u] = visit.link /\ Found(u, title[u], "defaults")
       ELSE Goes("id")
    /\ Stays

\* then the id of a user,
SelectId ==
    /\ visit.pc = "id"
    /\ IF visit.link \in live THEN Found(visit.link, title[visit.link], "defaults")
       ELSE Goes("named")
    /\ Stays

\* then a named token,
SelectNamed ==
    /\ visit.pc = "named"
    /\ IF \E n \in named : n.token = visit.link
       THEN \E n \in named :
                n.token = visit.link /\ visit' = [visit EXCEPT !.pc = "owner", !.u = n.user]
       ELSE Ends("404")
    /\ Stays

\* and its user, under the name of the link.
SelectOwner ==
    /\ visit.pc = "owner"
    /\ IF visit.u \in live THEN Found(visit.u, "named", "defaults") ELSE Ends("404")
    /\ Stays

get_user_by_alias ==
    LET Has(u) == alias[u] # Unset /\ Lower[alias[u]] = Lower[visit.link]
    IN /\ visit.pc = "alias"
       /\ IF \E u \in live : Has(u)
          THEN \E u \in live : Has(u) /\ Found(u, title[u], "defaults")
          ELSE Ends("404")
       /\ Stays

owned_user ==
    /\ visit.pc = "owned"
    /\ IF visit.u \notin live THEN Ends("404")
       ELSE Found(visit.u, title[visit.u], IF visit.route \in Previews THEN "defaults" ELSE "reveal")
    /\ Stays

\* apply_subscription_defaults: what the user does not say, the settings do.
WithDefaults(pc, out) ==
    visit' = [visit EXCEPT !.pc = pc, !.out = out,
                           !.title = IF visit.title = Unset THEN default_title ELSE visit.title]

\* load_subscription, and the same in subscription_by_alias for an application.
load_subscription ==
    /\ visit.pc = "defaults" /\ visit.route \in Loading \union {"alias"}
    /\ IF visit.status = "active" THEN WithDefaults("endpoints", "none")
       ELSE WithDefaults("done", "410")
    /\ Stays

\* load_subscription_page: a suppressed user sees the page, without endpoints.
load_subscription_page ==
    /\ visit.pc = "defaults" /\ visit.route = "page"
    /\ IF visit.status = "active" THEN WithDefaults("endpoints", "none")
       ELSE WithDefaults("done", "page")
    /\ Stays

\* subscription_by_alias for a browser: a redirect to the permanent link.
subscription_by_alias ==
    /\ visit.pc = "defaults" /\ visit.route = "alias-browser"
    /\ Hands({visit.u}) /\ Stays

\* subscription_qr_all: the alias, else the link that was opened.
subscription_qr_all ==
    /\ visit.pc = "defaults" /\ visit.route = "qr-all"
    /\ Hands({IF visit.alias # Unset THEN Lower[visit.alias] ELSE visit.link}) /\ Stays

\* What the user's groups give at this moment; nothing, when the row is gone.
Given(t) == IF visit.u \in live THEN things[visit.u] \intersect {t} ELSE {}

\* subscription_endpoints.
subscription_endpoints ==
    /\ visit.pc = "endpoints"
    /\ visit' = [visit EXCEPT !.pc = "rest", !.things = Given("inbound")]
    /\ Stays
Rests(route) == visit.pc = "rest" /\ visit.route = route /\ Stays

\* A client that no profile is for is refused (update_settings stores the
\* profiles of all the others).
client_profile_overrides == visit.route \notin {"app-unknown", "preview-unknown"}

\* The document, under the title of the user in its headers.
sub_headers == Ends("served")

\* subscription_links, _v2ray.
subscription_links == Rests("links") /\ sub_headers

\* subscription_document for an application, _client_profile, an alias.
tailored_response ==
    /\ \E route \in {"app", "app-unknown", "alias"} : Rests(route)
    /\ IF client_profile_overrides THEN sub_headers ELSE Ends("400")

\* subscription_singbox, _singbox_tun, _clash, the document as JSON: no profile
\* of the client is needed.
subscription_singbox == Rests("singbox") /\ Ends("served")

\* subscription_document for a browser.
subscription_document == Rests("page") /\ Ends("page")

subscription_speedtest ==
    /\ Rests("speedtest")
    /\ visit' = [visit EXCEPT !.pc = "done", !.out = "served", !.things = {}]

subscription_services ==
    /\ Rests("services")
    /\ visit' = [visit EXCEPT !.pc = "done", !.out = "served", !.things = Given("service")]

subscription_wg_list ==
    /\ Rests("wg")
    /\ visit' = [visit EXCEPT !.pc = "done", !.out = "served", !.things = Given("wg")]

\* subscription_wg_config and _wg_qr need the interface.
subscription_wg_config ==
    /\ Rests("wg-one")
    /\ visit' = [visit EXCEPT !.pc = "done", !.things = Given("wg"),
                             !.out = IF Given("wg") = {} THEN "no-endpoint" ELSE "served"]

subscription_qr ==
    /\ Rests("qr-one")
    /\ IF visit.things = {} THEN Ends("no-endpoint") ELSE Ends("served")

\* subscription_preview: the profile first, then the endpoints, suppressed or not.
subscription_preview ==
    /\ visit.pc = "defaults" /\ visit.route \in Previews
    /\ IF client_profile_overrides THEN WithDefaults("endpoints", "none")
       ELSE WithDefaults("done", "400")
    /\ Stays

\* Its answer names the permanent link.
Previewed ==
    /\ Rests("preview")
    /\ visit' = [visit EXCEPT !.pc = "done", !.out = "preview", !.gives = {visit.u}]

\* The token, when a copy of it is stored.
reveal_subscription_token(u) == {enc[u]} \ {Unset}

\* reveal_subscription: the permanent link, and the token.
reveal_subscription ==
    /\ visit.pc = "reveal" /\ visit.route = "reveal"
    /\ IF visit.u \notin live THEN Ends("404")
       ELSE Hands({visit.u} \union reveal_subscription_token(visit.u))
    /\ Stays

reveal_user_subscription ==
    /\ visit.pc = "reveal" /\ visit.route = "reveal-named"
    /\ IF [token |-> visit.link, user |-> visit.u] \in named THEN Hands({visit.link}) ELSE Ends("404")
    /\ Stays

Close ==
    /\ visit.pc = "done"
    /\ visit' = NoVisit /\ was' = {}
    /\ UNCHANGED <<links, title, status, things, default_title, linkEdits>>

Change ==
    \/ \E u \in LinkUsers :
        \/ create_user(u) \/ delete_user(u) \/ rotate_subscription(u)
        \/ create_user_subscription(u) \/ update_user(u)
        \/ \E a \in Aliases \union {Unset} : set_alias(u, a)
        \/ \E t \in Things : Regrant(u, t)
    \/ \E n \in named : delete_user_subscription(n)
    \/ update_settings

VisitStep ==
    \/ SelectHash \/ SelectId \/ SelectNamed \/ SelectOwner \/ get_user_by_alias \/ owned_user
    \/ load_subscription \/ load_subscription_page \/ subscription_by_alias
    \/ subscription_qr_all \/ subscription_endpoints \/ subscription_links \/ tailored_response
    \/ subscription_singbox \/ subscription_document \/ subscription_speedtest
    \/ subscription_services \/ subscription_wg_list \/ subscription_wg_config
    \/ subscription_qr
    \/ subscription_preview \/ Previewed \/ reveal_subscription \/ reveal_user_subscription

SubNext == Change \/ Open \/ VisitStep \/ Close

SubSpec == SubInit /\ [][SubNext]_subVars

-----------------------------------------------------------------------------

Key(l) == IF l \in Aliases THEN Lower[l] ELSE l

\* Whatever the panel changes between the SELECTs of a request, its answer was
\* true at some moment while it ran: "not found" when the link was nobody's,
\* "gone" when its owner was suppressed, endpoints and services of the owner
\* and of an owner who was active, a link handed out (a redirect, a code, the
\* panel's reveal) that opened the same user.  So a link that was revoked
\* before the request came opens nothing, and one valid throughout opens.
EveryAnswerWasTrue ==
    LET l == Key(visit.link)
        u == visit.u
    IN visit.pc = "done" =>
        /\ <<"owner", l, IF visit.out = "404" THEN NoOwner ELSE u>> \in was
        /\ visit.out = "410" => <<"status", u, "suppressed">> \in was
        /\ visit.out \in {"served", "page"} /\ visit.things # {} =>
               <<"status", u, "active">> \in was
        /\ \A t \in visit.things : <<"thing", u, t>> \in was
        /\ \A g \in visit.gives : <<"owner", g, u>> \in was
        /\ visit.out = "served" /\ <<"named", l, u>> \in was => visit.title = "named"
        /\ visit.title = "default" => <<"title", u, Unset>> \in was
=============================================================================

--------------------------- MODULE PublicProofs ---------------------------
(***************************************************************************)
(* What the subscribers meet: the links of a subscription and the          *)
(* certificate that Xray serves with.                                      *)
(*                                                                         *)
(* What a request for a subscription answers was true while it ran,        *)
(* although its SELECTs are in no transaction, for every number of users,  *)
(* tokens, aliases and edits. The rows give each link one owner, which     *)
(* every edit keeps (SubRowsInv). A request carries what it has            *)
(* established so far (Followed, RowRead), and the edits only add to what  *)
(* was true while it ran.                                                  *)
(*                                                                         *)
(* Xray is restarted on a certificate and its own key, for every set of    *)
(* settings and any number of issues, pushes and crashes. The lock that a  *)
(* task holds is that of the entry in force (OneHolder), and the files are *)
(* left alone from the decision to restart to the restart (FilesOf).       *)
(***************************************************************************)
EXTENDS SubLinks, XrayAcme, TLAPS

\* The columns, and that each user's token was generated.
SubTypes ==
    /\ created \subseteq LinkUsers /\ live \subseteq created
    /\ tokens \in Nat /\ tokens <= MaxTokens
    /\ hash \in [LinkUsers -> 1 .. tokens]
    /\ enc \in [LinkUsers -> Nat \union {Unset}]
    /\ alias \in [LinkUsers -> Aliases \union {Unset}]
    /\ title \in [LinkUsers -> {Unset, "own"}]
    /\ status \in [LinkUsers -> {"active", "suppressed"}]
    /\ things \in [LinkUsers -> SUBSET Things]
    /\ owner \in [LinkSpace -> LinkUsers \union {NoOwner}]
    /\ named \subseteq [token : 1 .. tokens, user : LinkUsers]
    /\ default_title \in {Unset, "default"}

\* The links of a row are owned by its user.
Owns(u) ==
    /\ owner[u] = u /\ owner[hash[u]] = u
    /\ enc[u] \in {Unset, hash[u]}
    /\ alias[u] # Unset => owner[Lower[alias[u]]] = u
    /\ \A n \in named : n.token # hash[u]

RowsOwn == \A u \in live : Owns(u)

NamedOwn == \A n \in named : n.user \in live /\ owner[n.token] = n.user

\* A link that is somebody's is one of the links of their rows.
HasRow(l, u) ==
    /\ u \in live
    /\ \/ l = u \/ l = hash[u]
       \/ [token |-> l, user |-> u] \in named
       \/ alias[u] # Unset /\ l = Lower[alias[u]]

OwnedByRows == \A l \in LinkSpace, u \in LinkUsers : owner[l] = u => HasRow(l, u)

\* The links as the rows give them.
SubRowsInv == SubTypes /\ RowsOwn /\ NamedOwn /\ OwnedByRows

Pcs == {"hash", "id", "named", "owner", "alias", "owned", "defaults", "endpoints", "rest", "reveal", "done"}
Outs == {"none", "404", "410", "400", "served", "page", "preview", "link", "no-endpoint"}

\* A request, and the points it reaches.
VisitType ==
    [pc : Pcs, route : ByToken \union ByAlias \union ByOwner, link : LinkSpace, u : LinkUsers \union {NoOwner},
     title : {Unset, "own", "named", "default"}, alias : Aliases \union {Unset},
     status : {"none", "active", "suppressed"}, things : SUBSET Things, out : Outs,
     gives : SUBSET LinkSpace]

\* What was true while the request ran.
NoOne(l) == <<"owner", l, NoOwner>> \in was
IsOf(l, u) == <<"owner", l, u>> \in was
Named(l, u) == [token |-> l, user |-> u] \in named
NeverNamed(l) == \A u \in LinkUsers : ~Named(l, u) /\ <<"named", l, u>> \notin was

Untitled(u) == <<"title", u, Unset>> \in was

\* The row was read: what was taken from it was true.
RowRead ==
    /\ visit.u \in LinkUsers /\ IsOf(visit.u, visit.u)
    /\ visit.status \in {"active", "suppressed"} /\ <<"status", visit.u, visit.status>> \in was
    /\ visit.alias # Unset => IsOf(Lower[visit.alias], visit.u)
    /\ visit.title \in {Unset, "default"} => Untitled(visit.u)
    /\ visit.route # "reveal-named" => IsOf(Key(visit.link), visit.u)
    /\ visit.route \in ByToken \union ByAlias => visit.title = "named" \/ NeverNamed(Key(visit.link))

AnsweredTrue ==
    /\ <<"owner", Key(visit.link), IF visit.out = "404" THEN NoOwner ELSE visit.u>> \in was
    /\ visit.out = "410" => <<"status", visit.u, "suppressed">> \in was
    /\ visit.out \in {"served", "page"} /\ visit.things # {} => <<"status", visit.u, "active">> \in was
    /\ visit.out = "served" =>
         visit.u \in LinkUsers /\ (visit.title = "named" \/ NeverNamed(Key(visit.link)))
    /\ visit.title = "default" => Untitled(visit.u)

\* The link as far as the request has followed it.
Followed ==
    /\ visit.pc \in {"hash", "id", "named", "owner", "alias", "owned"} =>
         visit.title = Unset /\ visit.things = {}
    /\ visit.pc \in {"hash", "id", "named", "owner"} => visit.route \in ByToken
    /\ visit.route \in ByToken => visit.link \notin Aliases
    /\ visit.pc # "done" => visit.gives = {}
    /\ visit.pc = "id" =>
         visit.link \in LinkUsers \/ NoOne(visit.link) \/ \E n \in named : n.token = visit.link
    /\ visit.pc = "named" => NoOne(visit.link) \/ \E n \in named : n.token = visit.link
    /\ visit.pc = "owner" => visit.u \in LinkUsers /\ IsOf(visit.link, visit.u)
    /\ visit.pc = "owner" => NoOne(visit.link) \/ Named(visit.link, visit.u)
    /\ visit.pc = "alias" => visit.route \in ByAlias /\ visit.link \in Aliases
    /\ visit.pc = "owned" => visit.route \in ByOwner /\ visit.u \in LinkUsers
    /\ visit.route \in ByOwner \ {"reveal-named"} => visit.link = visit.u
    /\ visit.route = "reveal-named" =>
         /\ visit.link \in Nat
         /\ visit.pc \in {"owned", "reveal"} => NoOne(visit.link) \/ Named(visit.link, visit.u)
    /\ visit.pc = "reveal" => visit.route \in {"reveal", "reveal-named"} /\ visit.title # "default"
    /\ visit.pc \in {"defaults", "endpoints", "rest"} => visit.route # "reveal-named"
    /\ visit.pc \in {"endpoints", "rest"} /\ visit.route \notin Previews => visit.status = "active"
    /\ visit.pc = "defaults" => visit.things = {} /\ visit.title # "default"
    /\ visit.pc = "reveal" => visit.things = {}

AllFollowed ==
    /\ visit \in VisitType
    /\ visit.link \in Nat => visit.link <= tokens
    /\ Facts \subseteq was
    /\ \A t, u : <<"named", t, u>> \in was => t \in 1 .. tokens /\ \A v \in live : hash[v] # t
    /\ \A t \in visit.things : <<"thing", visit.u, t>> \in was
    /\ \A g \in visit.gives : IsOf(g, visit.u)
    /\ Followed
    /\ visit.pc \in {"defaults", "endpoints", "rest", "reveal"} => RowRead
    /\ visit.pc = "done" => AnsweredTrue

\* Either there is no request, or all of it has been followed.
VisitInv == visit = NoVisit \/ AllFollowed

\* The inductive invariant of the links and of the request.
SubInv == SubRowsInv /\ VisitInv

\* The sets of routes are constants.
LEMMA SameRoutes == ByToken' = ByToken /\ ByAlias' = ByAlias /\ ByOwner' = ByOwner /\ Previews' = Previews
BY Zenon DEF ByToken, ByAlias, ByOwner, Previews, Loading

\* Tokens, ids and aliases are links, and are told apart.
LEMMA Space ==
    ASSUME SubTypes
    PROVE  /\ \A u \in LinkUsers : u \in LinkSpace /\ u \notin Nat /\ u \notin Aliases /\ u # NoOwner
           /\ \A a \in Aliases : a \in LinkSpace /\ Lower[a] \in LinkSpace /\ Lower[a] \in Aliases /\ a \notin Nat /\ a # Unset
           /\ \A t \in 1 .. tokens : t \in LinkSpace /\ t \in Nat
           /\ \A u \in LinkUsers : hash[u] \in Nat /\ hash[u] \in LinkSpace
           /\ \A n \in named : n.token \in LinkSpace /\ n.token \in Nat /\ n.user \in LinkUsers /\ n = [token |-> n.token, user |-> n.user]
BY LinksAssumption DEF SubTypes, LinkSpace

\* A token that is generated now is nobody's and names nothing.
LEMMA FreshIsFree ==
    ASSUME SubRowsInv, HasToken
    PROVE  /\ Fresh \in Nat /\ Fresh \in LinkSpace /\ Fresh \notin 1 .. tokens /\ Fresh \in 1 .. Fresh
           /\ Fresh <= MaxTokens /\ tokens <= Fresh
           /\ owner[Fresh] = NoOwner
           /\ \A u \in LinkUsers : hash[u] # Fresh
           /\ \A n \in named : n.token # Fresh
<1>1. /\ Fresh \in Nat /\ Fresh \in LinkSpace /\ Fresh \notin 1 .. tokens /\ Fresh \in 1 .. Fresh
      /\ Fresh <= MaxTokens /\ tokens <= Fresh
  BY LinksAssumption DEF SubRowsInv, SubTypes, HasToken, Fresh, LinkSpace
<1>2. \A u \in LinkUsers : hash[u] # Fresh
  BY <1>1, ZenonT(60) DEF SubRowsInv, SubTypes
<1>3. \A n \in named : n.token # Fresh
  BY <1>1, Zenon DEF SubRowsInv, SubTypes
<1>4. owner[Fresh] = NoOwner
  <2>1. SUFFICES ASSUME NEW u \in LinkUsers, owner[Fresh] = u PROVE FALSE
    BY <1>1, Zenon DEF SubRowsInv, SubTypes
  <2>2. HasRow(Fresh, u)
    BY <1>1, <2>1, Zenon DEF SubRowsInv, OwnedByRows
  <2>3. [token |-> Fresh, user |-> u] \notin named
    BY <1>3, Zenon
  <2>4. Fresh # u /\ (alias[u] # Unset => Fresh # Lower[alias[u]])
    BY <1>1, Space DEF SubRowsInv, SubTypes
  <2>. QED
    BY <1>2, <2>2, <2>3, <2>4, Zenon DEF HasRow
<1>. QED
  BY <1>1, <1>2, <1>3, <1>4, Zenon

\* create_user: the new row has a token of its own and its id.
LEMMA CreateKeeps ==
    ASSUME SubRowsInv, NEW u \in LinkUsers, create_user(u)
    PROVE  SubRowsInv'
<1>1. u \notin live /\ HasToken /\ live' = live \union {u} /\ tokens' = Fresh /\ named' = named
  BY Zenon DEF create_user, SubRowsInv, SubTypes
<1>2. /\ owner' \in [LinkSpace -> LinkUsers \union {NoOwner}]
      /\ owner'[u] = u /\ owner'[Fresh] = u
      /\ \A l \in LinkSpace : l # u /\ l # Fresh => owner'[l] = owner[l]
  BY <1>1, FreshIsFree, Space DEF create_user, SubRowsInv, SubTypes
<1>3. /\ hash' \in [LinkUsers -> 1 .. Fresh] /\ hash'[u] = Fresh /\ enc'[u] = Fresh /\ alias'[u] = Unset
      /\ \A v \in LinkUsers \ {u} : hash'[v] = hash[v] /\ enc'[v] = enc[v] /\ alias'[v] = alias[v]
  BY <1>1, FreshIsFree DEF create_user, SubRowsInv, SubTypes
<1>4. SubTypes'
  <2>1. named' \subseteq [token : 1 .. tokens', user : LinkUsers]
    BY <1>1, FreshIsFree DEF SubRowsInv, SubTypes
  <2>. QED
    BY <1>1, <1>2, <1>3, <2>1, FreshIsFree, Zenon DEF create_user, SubRowsInv, SubTypes
<1>5. ASSUME NEW v \in live' PROVE Owns(v)'
  <2>1. CASE v = u
    BY <1>1, <1>2, <1>3, <2>1, FreshIsFree, Zenon DEF Owns
  <2>2. CASE v # u
    <3>1. v \in live /\ v \in LinkUsers /\ Owns(v)
      BY <1>1, <2>2, Zenon DEF SubRowsInv, SubTypes, RowsOwn
    <3>2. owner'[v] = owner[v] /\ owner'[hash[v]] = owner[hash[v]]
      BY <1>1, <1>2, <2>2, <3>1, FreshIsFree, Space, Zenon DEF SubRowsInv
    <3>3. alias[v] # Unset => owner'[Lower[alias[v]]] = owner[Lower[alias[v]]]
      BY <1>1, <1>2, <3>1, FreshIsFree, Space DEF SubRowsInv, SubTypes
    <3>. QED
      BY <1>1, <1>3, <2>2, <3>1, <3>2, <3>3, Zenon DEF Owns
  <2>. QED
    BY <2>1, <2>2, Zenon
<1>6. NamedOwn'
  BY <1>1, <1>2, FreshIsFree, Space, Zenon DEF SubRowsInv, NamedOwn
<1>7. ASSUME NEW l \in LinkSpace, NEW v \in LinkUsers, owner'[l] = v PROVE HasRow(l, v)'
  <2>1. CASE v = u
    <3>1. l = u \/ l = Fresh
      BY <1>1, <1>2, <1>7, <2>1, Zenon DEF SubRowsInv, OwnedByRows, HasRow
    <3>. QED
      BY <1>1, <1>3, <2>1, <3>1, Zenon DEF HasRow
  <2>2. CASE v # u
    <3>1. HasRow(l, v)
      BY <1>2, <1>7, <2>2, Zenon DEF SubRowsInv, OwnedByRows
    <3>. QED
      BY <1>1, <1>3, <2>2, <3>1, Zenon DEF HasRow
  <2>. QED
    BY <2>1, <2>2, Zenon
<1>. QED
  BY <1>4, <1>5, <1>6, <1>7, Zenon DEF SubRowsInv, RowsOwn, OwnedByRows

\* delete_user: the links of the row go with it.
LEMMA DeleteKeeps ==
    ASSUME SubRowsInv, NEW u \in LinkUsers, delete_user(u)
    PROVE  SubRowsInv'
<1>1. /\ u \in live /\ live' = live \ {u} /\ named' = {n \in named : n.user # u}
      /\ hash' = hash /\ enc' = enc /\ alias' = alias /\ tokens' = tokens
      /\ \A l \in LinkSpace : owner'[l] = IF owner[l] = u THEN NoOwner ELSE owner[l]
      /\ owner' \in [LinkSpace -> LinkUsers \union {NoOwner}]
  BY Zenon DEF delete_user, Disown, SubRowsInv, SubTypes
<1>2. SubTypes'
  BY <1>1, Zenon DEF delete_user, SubRowsInv, SubTypes
<1>3. ASSUME NEW v \in live' PROVE Owns(v)'
  <2>1. v \in live /\ v # u /\ v \in LinkUsers /\ v \in LinkSpace /\ hash[v] \in LinkSpace /\ Owns(v)
    BY <1>1, Space, Zenon DEF SubRowsInv, SubTypes, RowsOwn
  <2>2. alias[v] # Unset => Lower[alias[v]] \in LinkSpace
    BY <2>1, Space, Zenon DEF SubRowsInv, SubTypes
  <2>. QED
    BY <1>1, <2>1, <2>2, Zenon DEF Owns
<1>4. NamedOwn'
  BY <1>1, Space, Zenon DEF SubRowsInv, NamedOwn
<1>5. ASSUME NEW l \in LinkSpace, NEW v \in LinkUsers, owner'[l] = v PROVE HasRow(l, v)'
  <2>1. v # u /\ HasRow(l, v)
    BY <1>1, <1>5, LinksAssumption, Zenon DEF SubRowsInv, OwnedByRows
  <2>. QED
    BY <1>1, <2>1, Zenon DEF HasRow
<1>. QED
  BY <1>2, <1>3, <1>4, <1>5, Zenon DEF SubRowsInv, RowsOwn, OwnedByRows

\* rotate_subscription: the old token opens nothing, the new one its user.
LEMMA RotateKeeps ==
    ASSUME SubRowsInv, NEW u \in LinkUsers, rotate_subscription(u)
    PROVE  SubRowsInv'
<1>1. u \in live /\ HasToken /\ live' = live /\ named' = named /\ alias' = alias /\ tokens' = Fresh
  BY Zenon DEF rotate_subscription
<1>2. /\ owner' \in [LinkSpace -> LinkUsers \union {NoOwner}]
      /\ owner'[Fresh] = u /\ owner'[hash[u]] = NoOwner
      /\ \A l \in LinkSpace : l # hash[u] /\ l # Fresh => owner'[l] = owner[l]
  BY <1>1, FreshIsFree, Space, Zenon DEF rotate_subscription, SubRowsInv, SubTypes, Disown
<1>3. /\ hash' \in [LinkUsers -> 1 .. Fresh] /\ hash'[u] = Fresh /\ enc'[u] = Fresh
      /\ \A v \in LinkUsers \ {u} : hash'[v] = hash[v] /\ enc'[v] = enc[v]
  BY <1>1, FreshIsFree DEF rotate_subscription, SubRowsInv, SubTypes
<1>4. SubTypes'
  <2>1. named' \subseteq [token : 1 .. tokens', user : LinkUsers]
    BY <1>1, FreshIsFree DEF SubRowsInv, SubTypes
  <2>. QED
    BY <1>1, <1>2, <1>3, <2>1, FreshIsFree, Zenon DEF rotate_subscription, SubRowsInv, SubTypes
<1>5. ASSUME NEW v \in live PROVE Owns(v)'
  <2>1. v \in LinkUsers /\ Owns(v) /\ Owns(u)
    BY <1>1, Zenon DEF SubRowsInv, SubTypes, RowsOwn
  <2>2. owner'[v] = owner[v] /\ (alias[v] # Unset => owner'[Lower[alias[v]]] = owner[Lower[alias[v]]])
    BY <1>1, <1>2, <2>1, FreshIsFree, Space DEF SubRowsInv, SubTypes
  <2>3. CASE v = u
    BY <1>1, <1>2, <1>3, <2>1, <2>2, <2>3, FreshIsFree, Zenon DEF Owns
  <2>4. CASE v # u
    <3>1. owner'[hash[v]] = owner[hash[v]]
      BY <1>1, <1>2, <2>1, <2>4, FreshIsFree, Space, Zenon DEF SubRowsInv, Owns
    <3>. QED
      BY <1>1, <1>3, <2>1, <2>2, <2>4, <3>1, Zenon DEF Owns
  <2>. QED
    BY <2>3, <2>4, Zenon
<1>6. NamedOwn'
  <2>1. Owns(u)
    BY <1>1, Zenon DEF SubRowsInv, RowsOwn
  <2>. QED
    BY <1>1, <1>2, <2>1, FreshIsFree, Space, ZenonT(60) DEF SubRowsInv, NamedOwn, Owns
<1>7. ASSUME NEW l \in LinkSpace, NEW v \in LinkUsers, owner'[l] = v PROVE HasRow(l, v)'
  <2>1. CASE l = Fresh
    BY <1>1, <1>2, <1>3, <1>7, <2>1, Zenon DEF HasRow
  <2>2. CASE l # Fresh
    <3>1. HasRow(l, v) /\ l # hash[u]
      BY <1>2, <1>7, <2>2, LinksAssumption, Zenon DEF SubRowsInv, OwnedByRows
    <3>. QED
      BY <1>1, <1>3, <3>1, Zenon DEF HasRow
  <2>. QED
    BY <2>1, <2>2, Zenon
<1>. QED
  BY <1>1, <1>4, <1>5, <1>6, <1>7, Zenon DEF SubRowsInv, RowsOwn, OwnedByRows

\* create_user_subscription: a named link of its own.
LEMMA AddNamedKeeps ==
    ASSUME SubRowsInv, NEW u \in LinkUsers, create_user_subscription(u)
    PROVE  SubRowsInv'
<1>1. /\ u \in live /\ HasToken /\ live' = live /\ hash' = hash /\ enc' = enc /\ alias' = alias
      /\ tokens' = Fresh /\ named' = named \union {[token |-> Fresh, user |-> u]}
  BY Zenon DEF create_user_subscription
<1>2. /\ owner' \in [LinkSpace -> LinkUsers \union {NoOwner}] /\ owner'[Fresh] = u
      /\ \A l \in LinkSpace : l # Fresh => owner'[l] = owner[l]
  BY <1>1, FreshIsFree, Zenon DEF create_user_subscription, SubRowsInv, SubTypes
<1>3. SubTypes'
  <2>1. named' \subseteq [token : 1 .. tokens', user : LinkUsers]
    BY <1>1, FreshIsFree DEF SubRowsInv, SubTypes
  <2>2. hash' \in [LinkUsers -> 1 .. tokens']
    BY <1>1, FreshIsFree DEF SubRowsInv, SubTypes
  <2>. QED
    BY <1>1, <1>2, <2>1, <2>2, FreshIsFree, Zenon DEF create_user_subscription, SubRowsInv, SubTypes
<1>4. ASSUME NEW v \in live PROVE Owns(v)'
  <2>1. v \in LinkUsers /\ Owns(v)
    BY Zenon DEF SubRowsInv, SubTypes, RowsOwn
  <2>2. owner'[v] = owner[v] /\ owner'[hash[v]] = owner[hash[v]] /\ hash[v] # Fresh
    BY <1>1, <1>2, <2>1, FreshIsFree, Space, Zenon DEF SubRowsInv
  <2>3. alias[v] # Unset => owner'[Lower[alias[v]]] = owner[Lower[alias[v]]]
    BY <1>1, <1>2, <2>1, FreshIsFree, Space DEF SubRowsInv, SubTypes
  <2>. QED
    BY <1>1, <2>1, <2>2, <2>3 DEF Owns
<1>5. NamedOwn'
  BY <1>1, <1>2, FreshIsFree, Space DEF SubRowsInv, NamedOwn
<1>6. ASSUME NEW l \in LinkSpace, NEW v \in LinkUsers, owner'[l] = v PROVE HasRow(l, v)'
  <2>1. CASE l = Fresh
    BY <1>1, <1>2, <1>6, <2>1, Zenon DEF HasRow
  <2>2. CASE l # Fresh
    BY <1>1, <1>2, <1>6, <2>2, Zenon DEF SubRowsInv, OwnedByRows, HasRow
  <2>. QED
    BY <2>1, <2>2, Zenon
<1>. QED
  BY <1>1, <1>3, <1>4, <1>5, <1>6, Zenon DEF SubRowsInv, RowsOwn, OwnedByRows

\* delete_user_subscription: that link alone opens nothing any more.
LEMMA DropNamedKeeps ==
    ASSUME SubRowsInv, NEW m \in named, delete_user_subscription(m)
    PROVE  SubRowsInv'
<1>1. /\ live' = live /\ hash' = hash /\ enc' = enc /\ alias' = alias
      /\ tokens' = tokens /\ named' = named \ {m}
  BY Zenon DEF delete_user_subscription
<1>2. /\ owner' \in [LinkSpace -> LinkUsers \union {NoOwner}] /\ owner'[m.token] = NoOwner
      /\ \A l \in LinkSpace : l # m.token => owner'[l] = owner[l]
  BY Space, Zenon DEF delete_user_subscription, SubRowsInv, SubTypes, Disown
<1>3. SubTypes'
  BY <1>1, <1>2, Zenon DEF delete_user_subscription, SubRowsInv, SubTypes
<1>4. ASSUME NEW v \in live PROVE Owns(v)'
  <2>1. v \in LinkUsers /\ Owns(v) /\ m.token # hash[v]
    BY Zenon DEF SubRowsInv, SubTypes, RowsOwn, Owns
  <2>2. owner'[v] = owner[v] /\ owner'[hash[v]] = owner[hash[v]]
    BY <1>2, <2>1, Space, Zenon DEF SubRowsInv
  <2>3. alias[v] # Unset => owner'[Lower[alias[v]]] = owner[Lower[alias[v]]]
    BY <1>2, <2>1, Space DEF SubRowsInv, SubTypes
  <2>. QED
    BY <1>1, <2>1, <2>2, <2>3, Zenon DEF Owns
<1>5. NamedOwn'
  <2>. SUFFICES ASSUME NEW n \in named, n # m PROVE n.user \in live /\ owner'[n.token] = n.user
    BY <1>1, Zenon DEF NamedOwn
  <2>1. owner[n.token] = n.user /\ owner[m.token] = m.user /\ n.user \in live
    BY Zenon DEF SubRowsInv, NamedOwn
  <2>2. n.token # m.token
    BY <2>1, Space, Zenon DEF SubRowsInv
  <2>. QED
    BY <1>2, <2>1, <2>2, Space, Zenon DEF SubRowsInv
<1>6. ASSUME NEW l \in LinkSpace, NEW v \in LinkUsers, owner'[l] = v PROVE HasRow(l, v)'
  <2>1. HasRow(l, v) /\ l # m.token
    BY <1>2, <1>6, LinksAssumption, Zenon DEF SubRowsInv, OwnedByRows
  <2>2. [token |-> l, user |-> v] # m
    BY <2>1
  <2>. QED
    BY <1>1, <2>1, <2>2, Zenon DEF HasRow
<1>. QED
  BY <1>1, <1>3, <1>4, <1>5, <1>6, Zenon DEF SubRowsInv, RowsOwn, OwnedByRows

\* set_alias: the unique index on the lower case keeps two users from one alias.
LEMMA AliasKeeps ==
    ASSUME SubRowsInv, NEW u \in LinkUsers, NEW a \in Aliases \union {Unset}, set_alias(u, a)
    PROVE  SubRowsInv'
<1>1. /\ u \in live /\ live' = live /\ hash' = hash /\ enc' = enc /\ named' = named
      /\ tokens' = tokens /\ (a # Unset => ~Taken(u, a))
  BY Zenon DEF set_alias
<1>2. /\ owner' \in [LinkSpace -> LinkUsers \union {NoOwner}]
      /\ \A l \in LinkSpace : owner'[l] = IF a # Unset /\ l = Lower[a] THEN u
                                        ELSE IF alias[u] # Unset /\ l = Lower[alias[u]] THEN NoOwner
                                        ELSE owner[l]
  BY Zenon DEF set_alias, SubRowsInv, SubTypes
<1>3. alias'[u] = a /\ \A v \in LinkUsers \ {u} : alias'[v] = alias[v]
  BY Zenon DEF set_alias, SubRowsInv, SubTypes
<1>4. SubTypes'
  BY <1>1, <1>2, Zenon DEF set_alias, SubRowsInv, SubTypes
<1>5. (a # Unset => Lower[a] \in Aliases) /\ \A v \in LinkUsers : alias[v] # Unset => Lower[alias[v]] \in Aliases
  BY Space, ZenonT(60) DEF SubRowsInv, SubTypes
<1>6. \A l \in LinkSpace : l \notin Aliases => owner'[l] = owner[l]
  BY <1>2, <1>5, Zenon
<1>7. ASSUME NEW v \in live PROVE Owns(v)'
  <2>1. v \in LinkUsers /\ Owns(v) /\ Owns(u)
    BY <1>1, Zenon DEF SubRowsInv, SubTypes, RowsOwn
  <2>2. hash[v] \notin Aliases /\ v \notin Aliases /\ v \in LinkSpace /\ hash[v] \in LinkSpace
    BY <2>1, Space, LinksAssumption, Zenon DEF SubRowsInv
  <2>3. owner'[v] = v /\ owner'[hash[v]] = v
    BY <1>6, <2>1, <2>2, Zenon DEF Owns
  <2>4. alias'[v] # Unset => owner'[Lower[alias'[v]]] = v
    <3>1. CASE v = u
      BY <1>2, <1>3, <1>5, <3>1, Space, Zenon DEF SubRowsInv
    <3>2. CASE v # u
      <4>. SUFFICES ASSUME alias[v] # Unset PROVE owner'[Lower[alias[v]]] = v
        BY <1>3, <2>1, <3>2, Zenon
      <4>1. owner[Lower[alias[v]]] = v /\ Lower[alias[v]] \in LinkSpace
        BY <1>5, <2>1, Space, Zenon DEF SubRowsInv, Owns
      <4>2. a # Unset => Lower[alias[v]] # Lower[a]
        BY <1>1, <3>2, Zenon DEF Taken
      <4>3. alias[u] # Unset => Lower[alias[v]] # Lower[alias[u]]
        BY <2>1, <3>2, <4>1, Zenon DEF Owns
      <4>. QED
        BY <1>2, <4>1, <4>2, <4>3, Zenon
    <3>. QED
      BY <3>1, <3>2, Zenon
  <2>. QED
    BY <1>1, <2>1, <2>3, <2>4, Zenon DEF Owns
<1>8. NamedOwn'
  BY <1>1, <1>6, Space, LinksAssumption, Zenon DEF SubRowsInv, NamedOwn
<1>9. ASSUME NEW l \in LinkSpace, NEW v \in LinkUsers, owner'[l] = v PROVE HasRow(l, v)'
  <2>1. CASE a # Unset /\ l = Lower[a]
    BY <1>1, <1>2, <1>3, <1>9, <2>1, Zenon DEF HasRow
  <2>2. CASE ~(a # Unset /\ l = Lower[a])
    <3>1. HasRow(l, v) /\ ~(alias[u] # Unset /\ l = Lower[alias[u]])
      BY <1>2, <1>9, <2>2, LinksAssumption, Zenon DEF SubRowsInv, OwnedByRows
    <3>. QED
      BY <1>1, <1>3, <3>1, Zenon DEF HasRow
  <2>. QED
    BY <2>1, <2>2, Zenon
<1>. QED
  BY <1>1, <1>4, <1>7, <1>8, <1>9, Zenon DEF SubRowsInv, RowsOwn, OwnedByRows

\* What is read from the tables is a fact of the moment.
FactsAre ==
    /\ \A l \in LinkSpace : <<"owner", l, owner[l]>> \in Facts
    /\ \A n \in named : <<"named", n.token, n.user>> \in Facts
    /\ \A t, u : <<"named", t, u>> \in Facts => \E n \in named : n.token = t /\ n.user = u
    /\ \A u \in live : <<"status", u, status[u]>> \in Facts /\ <<"title", u, title[u]>> \in Facts
    /\ \A u \in live : \A t \in things[u] : <<"thing", u, t>> \in Facts

LEMMA FactsHold == FactsAre
<1>1. \A l \in LinkSpace : <<"owner", l, owner[l]>> \in Facts
  BY Zenon DEF Facts
<1>2. \A n \in named : <<"named", n.token, n.user>> \in Facts
  BY Zenon DEF Facts
<1>3. \A u \in live : <<"status", u, status[u]>> \in Facts /\ <<"title", u, title[u]>> \in Facts
  BY Zenon DEF Facts
<1>4. ASSUME NEW u \in live, NEW t \in things[u] PROVE <<"thing", u, t>> \in Facts
  <2>1. <<"thing", u, t>> \in {<<"thing", u, x>> : x \in things[u]}
    BY Zenon
  <2>2. <<"thing", u, t>> \in UNION {{<<"thing", v, x>> : x \in things[v]} : v \in live}
    BY <2>1, Zenon
  <2>. QED
    BY <2>2, Zenon DEF Facts
<1>5. ASSUME NEW t, NEW u, <<"named", t, u>> \in Facts PROVE \E n \in named : n.token = t /\ n.user = u
  BY <1>5 DEF Facts
<1>. QED
  BY <1>1, <1>2, <1>3, <1>4, <1>5, Zenon DEF FactsAre

\* What the edits have in common: tokens are never given twice, a named link
\* that goes opens nothing, a new one has a new token.
EditKeeps ==
    /\ tokens <= tokens'
    /\ \A n \in named : n \in named' \/ owner'[n.token] = NoOwner
    /\ \A n \in named' : n \in named \/ n.token > tokens
    /\ \A v \in live' : (v \in live /\ hash'[v] = hash[v]) \/ hash'[v] > tokens

\* Edits of users, groups and settings change no link.
LEMMA PlainKeeps ==
    ASSUME SubRowsInv, UNCHANGED links,
           title' \in [LinkUsers -> {Unset, "own"}],
           status' \in [LinkUsers -> {"active", "suppressed"}],
           things' \in [LinkUsers -> SUBSET Things],
           default_title' \in {Unset, "default"}
    PROVE  SubRowsInv' /\ EditKeeps
<1>1. /\ created' = created /\ live' = live /\ hash' = hash /\ enc' = enc /\ alias' = alias
      /\ named' = named /\ tokens' = tokens /\ owner' = owner
  BY Zenon DEF links
<1>2. SubTypes'
  BY <1>1, Zenon DEF SubRowsInv, SubTypes
<1>3. RowsOwn' /\ NamedOwn' /\ OwnedByRows'
  BY <1>1, ZenonT(60) DEF SubRowsInv, RowsOwn, Owns, NamedOwn, OwnedByRows, HasRow
<1>4. EditKeeps
  BY <1>1 DEF SubRowsInv, SubTypes, EditKeeps
<1>. QED
  BY <1>2, <1>3, <1>4, Zenon DEF SubRowsInv

\* Every edit of the panel keeps the links of the rows.
LEMMA ChangeKeeps ==
    ASSUME SubRowsInv, Change
    PROVE  SubRowsInv' /\ EditKeeps /\ Edited
<1>1. ASSUME NEW u \in LinkUsers, create_user(u) PROVE SubRowsInv' /\ EditKeeps /\ Edited
  <2>1. HasToken /\ live' = live \union {u} /\ tokens' = Fresh /\ named' = named /\ Edited
    BY <1>1, Zenon DEF create_user
  <2>2. hash'[u] = Fresh /\ \A v \in LinkUsers : v # u => hash'[v] = hash[v]
    BY <1>1, Zenon DEF create_user, SubRowsInv, SubTypes
  <2>3. EditKeeps
    BY <2>1, <2>2 DEF EditKeeps, SubRowsInv, SubTypes, Fresh
  <2>. QED
    BY <1>1, <2>1, <2>3, CreateKeeps, Zenon
<1>2. ASSUME NEW u \in LinkUsers, delete_user(u) PROVE SubRowsInv' /\ EditKeeps /\ Edited
  <2>1. /\ live' = live \ {u} /\ tokens' = tokens /\ named' = {n \in named : n.user # u} /\ hash' = hash
        /\ Edited
    BY <1>2, Zenon DEF delete_user
  <2>2. \A l \in LinkSpace : owner[l] = u => owner'[l] = NoOwner
    BY <1>2, Zenon DEF delete_user, Disown
  <2>3. \A n \in named : n \in named' \/ owner'[n.token] = NoOwner
    BY <2>1, <2>2, Space, Zenon DEF SubRowsInv, NamedOwn
  <2>4. EditKeeps
    BY <2>1, <2>3 DEF EditKeeps, SubRowsInv, SubTypes
  <2>. QED
    BY <1>2, <2>1, <2>4, DeleteKeeps, Zenon
<1>3. ASSUME NEW u \in LinkUsers, rotate_subscription(u) PROVE SubRowsInv' /\ EditKeeps /\ Edited
  <2>1. HasToken /\ live' = live /\ tokens' = Fresh /\ named' = named /\ Edited
    BY <1>3, Zenon DEF rotate_subscription
  <2>2. hash'[u] = Fresh /\ \A v \in LinkUsers : v # u => hash'[v] = hash[v]
    BY <1>3, Zenon DEF rotate_subscription, SubRowsInv, SubTypes
  <2>3. EditKeeps
    BY <2>1, <2>2 DEF EditKeeps, SubRowsInv, SubTypes, Fresh
  <2>. QED
    BY <1>3, <2>1, <2>3, RotateKeeps, Zenon
<1>4. ASSUME NEW u \in LinkUsers, create_user_subscription(u) PROVE SubRowsInv' /\ EditKeeps /\ Edited
  <2>1. /\ live' = live /\ tokens' = Fresh /\ named' = named \union {[token |-> Fresh, user |-> u]}
        /\ hash' = hash /\ Edited
    BY <1>4, Zenon DEF create_user_subscription
  <2>2. EditKeeps
    BY <2>1 DEF EditKeeps, SubRowsInv, SubTypes, Fresh
  <2>. QED
    BY <1>4, <2>1, <2>2, AddNamedKeeps, Zenon
<1>5. ASSUME NEW u \in LinkUsers, update_user(u) PROVE SubRowsInv' /\ EditKeeps /\ Edited
  <2>1. UNCHANGED links /\ things' = things /\ default_title' = default_title /\ Edited
    BY <1>5, Zenon DEF update_user
  <2>2. title' \in [LinkUsers -> {Unset, "own"}] /\ status' \in [LinkUsers -> {"active", "suppressed"}]
    BY <1>5, Zenon DEF update_user, SubRowsInv, SubTypes
  <2>. QED
    BY <2>1, <2>2, PlainKeeps, Zenon DEF SubRowsInv, SubTypes
<1>6. ASSUME NEW u \in LinkUsers, NEW a \in Aliases \union {Unset}, set_alias(u, a)
      PROVE  SubRowsInv' /\ EditKeeps /\ Edited
  <2>1. live' = live /\ tokens' = tokens /\ named' = named /\ hash' = hash /\ Edited
    BY <1>6, Zenon DEF set_alias
  <2>2. EditKeeps
    BY <2>1 DEF EditKeeps, SubRowsInv, SubTypes
  <2>. QED
    BY <1>6, <2>1, <2>2, AliasKeeps, Zenon
<1>7. ASSUME NEW u \in LinkUsers, NEW t \in Things, Regrant(u, t) PROVE SubRowsInv' /\ EditKeeps /\ Edited
  <2>1. /\ UNCHANGED links /\ title' = title /\ status' = status /\ default_title' = default_title
        /\ Edited
    BY <1>7, Zenon DEF Regrant
  <2>2. things' \in [LinkUsers -> SUBSET Things]
    BY <1>7, Zenon DEF Regrant, SubRowsInv, SubTypes
  <2>. QED
    BY <2>1, <2>2, PlainKeeps, Zenon DEF SubRowsInv, SubTypes
<1>8. ASSUME NEW n \in named, delete_user_subscription(n) PROVE SubRowsInv' /\ EditKeeps /\ Edited
  <2>1. live' = live /\ tokens' = tokens /\ named' = named \ {n} /\ hash' = hash /\ Edited
    BY <1>8, Zenon DEF delete_user_subscription
  <2>2. owner'[n.token] = NoOwner
    BY <1>8, Space, Zenon DEF delete_user_subscription, Disown, SubRowsInv
  <2>3. EditKeeps
    BY <2>1, <2>2 DEF EditKeeps, SubRowsInv, SubTypes
  <2>. QED
    BY <1>8, <2>1, <2>3, DropNamedKeeps, Zenon
<1>9. ASSUME update_settings PROVE SubRowsInv' /\ EditKeeps /\ Edited
  BY <1>9, PlainKeeps, Zenon DEF update_settings, SubRowsInv, SubTypes
<1>. QED
  BY <1>1, <1>2, <1>3, <1>4, <1>5, <1>6, <1>7, <1>8, <1>9, Zenon DEF Change

\* The same after a step.
LEMMA FactsWillHold == FactsAre'
BY FactsHold, PTL

\* A link that never had a name while the request ran gets none by an edit.
LEMMA StaysUnnamed ==
    ASSUME SubRowsInv, EditKeeps, NEW l, l \in Nat => l <= tokens, SubTypes',
           NeverNamed(l), was' = was \union Facts'
    PROVE  NeverNamed(l)'
<1>. SUFFICES ASSUME NEW u \in LinkUsers PROVE ~Named(l, u)' /\ <<"named", l, u>> \notin was'
  BY Zenon DEF NeverNamed, Named
<1>1. ASSUME NEW n \in named', n.token = l, n.user = u PROVE FALSE
  <2>1. n.token \in Nat /\ n = [token |-> l, user |-> u]
    BY <1>1 DEF SubTypes
  <2>2. n \in named
    BY <1>1, <2>1 DEF EditKeeps, SubRowsInv, SubTypes
  <2>. QED
    BY <2>1, <2>2, Zenon DEF NeverNamed, Named
<1>2. ~Named(l, u)'
  BY <1>1, Zenon DEF Named
<1>3. <<"named", l, u>> \notin Facts'
  BY <1>1, FactsWillHold DEF FactsAre
<1>. QED
  BY <1>2, <1>3, Zenon DEF NeverNamed

\* No edit between two SELECTs makes untrue what a request has established.
LEMMA ChangeKeepsVisit ==
    ASSUME SubInv, Change
    PROVE  SubInv'
<1>1. SubRowsInv /\ SubRowsInv' /\ EditKeeps /\ Edited
  BY ChangeKeeps, Zenon DEF SubInv
<1>2. visit' = visit
  BY <1>1, Zenon DEF Edited
<1>. SUFFICES ASSUME visit # NoVisit PROVE AllFollowed'
  BY <1>1, <1>2, Zenon DEF SubInv, VisitInv
<1>3. AllFollowed /\ was' = was \union Facts'
  BY <1>1, Zenon DEF SubInv, VisitInv, Edited
<1>4. \A l \in LinkSpace : owner'[l] = NoOwner => NoOne(l)'
  BY <1>3, FactsWillHold, Zenon DEF FactsAre, NoOne
<1>5. \A l : NoOne(l) => NoOne(l)'
  BY <1>3, Zenon DEF NoOne
<1>6. \A l, u : IsOf(l, u) => IsOf(l, u)'
  BY <1>3, Zenon DEF IsOf
<1>7. \A l, u : Named(l, u) => Named(l, u)' \/ NoOne(l)'
  <2>. SUFFICES ASSUME NEW l, NEW u, Named(l, u), ~Named(l, u)' PROVE NoOne(l)'
    BY Zenon
  <2>1. [token |-> l, user |-> u] \in named /\ [token |-> l, user |-> u] \notin named'
    BY Zenon DEF Named
  <2>2. owner'[l] = NoOwner /\ l \in LinkSpace
    BY <1>1, <2>1, Space, Zenon DEF EditKeeps, SubRowsInv
  <2>. QED
    BY <1>4, <2>2, Zenon
<1>8. (\E n \in named : n.token = visit.link) =>
        NoOne(visit.link)' \/ \E n \in named' : n.token = visit.link
  <2>. SUFFICES ASSUME NEW n \in named, n.token = visit.link, n \notin named' PROVE NoOne(visit.link)'
    BY Zenon
  <2>1. owner'[visit.link] = NoOwner /\ visit.link \in LinkSpace
    BY <1>1, Space, Zenon DEF EditKeeps, SubRowsInv
  <2>. QED
    BY <1>4, <2>1, <1>2, Zenon
<1>9. visit \in VisitType /\ (visit.link \in Nat => visit.link <= tokens) /\ visit.link \in LinkSpace
  BY <1>3, Zenon DEF AllFollowed, VisitType
<1>10. Key(visit.link) \in Nat => Key(visit.link) <= tokens
  BY <1>9, LinksAssumption, Zenon DEF Key
<1>11. NeverNamed(Key(visit.link)) => NeverNamed(Key(visit.link))'
  BY <1>1, <1>2, <1>3, <1>10, StaysUnnamed, Zenon DEF SubRowsInv
<1>12. Followed'
  BY <1>2, <1>3, <1>5, <1>6, <1>7, <1>8 DEF AllFollowed, Followed
<1>13. visit.pc \in {"defaults", "endpoints", "rest", "reveal"} => RowRead'
  BY <1>2, <1>3, <1>6, <1>11, Zenon DEF AllFollowed, RowRead, Untitled
<1>14. visit.pc = "done" => AnsweredTrue'
  BY <1>2, <1>3, <1>11, Zenon DEF AllFollowed, AnsweredTrue, Untitled
<1>15. ASSUME NEW t, NEW u, <<"named", t, u>> \in was'
       PROVE  t \in 1 .. tokens' /\ \A v \in live' : hash'[v] # t
  <2>1. CASE <<"named", t, u>> \in was
    <3>1. t \in 1 .. tokens /\ \A v \in live : hash[v] # t
      BY <1>3, <2>1, Zenon DEF AllFollowed
    <3>. QED
      BY <1>1, <3>1 DEF EditKeeps, SubRowsInv, SubTypes
  <2>2. CASE <<"named", t, u>> \in Facts'
    <3>1. PICK n \in named' : n.token = t /\ n.user = u
      BY <2>2, FactsWillHold, Zenon DEF FactsAre
    <3>. QED
      BY <1>1, <3>1 DEF SubRowsInv, SubTypes, RowsOwn, Owns
  <2>. QED
    BY <1>3, <1>15, <2>1, <2>2, Zenon
<1>16. visit.link \in Nat => visit.link <= tokens'
  BY <1>1, <1>9 DEF EditKeeps, SubRowsInv, SubTypes
<1>17. \A t \in visit.things : <<"thing", visit.u, t>> \in was'
  BY <1>3, Zenon DEF AllFollowed
<1>18. \A g \in visit.gives : IsOf(g, visit.u)'
  BY <1>2, <1>3, Zenon DEF AllFollowed, IsOf
<1>19. VisitType' = VisitType
  BY SameRoutes, Zenon DEF VisitType, Pcs, Outs
<1>. QED
  BY <1>2, <1>3, <1>9, <1>12, <1>13, <1>14, <1>15, <1>16, <1>17, <1>18, <1>19, Zenon DEF AllFollowed

\* A step of a request changes no table: what it found is what was there.
LEMMA RequestKeeps ==
    ASSUME SubRowsInv, AllFollowed, Stays, visit' \in VisitType,
           visit'.link = visit.link,
           \A t \in visit'.things : <<"thing", visit'.u, t>> \in was,
           \A g \in visit'.gives : <<"owner", g, visit'.u>> \in was,
           Followed',
           visit'.pc \in {"defaults", "endpoints", "rest", "reveal"} => RowRead',
           visit'.pc = "done" => AnsweredTrue'
    PROVE  SubInv'
<1>1. UNCHANGED links /\ title' = title /\ status' = status /\ things' = things
      /\ default_title' = default_title /\ was' = was
  BY Zenon DEF Stays
<1>2. /\ live' = live /\ hash' = hash /\ named' = named /\ tokens' = tokens /\ owner' = owner
  BY <1>1, Zenon DEF links
<1>3. SubRowsInv'
  BY <1>1, PlainKeeps, Zenon DEF SubRowsInv, SubTypes
<1>4. Facts' = Facts
  BY <1>1, <1>2 DEF Facts
<1>5. VisitType' = VisitType
  BY SameRoutes, Zenon DEF VisitType, Pcs, Outs
<1>6. \A g \in visit'.gives : IsOf(g, visit.u)'
  BY <1>1, Zenon DEF IsOf
<1>7. AllFollowed'
  BY <1>1, <1>2, <1>4, <1>5, <1>6, Zenon DEF AllFollowed
<1>. QED
  BY <1>3, <1>7, Zenon DEF SubInv, VisitInv

\* An id without a row opens nothing.
LEMMA GoneIsNobodys ==
    ASSUME SubRowsInv, Facts \subseteq was, NEW u \in LinkUsers, u \notin live
    PROVE  NoOne(u)
<1>1. ASSUME NEW v \in LinkUsers, owner[u] = v PROVE FALSE
  <2>1. HasRow(u, v)
    BY <1>1, Space, Zenon DEF SubRowsInv, OwnedByRows
  <2>2. u # hash[v] /\ (alias[v] # Unset => u # Lower[alias[v]]) /\ [token |-> u, user |-> v] \notin named
    BY Space DEF SubRowsInv, SubTypes
  <2>. QED
    BY <2>1, <2>2, Zenon DEF HasRow
<1>2. owner[u] = NoOwner /\ u \in LinkSpace
  BY <1>1, Space, Zenon DEF SubRowsInv, SubTypes
<1>. QED
  BY <1>2, FactsHold, Zenon DEF FactsAre, NoOne

\* What is read from the row of a user.
LEMMA RowIsTrue ==
    ASSUME SubRowsInv, Facts \subseteq was, NEW u \in live
    PROVE  /\ u \in LinkUsers /\ IsOf(u, u) /\ IsOf(hash[u], u)
           /\ status[u] \in {"active", "suppressed"} /\ <<"status", u, status[u]>> \in was
           /\ alias[u] \in Aliases \union {Unset}
           /\ alias[u] # Unset => IsOf(Lower[alias[u]], u)
           /\ title[u] \in {Unset, "own"} /\ <<"title", u, title[u]>> \in was
<1>1. u \in LinkUsers /\ Owns(u)
  BY Zenon DEF SubRowsInv, SubTypes, RowsOwn
<1>2. owner[u] = u /\ owner[hash[u]] = u /\ (alias[u] # Unset => owner[Lower[alias[u]]] = u)
  BY <1>1, Zenon DEF Owns
<1>3. alias[u] \in Aliases \union {Unset} /\ status[u] \in {"active", "suppressed"} /\ title[u] \in {Unset, "own"}
  BY <1>1, Zenon DEF SubRowsInv, SubTypes
<1>4. u \in LinkSpace /\ hash[u] \in LinkSpace /\ (alias[u] # Unset => Lower[alias[u]] \in LinkSpace)
  BY <1>1, <1>3, Space, Zenon DEF SubRowsInv
<1>. QED
  BY <1>1, <1>2, <1>3, <1>4, FactsHold, Zenon DEF FactsAre, IsOf

\* The SELECT that finds the row of the request's user.
LEMMA FoundKeeps ==
    ASSUME SubRowsInv, AllFollowed, Stays,
           visit.pc \in {"hash", "id", "owner", "alias", "owned"},
           NEW u \in live, NEW name \in {title[u], "named"}, NEW pc \in {"defaults", "reveal"},
           Found(u, name, pc),
           visit.route # "reveal-named" => IsOf(Key(visit.link), u),
           visit.route \in ByToken \union ByAlias => name = "named" \/ NeverNamed(Key(visit.link)),
           visit.route \in ByOwner => visit.u = u,
           pc = "reveal" <=> visit.route \in {"reveal", "reveal-named"}
    PROVE  SubInv'
<1>1. visit \in VisitType /\ Facts \subseteq was /\ Followed
  BY Zenon DEF AllFollowed
<1>2. visit.things = {} /\ visit.gives = {}
  BY <1>1, Zenon DEF Followed
<1>3. /\ u \in LinkUsers /\ status[u] \in {"active", "suppressed"} /\ <<"status", u, status[u]>> \in was
      /\ alias[u] \in Aliases \union {Unset} /\ (alias[u] # Unset => IsOf(Lower[alias[u]], u))
      /\ title[u] \in {Unset, "own"} /\ <<"title", u, title[u]>> \in was /\ IsOf(u, u)
  BY <1>1, RowIsTrue, Zenon
<1>4. visit' \in VisitType
  <2>1. name \in {Unset, "own", "named", "default"}
    BY <1>3, Zenon
  <2>2. u \in LinkUsers \union {NoOwner} /\ status[u] \in {"none", "active", "suppressed"}
    BY <1>3, Zenon
  <2>3. pc \in Pcs
    BY Zenon DEF Pcs
  <2>. QED
    BY <1>1, <1>3, <2>1, <2>2, <2>3, Zenon DEF Found, VisitType
<1>5. /\ visit'.pc = pc /\ visit'.u = u /\ visit'.title = name /\ visit'.alias = alias[u]
      /\ visit'.status = status[u] /\ visit'.link = visit.link /\ visit'.route = visit.route
      /\ visit'.things = {} /\ visit'.gives = {}
  BY <1>1, <1>2, Zenon DEF Found, VisitType
<1>6. was' = was /\ named' = named
  BY Zenon DEF Stays, links
<1>7. name # "default" /\ (name = Unset => title[u] = Unset)
  BY <1>3, LinksAssumption, Zenon
<1>8. RowRead'
  <2>1. visit'.route # "reveal-named" => IsOf(Key(visit.link), visit.u)'
    BY <1>5, <1>6, Zenon DEF IsOf, Key
  <2>2. visit'.route \in ByToken \union ByAlias => visit'.title = "named" \/ NeverNamed(Key(visit.link))'
    BY <1>5, <1>6, Zenon DEF NeverNamed, Named, Key
  <2>. QED
    BY <1>3, <1>5, <1>6, <1>7, <2>1, <2>2, Zenon DEF RowRead, IsOf, Untitled, ByToken, ByAlias
<1>9. Followed'
  <2>1. /\ visit.route = "reveal-named" => visit.link \in Nat /\ visit.pc = "owned"
        /\ visit.route \in ByOwner \ {"reveal-named"} => visit.link = u
        /\ visit.route \in ByToken => visit.link \notin Aliases
    BY <1>1, Zenon DEF Followed, ByOwner, ByToken, ByAlias, Loading
  <2>2. visit.route = "reveal-named" => NoOne(visit.link)' \/ Named(visit.link, visit.u)'
    BY <1>1, <1>5, <1>6, <2>1, Zenon DEF Followed, NoOne, Named, ByOwner
  <2>. QED
    BY <1>5, <1>7, <2>1, <2>2, SameRoutes, Zenon DEF Followed
<1>. QED
  BY <1>4, <1>5, <1>8, <1>9, RequestKeeps, Zenon

\* A step that goes on within the request, about the same link.
SameLink == visit'.link = visit.link /\ visit'.route = visit.route
SameUser == SameLink /\ visit'.u = visit.u

\* The fields of a request that ends, goes on, hands out links, is titled.
LEMMA EndsIs ==
    ASSUME visit \in VisitType, NEW out \in Outs, Ends(out)
    PROVE  /\ visit' \in VisitType /\ SameUser /\ visit'.pc = "done" /\ visit'.out = out
           /\ visit'.title = visit.title /\ visit'.things = visit.things /\ visit'.gives = visit.gives
BY Zenon DEF Ends, VisitType, SameUser, SameLink, Pcs

LEMMA GoesIs ==
    ASSUME visit \in VisitType, NEW pc \in Pcs, Goes(pc)
    PROVE  /\ visit' \in VisitType /\ SameUser /\ visit'.pc = pc /\ visit'.title = visit.title
           /\ visit'.things = visit.things /\ visit'.gives = visit.gives
BY Zenon DEF Goes, VisitType, SameUser, SameLink

LEMMA HandsIs ==
    ASSUME visit \in VisitType, NEW S \in SUBSET LinkSpace, Hands(S)
    PROVE  /\ visit' \in VisitType /\ SameUser /\ visit'.pc = "done" /\ visit'.out = "link"
           /\ visit'.title = visit.title /\ visit'.things = visit.things /\ visit'.gives = S
BY Zenon DEF Hands, VisitType, SameUser, SameLink, Pcs, Outs

LEMMA DefaultsIs ==
    ASSUME SubRowsInv, visit \in VisitType, NEW pc \in Pcs, NEW out \in Outs, WithDefaults(pc, out)
    PROVE  /\ visit' \in VisitType /\ SameUser /\ visit'.pc = pc /\ visit'.out = out
           /\ visit'.alias = visit.alias /\ visit'.status = visit.status
           /\ visit'.things = visit.things /\ visit'.gives = visit.gives
           /\ visit'.title = IF visit.title = Unset THEN default_title ELSE visit.title
<1>1. (IF visit.title = Unset THEN default_title ELSE visit.title) \in {Unset, "own", "named", "default"}
  BY Zenon DEF SubRowsInv, SubTypes, VisitType
<1>. QED
  BY <1>1, ZenonT(60) DEF WithDefaults, VisitType, SameUser, SameLink

\* The answer of a request.
LEMMA EndKeeps ==
    ASSUME SubRowsInv, AllFollowed, Stays, visit' \in VisitType, visit'.pc = "done", SameUser,
           <<"owner", Key(visit.link), IF visit'.out = "404" THEN NoOwner ELSE visit.u>> \in was,
           visit'.out = "410" => <<"status", visit.u, "suppressed">> \in was,
           visit'.out \in {"served", "page"} /\ visit'.things # {} =>
               <<"status", visit.u, "active">> \in was,
           visit'.out = "served" =>
               visit.u \in LinkUsers /\ (visit'.title = "named" \/ NeverNamed(Key(visit.link))),
           visit'.title = "default" => Untitled(visit.u),
           \A t \in visit'.things : <<"thing", visit.u, t>> \in was,
           \A g \in visit'.gives : IsOf(g, visit.u)
    PROVE  SubInv'
<1>1. visit'.link = visit.link /\ visit'.route = visit.route /\ visit'.u = visit.u
  BY Zenon DEF SameUser, SameLink
<1>2. was' = was /\ named' = named
  BY Zenon DEF Stays, links
<1>3. Followed'
  <2>1. /\ visit.route \in ByOwner \ {"reveal-named"} => visit.link = visit.u
        /\ visit.route \in ByToken => visit.link \notin Aliases
        /\ visit.route = "reveal-named" => visit.link \in Nat
    BY Zenon DEF AllFollowed, Followed
  <2>. QED
    BY <1>1, <2>1, SameRoutes, Zenon DEF Followed
<1>4. Key(visit.link)' = Key(visit.link)
  BY <1>1, Zenon DEF Key
<1>5. AnsweredTrue'
  <2>1. NeverNamed(Key(visit.link)) => NeverNamed(Key(visit.link))'
    BY <1>2, <1>4, Zenon DEF NeverNamed, Named
  <2>2. Untitled(visit.u) => Untitled(visit.u)'
    BY <1>1, <1>2, Zenon DEF Untitled
  <2>. QED
    BY <1>1, <1>2, <1>4, <2>1, <2>2, Zenon DEF AnsweredTrue
<1>6. \A g \in visit'.gives : <<"owner", g, visit'.u>> \in was
  BY <1>1, Zenon DEF IsOf
<1>. QED
  BY <1>1, <1>3, <1>5, <1>6, RequestKeeps, Zenon

\* A request whose row was read goes on to what the groups give.
LEMMA GoOnKeeps ==
    ASSUME SubRowsInv, AllFollowed, Stays, RowRead, visit' \in VisitType, SameUser,
           visit'.pc \in {"endpoints", "rest"}, visit.pc \in {"defaults", "endpoints"},
           visit'.alias = visit.alias, visit'.status = visit.status, visit'.gives = {},
           visit.route \notin Previews => visit.status = "active",
           visit'.title = visit.title \/ (visit.title = Unset /\ visit'.title \in {Unset, "default"}),
           \A t \in visit'.things : <<"thing", visit.u, t>> \in was
    PROVE  SubInv'
<1>1. visit'.link = visit.link /\ visit'.route = visit.route /\ visit'.u = visit.u
  BY Zenon DEF SameUser, SameLink
<1>2. was' = was /\ named' = named
  BY Zenon DEF Stays, links
<1>3. Followed'
  <2>1. /\ visit.route \in ByOwner \ {"reveal-named"} => visit.link = visit.u
        /\ visit.route \in ByToken => visit.link \notin Aliases
        /\ visit.route # "reveal-named"
    BY Zenon DEF AllFollowed, Followed
  <2>. QED
    BY <1>1, <2>1, SameRoutes, Zenon DEF Followed
<1>4. Key(visit.link)' = Key(visit.link)
  BY <1>1, Zenon DEF Key
<1>5. RowRead'
  <2>1. NeverNamed(Key(visit.link)) => NeverNamed(Key(visit.link))'
    BY <1>2, <1>4, Zenon DEF NeverNamed, Named
  <2>2. /\ Untitled(visit.u) => Untitled(visit.u)'
        /\ IsOf(visit.u, visit.u) => IsOf(visit.u, visit.u)'
        /\ IsOf(Key(visit.link), visit.u) => IsOf(Key(visit.link), visit.u)'
        /\ IsOf(Lower[visit.alias], visit.u) => IsOf(Lower[visit.alias], visit.u)'
    BY <1>1, <1>2, <1>4, Zenon DEF Untitled, IsOf
  <2>3. visit.title = "named" => visit'.title = "named"
    BY LinksAssumption, Zenon
  <2>. QED
    BY <1>1, <1>2, <2>1, <2>2, <2>3, SameRoutes, LinksAssumption, Zenon DEF RowRead
<1>6. \A g \in visit'.gives : <<"owner", g, visit'.u>> \in was
  BY Zenon
<1>. QED
  BY <1>1, <1>3, <1>5, <1>6, RequestKeeps, Zenon

\* One SELECT of get_user_by_subscription_token finds nothing: on to the next.
LEMMA GoKeeps ==
    ASSUME SubRowsInv, AllFollowed, Stays, visit' \in VisitType, SameLink,
           visit.pc \in {"hash", "id", "named"}, visit'.pc \in {"id", "named", "owner"},
           visit'.title = visit.title, visit'.things = visit.things, visit'.gives = visit.gives,
           visit'.pc = "id" =>
               visit.link \in LinkUsers \/ NoOne(visit.link) \/ \E n \in named : n.token = visit.link,
           visit'.pc = "named" => NoOne(visit.link) \/ \E n \in named : n.token = visit.link,
           visit'.pc = "owner" =>
               visit'.u \in LinkUsers /\ <<"owner", visit.link, visit'.u>> \in was
               /\ [token |-> visit.link, user |-> visit'.u] \in named
    PROVE  SubInv'
<1>1. visit'.link = visit.link /\ visit'.route = visit.route
  BY Zenon DEF SameLink
<1>2. was' = was /\ named' = named
  BY Zenon DEF Stays, links
<1>3. /\ visit.route \in ByToken /\ visit.link \notin Aliases /\ visit.title = Unset
      /\ visit.things = {} /\ visit.gives = {}
  BY Zenon DEF AllFollowed, Followed
<1>4. Followed'
  <2>1. visit.route \notin ByOwner
    BY <1>3, Zenon DEF ByToken, Loading, ByOwner
  <2>2. "reveal-named" \in ByOwner
    BY Zenon DEF ByOwner
  <2>. QED
    BY <1>1, <1>2, <1>3, <2>1, <2>2, SameRoutes, Zenon DEF Followed, NoOne, IsOf, Named
<1>. QED
  BY <1>1, <1>3, <1>4, RequestKeeps, Zenon

\* get_user_by_subscription_token: the token of a user.
LEMMA SelectHashKeeps ==
    ASSUME SubInv, visit # NoVisit, SelectHash
    PROVE  SubInv'
<1>1. SubRowsInv /\ AllFollowed /\ visit \in VisitType /\ Facts \subseteq was /\ visit.pc = "hash" /\ Stays
  BY Zenon DEF SubInv, VisitInv, AllFollowed, SelectHash
<1>2. visit.route \in ByToken /\ visit.link \notin Aliases /\ Key(visit.link) = visit.link
  BY <1>1, Zenon DEF AllFollowed, Followed, Key
<1>3. visit.route \notin ByOwner /\ visit.route \notin {"reveal", "reveal-named"}
  BY <1>2, Zenon DEF ByToken, Loading, ByOwner
<1>4. CASE \E u \in live : hash[u] = visit.link
  <2>1. PICK u \in live : hash[u] = visit.link /\ Found(u, title[u], "defaults")
    BY <1>4, Zenon DEF SelectHash
  <2>2. IsOf(Key(visit.link), u)
    BY <1>1, <1>2, <2>1, RowIsTrue, Zenon
  <2>3. NeverNamed(Key(visit.link))
    <3>1. \A n \in named : n.token # visit.link
      BY <1>1, <2>1 DEF SubRowsInv, RowsOwn, Owns
    <3>2. \A v : <<"named", visit.link, v>> \notin was
      BY <1>1, <2>1, Zenon DEF AllFollowed
    <3>. QED
      BY <1>2, <3>1, <3>2, Zenon DEF NeverNamed, Named
  <2>. QED
    BY <1>1, <1>3, <2>1, <2>2, <2>3, FoundKeeps, Zenon
<1>5. CASE ~\E u \in live : hash[u] = visit.link
  <2>1. Goes("id")
    BY <1>5, Zenon DEF SelectHash
  <2>2. visit.link \in LinkUsers \/ NoOne(visit.link) \/ \E n \in named : n.token = visit.link
    <3>1. visit.link \in LinkSpace
      BY <1>1, Zenon DEF VisitType
    <3>2. CASE owner[visit.link] = NoOwner
      BY <1>1, <3>1, <3>2, FactsHold, Zenon DEF FactsAre, NoOne
    <3>3. CASE owner[visit.link] # NoOwner
      <4>1. PICK v \in LinkUsers : owner[visit.link] = v
        BY <1>1, <3>1, <3>3, Zenon DEF SubRowsInv, SubTypes
      <4>2. HasRow(visit.link, v)
        BY <1>1, <3>1, <4>1, Zenon DEF SubRowsInv, OwnedByRows
      <4>3. alias[v] # Unset => visit.link # Lower[alias[v]]
        BY <1>1, <1>2, Space, Zenon DEF SubRowsInv, SubTypes
      <4>. QED
        BY <1>5, <4>2, <4>3, Zenon DEF HasRow
    <3>. QED
      BY <3>2, <3>3, Zenon
  <2>3. /\ visit' \in VisitType /\ SameUser /\ visit'.pc = "id" /\ visit'.title = visit.title
        /\ visit'.things = visit.things /\ visit'.gives = visit.gives
    BY <1>1, <2>1, GoesIs, Zenon DEF Pcs
  <2>. QED
    BY <1>1, <2>2, <2>3, GoKeeps, Zenon DEF SameUser
<1>. QED
  BY <1>4, <1>5, Zenon

\* get_user_by_subscription_token: the permanent id.
LEMMA SelectIdKeeps ==
    ASSUME SubInv, visit # NoVisit, SelectId
    PROVE  SubInv'
<1>1. SubRowsInv /\ AllFollowed /\ visit \in VisitType /\ Facts \subseteq was /\ visit.pc = "id" /\ Stays
  BY Zenon DEF SubInv, VisitInv, AllFollowed, SelectId
<1>2. visit.route \in ByToken /\ visit.link \notin Aliases /\ Key(visit.link) = visit.link
  BY <1>1, Zenon DEF AllFollowed, Followed, Key
<1>3. visit.route \notin ByOwner /\ visit.route \notin {"reveal", "reveal-named"}
  BY <1>2, Zenon DEF ByToken, Loading, ByOwner
<1>4. CASE visit.link \in live
  <2>1. Found(visit.link, title[visit.link], "defaults")
    BY <1>4, Zenon DEF SelectId
  <2>2. IsOf(Key(visit.link), visit.link)
    BY <1>1, <1>2, <1>4, RowIsTrue, Zenon
  <2>3. NeverNamed(Key(visit.link))
    <3>1. visit.link \notin Nat
      BY <1>1, <1>4, Space, Zenon DEF SubRowsInv, SubTypes
    <3>2. \A n \in named : n.token # visit.link
      BY <1>1, <3>1, Space, Zenon DEF SubRowsInv
    <3>3. \A v : <<"named", visit.link, v>> \notin was
      BY <1>1, <3>1 DEF AllFollowed, SubRowsInv, SubTypes
    <3>. QED
      BY <1>2, <3>2, <3>3, Zenon DEF NeverNamed, Named
  <2>. QED
    BY <1>1, <1>3, <1>4, <2>1, <2>2, <2>3, FoundKeeps, Zenon
<1>5. CASE visit.link \notin live
  <2>1. Goes("named")
    BY <1>5, Zenon DEF SelectId
  <2>2. NoOne(visit.link) \/ \E n \in named : n.token = visit.link
    BY <1>1, <1>5, GoneIsNobodys, Zenon DEF AllFollowed, Followed
  <2>3. /\ visit' \in VisitType /\ SameUser /\ visit'.pc = "named" /\ visit'.title = visit.title
        /\ visit'.things = visit.things /\ visit'.gives = visit.gives
    BY <1>1, <2>1, GoesIs, Zenon DEF Pcs
  <2>. QED
    BY <1>1, <2>2, <2>3, GoKeeps, Zenon DEF SameUser
<1>. QED
  BY <1>4, <1>5, Zenon

\* A request that ends before a row was read: the link was nobody's.
LEMMA NotFoundKeeps ==
    ASSUME SubRowsInv, AllFollowed, Stays, visit.pc # "done", visit.title # "default", Ends("404"),
           NoOne(Key(visit.link))
    PROVE  SubInv'
<1>1. visit \in VisitType /\ visit.gives = {} /\ \A t \in visit.things : <<"thing", visit.u, t>> \in was
  BY Zenon DEF AllFollowed, Followed
<1>2. /\ visit' \in VisitType /\ SameUser /\ visit'.pc = "done" /\ visit'.out = "404"
      /\ visit'.title = visit.title /\ visit'.things = visit.things /\ visit'.gives = visit.gives
  BY <1>1, EndsIs, Zenon DEF Outs
<1>. QED
  BY <1>1, <1>2, EndKeeps, Zenon DEF NoOne

\* get_user_by_subscription_token: a named token.
LEMMA SelectNamedKeeps ==
    ASSUME SubInv, visit # NoVisit, SelectNamed
    PROVE  SubInv'
<1>1. SubRowsInv /\ AllFollowed /\ visit \in VisitType /\ Facts \subseteq was /\ visit.pc = "named" /\ Stays
  BY Zenon DEF SubInv, VisitInv, AllFollowed, SelectNamed
<1>2. visit.route \in ByToken /\ visit.title = Unset /\ Key(visit.link) = visit.link
  BY <1>1, Zenon DEF AllFollowed, Followed, Key
<1>3. CASE \E n \in named : n.token = visit.link
  <2>1. PICK n \in named : n.token = visit.link /\ visit' = [visit EXCEPT !.pc = "owner", !.u = n.user]
    BY <1>3, Zenon DEF SelectNamed
  <2>2. n.user \in LinkUsers /\ n = [token |-> visit.link, user |-> n.user] /\ visit.link \in LinkSpace
    BY <1>1, <2>1, Space, Zenon DEF SubRowsInv
  <2>3. <<"owner", visit.link, n.user>> \in was
    BY <1>1, <2>1, <2>2, FactsHold, Zenon DEF FactsAre, SubRowsInv, NamedOwn
  <2>4. /\ visit' \in VisitType /\ SameLink /\ visit'.pc = "owner" /\ visit'.u = n.user
        /\ visit'.title = visit.title /\ visit'.things = visit.things /\ visit'.gives = visit.gives
    BY <1>1, <2>1, <2>2, Zenon DEF VisitType, SameLink, Pcs
  <2>. QED
    BY <1>1, <2>2, <2>3, <2>4, GoKeeps, Zenon
<1>4. CASE ~\E n \in named : n.token = visit.link
  <2>1. Ends("404")
    BY <1>4, Zenon DEF SelectNamed
  <2>2. NoOne(Key(visit.link))
    BY <1>1, <1>2, <1>4, Zenon DEF AllFollowed, Followed
  <2>. QED
    BY <1>1, <1>2, <2>1, <2>2, LinksAssumption, NotFoundKeeps, Zenon
<1>. QED
  BY <1>3, <1>4, Zenon

\* get_user_by_subscription_token: the user of a named token.
LEMMA SelectOwnerKeeps ==
    ASSUME SubInv, visit # NoVisit, SelectOwner
    PROVE  SubInv'
<1>1. SubRowsInv /\ AllFollowed /\ visit \in VisitType /\ Facts \subseteq was /\ visit.pc = "owner" /\ Stays
  BY Zenon DEF SubInv, VisitInv, AllFollowed, SelectOwner
<1>2. visit.route \in ByToken /\ visit.title = Unset /\ Key(visit.link) = visit.link
      /\ IsOf(visit.link, visit.u) /\ (NoOne(visit.link) \/ Named(visit.link, visit.u))
  BY <1>1, Zenon DEF AllFollowed, Followed, Key
<1>3. visit.route \notin ByOwner /\ visit.route \notin {"reveal", "reveal-named"}
  BY <1>2, Zenon DEF ByToken, Loading, ByOwner
<1>4. CASE visit.u \in live
  <2>1. Found(visit.u, "named", "defaults")
    BY <1>4, Zenon DEF SelectOwner
  <2>. QED
    BY <1>1, <1>2, <1>3, <1>4, <2>1, FoundKeeps, Zenon
<1>5. CASE visit.u \notin live
  <2>1. Ends("404")
    BY <1>5, Zenon DEF SelectOwner
  <2>2. ~Named(visit.link, visit.u)
    BY <1>1, <1>5, Zenon DEF SubRowsInv, NamedOwn, Named
  <2>. QED
    BY <1>1, <1>2, <2>1, <2>2, LinksAssumption, NotFoundKeeps, Zenon
<1>. QED
  BY <1>4, <1>5, Zenon

\* get_user_by_alias.
LEMMA SelectAliasKeeps ==
    ASSUME SubInv, visit # NoVisit, get_user_by_alias
    PROVE  SubInv'
<1>. DEFINE Has(u) == alias[u] # Unset /\ Lower[alias[u]] = Lower[visit.link]
<1>1. SubRowsInv /\ AllFollowed /\ visit \in VisitType /\ Facts \subseteq was /\ visit.pc = "alias" /\ Stays
  BY Zenon DEF SubInv, VisitInv, AllFollowed, get_user_by_alias
<1>2. /\ visit.route \in ByAlias /\ visit.title = Unset /\ visit.link \in Aliases
      /\ Key(visit.link) = Lower[visit.link]
  BY <1>1, Zenon DEF AllFollowed, Followed, Key
<1>3. visit.route \notin ByOwner /\ visit.route \notin {"reveal", "reveal-named"}
  BY <1>2, Zenon DEF ByAlias, ByOwner
<1>4. Lower[visit.link] \in LinkSpace /\ Lower[visit.link] \in Aliases /\ Lower[visit.link] \notin Nat
      /\ Lower[visit.link] \notin LinkUsers
  BY <1>1, <1>2, Space, LinksAssumption, Zenon DEF SubRowsInv
<1>5. CASE \E u \in live : Has(u)
  <2>1. PICK u \in live : Has(u) /\ Found(u, title[u], "defaults")
    BY <1>5, Zenon DEF get_user_by_alias
  <2>2. IsOf(Key(visit.link), u)
    BY <1>1, <1>2, <2>1, RowIsTrue, Zenon
  <2>3. NeverNamed(Key(visit.link))
    <3>1. \A n \in named : n.token # Lower[visit.link]
      BY <1>1, <1>4, Space, Zenon DEF SubRowsInv
    <3>2. \A v : <<"named", Lower[visit.link], v>> \notin was
      BY <1>1, <1>4 DEF AllFollowed, SubRowsInv, SubTypes
    <3>. QED
      BY <1>2, <3>1, <3>2, Zenon DEF NeverNamed, Named
  <2>. QED
    BY <1>1, <1>3, <2>1, <2>2, <2>3, FoundKeeps, Zenon
<1>6. CASE ~\E u \in live : Has(u)
  <2>1. Ends("404")
    BY <1>6, Zenon DEF get_user_by_alias
  <2>2. ASSUME NEW v \in LinkUsers, owner[Lower[visit.link]] = v PROVE FALSE
    <3>1. HasRow(Lower[visit.link], v)
      BY <1>1, <1>4, <2>2, Zenon DEF SubRowsInv, OwnedByRows
    <3>2. Lower[visit.link] # v /\ Lower[visit.link] # hash[v]
          /\ [token |-> Lower[visit.link], user |-> v] \notin named
      BY <1>1, <1>4, Space, Zenon DEF SubRowsInv
    <3>. QED
      BY <1>6, <3>1, <3>2, Zenon DEF HasRow
  <2>3. owner[Lower[visit.link]] = NoOwner
    BY <1>1, <1>4, <2>2, Zenon DEF SubRowsInv, SubTypes
  <2>4. NoOne(Key(visit.link))
    BY <1>1, <1>2, <1>4, <2>3, FactsHold, Zenon DEF FactsAre, NoOne
  <2>. QED
    BY <1>1, <1>2, <2>1, <2>4, LinksAssumption, NotFoundKeeps, Zenon
<1>. QED
  BY <1>5, <1>6, Zenon

\* owned_user, for the panel.
LEMMA OwnedKeeps ==
    ASSUME SubInv, visit # NoVisit, owned_user
    PROVE  SubInv'
<1>1. SubRowsInv /\ AllFollowed /\ visit \in VisitType /\ Facts \subseteq was /\ visit.pc = "owned" /\ Stays
  BY Zenon DEF SubInv, VisitInv, AllFollowed, owned_user
<1>2. /\ visit.route \in ByOwner /\ visit.title = Unset /\ visit.u \in LinkUsers
      /\ visit.route # "reveal-named" => visit.link = visit.u
      /\ visit.route = "reveal-named" =>
             visit.link \in Nat /\ (NoOne(visit.link) \/ Named(visit.link, visit.u))
  BY <1>1, Zenon DEF AllFollowed, Followed
<1>3. Key(visit.link) = visit.link
  BY <1>2, LinksAssumption, Zenon DEF Key
<1>4. visit.route \notin ByToken \union ByAlias
      /\ (visit.route \in Previews <=> visit.route \notin {"reveal", "reveal-named"})
  BY <1>2, Zenon DEF ByToken, Loading, ByAlias, ByOwner, Previews
<1>5. CASE visit.u \in live
  <2>1. Found(visit.u, title[visit.u], IF visit.route \in Previews THEN "defaults" ELSE "reveal")
    BY <1>5, Zenon DEF owned_user
  <2>2. visit.route # "reveal-named" => IsOf(Key(visit.link), visit.u)
    BY <1>1, <1>2, <1>3, <1>5, RowIsTrue, Zenon
  <2>. QED
    BY <1>1, <1>4, <1>5, <2>1, <2>2, FoundKeeps, Zenon
<1>6. CASE visit.u \notin live
  <2>1. Ends("404")
    BY <1>6, Zenon DEF owned_user
  <2>2. ~Named(visit.link, visit.u)
    BY <1>1, <1>6, Zenon DEF SubRowsInv, NamedOwn, Named
  <2>3. NoOne(visit.u)
    BY <1>1, <1>2, <1>6, GoneIsNobodys, Zenon
  <2>4. NoOne(Key(visit.link))
    BY <1>2, <1>3, <2>2, <2>3, Zenon
  <2>. QED
    BY <1>1, <1>2, <2>1, <2>4, LinksAssumption, NotFoundKeeps, Zenon
<1>. QED
  BY <1>5, <1>6, Zenon

\* An answer made from the row that was read.
LEMMA AnswerKeeps ==
    ASSUME SubRowsInv, AllFollowed, Stays, RowRead, visit.route # "reveal-named",
           visit' \in VisitType, visit'.pc = "done", SameUser, visit'.out # "404",
           visit'.out = "410" => visit.status = "suppressed",
           visit'.out \in {"served", "page"} /\ visit'.things # {} => visit.status = "active",
           visit'.out = "served" => visit.route \in ByToken \union ByAlias,
           visit'.title = visit.title \/ (visit.title = Unset /\ visit'.title \in {Unset, "default"}),
           \A t \in visit'.things : <<"thing", visit.u, t>> \in was,
           \A g \in visit'.gives : IsOf(g, visit.u)
    PROVE  SubInv'
<1>1. <<"owner", Key(visit.link), visit.u>> \in was /\ <<"status", visit.u, visit.status>> \in was
  BY Zenon DEF RowRead, IsOf
<1>2. visit'.out = "served" =>
        visit.u \in LinkUsers /\ (visit'.title = "named" \/ NeverNamed(Key(visit.link)))
  BY LinksAssumption, Zenon DEF RowRead
<1>3. visit'.title = "default" => Untitled(visit.u)
  BY Zenon DEF RowRead
<1>. QED
  BY <1>1, <1>2, <1>3, EndKeeps, Zenon

\* load_subscription, load_subscription_page and subscription_preview.
LEMMA DefaultsKeep ==
    ASSUME SubInv, visit # NoVisit,
           load_subscription \/ load_subscription_page \/ subscription_preview
    PROVE  SubInv'
<1>1. SubRowsInv /\ AllFollowed /\ visit \in VisitType /\ visit.pc = "defaults" /\ Stays
  BY Zenon DEF SubInv, VisitInv, AllFollowed, load_subscription, load_subscription_page, subscription_preview
<1>2. /\ RowRead /\ visit.route # "reveal-named" /\ visit.things = {} /\ visit.gives = {}
      /\ default_title \in {Unset, "default"} /\ visit.status \in {"active", "suppressed"}
  BY <1>1, Zenon DEF AllFollowed, Followed, RowRead, SubRowsInv, SubTypes
<1>3. ASSUME WithDefaults("endpoints", "none"), visit.route \notin Previews => visit.status = "active"
      PROVE  SubInv'
  <2>1. /\ visit' \in VisitType /\ SameUser /\ visit'.pc = "endpoints"
        /\ visit'.alias = visit.alias /\ visit'.status = visit.status
        /\ visit'.things = visit.things /\ visit'.gives = visit.gives
        /\ visit'.title = IF visit.title = Unset THEN default_title ELSE visit.title
    BY <1>1, <1>3, DefaultsIs, Zenon DEF Pcs, Outs
  <2>. QED
    BY <1>1, <1>2, <1>3, <2>1, GoOnKeeps, Zenon
<1>4. ASSUME NEW out \in {"410", "page", "400"}, WithDefaults("done", out),
             out = "410" => visit.status = "suppressed"
      PROVE  SubInv'
  <2>1. /\ visit' \in VisitType /\ SameUser /\ visit'.pc = "done" /\ visit'.out = out
        /\ visit'.things = visit.things /\ visit'.gives = visit.gives
        /\ visit'.title = IF visit.title = Unset THEN default_title ELSE visit.title
    BY <1>1, <1>4, DefaultsIs, Zenon DEF Pcs, Outs
  <2>. QED
    BY <1>1, <1>2, <1>4, <2>1, AnswerKeeps, Zenon
<1>5. CASE load_subscription
  BY <1>2, <1>3, <1>4, <1>5, Zenon DEF load_subscription
<1>6. CASE load_subscription_page
  BY <1>2, <1>3, <1>4, <1>6, Zenon DEF load_subscription_page
<1>7. CASE subscription_preview
  BY <1>2, <1>3, <1>4, <1>7, Zenon DEF subscription_preview
<1>. QED
  BY <1>5, <1>6, <1>7, Zenon

\* A redirect to the permanent link, and the code of subscription_qr_all.
LEMMA HandedKeeps ==
    ASSUME SubInv, visit # NoVisit, subscription_by_alias \/ subscription_qr_all
    PROVE  SubInv'
<1>1. SubRowsInv /\ AllFollowed /\ visit \in VisitType /\ visit.pc = "defaults" /\ Stays
  BY Zenon DEF SubInv, VisitInv, AllFollowed, subscription_by_alias, subscription_qr_all
<1>2. RowRead /\ visit.route # "reveal-named" /\ visit.things = {}
  BY <1>1, Zenon DEF AllFollowed, Followed
<1>3. ASSUME NEW g \in LinkSpace, Hands({g}), IsOf(g, visit.u) PROVE SubInv'
  <2>1. /\ visit' \in VisitType /\ SameUser /\ visit'.pc = "done" /\ visit'.out = "link"
        /\ visit'.title = visit.title /\ visit'.things = visit.things /\ visit'.gives = {g}
    BY <1>1, <1>3, HandsIs, Zenon
  <2>. QED
    BY <1>1, <1>2, <1>3, <2>1, AnswerKeeps, Zenon
<1>4. CASE subscription_by_alias
  <2>1. visit.u \in LinkSpace /\ IsOf(visit.u, visit.u)
    BY <1>1, <1>2, Space, Zenon DEF RowRead, SubRowsInv
  <2>. QED
    BY <1>3, <1>4, <2>1, Zenon DEF subscription_by_alias
<1>5. CASE subscription_qr_all
  <2>1. visit.route \in ByToken /\ Key(visit.link) = visit.link
    BY <1>1, <1>5, Zenon DEF subscription_qr_all, ByToken, AllFollowed, Followed, Key
  <2>2. CASE visit.alias # Unset
    <3>1. Lower[visit.alias] \in LinkSpace /\ IsOf(Lower[visit.alias], visit.u)
      BY <1>1, <1>2, <2>2, Space, Zenon DEF RowRead, SubRowsInv, VisitType
    <3>. QED
      BY <1>3, <1>5, <2>2, <3>1, Zenon DEF subscription_qr_all
  <2>3. CASE visit.alias = Unset
    <3>1. visit.link \in LinkSpace /\ IsOf(visit.link, visit.u)
      BY <1>1, <1>2, <2>1, Zenon DEF RowRead, VisitType
    <3>. QED
      BY <1>3, <1>5, <2>3, <3>1, Zenon DEF subscription_qr_all
  <2>. QED
    BY <2>2, <2>3, Zenon
<1>. QED
  BY <1>4, <1>5, Zenon

\* What the groups give now is true now.
LEMMA GivenIsTrue ==
    ASSUME SubRowsInv, Facts \subseteq was, NEW t \in Things
    PROVE  Given(t) \subseteq Things /\ \A x \in Given(t) : <<"thing", visit.u, x>> \in was
BY FactsHold, Zenon DEF FactsAre, Given, Things

\* subscription_endpoints.
LEMMA EndpointsKeep ==
    ASSUME SubInv, visit # NoVisit, subscription_endpoints
    PROVE  SubInv'
<1>1. /\ SubRowsInv /\ AllFollowed /\ visit \in VisitType /\ Facts \subseteq was
      /\ visit.pc = "endpoints" /\ Stays
  BY Zenon DEF SubInv, VisitInv, AllFollowed, subscription_endpoints
<1>2. RowRead /\ visit.gives = {} /\ (visit.route \notin Previews => visit.status = "active")
  BY <1>1, Zenon DEF AllFollowed, Followed
<1>3. Given("inbound") \subseteq Things /\ \A x \in Given("inbound") : <<"thing", visit.u, x>> \in was
  BY <1>1, GivenIsTrue, Zenon DEF Things
<1>4. /\ visit' \in VisitType /\ SameUser /\ visit'.pc = "rest" /\ visit'.alias = visit.alias
      /\ visit'.status = visit.status /\ visit'.title = visit.title /\ visit'.gives = visit.gives
      /\ visit'.things = Given("inbound")
  BY <1>1, <1>3, Zenon DEF subscription_endpoints, VisitType, SameUser, SameLink, Pcs
<1>. QED
  BY <1>1, <1>2, <1>3, <1>4, GoOnKeeps, Zenon

\* The handlers, once the endpoints were read.
Rest ==
    \/ subscription_links \/ tailored_response \/ subscription_singbox \/ subscription_document
    \/ subscription_speedtest \/ subscription_services \/ subscription_wg_list
    \/ subscription_wg_config \/ subscription_qr \/ Previewed

\* Fields of an answer with its things and links.
AnswerIs(out, S, G) ==
    /\ visit' \in VisitType /\ SameUser /\ visit'.pc = "done" /\ visit'.out = out
    /\ visit'.title = visit.title /\ visit'.things = S /\ visit'.gives = G

\* Every document, page, list and code made from the endpoints.
LEMMA RestKeeps ==
    ASSUME SubInv, visit # NoVisit, Rest
    PROVE  SubInv'
<1>1. SubRowsInv /\ AllFollowed /\ visit \in VisitType /\ Facts \subseteq was
  BY Zenon DEF SubInv, VisitInv, AllFollowed
<1>2. visit.pc = "rest" /\ Stays
  BY Zenon DEF Rest, Rests, subscription_links, tailored_response, subscription_singbox,
         subscription_document, subscription_speedtest, subscription_services, subscription_wg_list,
         subscription_wg_config, subscription_qr, Previewed
<1>3. /\ RowRead /\ visit.route # "reveal-named" /\ visit.gives = {}
      /\ visit.route \notin Previews => visit.status = "active"
      /\ \A t \in visit.things : <<"thing", visit.u, t>> \in was
  BY <1>1, <1>2, Zenon DEF AllFollowed, Followed
<1>4. ASSUME NEW out \in {"served", "page", "400", "no-endpoint"}, NEW S, AnswerIs(out, S, {}),
             visit.route \in Loading \union {"page", "alias"},
             \A t \in S : <<"thing", visit.u, t>> \in was
      PROVE  SubInv'
  <2>1. visit.route \in ByToken \union ByAlias /\ visit.route \notin Previews
    BY <1>4, Zenon DEF ByToken, ByAlias, Loading, Previews
  <2>. QED
    BY <1>1, <1>2, <1>3, <1>4, <2>1, AnswerKeeps, Zenon DEF AnswerIs
<1>5. ASSUME NEW out \in {"served", "page", "400", "no-endpoint"}, Ends(out)
      PROVE  AnswerIs(out, visit.things, {})
  BY <1>1, <1>3, <1>5, EndsIs, Zenon DEF AnswerIs, Outs
<1>6. /\ Given("service") \subseteq Things /\ \A x \in Given("service") : <<"thing", visit.u, x>> \in was
      /\ Given("wg") \subseteq Things /\ \A x \in Given("wg") : <<"thing", visit.u, x>> \in was
  BY <1>1, GivenIsTrue, Zenon DEF Things
<1>7. ASSUME subscription_links \/ subscription_singbox PROVE SubInv'
  <2>1. Ends("served") /\ visit.route \in Loading
    BY <1>7, Zenon DEF subscription_links, subscription_singbox, Rests, sub_headers, Loading
  <2>. QED
    BY <1>3, <1>4, <1>5, <2>1, Zenon
<1>8. ASSUME tailored_response PROVE SubInv'
  <2>1. (Ends("served") \/ Ends("400")) /\ visit.route \in Loading \union {"alias"}
    BY <1>8, Zenon DEF tailored_response, Rests, sub_headers, Loading
  <2>. QED
    BY <1>3, <1>4, <1>5, <2>1, Zenon
<1>9. ASSUME subscription_document PROVE SubInv'
  <2>1. Ends("page") /\ visit.route = "page"
    BY <1>9, Zenon DEF subscription_document, Rests
  <2>. QED
    BY <1>3, <1>4, <1>5, <2>1, Zenon
<1>10. ASSUME subscription_qr PROVE SubInv'
  <2>1. (Ends("served") \/ Ends("no-endpoint")) /\ visit.route \in Loading
    BY <1>10, Zenon DEF subscription_qr, Rests, Loading
  <2>. QED
    BY <1>3, <1>4, <1>5, <2>1, Zenon
<1>11. ASSUME subscription_speedtest PROVE SubInv'
  <2>1. AnswerIs("served", {}, {})
    BY <1>1, <1>3, <1>11, Zenon DEF subscription_speedtest, AnswerIs, VisitType, SameUser, SameLink, Pcs, Outs
  <2>2. visit.route \in Loading
    BY <1>11, Zenon DEF subscription_speedtest, Rests, Loading
  <2>. QED
    BY <1>4, <2>1, <2>2
<1>12. ASSUME subscription_services PROVE SubInv'
  <2>1. AnswerIs("served", Given("service"), {})
    BY <1>1, <1>3, <1>6, <1>12, Zenon DEF subscription_services, AnswerIs, VisitType, SameUser, SameLink, Pcs, Outs
  <2>2. visit.route \in Loading
    BY <1>12, Zenon DEF subscription_services, Rests, Loading
  <2>. QED
    BY <1>4, <1>6, <2>1, <2>2, Zenon
<1>13. ASSUME subscription_wg_list PROVE SubInv'
  <2>1. AnswerIs("served", Given("wg"), {})
    BY <1>1, <1>3, <1>6, <1>13, Zenon DEF subscription_wg_list, AnswerIs, VisitType, SameUser, SameLink, Pcs, Outs
  <2>2. visit.route \in Loading
    BY <1>13, Zenon DEF subscription_wg_list, Rests, Loading
  <2>. QED
    BY <1>4, <1>6, <2>1, <2>2, Zenon
<1>14. ASSUME subscription_wg_config PROVE SubInv'
  <2>. DEFINE out == IF Given("wg") = {} THEN "no-endpoint" ELSE "served"
  <2>1. out \in {"served", "page", "400", "no-endpoint"} /\ out \in Outs
    BY Zenon DEF Outs
  <2>2. visit' = [visit EXCEPT !.pc = "done", !.things = Given("wg"), !.out = out]
    BY <1>14, Zenon DEF subscription_wg_config
  <2>. HIDE DEF out
  <2>3. AnswerIs(out, Given("wg"), {})
    BY <1>1, <1>3, <1>6, <2>1, <2>2, Zenon DEF AnswerIs, VisitType, SameUser, SameLink, Pcs
  <2>4. visit.route \in Loading
    BY <1>14, Zenon DEF subscription_wg_config, Rests, Loading
  <2>. QED
    BY <1>4, <1>6, <2>1, <2>3, <2>4, Zenon
<1>15. ASSUME Previewed PROVE SubInv'
  <2>1. visit.u \in LinkSpace /\ IsOf(visit.u, visit.u)
    BY <1>1, <1>3, Space, Zenon DEF RowRead, SubRowsInv
  <2>2. AnswerIs("preview", visit.things, {visit.u})
    BY <1>1, <1>15, <2>1, Zenon DEF Previewed, AnswerIs, VisitType, SameUser, SameLink, Pcs, Outs
  <2>. QED
    BY <1>1, <1>2, <1>3, <2>1, <2>2, AnswerKeeps, Zenon DEF AnswerIs
<1>. QED
  BY <1>7, <1>8, <1>9, <1>10, <1>11, <1>12, <1>13, <1>14, <1>15, Zenon DEF Rest

\* reveal_subscription and reveal_user_subscription.
LEMMA RevealKeeps ==
    ASSUME SubInv, visit # NoVisit, reveal_subscription \/ reveal_user_subscription
    PROVE  SubInv'
<1>1. /\ SubRowsInv /\ AllFollowed /\ visit \in VisitType /\ Facts \subseteq was
      /\ visit.pc = "reveal" /\ Stays
  BY Zenon DEF SubInv, VisitInv, AllFollowed, reveal_subscription, reveal_user_subscription
<1>2. RowRead /\ visit.things = {} /\ visit.gives = {} /\ visit.title # "default" /\ visit.u \in LinkUsers
  BY <1>1, Zenon DEF AllFollowed, Followed, RowRead
<1>3. CASE reveal_subscription
  <2>1. visit.route = "reveal" /\ visit.link = visit.u
    BY <1>1, <1>3, Zenon DEF reveal_subscription, AllFollowed, Followed, ByOwner
  <2>2. CASE visit.u \in live
    <3>. DEFINE S == {visit.u} \union reveal_subscription_token(visit.u)
    <3>1. Hands(S)
      BY <1>3, <2>2, Zenon DEF reveal_subscription
    <3>2. enc[visit.u] \in {Unset, hash[visit.u]} /\ hash[visit.u] \in LinkSpace /\ visit.u \in LinkSpace
      BY <1>1, <1>2, <2>2, Space, Zenon DEF SubRowsInv, RowsOwn, Owns
    <3>3. S \subseteq LinkSpace /\ \A g \in S : g = visit.u \/ g = hash[visit.u]
      BY <3>2, Zenon DEF reveal_subscription_token
    <3>4. \A g \in S : IsOf(g, visit.u)
      BY <1>1, <2>2, <3>3, RowIsTrue, Zenon
    <3>. HIDE DEF S
    <3>5. /\ visit' \in VisitType /\ SameUser /\ visit'.pc = "done" /\ visit'.out = "link"
          /\ visit'.title = visit.title /\ visit'.things = visit.things /\ visit'.gives = S
      BY <1>1, <3>1, <3>3, HandsIs, Zenon
    <3>. QED
      BY <1>1, <1>2, <2>1, <3>4, <3>5, AnswerKeeps, Zenon
  <2>3. CASE visit.u \notin live
    <3>1. Ends("404")
      BY <1>3, <2>3, Zenon DEF reveal_subscription
    <3>2. NoOne(Key(visit.link))
      BY <1>1, <1>2, <2>1, <2>3, GoneIsNobodys, LinksAssumption, Zenon DEF Key
    <3>. QED
      BY <1>1, <1>2, <3>1, <3>2, NotFoundKeeps, Zenon
  <2>. QED
    BY <2>2, <2>3, Zenon
<1>4. CASE reveal_user_subscription
  <2>1. /\ visit.route = "reveal-named" /\ visit.link \in Nat
        /\ (NoOne(visit.link) \/ Named(visit.link, visit.u))
    BY <1>1, <1>4, Zenon DEF reveal_user_subscription, AllFollowed, Followed
  <2>2. Key(visit.link) = visit.link /\ visit.link \in LinkSpace
    BY <1>1, <2>1, LinksAssumption, Zenon DEF Key, VisitType
  <2>3. CASE Named(visit.link, visit.u)
    <3>1. Hands({visit.link})
      BY <1>4, <2>3, Zenon DEF reveal_user_subscription, Named
    <3>2. owner[visit.link] = visit.u
      BY <1>1, <2>3, Zenon DEF SubRowsInv, NamedOwn, Named
    <3>3. IsOf(visit.link, visit.u)
      BY <1>1, <2>2, <3>2, FactsHold, Zenon DEF FactsAre, IsOf
    <3>4. /\ visit' \in VisitType /\ SameUser /\ visit'.pc = "done" /\ visit'.out = "link"
          /\ visit'.title = visit.title /\ visit'.things = visit.things /\ visit'.gives = {visit.link}
      BY <1>1, <2>2, <3>1, HandsIs, Zenon
    <3>5. <<"owner", Key(visit.link), visit.u>> \in was
      BY <2>2, <3>3, Zenon DEF IsOf
    <3>. QED
      BY <1>1, <1>2, <3>3, <3>4, <3>5, EndKeeps, Zenon
  <2>4. CASE ~Named(visit.link, visit.u)
    <3>1. Ends("404")
      BY <1>4, <2>4, Zenon DEF reveal_user_subscription, Named
    <3>. QED
      BY <1>1, <1>2, <2>1, <2>2, <2>4, <3>1, NotFoundKeeps, Zenon
  <2>. QED
    BY <2>3, <2>4, Zenon
<1>. QED
  BY <1>3, <1>4, Zenon

\* A request that begins.
LEMMA OpenKeeps ==
    ASSUME SubInv, Open
    PROVE  SubInv'
<1>. DEFINE Starts(route, l, u, pc) ==
        /\ visit' = [pc |-> pc, route |-> route, link |-> l, u |-> u, title |-> Unset, alias |-> Unset,
                     status |-> "none", things |-> {}, out |-> "none", gives |-> {}]
        /\ was' = Facts
        /\ UNCHANGED <<links, title, status, things, default_title, linkEdits>>
<1>1. SubRowsInv
  BY Zenon DEF SubInv
<1>2. ASSUME NEW route, NEW l, NEW u, NEW pc, Visit(route, l, u, pc) PROVE Starts(route, l, u, pc)
  BY <1>2, Zenon DEF Visit, NoVisit
<1>. HIDE DEF Starts
<1>3. ASSUME NEW route \in ByToken \union ByAlias \union ByOwner, NEW l \in LinkSpace,
             NEW u \in LinkUsers \union {NoOwner}, NEW pc \in {"hash", "alias", "owned"},
             Starts(route, l, u, pc), l \in Nat => l <= tokens,
             pc = "hash" => route \in ByToken, route \in ByToken => l \notin Aliases,
             pc = "alias" => route \in ByAlias /\ l \in Aliases,
             pc = "owned" => route \in ByOwner /\ u \in LinkUsers,
             route \in ByOwner \ {"reveal-named"} => l = u,
             route = "reveal-named" => l \in Nat /\ (owner[l] = NoOwner \/ Named(l, u))
      PROVE  SubInv'
  <2>1. /\ visit' = [pc |-> pc, route |-> route, link |-> l, u |-> u, title |-> Unset, alias |-> Unset,
                     status |-> "none", things |-> {}, out |-> "none", gives |-> {}]
        /\ was' = Facts /\ UNCHANGED links /\ title' = title /\ status' = status
        /\ things' = things /\ default_title' = default_title
    BY <1>3, Zenon DEF Starts
  <2>2. live' = live /\ hash' = hash /\ named' = named /\ tokens' = tokens /\ owner' = owner
    BY <2>1, Zenon DEF links
  <2>3. SubRowsInv'
    BY <1>1, <2>1, PlainKeeps, Zenon DEF SubRowsInv, SubTypes
  <2>4. Facts' = Facts
    BY <2>1, <2>2, SMTT(40) DEF Facts
  <2>5. visit' \in VisitType
    BY <1>3, <2>1, Zenon DEF VisitType, Pcs, Outs
  <2>6. VisitType' = VisitType
    BY SameRoutes, Zenon DEF VisitType, Pcs, Outs
  <2>7. /\ visit'.pc = pc /\ visit'.route = route /\ visit'.link = l /\ visit'.u = u
        /\ visit'.title = Unset /\ visit'.things = {} /\ visit'.gives = {}
    BY <2>1, Zenon
  <2>8. Followed'
    <3>1. route = "reveal-named" => NoOne(visit.link)' \/ Named(visit.link, visit.u)'
      BY <1>3, <2>1, <2>2, <2>7, FactsHold, Zenon DEF FactsAre, NoOne, Named
    <3>. QED
      BY <1>3, <2>7, <3>1, SameRoutes, Zenon DEF Followed
  <2>9. ASSUME NEW t, NEW v, <<"named", t, v>> \in Facts
        PROVE  t \in 1 .. tokens /\ \A w \in live : hash[w] # t
    <3>1. PICK n \in named : n.token = t /\ n.user = v
      BY <2>9, FactsHold, Zenon DEF FactsAre
    <3>. QED
      BY <1>1, <3>1, Zenon DEF SubRowsInv, SubTypes, RowsOwn, Owns
  <2>10. AllFollowed'
    BY <1>3, <2>1, <2>2, <2>4, <2>5, <2>6, <2>7, <2>8, <2>9, Zenon DEF AllFollowed
  <2>. QED
    BY <2>3, <2>10, Zenon DEF SubInv, VisitInv
<1>4. ASSUME NEW route \in ByToken, NEW l \in (1 .. tokens) \union LinkUsers,
             Visit(route, l, NoOwner, "hash")
      PROVE  SubInv'
  <2>1. l \in LinkSpace /\ l \notin Aliases /\ (l \in Nat => l <= tokens)
    BY <1>1, Space, LinksAssumption DEF SubRowsInv, SubTypes
  <2>2. route \notin ByOwner /\ route # "reveal-named"
    BY Zenon DEF ByToken, Loading, ByOwner
  <2>. QED
    BY <1>2, <1>3, <1>4, <2>1, <2>2, Zenon
<1>5. ASSUME NEW route \in ByAlias, NEW a \in Aliases, Visit(route, a, NoOwner, "alias") PROVE SubInv'
  <2>1. a \in LinkSpace /\ a \notin Nat
    BY <1>1, Space, Zenon DEF SubRowsInv
  <2>2. route \notin ByOwner /\ route # "reveal-named" /\ route \notin ByToken
    BY Zenon DEF ByToken, Loading, ByOwner, ByAlias
  <2>. QED
    BY <1>2, <1>3, <1>5, <2>1, <2>2, Zenon
<1>6. ASSUME NEW route \in Previews \union {"reveal"}, NEW u \in LinkUsers, Visit(route, u, u, "owned")
      PROVE  SubInv'
  <2>1. u \in LinkSpace /\ u \notin Nat
    BY <1>1, Space, Zenon DEF SubRowsInv
  <2>2. route \in ByOwner /\ route # "reveal-named" /\ route \notin ByToken
    BY Zenon DEF ByToken, Loading, ByOwner, Previews
  <2>. QED
    BY <1>2, <1>3, <1>6, <2>1, <2>2, Zenon
<1>7. ASSUME NEW l \in 1 .. tokens, NEW u \in LinkUsers,
             [token |-> l, user |-> u] \in named \/ owner[l] = NoOwner,
             Visit("reveal-named", l, u, "owned")
      PROVE  SubInv'
  <2>1. l \in LinkSpace /\ l \in Nat /\ l <= tokens
    BY <1>1, Space DEF SubRowsInv, SubTypes
  <2>2. "reveal-named" \in ByOwner /\ "reveal-named" \notin ByToken
    BY Zenon DEF ByToken, Loading, ByOwner
  <2>3. owner[l] = NoOwner \/ Named(l, u)
    BY <1>7, Zenon DEF Named
  <2>. QED
    BY <1>2, <1>3, <1>7, <2>1, <2>2, <2>3, Zenon
<1>. QED
  BY <1>4, <1>5, <1>6, <1>7, Zenon DEF Open

\* Steps of other components.
LEMMA StutterKeeps ==
    ASSUME SubInv, UNCHANGED <<links, title, status, things, default_title, visit, was>>
    PROVE  SubInv'
<1>1. /\ SubRowsInv /\ UNCHANGED links /\ title' = title /\ status' = status /\ things' = things
      /\ default_title' = default_title /\ visit' = visit /\ was' = was
  BY Zenon DEF SubInv
<1>2. CASE visit = NoVisit
  BY <1>1, <1>2, PlainKeeps, Zenon DEF SubInv, VisitInv, SubRowsInv, SubTypes, NoVisit
<1>3. CASE visit # NoVisit
  <2>1. live' = live /\ hash' = hash /\ named' = named /\ tokens' = tokens /\ owner' = owner
    BY <1>1, Zenon DEF links
  <2>2. SubRowsInv'
    BY <1>1, PlainKeeps, Zenon DEF SubRowsInv, SubTypes
  <2>3. Facts' = Facts /\ VisitType' = VisitType
    BY <1>1, <2>1, SameRoutes DEF Facts, VisitType, Pcs, Outs
  <2>4. Key(visit.link)' = Key(visit.link)
    BY <1>1, Zenon DEF Key
  <2>5. Followed => Followed'
    BY <1>1, <2>1, SameRoutes DEF Followed, NoOne, IsOf, Named
  <2>6. RowRead => RowRead'
    BY <1>1, <2>1, <2>4, SameRoutes, Zenon DEF RowRead, NeverNamed, Named, IsOf, Untitled
  <2>7. AnsweredTrue => AnsweredTrue'
    BY <1>1, <2>1, <2>4, Zenon DEF AnsweredTrue, NeverNamed, Named, Untitled
  <2>8. AllFollowed
    BY <1>3, Zenon DEF SubInv, VisitInv
  <2>9. AllFollowed'
    BY <1>1, <2>1, <2>3, <2>5, <2>6, <2>7, <2>8, Zenon DEF AllFollowed, IsOf
  <2>. QED
    BY <2>2, <2>9, Zenon DEF SubInv, VisitInv
<1>. QED
  BY <1>2, <1>3, Zenon

\* A request that is over.
LEMMA CloseKeeps ==
    ASSUME SubInv, Close
    PROVE  SubInv'
<1>1. SubRowsInv'
  BY PlainKeeps, Zenon DEF SubInv, Close, SubRowsInv, SubTypes
<1>2. visit' = NoVisit /\ NoVisit' = NoVisit
  BY Zenon DEF Close, NoVisit
<1>. QED
  BY <1>1, <1>2, Zenon DEF SubInv, VisitInv

\* The rows there are at the start own their links.
LEMMA InitIsTrue ==
    ASSUME SubInit
    PROVE  SubInv
<1>1. PICK u \in LinkUsers, v \in LinkUsers, a \in Aliases : \E other \in {{}, {v}} :
        /\ u # v
        /\ live = {u} \union other /\ created = live
        /\ hash = [w \in LinkUsers |-> IF w \in other THEN 2 ELSE 1]
        /\ enc = [w \in LinkUsers |-> IF w \in other THEN Unset ELSE 1]
        /\ alias = [w \in LinkUsers |-> IF w \in other THEN a ELSE Unset]
        /\ title = [w \in LinkUsers |-> Unset]
        /\ status = [w \in LinkUsers |-> IF w \in other THEN "suppressed" ELSE "active"]
        /\ things = [w \in LinkUsers |-> Things]
        /\ owner = [l \in LinkSpace |->
                       IF l \in {u, 1} THEN u
                       ELSE IF v \in other /\ l \in {v, 2, Lower[a]} THEN v ELSE NoOwner]
        /\ named = {} /\ tokens = 2 /\ default_title = Unset /\ visit = NoVisit
  BY DEF SubInit
<1>2. PICK other \in {{}, {v}} :
        /\ u # v
        /\ live = {u} \union other /\ created = live
        /\ hash = [w \in LinkUsers |-> IF w \in other THEN 2 ELSE 1]
        /\ enc = [w \in LinkUsers |-> IF w \in other THEN Unset ELSE 1]
        /\ alias = [w \in LinkUsers |-> IF w \in other THEN a ELSE Unset]
        /\ title = [w \in LinkUsers |-> Unset]
        /\ status = [w \in LinkUsers |-> IF w \in other THEN "suppressed" ELSE "active"]
        /\ things = [w \in LinkUsers |-> Things]
        /\ owner = [l \in LinkSpace |->
                       IF l \in {u, 1} THEN u
                       ELSE IF v \in other /\ l \in {v, 2, Lower[a]} THEN v ELSE NoOwner]
        /\ named = {} /\ tokens = 2 /\ default_title = Unset /\ visit = NoVisit
  BY <1>1, Zenon
<1>3. SubTypes
  <2>1. hash \in [LinkUsers -> 1 .. tokens] /\ tokens <= MaxTokens
    BY <1>2, LinksAssumption
  <2>2. /\ enc \in [LinkUsers -> Nat \union {Unset}] /\ alias \in [LinkUsers -> Aliases \union {Unset}]
        /\ owner \in [LinkSpace -> LinkUsers \union {NoOwner}]
    BY <1>2, Zenon
  <2>3. /\ title \in [LinkUsers -> {Unset, "own"}] /\ status \in [LinkUsers -> {"active", "suppressed"}]
        /\ things \in [LinkUsers -> SUBSET Things]
    BY <1>2, Zenon
  <2>. QED
    BY <1>2, <2>1, <2>2, <2>3, Zenon DEF SubTypes
<1>4. /\ u \in LinkSpace /\ v \in LinkSpace /\ 1 \in LinkSpace /\ 2 \in LinkSpace /\ Lower[a] \in LinkSpace
      /\ u \notin Nat /\ v \notin Nat /\ Lower[a] \notin Nat /\ u # Lower[a] /\ a # Unset
  BY <1>3, Space, LinksAssumption DEF LinkSpace
<1>5. /\ v \notin other => other = {}
      /\ v \in other => other = {v}
      /\ hash[u] = 1 /\ enc[u] = 1 /\ alias[u] = Unset
      /\ v \in other => hash[v] = 2 /\ enc[v] = Unset /\ alias[v] = a
  BY <1>2, Zenon
<1>6. /\ owner[u] = u /\ owner[1] = u
      /\ v \in other => owner[v] = v /\ owner[2] = v /\ owner[Lower[a]] = v
      /\ \A l \in LinkSpace : l \notin {u, 1} /\ ~(v \in other /\ l \in {v, 2, Lower[a]}) => owner[l] = NoOwner
  BY <1>2, <1>4
<1>7. RowsOwn
  BY <1>2, <1>5, <1>6, Zenon DEF RowsOwn, Owns
<1>8. OwnedByRows
  <2>. SUFFICES ASSUME NEW l \in LinkSpace, NEW w \in LinkUsers, owner[l] = w PROVE HasRow(l, w)
    BY Zenon DEF OwnedByRows
  <2>1. CASE l \in {u, 1}
    BY <1>2, <1>5, <1>6, <2>1, Zenon DEF HasRow
  <2>2. CASE v \in other /\ l \in {v, 2, Lower[a]}
    BY <1>2, <1>4, <1>5, <1>6, <2>2, Zenon DEF HasRow
  <2>. QED
    BY <1>6, <2>1, <2>2, LinksAssumption, Zenon
<1>. QED
  BY <1>2, <1>3, <1>7, <1>8, Zenon DEF SubInv, VisitInv, SubRowsInv, NamedOwn

\* Every step keeps the invariant.
LEMMA SubInvStep ==
    ASSUME SubInv, [SubNext]_subVars
    PROVE  SubInv'
<1>1. ASSUME VisitStep PROVE visit # NoVisit
  <2>1. NoVisit.pc = "idle"
    BY Zenon DEF NoVisit
  <2>2. ASSUME subscription_links \/ tailored_response \/ subscription_singbox \/ subscription_document
               \/ subscription_speedtest \/ subscription_services \/ subscription_wg_list
               \/ subscription_wg_config \/ subscription_qr \/ Previewed
        PROVE  visit.pc = "rest"
    BY <2>2, Zenon DEF Rests, subscription_links, tailored_response, subscription_singbox,
         subscription_document, subscription_speedtest, subscription_services, subscription_wg_list,
         subscription_wg_config, subscription_qr, Previewed
  <2>3. ASSUME SelectHash \/ SelectId \/ SelectNamed \/ SelectOwner \/ get_user_by_alias \/ owned_user
        PROVE  visit.pc \in {"hash", "id", "named", "owner", "alias", "owned"}
    BY <2>3, Zenon DEF SelectHash, SelectId, SelectNamed, SelectOwner, get_user_by_alias, owned_user
  <2>4. ASSUME load_subscription \/ load_subscription_page \/ subscription_by_alias
               \/ subscription_qr_all \/ subscription_endpoints \/ subscription_preview
               \/ reveal_subscription \/ reveal_user_subscription
        PROVE  visit.pc \in {"defaults", "endpoints", "reveal"}
    BY <2>4, Zenon DEF load_subscription, load_subscription_page, subscription_by_alias, subscription_qr_all,
         subscription_endpoints, subscription_preview, reveal_subscription, reveal_user_subscription
  <2>. QED
    BY <1>1, <2>1, <2>2, <2>3, <2>4, Zenon DEF VisitStep
<1>2. CASE VisitStep
  BY <1>1, <1>2, SelectHashKeeps, SelectIdKeeps, SelectNamedKeeps, SelectOwnerKeeps, SelectAliasKeeps,
     OwnedKeeps, DefaultsKeep, HandedKeeps, EndpointsKeep, RestKeeps, RevealKeeps, Zenon DEF VisitStep, Rest
<1>3. CASE UNCHANGED subVars
  BY <1>3, StutterKeeps, Zenon DEF subVars
<1>. QED
  BY <1>2, <1>3, ChangeKeepsVisit, OpenKeeps, CloseKeeps, Zenon DEF SubNext

\* Whatever is edited between the SELECTs of a request, for every number of
\* users, tokens, aliases and edits: the answer of every route was true at some
\* moment while the request ran (get_user_by_subscription_token and the
\* handlers of api/mod.rs; db/repo.rs).
THEOREM AnswersWereTrue == SubSpec => []EveryAnswerWasTrue
<1>1. SubInv => EveryAnswerWasTrue
  <2>. SUFFICES ASSUME SubInv, visit.pc = "done" PROVE EveryAnswerWasTrue
    BY Zenon DEF EveryAnswerWasTrue
  <2>1. visit # NoVisit
    BY DEF NoVisit
  <2>2. AllFollowed /\ AnsweredTrue /\ visit \in VisitType
    BY <2>1, Zenon DEF SubInv, VisitInv, AllFollowed
  <2>3. \A g \in visit.gives : <<"owner", g, visit.u>> \in was
    BY <2>2, Zenon DEF AllFollowed, IsOf
  <2>4. \A t \in visit.things : <<"thing", visit.u, t>> \in was
    BY <2>2, Zenon DEF AllFollowed
  <2>5. visit.out = "served" /\ <<"named", Key(visit.link), visit.u>> \in was => visit.title = "named"
    BY <2>2, Zenon DEF AnsweredTrue, NeverNamed, VisitType
  <2>. QED
    BY <2>2, <2>3, <2>4, <2>5, Zenon DEF EveryAnswerWasTrue, AnsweredTrue, Untitled
<1>. QED
  BY <1>1, InitIsTrue, SubInvStep, PTL DEF SubSpec

-----------------------------------------------------------------------------
(* The certificate manager: Xray starts on a pair.                         *)

Requested == Settings \union {NoSetting}

\* The steps of a task of the certificate manager.
AcmeTasks ==
  [pc : {"idle", "ensure", "locked", "order", "export", "key", "reload"},
   gen : Nat, req : Requested, uri : BOOLEAN, cert : Nat]

AcmeTypeOK ==
  /\ entry \in [gen : Nat, req : Requested, uri : BOOLEAN]
  /\ thread \in [Threads -> AcmeTasks]
  /\ registered \in Requested
  /\ certFile \in Nat /\ keyFile \in Nat
  /\ issued \in Nat /\ aged \in 0 .. issued
  /\ overlap \in BOOLEAN

\* A task that will restart Xray on the files.
Restarting(t) == AcmeAt(t, "reload") /\ thread[t].req # NoSetting

\* A task that is about to write them.
Writing(t) == thread[t].pc \in {"order", "export", "key"}

\* Who holds a lock holds that of the entry in force, so that it is alone.
OneHolder ==
  \A t \in Threads : Holding(t) =>
    thread[t].gen = entry.gen /\ \A u \in Threads \ {t} : ~Holding(u)

\* What the files have to do with the tasks: the certificate in hand is newer
\* than any that is due, the first file is written before the second, and from
\* the decision to restart Xray to the restart the files are left alone.
FilesOf(t) ==
  /\ thread[t].pc \in {"export", "key"} => thread[t].cert > aged
  /\ AcmeAt(t, "key") => certFile = thread[t].cert
  /\ Restarting(t) => loadUsableCertificate /\ \A u \in Threads : ~Writing(u)

AcmeInv ==
  /\ AcmeTypeOK
  /\ \A t \in Threads : thread[t].pc \in {"idle", "ensure"} => thread[t].req = NoSetting
  /\ ~overlap => OneHolder /\ \A t \in Threads : FilesOf(t)

LEMMA AcmeInitInv == AcmeInit => AcmeInv
<1> SUFFICES ASSUME AcmeInit PROVE AcmeInv
  BY Zenon
<1>1. Parked \in AcmeTasks /\ NoEntry \in [gen : Nat, req : Requested, uri : BOOLEAN]
  BY Zenon DEF Parked, NoEntry, AcmeTasks, Requested
<1>2. AcmeTypeOK
  <2>1. thread \in [Threads -> AcmeTasks] /\ registered \in Requested
    BY <1>1, Zenon DEF AcmeInit, Requested
  <2>2. /\ certFile \in Nat /\ keyFile \in Nat /\ issued \in Nat /\ aged \in 0 .. issued
    BY DEF AcmeInit
  <2>3. entry \in [gen : Nat, req : Requested, uri : BOOLEAN]
    BY <1>1, Zenon DEF AcmeInit
  <2>4. overlap \in BOOLEAN
    BY Zenon DEF AcmeInit
  <2> QED
    BY <2>1, <2>2, <2>3, <2>4, Zenon DEF AcmeTypeOK
<1>3. \A t \in Threads : thread[t] = Parked
  BY Zenon DEF AcmeInit
<1> QED
  BY <1>2, <1>3 DEF AcmeInv, Parked, OneHolder, FilesOf, Holding, AcmeAt, Restarting

\* Every task is at rest: the state after a restart of the agent.
LEMMA AtRest ==
  ASSUME AcmeTypeOK', \A t \in Threads : thread'[t] = Parked
  PROVE  AcmeInv'
BY DEF AcmeInv, Parked, OneHolder, FilesOf, Holding, AcmeAt, Restarting

\* activate moves no task, and gives the entry another lock only when no task
\* holds the old one, unless it says so.
LEMMA ActivateKeeps ==
  ASSUME AcmeInv, NEW req \in Requested, activate(req)
  PROVE  /\ entry' \in [gen : Nat, req : Requested, uri : BOOLEAN] /\ overlap' \in BOOLEAN
         /\ ~overlap' => ~overlap /\ (entry'.gen = entry.gen \/ \A t \in Threads : ~Holding(t))
<1>1. loadAccount(req) \in BOOLEAN
  BY DEF loadAccount
<1>2. entry' \in [gen : Nat, req : Requested, uri : BOOLEAN]
  <2>1. /\ entry \in [gen : Nat, req : Requested, uri : BOOLEAN] /\ entry.gen \in Nat
        /\ entry.gen + 1 \in Nat /\ NoSetting \in Requested
    BY DEF AcmeInv, AcmeTypeOK, Requested
  <2>2. [gen |-> entry.gen + 1, req |-> req, uri |-> loadAccount(req)]
          \in [gen : Nat, req : Requested, uri : BOOLEAN]
    BY <1>1, <2>1, Zenon
  <2>3. [NoEntry EXCEPT !.gen = entry.gen] \in [gen : Nat, req : Requested, uri : BOOLEAN]
    BY <2>1, Zenon DEF NoEntry
  <2> QED
    BY <2>1, <2>2, <2>3, Zenon DEF activate
<1>3. overlap' \in BOOLEAN /\ (~overlap' => ~overlap /\ (entry'.gen = entry.gen \/ \A t \in Threads : ~Holding(t)))
  BY Zenon DEF activate
<1> QED
  BY <1>2, <1>3, Zenon

LEMMA PrepareKeeps ==
  ASSUME AcmeInv, NEW req \in Requested, Prepare(req) \/ PrepareFails(req)
  PROVE  AcmeInv'
<1>1. /\ activate(req) /\ AcmeAt("apply", "idle") /\ "apply" \in Threads
      /\ UNCHANGED <<certFile, keyFile, aged, issued>> /\ registered' \in Requested
  BY Zenon DEF Prepare, PrepareFails, Threads, AcmeInv, AcmeTypeOK
<1>2. /\ entry' \in [gen : Nat, req : Requested, uri : BOOLEAN] /\ overlap' \in BOOLEAN
      /\ ~overlap' => ~overlap /\ (entry'.gen = entry.gen \/ \A t \in Threads : ~Holding(t))
  BY <1>1, ActivateKeeps, Zenon
<1>3. \/ thread' = thread
      \/ thread' = [thread EXCEPT !["apply"].pc = "ensure"]
      \/ thread' = [thread EXCEPT !["apply"].pc = "reload"]
  BY Zenon DEF Prepare, PrepareFails, To
<1>4. /\ thread' \in [Threads -> AcmeTasks]
      /\ \A t \in Threads :
           /\ thread'[t].req = thread[t].req /\ thread'[t].gen = thread[t].gen
           /\ thread'[t].cert = thread[t].cert
           /\ \/ thread'[t].pc = thread[t].pc
              \/ thread[t].pc = "idle" /\ thread'[t].pc \in {"ensure", "reload"}
  BY <1>1, <1>3 DEF AcmeInv, AcmeTypeOK, AcmeTasks, AcmeAt
<1>5. AcmeTypeOK'
  BY <1>1, <1>2, <1>4, Zenon DEF AcmeInv, AcmeTypeOK
<1>6. \A t \in Threads : thread'[t].pc \in {"idle", "ensure"} => thread'[t].req = NoSetting
  BY <1>4, Zenon DEF AcmeInv
<1>7. \A t \in Threads : /\ Holding(t)' <=> Holding(t)
                         /\ Writing(t)' <=> Writing(t)
                         /\ Restarting(t)' => Restarting(t)
  BY <1>4, Zenon DEF Holding, Writing, Restarting, AcmeAt, AcmeInv
<1>8. ASSUME ~overlap' PROVE OneHolder' /\ \A t \in Threads : FilesOf(t)'
  <2>1. OneHolder /\ \A t \in Threads : FilesOf(t)
    BY <1>2, <1>8, Zenon DEF AcmeInv
  <2>2. OneHolder'
    BY <2>1, <1>2, <1>4, <1>7, <1>8 DEF OneHolder
  <2>3. ASSUME NEW t \in Threads PROVE FilesOf(t)'
    <3>1. /\ thread'[t].pc \in {"export", "key"} => thread[t].pc = thread'[t].pc
          /\ thread'[t].cert = thread[t].cert
      BY <1>4, Zenon
    <3> QED
      BY <2>1, <3>1, <1>1, <1>7, Zenon DEF FilesOf, AcmeAt, loadUsableCertificate
  <2> QED
    BY <2>2, <2>3, Zenon
<1> QED
  BY <1>5, <1>6, <1>8, Zenon DEF AcmeInv

\* The steps in which a task goes on and the entry keeps its lock: what has to
\* be shown of each.
LEMMA TaskMoves ==
  ASSUME AcmeInv, NEW t \in Threads, NEW cell \in AcmeTasks,
         thread' = [thread EXCEPT ![t] = cell],
         cell.pc \in {"idle", "ensure"} => cell.req = NoSetting,
         entry' \in [gen : Nat, req : Requested, uri : BOOLEAN], entry'.gen = entry.gen,
         registered' = registered, overlap' = overlap, aged' = aged,
         issued' \in Nat, issued' >= issued, certFile' \in Nat, keyFile' \in Nat,
         ~overlap /\ OneHolder /\ (\A u \in Threads : FilesOf(u)) =>
           /\ Holding(t)' => cell.gen = entry.gen /\ \A u \in Threads \ {t} : ~Holding(u)
           /\ FilesOf(t)'
           /\ \A u \in Threads \ {t} : FilesOf(u)'
  PROVE  AcmeInv'
<1>1. thread' \in [Threads -> AcmeTasks] /\ thread'[t] = cell
      /\ \A u \in Threads \ {t} : thread'[u] = thread[u]
  BY Zenon DEF AcmeInv, AcmeTypeOK
<1>2. AcmeTypeOK'
  BY <1>1 DEF AcmeInv, AcmeTypeOK
<1>3. \A u \in Threads : thread'[u].pc \in {"idle", "ensure"} => thread'[u].req = NoSetting
  BY <1>1, Zenon DEF AcmeInv
<1>4. ASSUME ~overlap' PROVE OneHolder' /\ \A u \in Threads : FilesOf(u)'
  <2>1. ~overlap /\ OneHolder /\ \A u \in Threads : FilesOf(u)
    BY <1>4, Zenon DEF AcmeInv
  <2>2. /\ Holding(t)' => cell.gen = entry.gen /\ \A u \in Threads \ {t} : ~Holding(u)
        /\ \A u \in Threads : FilesOf(u)'
    BY <2>1, Zenon
  <2>3. \A u \in Threads \ {t} : Holding(u)' <=> Holding(u)
    BY <1>1, Zenon DEF Holding
  <2>4. OneHolder'
    BY <2>1, <2>2, <2>3, <1>1, Zenon DEF OneHolder
  <2> QED
    BY <2>2, <2>4, Zenon
<1> QED
  BY <1>2, <1>3, <1>4, Zenon DEF AcmeInv
\* A task that ends disturbs nobody.
LEMMA TaskEnds ==
  ASSUME AcmeInv, NEW t \in Threads, Done(t), UNCHANGED <<entry, registered, certFile, keyFile,
         aged, issued, overlap>>
  PROVE  AcmeInv'
<1>1. Parked \in AcmeTasks /\ Parked.pc = "idle" /\ Parked.req = NoSetting
  BY Zenon DEF Parked, AcmeTasks, Requested
<1>2. thread' = [thread EXCEPT ![t] = Parked]
  BY Zenon DEF Done
<1>3. thread'[t] = Parked /\ \A u \in Threads \ {t} : thread'[u] = thread[u]
  BY <1>2, Zenon DEF AcmeInv, AcmeTypeOK
<1>4. ~Holding(t)' /\ ~Writing(t)' /\ FilesOf(t)'
  BY <1>1, <1>3, Zenon DEF Holding, Writing, FilesOf, AcmeAt, Restarting
<1>5. \A u \in Threads \ {t} : (Writing(u)' <=> Writing(u)) /\ (Restarting(u)' <=> Restarting(u))
  BY <1>3, Zenon DEF Writing, Restarting, AcmeAt
<1>6. (\A u \in Threads : FilesOf(u)) => \A u \in Threads \ {t} : FilesOf(u)'
  BY <1>3, <1>4, <1>5, Zenon DEF FilesOf, AcmeAt, loadUsableCertificate
<1>7. /\ entry' \in [gen : Nat, req : Requested, uri : BOOLEAN] /\ issued' \in Nat
      /\ issued' >= issued /\ certFile' \in Nat /\ keyFile' \in Nat
  BY DEF AcmeInv, AcmeTypeOK
<1> QED
  BY <1>1, <1>2, <1>4, <1>6, <1>7, TaskMoves, Zenon

LEMMA EnsureBeginKeeps ==
  ASSUME AcmeInv, NEW t \in Threads, EnsureBegin(t)
  PROVE  AcmeInv'
<1>1. CASE entry.req = NoSetting
  BY <1>1, TaskEnds, Zenon DEF EnsureBegin, Done
<1>2. CASE entry.req # NoSetting
  <2> DEFINE cell == [pc |-> "locked", gen |-> entry.gen, req |-> entry.req,
                      uri |-> entry.uri, cert |-> 0]
  <2>1. cell \in AcmeTasks /\ thread' = [thread EXCEPT ![t] = cell]
    BY <1>2, Zenon DEF EnsureBegin, AcmeTasks, AcmeInv, AcmeTypeOK
  <2>2. cell.pc = "locked" /\ cell.gen = entry.gen
    BY Zenon
  <2> HIDE DEF cell
  <2>3. thread'[t] = cell /\ \A u \in Threads \ {t} : thread'[u] = thread[u]
    BY <2>1, Zenon DEF AcmeInv, AcmeTypeOK
  <2>4. OneHolder => \A u \in Threads \ {t} : ~Holding(u)
    BY Zenon DEF EnsureBegin, EnsureLocks, OneHolder
  <2>5. FilesOf(t)' /\ ~Writing(t)'
    BY <2>2, <2>3, Zenon DEF FilesOf, AcmeAt, Restarting, Writing
  <2>6. \A u \in Threads \ {t} : (Writing(u)' <=> Writing(u)) /\ (Restarting(u)' <=> Restarting(u))
    BY <2>3, Zenon DEF Writing, Restarting, AcmeAt
  <2>7. UNCHANGED <<entry, registered, certFile, keyFile, aged, issued, overlap>>
    BY Zenon DEF EnsureBegin
  <2>8. (\A u \in Threads : FilesOf(u)) => \A u \in Threads \ {t} : FilesOf(u)'
    BY <2>3, <2>5, <2>6, <2>7, Zenon DEF FilesOf, AcmeAt, loadUsableCertificate
  <2>9. /\ entry' \in [gen : Nat, req : Requested, uri : BOOLEAN] /\ issued' \in Nat
        /\ issued' >= issued /\ certFile' \in Nat /\ keyFile' \in Nat
    BY <2>7 DEF AcmeInv, AcmeTypeOK
  <2> QED
    BY <2>1, <2>2, <2>4, <2>5, <2>7, <2>8, <2>9, TaskMoves, Zenon
<1> QED
  BY <1>1, <1>2, Zenon

\* From the lock on, a task keeps its lock until it goes to restart Xray, and
\* no other task is inside or about to restart on files that are written.
LEMMA HolderMoves ==
  ASSUME AcmeInv, NEW t \in Threads, Holding(t), NEW cell \in AcmeTasks,
         thread' = [thread EXCEPT ![t] = cell], cell.gen = thread[t].gen,
         cell.pc \notin {"idle", "ensure"},
         entry' \in [gen : Nat, req : Requested, uri : BOOLEAN], entry'.gen = entry.gen,
         registered' = registered, overlap' = overlap, aged' = aged,
         issued' \in Nat, issued' >= issued, certFile' \in Nat, keyFile' \in Nat,
         ~overlap /\ FilesOf(t) => FilesOf(t)' \/ (loadUsableCertificate' /\ cell.pc = "reload"),
         \/ UNCHANGED <<certFile, keyFile>> /\ ~(cell.pc \in {"order", "export", "key"})
         \/ ~loadUsableCertificate
         \/ Writing(t)
  PROVE  AcmeInv'
<1>1. thread'[t] = cell /\ \A u \in Threads \ {t} : thread'[u] = thread[u]
  BY Zenon DEF AcmeInv, AcmeTypeOK
<1>2. \A u \in Threads \ {t} : /\ Writing(u)' <=> Writing(u)
                               /\ Restarting(u)' <=> Restarting(u)
                               /\ Writing(u) => Holding(u)
  BY <1>1, Zenon DEF Writing, Restarting, AcmeAt, Holding
<1>3. ASSUME ~overlap, OneHolder, \A u \in Threads : FilesOf(u)
      PROVE  /\ Holding(t)' => cell.gen = entry.gen /\ \A u \in Threads \ {t} : ~Holding(u)
             /\ FilesOf(t)'
             /\ \A u \in Threads \ {t} : FilesOf(u)'
  <2>1. thread[t].gen = entry.gen /\ \A u \in Threads \ {t} : ~Holding(u)
    BY <1>3, Zenon DEF OneHolder
  <2>2. FilesOf(t)'
    <3>1. CASE loadUsableCertificate' /\ cell.pc = "reload"
      BY <3>1, <2>1, <1>1, <1>2, Zenon DEF FilesOf, AcmeAt, Writing
    <3> QED
      BY <3>1, <1>3, Zenon
  <2>3. ASSUME NEW u \in Threads \ {t} PROVE FilesOf(u)'
    <3>1. thread'[u].pc \notin {"export", "key"}
      BY <2>1, <1>1, Zenon DEF Holding
    <3>2. ASSUME Restarting(u)' PROVE loadUsableCertificate' /\ \A v \in Threads : ~Writing(v)'
      <4>1. Restarting(u) /\ FilesOf(u)
        BY <3>2, <1>2, <1>3, Zenon
      <4>2. loadUsableCertificate /\ \A v \in Threads : ~Writing(v)
        BY <4>1, Zenon DEF FilesOf
      <4>3. UNCHANGED <<certFile, keyFile>> /\ ~Writing(t)'
        BY <4>2, <1>1, Zenon DEF Writing
      <4> QED
        BY <4>2, <4>3, <1>2, Zenon DEF loadUsableCertificate
    <3> QED
      BY <3>1, <3>2, Zenon DEF FilesOf, AcmeAt
  <2> QED
    BY <2>1, <2>2, <2>3, Zenon
<1> QED
  BY <1>3, TaskMoves, Zenon
LEMMA HolderKeeps ==
  ASSUME AcmeInv, NEW t \in Threads,
         \/ EnsureUsable(t) \/ Register(t) \/ issueHTTP01(t) \/ ExportCert(t) \/ ExportKey(t)
  PROVE  AcmeInv' 
<1> DEFINE at(pc) == [thread[t] EXCEPT !.pc = pc]
<1>1. /\ thread \in [Threads -> AcmeTasks] /\ thread[t] \in AcmeTasks /\ overlap' = overlap
      /\ registered' = registered /\ aged' = aged /\ aged \in Nat /\ issued \in Nat /\ aged <= issued
      /\ certFile \in Nat /\ keyFile \in Nat /\ thread[t].cert \in Nat
  BY DEF EnsureUsable, Register, issueHTTP01, ExportCert, ExportKey, AcmeInv, AcmeTypeOK, AcmeTasks
<1>2. Holding(t)
  BY Zenon DEF EnsureUsable, Register, issueHTTP01, ExportCert, ExportKey, Holding, AcmeAt
<1>3. \A pc \in {"order", "export", "key", "reload"} :
        /\ at(pc) \in AcmeTasks /\ at(pc).pc = pc /\ at(pc).gen = thread[t].gen
        /\ at(pc).cert = thread[t].cert
  BY <1>1, Zenon DEF AcmeTasks
<1>4. \A pc : To(t, pc) => thread' = [thread EXCEPT ![t] = at(pc)]
  BY Zenon DEF To
<1>5. \A cell : thread' = [thread EXCEPT ![t] = cell] => thread'[t] = cell
  BY <1>1, Zenon
<1>6. entry \in [gen : Nat, req : Requested, uri : BOOLEAN]
  BY Zenon DEF AcmeInv, AcmeTypeOK
<1> HIDE DEF at
<1>7. CASE EnsureUsable(t)
  <2>1. UNCHANGED <<entry, certFile, keyFile, issued>> /\ loadUsableCertificate
    BY <1>7, Zenon DEF EnsureUsable
  <2>2. CASE t # "apply"
    BY <1>1, <1>7, <2>1, <2>2, TaskEnds, Zenon DEF EnsureUsable
  <2>3. CASE t = "apply"
    <3>1. thread' = [thread EXCEPT ![t] = at("reload")]
      BY <1>4, <1>7, <2>3, Zenon DEF EnsureUsable
    <3>2. loadUsableCertificate'
      BY <1>1, <2>1, Zenon DEF loadUsableCertificate
    <3>3. issued' \in Nat /\ issued' >= issued /\ certFile' \in Nat /\ keyFile' \in Nat
      BY <1>1, <2>1
    <3> QED
      BY <1>1, <1>2, <1>3, <1>6, <2>1, <3>1, <3>2, <3>3, HolderMoves, Zenon
  <2> QED
    BY <2>2, <2>3, Zenon
<1>8. CASE Register(t)
  <2>1. UNCHANGED <<certFile, keyFile, issued>> /\ ~loadUsableCertificate
    BY <1>8, Zenon DEF Register
  <2>2. CASE Done(t) /\ UNCHANGED entry
    BY <1>1, <2>1, <2>2, TaskEnds, Zenon
  <2>3. ASSUME NEW cell \in AcmeTasks, thread' = [thread EXCEPT ![t] = cell],
               cell.pc = "order", cell.gen = thread[t].gen,
               entry' \in [gen : Nat, req : Requested, uri : BOOLEAN], entry'.gen = entry.gen
        PROVE  AcmeInv'
    <3>1. FilesOf(t)'
      BY <1>5, <2>3, Zenon DEF FilesOf, AcmeAt, Restarting
    <3>2. issued' \in Nat /\ issued' >= issued /\ certFile' \in Nat /\ keyFile' \in Nat
      BY <1>1, <2>1
    <3> QED
      BY <1>1, <1>2, <2>1, <2>3, <3>1, <3>2, HolderMoves, Zenon
  <2>4. CASE To(t, "order") /\ UNCHANGED entry
    BY <1>3, <1>4, <1>6, <2>3, <2>4, Zenon
  <2>5. CASE /\ thread' = [thread EXCEPT ![t].pc = "order", ![t].uri = TRUE]
             /\ entry' = IF entry.gen = thread[t].gen THEN [entry EXCEPT !.uri = TRUE] ELSE entry
    <3> DEFINE cell == [thread[t] EXCEPT !.pc = "order", !.uri = TRUE]
    <3>1. thread' = [thread EXCEPT ![t] = cell]
      BY <1>1, <2>5, Zenon
    <3>2. cell \in AcmeTasks /\ cell.pc = "order" /\ cell.gen = thread[t].gen
      BY <1>1, Zenon DEF AcmeTasks
    <3>3. entry' \in [gen : Nat, req : Requested, uri : BOOLEAN] /\ entry'.gen = entry.gen
      BY <1>6, <2>5, Zenon
    <3> QED
      BY <2>3, <3>1, <3>2, <3>3, Zenon
  <2> QED
    BY <1>8, <2>2, <2>4, <2>5, Zenon DEF Register
<1>9. CASE issueHTTP01(t)
  <2> DEFINE next == issued + 1
             cell == [thread[t] EXCEPT !.pc = "export", !.cert = next]
  <2>1. /\ thread' = [thread EXCEPT ![t] = cell] /\ issued' = issued + 1
        /\ UNCHANGED <<entry, certFile, keyFile>> /\ Writing(t)
    BY <1>1, <1>9, Zenon DEF issueHTTP01, Writing, AcmeAt
  <2>2. cell \in AcmeTasks /\ cell.pc = "export" /\ cell.gen = thread[t].gen /\ cell.cert = next
    <3>1. next \in Nat
      BY <1>1
    <3> HIDE DEF next
    <3> QED
      BY <1>1, <3>1, Zenon DEF AcmeTasks
  <2> HIDE DEF cell
  <2>3. FilesOf(t)'
    BY <1>1, <1>5, <2>1, <2>2 DEF FilesOf, AcmeAt, Restarting
  <2>4. issued' \in Nat /\ issued' >= issued /\ certFile' \in Nat /\ keyFile' \in Nat
    BY <1>1, <2>1
  <2> QED
    BY <1>1, <1>2, <1>6, <2>1, <2>2, <2>3, <2>4, HolderMoves, Zenon
<1>10. CASE ExportCert(t)
  <2>1. /\ thread' = [thread EXCEPT ![t] = at("key")] /\ certFile' = thread[t].cert
        /\ UNCHANGED <<entry, issued, keyFile>> /\ Writing(t) /\ thread[t].pc = "export"
    BY <1>4, <1>10, Zenon DEF ExportCert, Writing, AcmeAt
  <2>2. FilesOf(t) => FilesOf(t)'
    BY <1>1, <1>3, <1>5, <2>1, Zenon DEF FilesOf, AcmeAt, Restarting
  <2>3. issued' \in Nat /\ issued' >= issued /\ certFile' \in Nat /\ keyFile' \in Nat
    BY <1>1, <2>1
  <2> QED
    BY <1>1, <1>2, <1>3, <1>6, <2>1, <2>2, <2>3, HolderMoves, Zenon
<1>11. CASE ExportKey(t)
  <2>1. /\ thread' = [thread EXCEPT ![t] = at("reload")] /\ keyFile' = thread[t].cert
        /\ UNCHANGED <<entry, issued, certFile>> /\ Writing(t) /\ thread[t].pc = "key"
    BY <1>4, <1>11, Zenon DEF ExportKey, Writing, AcmeAt
  <2>2. FilesOf(t) => loadUsableCertificate'
    BY <1>1, <2>1, Zenon DEF FilesOf, AcmeAt, loadUsableCertificate
  <2>3. issued' \in Nat /\ issued' >= issued /\ certFile' \in Nat /\ keyFile' \in Nat
    BY <1>1, <2>1
  <2> QED
    BY <1>1, <1>2, <1>3, <1>6, <2>1, <2>2, <2>3, HolderMoves, Zenon
<1> QED
  BY <1>7, <1>8, <1>9, <1>10, <1>11, Zenon

LEMMA AcmeNextInv == AcmeInv /\ [AcmeNext]_acmeVars => AcmeInv'
<1> SUFFICES ASSUME AcmeInv, [AcmeNext]_acmeVars PROVE AcmeInv'
  BY Zenon
<1>1. ASSUME NEW req \in Settings \union {NoSetting}, Prepare(req) \/ PrepareFails(req)
      PROVE  AcmeInv'
  BY <1>1, PrepareKeeps, Zenon DEF Requested
<1>2. CASE RenewTick
  <2>1. /\ "renew" \in Threads /\ thread \in [Threads -> AcmeTasks]
        /\ thread' = [thread EXCEPT !["renew"] = [thread["renew"] EXCEPT !.pc = "ensure"]]
        /\ thread["renew"].pc = "idle"
        /\ UNCHANGED <<entry, registered, certFile, keyFile, aged, issued, overlap>>
    BY <1>2, Zenon DEF RenewTick, To, AcmeAt, Threads, AcmeInv, AcmeTypeOK
  <2> DEFINE cell == [thread["renew"] EXCEPT !.pc = "ensure"]
  <2>2. cell \in AcmeTasks /\ cell.pc = "ensure" /\ cell.req = thread["renew"].req
    BY <2>1, Zenon DEF AcmeTasks
  <2>3. cell.req = NoSetting
    BY <2>1, <2>2, Zenon DEF AcmeInv
  <2>4. thread' = [thread EXCEPT !["renew"] = cell]
    BY <2>1, Zenon
  <2> HIDE DEF cell
  <2>5. thread'["renew"] = cell /\ \A u \in Threads \ {"renew"} : thread'[u] = thread[u]
    BY <2>1, <2>4, Zenon
  <2>6. ~Holding("renew")' /\ ~Writing("renew")' /\ FilesOf("renew")'
    BY <2>2, <2>5, Zenon DEF Holding, Writing, FilesOf, AcmeAt, Restarting
  <2>7. \A u \in Threads \ {"renew"} : (Writing(u)' <=> Writing(u)) /\ (Restarting(u)' <=> Restarting(u))
    BY <2>5, Zenon DEF Writing, Restarting, AcmeAt
  <2>8. (\A u \in Threads : FilesOf(u)) => \A u \in Threads \ {"renew"} : FilesOf(u)'
    BY <2>1, <2>5, <2>6, <2>7, Zenon DEF FilesOf, AcmeAt, loadUsableCertificate
  <2>9. /\ entry' \in [gen : Nat, req : Requested, uri : BOOLEAN] /\ issued' \in Nat
        /\ issued' >= issued /\ certFile' \in Nat /\ keyFile' \in Nat
    BY <2>1 DEF AcmeInv, AcmeTypeOK
  <2> QED
    BY <2>1, <2>2, <2>3, <2>4, <2>6, <2>8, <2>9, TaskMoves, Zenon
<1>3. CASE AcmeStart
  <2>1. \A t \in Threads : thread'[t] = Parked
    BY <1>3, Zenon DEF AcmeStart
  <2>2. thread' \in [Threads -> AcmeTasks]
    BY <1>3, Zenon DEF AcmeStart, Parked, AcmeTasks, Requested
  <2>3. entry' \in [gen : Nat, req : Requested, uri : BOOLEAN]
    <3>1. /\ entry.gen \in Nat /\ entry.gen + 1 \in Nat /\ NoSetting \in Requested
          /\ registered \in Requested /\ loadAccount(registered) \in BOOLEAN
      BY DEF AcmeInv, AcmeTypeOK, Requested, loadAccount
    <3>2. [gen |-> entry.gen + 1, req |-> registered, uri |-> loadAccount(registered)]
            \in [gen : Nat, req : Requested, uri : BOOLEAN]
      BY <3>1, Zenon
    <3>3. [NoEntry EXCEPT !.gen = entry.gen] \in [gen : Nat, req : Requested, uri : BOOLEAN]
      BY <3>1, Zenon DEF NoEntry
    <3> QED
      BY <1>3, <3>2, <3>3, Zenon DEF AcmeStart
  <2>4. AcmeTypeOK'
    BY <1>3, <2>2, <2>3, Zenon DEF AcmeStart, AcmeInv, AcmeTypeOK
  <2> QED
    BY <2>1, <2>4, AtRest, Zenon
<1>4. CASE CertificateAges
  <2>1. /\ UNCHANGED <<entry, thread, registered, certFile, keyFile, issued, overlap>>
        /\ aged' = issued /\ \A t \in Threads : thread[t].pc \notin {"export", "key", "reload"}
    BY <1>4, Zenon DEF CertificateAges
  <2>2. AcmeTypeOK'
    BY <2>1 DEF AcmeInv, AcmeTypeOK
  <2>3. \A t \in Threads : FilesOf(t)'
    BY <2>1, Zenon DEF FilesOf, AcmeAt, Restarting
  <2>4. OneHolder => OneHolder'
    BY <2>1, Zenon DEF OneHolder, Holding
  <2> QED
    BY <2>1, <2>2, <2>3, <2>4, Zenon DEF AcmeInv
<1>5. ASSUME NEW t \in Threads, ThreadStep(t)
      PROVE  AcmeInv'
  <2>1. CASE IssueFails(t) \/ ReloadXray(t) \/ ReloadFails(t)
    BY <2>1, TaskEnds, Zenon DEF IssueFails, ReloadXray, ReloadFails
  <2> QED
    BY <1>5, <2>1, EnsureBeginKeeps, HolderKeeps, Zenon DEF ThreadStep
<1>6. CASE UNCHANGED acmeVars
  BY <1>6, Zenon DEF acmeVars, AcmeInv, AcmeTypeOK, OneHolder, FilesOf, Holding, AcmeAt, Restarting,
              Writing, loadUsableCertificate
<1> QED
  BY <1>1, <1>2, <1>3, <1>4, <1>5, <1>6, Zenon DEF AcmeNext

\* The restarts of the agent are counted.
LEMMA RestartsCount == acmeCrashes \in Nat /\ [AcmeNext]_acmeVars => (acmeCrashes \in Nat)'
<1> SUFFICES ASSUME acmeCrashes \in Nat, [AcmeNext]_acmeVars PROVE acmeCrashes' \in Nat
  BY Zenon
<1>1. acmeCrashes' = acmeCrashes \/ acmeCrashes' = acmeCrashes + 1
  BY Zenon DEF AcmeNext, ThreadStep, Prepare, PrepareFails, RenewTick, CertificateAges, AcmeStart,
     EnsureBegin, EnsureUsable, Register, issueHTTP01, IssueFails, ExportCert, ExportKey,
     ReloadXray, ReloadFails, acmeVars
<1> QED
  BY <1>1

\* The theorem: as long as no issuer outlived the entry it worked for, Xray is
\* restarted on a certificate and its own key, whatever failed, whenever the
\* agent crashed between the two files and however the two tasks interleave.
THEOREM ReloadsOnAPair == AcmeSpec => PairOnReload
<1>1. ASSUME AcmeInv, acmeCrashes \in Nat, AcmeNext, loaded' # loaded, acmeCrashes' = acmeCrashes
      PROVE  overlap \/ loaded'[1] = loaded'[2]
  <2>1. \E t \in Threads : ReloadXray(t)
    <3>1. ~AcmeStart
      <4>1. ASSUME AcmeStart PROVE FALSE
        <5>1. acmeCrashes = acmeCrashes + 1 /\ acmeCrashes < MaxCrash
          BY <1>1, <4>1, Zenon DEF AcmeStart
        <5> QED
          BY <1>1, <5>1
      <4> QED
        BY <4>1, Zenon
    <3> QED
      BY <1>1, <3>1, Zenon DEF AcmeNext, ThreadStep, Prepare, PrepareFails, RenewTick, CertificateAges,
         EnsureBegin, EnsureUsable, Register, issueHTTP01, IssueFails, ExportCert, ExportKey, ReloadFails
  <2>2. PICK t \in Threads : ReloadXray(t)
    BY <2>1, Zenon
  <2>3. CASE thread[t].req = NoSetting
    BY <2>2, <2>3, Zenon DEF ReloadXray
  <2>4. CASE thread[t].req # NoSetting
    <3>1. Restarting(t) /\ loaded' = <<certFile, keyFile>>
      BY <2>2, <2>4, Zenon DEF ReloadXray, Restarting
    <3>2. ~overlap => certFile = keyFile
      BY <1>1, <3>1, Zenon DEF AcmeInv, FilesOf, loadUsableCertificate
    <3> QED
      BY <3>1, <3>2, Zenon
  <2> QED
    BY <2>3, <2>4, Zenon
<1>2. AcmeInv /\ acmeCrashes \in Nat /\ [AcmeNext]_acmeVars =>
        [\A t \in Threads : AcmeAt(t, "reload") /\ loaded' # loaded /\ acmeCrashes' = acmeCrashes
           => overlap \/ loaded'[1] = loaded'[2]]_acmeVars
  BY <1>1, Zenon
<1>3. AcmeInit => acmeCrashes \in Nat
  BY DEF AcmeInit
<1> QED
  BY <1>2, <1>3, AcmeInitInv, AcmeNextInv, RestartsCount, PTL DEF AcmeSpec, PairOnReload
=============================================================================

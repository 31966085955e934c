----------------------------- MODULE WireGuard -----------------------------
(***************************************************************************)
(* The WireGuard data plane of one node.  The master keeps the interface   *)
(* and peer rows (repo.rs), provisions a peer lazily, either while it      *)
(* builds the node's spec (spec.rs) or when a user downloads a client      *)
(* configuration (build_wg_config), and the agent rewrites and restarts    *)
(* one wg-quick interface per entry of the spec it receives (agent wg.go). *)
(* Addresses are Width bits wide; the database's UNIQUE constraints and    *)
(* foreign keys are part of the inserts.  Losing and retrying the push     *)
(* itself is the subject of NodePush.                                      *)
(***************************************************************************)
EXTENDS Integers, Sequences

CONSTANTS
    Ifaces,       \* interface rows, in the order they are created
    Users,
    Names,        \* interface names on the node, as ifName derives them
    Port,         \* Port[i]: the listen port of the row
    Prefix,       \* Prefix[i]: the prefix length of the row's address pool
    Width,        \* bits of an address
    MaxFailures,  \* bound on the wg-quick calls that fail
    MaxEdits      \* bound on the edits of rows and users

Actors == {"push", "download"}

ASSUME NamesAssumption == Names # {}

VARIABLES
    row,       \* interface -> "none", "on", "off" (not enabled), "gone"
    name,      \* interface -> its name on the node
    user,      \* user -> "active" with access to the node, "inactive", "gone"
    peer,      \* interface -> user -> address of the peer row, 0 without one
    ensure,    \* actor -> the call of ensure_wg_peer it is in
    build,     \* the spec being built, then applied: [pc, users, todo, iface,
               \* missing, spec, at, failed]
    applied,   \* the spec the node's applied_spec_hash stands for
    up,        \* name -> [iface, peers] of the running interface, or Down
    stopped,   \* names whose last applyOne failed, or that another entry took
    handed,    \* client configurations in use: <<interface, user, address>>
    failures, edits

wgVars == <<row, name, user, peer, ensure, build, applied, up, stopped, handed, failures, edits>>
rowVars == <<row, name, user>>
nodeVars == <<applied, up, stopped, failures>>

Edit == edits < MaxEdits /\ edits' = edits + 1

Down == [iface |-> 0, peers |-> {}]
NotEnsuring == [pc |-> "idle", iface |-> 0, user |-> 0, addr |-> 0]
NotBuilding == [pc |-> "idle", users |-> {}, todo |-> {}, iface |-> 0, missing |-> {},
                spec |-> <<>>, at |-> 1, failed |-> {}]

server_address == 1

\* The lowest free host between the server's address and the broadcast
\* address, 0 for an error.  The pool's network address is taken to be 0.
\* With prefix 0 the mask is shifted by the full width: a panic in a debug
\* build, an empty range in a release build.
allocate_ip(prefix, taken) ==
    LET hosts == 2 .. 2 ^ (Width - prefix) - 1 - 1
        first(h) == h \notin taken /\ \A g \in hosts : g < h => g \in taken
    IN IF prefix >= Width - 1 \/ prefix = 0 \/ ~\E h \in hosts : first(h)
       THEN 0 ELSE CHOOSE h \in hosts : first(h)

Taken(i) == {peer[i][u] : u \in Users} \ {0}
enabled_wg_interfaces == {i \in Ifaces : row[i] = "on"}
ActiveUsers == {u \in Users : user[u] = "active"}

WgInit ==
    /\ row = [i \in Ifaces |-> "none"]
    /\ name = [i \in Ifaces |-> CHOOSE n \in Names : TRUE]
    /\ user = [u \in Users |-> "active"]
    /\ peer = [i \in Ifaces |-> [u \in Users |-> 0]]
    /\ ensure = [a \in Actors |-> NotEnsuring]
    /\ build = NotBuilding
    /\ applied = <<>>
    /\ up = [n \in Names |-> Down]
    /\ stopped = {}
    /\ handed = {}
    /\ failures = 0
    /\ edits = 0

\* The port is unique among the node's rows.
create_wg_interface(i, n) ==
    /\ \A j \in Ifaces : row[j] \in {"on", "off"} => Port[j] # Port[i]
    /\ row' = [row EXCEPT ![i] = "on"]
    /\ name' = [name EXCEPT ![i] = n]

update_wg_interface(i, enabled, n) ==
    /\ row' = [row EXCEPT ![i] = enabled]
    /\ name' = [name EXCEPT ![i] = n]

\* The peers go with the row, and with them the configurations.
delete_wg_interface(i) ==
    /\ row' = [row EXCEPT ![i] = "gone"]
    /\ peer' = [peer EXCEPT ![i] = [u \in Users |-> 0]]
    /\ handed' = {c \in handed : c[1] # i}

create_wg(i) ==
    /\ Edit
    /\ row[i] = "none" /\ \A j \in Ifaces : j < i => row[j] # "none"
    /\ \E n \in Names : create_wg_interface(i, n)
    /\ UNCHANGED <<user, peer, ensure, build, nodeVars, handed>>

update_wg(i) ==
    /\ Edit
    /\ row[i] \in {"on", "off"}
    /\ \E enabled \in {"on", "off"}, n \in Names :
        <<enabled, n>> # <<row[i], name[i]>> /\ update_wg_interface(i, enabled, n)
    /\ UNCHANGED <<user, peer, ensure, build, nodeVars, handed>>

delete_wg(i) ==
    /\ Edit
    /\ row[i] \in {"on", "off"}
    /\ delete_wg_interface(i)
    /\ UNCHANGED <<name, user, ensure, build, nodeVars>>

\* A user expires, runs out of quota, loses the group, or comes back.
UserChanges(u) ==
    /\ Edit
    /\ user[u] # "gone"
    /\ user' = [user EXCEPT ![u] = IF @ = "active" THEN "inactive" ELSE "active"]
    /\ UNCHANGED <<row, name, peer, ensure, build, nodeVars, handed>>

delete_user(u) ==
    /\ Edit
    /\ user[u] # "gone"
    /\ user' = [user EXCEPT ![u] = "gone"]
    /\ peer' = [i \in Ifaces |-> [peer[i] EXCEPT ![u] = 0]]
    /\ handed' = {c \in handed : c[2] # u}
    /\ UNCHANGED <<row, name, ensure, build, nodeVars>>

\* ensure_wg_peer up to its INSERT: the existing peer, or an address that was
\* free among the rows read.
ensure_wg_peer(i, u) ==
    IF peer[i][u] # 0
    THEN [pc |-> "found", iface |-> i, user |-> u, addr |-> peer[i][u]]
    ELSE LET ip == allocate_ip(Prefix[i], Taken(i))
         IN [pc |-> IF ip = 0 THEN "error" ELSE "insert", iface |-> i, user |-> u, addr |-> ip]

\* Mutant: an upsert on (interface, user) instead of a plain INSERT.
InsertAccepted_upsert(e) ==
    /\ row[e.iface] \in {"on", "off"} /\ user[e.user] # "gone"
    /\ \A u \in Users \ {e.user} : peer[e.iface][u] # e.addr

\* The foreign keys and the two UNIQUE constraints of wg_peers.
InsertAccepted(e) ==
    /\ row[e.iface] \in {"on", "off"} /\ user[e.user] # "gone"
    /\ peer[e.iface][e.user] = 0
    /\ e.addr \notin Taken(e.iface)

EnsureInserts(a) ==
    LET e == ensure[a] IN
    /\ e.pc = "insert"
    /\ IF InsertAccepted(e)
       THEN /\ peer' = [peer EXCEPT ![e.iface][e.user] = e.addr]
            /\ ensure' = [ensure EXCEPT ![a].pc = "found"]
       ELSE /\ ensure' = [ensure EXCEPT ![a].pc = "error"]
            /\ UNCHANGED peer
    /\ UNCHANGED <<rowVars, edits, build, nodeVars, handed>>

wg_interfaces_for_user(u) == {i \in enabled_wg_interfaces : user[u] = "active"}

\* A user downloads the client configuration of an interface they can reach.
build_wg_config(i, u) ==
    /\ ensure["download"].pc = "idle"
    /\ i \in wg_interfaces_for_user(u)
    /\ ensure' = [ensure EXCEPT !["download"] = ensure_wg_peer(i, u)]
    /\ UNCHANGED <<rowVars, edits, peer, build, nodeVars, handed>>

DownloadEnds ==
    LET e == ensure["download"] IN
    /\ e.pc \in {"found", "error"}
    /\ handed' = IF e.pc = "found" /\ row[e.iface] # "gone" /\ user[e.user] # "gone"
                 THEN handed \cup {<<e.iface, e.user, e.addr>>} ELSE handed
    /\ ensure' = [ensure EXCEPT !["download"] = NotEnsuring]
    /\ UNCHANGED <<rowVars, edits, peer, build, nodeVars>>

\* build_node_spec: the active users are read once, before the interfaces.
BuildBegins ==
    /\ build.pc = "idle"
    /\ build' = [NotBuilding EXCEPT !.pc = "iface", !.users = ActiveUsers,
                                    !.todo = enabled_wg_interfaces]
    /\ UNCHANGED <<rowVars, edits, peer, ensure, nodeVars, handed>>

\* The next interface by age: the users without a peer among the rows read here.
BuildIface ==
    /\ build.pc = "iface"
    /\ \E i \in build.todo :
        /\ \A j \in build.todo : i <= j
        /\ build' = [build EXCEPT !.pc = "ensure", !.iface = i,
                                  !.missing = {u \in build.users : peer[i][u] = 0}]
    /\ UNCHANGED <<rowVars, edits, peer, ensure, nodeVars, handed>>

BuildEnsures(u) ==
    /\ build.pc = "ensure" /\ ensure["push"].pc = "idle"
    /\ ensure' = [ensure EXCEPT !["push"] = ensure_wg_peer(build.iface, u)]
    /\ build' = [build EXCEPT !.missing = @ \ {u}]
    /\ UNCHANGED <<rowVars, edits, peer, nodeVars, handed>>

\* An error of one peer is the error of the whole spec.
BuildEnsured ==
    /\ ensure["push"].pc \in {"found", "error"}
    /\ ensure' = [ensure EXCEPT !["push"] = NotEnsuring]
    /\ build' = IF ensure["push"].pc = "error" THEN NotBuilding ELSE build
    /\ UNCHANGED <<rowVars, edits, peer, nodeVars, handed>>

\* The peers are read again and filtered by the users read at the start.
wg_peers_for_interface(i) == {<<u, peer[i][u]>> : u \in {v \in build.users : peer[i][v] # 0}}

BuildPeers ==
    LET i == build.iface IN
    /\ build.pc = "ensure" /\ build.missing = {} /\ ensure["push"].pc = "idle"
    /\ build' = [build EXCEPT !.pc = "iface", !.todo = @ \ {i},
                    !.spec = Append(@, [iface |-> i, name |-> name[i], peers |-> wg_peers_for_interface(i)])]
    /\ UNCHANGED <<rowVars, edits, peer, ensure, nodeVars, handed>>

serverConf(w) == [iface |-> w.iface, peers |-> w.peers]

\* The name is taken down, then brought up with the file just written; `up`
\* cannot bind a port that an interface of another name still holds.  An error
\* before that (no wg-quick, no file) leaves the interface as it runs.
Cleared(w) == [up EXCEPT ![w.name] = Down]
ListenPortHeld(w) == \E n \in Names : Cleared(w)[n] # Down /\ Port[Cleared(w)[n].iface] = Port[w.iface]

applyOne(w, error) ==
    up' = CASE error = "file" -> up
            [] error = "up" \/ ListenPortHeld(w) -> Cleared(w)
            [] OTHER -> [up EXCEPT ![w.name] = serverConf(w)]

\* Mutant: two specs with the same interfaces count as the same.
Unchanged_interfaces(spec) ==
    {spec[k].name : k \in DOMAIN spec} = {applied[k].name : k \in DOMAIN applied}

\* The comparison of the spec's hash with the node's applied_spec_hash.
Unchanged(spec) == spec = applied

\* An unchanged spec is not pushed.
PushSpec ==
    /\ build.pc = "iface" /\ build.todo = {}
    /\ build' = IF Unchanged(build.spec) THEN NotBuilding ELSE [build EXCEPT !.pc = "apply"]
    /\ UNCHANGED <<rowVars, edits, peer, ensure, nodeVars, handed>>

\* wg.Apply visits the interfaces of the spec and no others, and goes on after
\* an error.
AgentApplies ==
    /\ build.pc = "apply" /\ build.at <= Len(build.spec)
    /\ \E error \in {"none", "file", "up"} :
        LET w == build.spec[build.at]
            fails == error # "none" \/ ListenPortHeld(w)
        IN /\ error # "none" => failures < MaxFailures
           /\ failures' = IF error # "none" THEN failures + 1 ELSE failures
           /\ applyOne(w, error)
           /\ build' = [build EXCEPT !.at = @ + 1,
                                     !.failed = IF fails THEN @ \cup {w.name} ELSE @]
    /\ UNCHANGED <<rowVars, edits, peer, ensure, applied, stopped, handed>>

\* The agent logs the errors; the master records the spec as applied.
SpecApplied ==
    /\ build.pc = "apply" /\ build.at > Len(build.spec)
    /\ build' = NotBuilding
    /\ applied' = build.spec
    /\ stopped' = build.failed \cup
                    {build.spec[k].name : k \in {q \in DOMAIN build.spec :
                                    up[build.spec[q].name].iface # build.spec[q].iface}}
    /\ UNCHANGED <<rowVars, edits, peer, ensure, up, failures, handed>>

BuildStep ==
    \/ BuildBegins \/ BuildIface \/ BuildEnsured \/ BuildPeers
    \/ PushSpec \/ AgentApplies \/ SpecApplied
    \/ EnsureInserts("push")
    \/ \E u \in build.missing : BuildEnsures(u)

WgNext ==
    \/ \E i \in Ifaces : create_wg(i) \/ update_wg(i) \/ delete_wg(i)
    \/ \E u \in Users : UserChanges(u) \/ delete_user(u)
    \/ \E i \in Ifaces, u \in Users : build_wg_config(i, u)
    \/ EnsureInserts("download")
    \/ DownloadEnds
    \/ BuildStep

Served(i) == {<<u, peer[i][u]>> : u \in {v \in ActiveUsers : peer[i][v] # 0}}

\* allocate_ip fails for some user of an enabled interface: no spec can be built.
Exhausted ==
    \E i \in enabled_wg_interfaces :
        /\ \E u \in ActiveUsers : peer[i][u] = 0
        /\ allocate_ip(Prefix[i], Taken(i)) = 0

\* No two peers of a running interface share an address, and none has the
\* server's: whatever two calls of ensure_wg_peer read before they insert.
AddressesDistinct ==
    \A n \in Names : \A p, q \in up[n].peers :
        /\ p[2] # server_address
        /\ p # q => p[2] # q[2]

\* A client configuration that was handed out keeps naming the address of its
\* peer as long as the user and the interface exist: ensure_wg_peer returns
\* the row it finds and never allocates a second time.  Nor does another peer
\* of a running interface get that address.
HandedOutHolds ==
    (\A c \in handed : peer[c[1]][c[2]] = c[3]) /\ AddressesDistinct

\* Once the rows and the users stop changing, each enabled interface serves
\* exactly the active users at the addresses of their peers: a user that was
\* added, one that downloaded a configuration before any push, and one that
\* was cut off alike.  Three things stand in the way for good, and the code
\* reports none of them to the master: a pool without a free address fails
\* every spec of the node, a wg-quick that failed is not called again, and of
\* two interfaces with one name (or the port of a renamed one) one stays down.
PeersFollowRows ==
    <>[][FALSE]_rowVars =>
        <>[](\/ Exhausted
             \/ \A i \in enabled_wg_interfaces :
                  \/ name[i] \in stopped
                  \/ up[name[i]] = [iface |-> i, peers |-> Served(i)])

\* The agent runs an interface for rows of wg_interfaces only: the interface
\* of a deleted row is taken down.
DeletedIsDown ==
    \A i \in Ifaces : row[i] = "gone" ~> \A n \in Names : up[n].iface # i

\* The reconcile loop builds the node's spec again and again.
WgSpec == WgInit /\ [][WgNext]_wgVars /\ WF_wgVars(BuildStep)
=============================================================================

-------------------------------- MODULE Fleet --------------------------------
(***************************************************************************)
(* What an administrator's edits owe to the nodes.  A node's specification *)
(* is computed from rows of several tables: its own inbounds, the users    *)
(* that reach it through groups, and the chain credentials of inbounds     *)
(* elsewhere.  Each handler decides for itself which nodes to push, and    *)
(* the handlers of users read that list before they write.                 *)
(*                                                                         *)
(* `owed[n]` says how node n stands after the last edit: "covered" (it was *)
(* pushed since its specification changed, or push_nodes deferred a push), *)
(* "late" (the specification changed through a handler that pushes other   *)
(* nodes only, or the handler's list of nodes was out of date) or          *)
(* "forgotten" (changed and neither).  A node that is late waits for the   *)
(* next round of the reconcile loop.                                       *)
(***************************************************************************)
EXTENDS Naturals, FiniteSets

CONSTANTS Nodes, Groups, DefaultGroup, Users, Inbounds,
          Home,       \* the node of each inbound
          Entry, Exit,\* the inbounds of the one possible chain
          Edits       \* concurrent handlers that edit a user

ASSUME FleetAssumption ==
  Home \in [Inbounds -> Nodes] /\ {Entry, Exit} \subseteq Inbounds

VARIABLES
  serving,    \* nodes enabled and not in maintenance
  groups,     \* groups that exist
  ngroups,    \* node_group_members
  ugroups,    \* user_group_access
  on,         \* inbounds that exist and are enabled
  chained,    \* Entry has Exit as its upstream
  user,       \* [row, active] of each user
  edit,       \* the user handlers in flight
  owed

fleetVars == <<serving, groups, ngroups, ugroups, on, chained, user,
               edit, owed>>
fleetRows == <<serving, groups, ngroups, ugroups, on, chained, user>>

\* A row that does not exist yet ("none") or any more ("gone").
NoRow(word) == [row |-> word, active |-> FALSE]

Live(u) == user[u].row = "live"

------------------------------------------------------------------------------
(* The queries.                                                            *)

Reaches(ng, ug) == ng = {} \/ ng \intersect ug # {}

users_with_node_access(n) ==
  {u \in Users : Live(u) /\ Reaches(ngroups[n], ugroups[u])}

user_node_ids(u) == {n \in Nodes : Reaches(ngroups[n], ugroups[u])}

\* (Without the endpoints withheld as unreachable.)
subscription_endpoints(u) ==
  {i \in on : /\ Home[i] \in serving
                        /\ Reaches(ngroups[Home[i]], ugroups[u])}

endpoint_for_inbound(i) == i \in on /\ Home[i] \in serving

chain_users_for_exit(i) == i = Exit /\ chained /\ Entry \in on

build_chain_outbound(i) == i = Entry /\ chained /\ endpoint_for_inbound(Exit)

\* Mutant: disabled and over-quota users stay in the specification.
ActiveUsers_all(n) == users_with_node_access(n)

\* User::is_active filters the users of the node.
ActiveUsers(n) == {u \in users_with_node_access(n) : user[u].active}

build_node_spec(n) ==
  [i \in {j \in on : Home[j] = n} |->
     [users |-> ActiveUsers(n), hop |-> chain_users_for_exit(i),
      out |-> build_chain_outbound(i)]]

------------------------------------------------------------------------------
(* The effect of an edit on the debt to each node: `pushes` are the nodes  *)
(* the handler hands to push_nodes, `excuse[n]` names the reason, if any,  *)
(* for which it leaves a changed node out.                                 *)
Owe(pushes, excuse) ==
  owed' = [n \in Nodes |->
             IF n \in pushes THEN "covered"
             ELSE IF build_node_spec(n)' = build_node_spec(n) THEN owed[n]
             ELSE excuse[n]]

OwnNode(own) == [n \in Nodes |-> IF n = own THEN "forgotten" ELSE "late"]

Always(word) == [n \in Nodes |-> word]

\* A write that moves a user's reach makes the lists read before it stale.
Stale ==
  edit' = [e \in Edits |->
             IF \E u \in Users : user_node_ids(u)' # user_node_ids(u)
             THEN [edit[e] EXCEPT !.late = edit[e].busy] ELSE edit[e]]

update_node(n) ==
  /\ serving' \in {serving \union {n}, serving \ {n}}
  /\ UNCHANGED <<groups, ngroups, ugroups, on, chained, user>>
  /\ Owe({n}, OwnNode(n)) /\ Stale

\* create_inbound, and update_inbound of `enabled`.
edit_inbound(i) ==
  /\ on' = IF i \in on THEN on \ {i} ELSE on \union {i}
  /\ UNCHANGED <<serving, groups, ngroups, ugroups, chained, user>>
  /\ Owe({Home[i]}, OwnNode(Home[i])) /\ Stale

\* The foreign key sets the upstream of the inbounds that used it to null.
delete_inbound(i) ==
  /\ on' = on \ {i}
  /\ chained' = (chained /\ i \notin {Entry, Exit})
  /\ UNCHANGED <<serving, groups, ngroups, ugroups, user>>
  /\ Owe({Home[i]}, OwnNode(Home[i])) /\ Stale

\* update_inbound of the upstream; the exit's users change as well.
set_upstream ==
  /\ Entry \in on /\ (~chained => Exit \in on)
  /\ chained' = ~chained
  /\ UNCHANGED <<serving, groups, ngroups, ugroups, on, user>>
  /\ Owe({Home[Entry]}, OwnNode(Home[Entry])) /\ Stale

create_group(g) ==
  /\ g \notin groups
  /\ groups' = groups \union {g}
  /\ UNCHANGED <<serving, ngroups, ugroups, on, chained, user, edit, owed>>

(* The memberships go with the group; a node whose last group it was is    *)
(* open to every user.  The handler pushes nothing.                        *)
delete_group(g) ==
  /\ g \in groups \ {DefaultGroup}
  /\ groups' = groups \ {g}
  /\ ngroups' = [n \in Nodes |-> ngroups[n] \ {g}]
  /\ ugroups' = [u \in Users |-> ugroups[u] \ {g}]
  /\ UNCHANGED <<serving, on, chained, user>>
  /\ Owe({}, Always("late")) /\ Stale

set_node_groups(n, gs) ==
  /\ ngroups' = [ngroups EXCEPT ![n] = gs]
  /\ UNCHANGED <<serving, groups, ugroups, on, chained, user>>
  /\ Owe({n}, OwnNode(n)) /\ Stale

------------------------------------------------------------------------------
(* Handlers that edit a user: the list of nodes, then the write and the    *)
(* push.                                                                   *)

EditRead(e, u) ==
  /\ ~edit[e].busy /\ Live(u)
  /\ edit' = [edit EXCEPT ![e] = [busy |-> TRUE, user |-> u,
                                  nodes |-> user_node_ids(u), late |-> FALSE]]
  /\ UNCHANGED <<fleetRows, owed>>

Ended(e) == [edit[e] EXCEPT !.busy = FALSE, !.nodes = {}, !.late = FALSE]

Missed(e) == Always(IF edit[e].late THEN "late" ELSE "forgotten")

\* update_user and reset_user_traffic, as far as they change User::is_active.
update_user(e) ==
  /\ edit[e].busy /\ Live(edit[e].user)
  /\ \E a \in BOOLEAN : user' = [user EXCEPT ![edit[e].user].active = a]
  /\ UNCHANGED <<serving, groups, ngroups, ugroups, on, chained>>
  /\ Owe(edit[e].nodes, Missed(e))
  /\ edit' = [edit EXCEPT ![e] = Ended(e)]

\* The grants are deleted with the row; the row is gone either way.
delete_user(e) ==
  /\ edit[e].busy /\ Live(edit[e].user)
  /\ user' = [user EXCEPT ![edit[e].user] = NoRow("gone")]
  /\ ugroups' = [ugroups EXCEPT ![edit[e].user] = {}]
  /\ UNCHANGED <<serving, groups, ngroups, on, chained>>
  /\ Owe(edit[e].nodes, Missed(e))
  /\ edit' = [edit EXCEPT ![e] = Ended(e)]

\* "user not found": the row went while the handler was reading.
edit_not_found(e) ==
  /\ edit[e].busy /\ ~Live(edit[e].user)
  /\ edit' = [edit EXCEPT ![e] = Ended(e)]
  /\ UNCHANGED <<fleetRows, owed>>

\* The nodes the user reaches once the row is written.
NodesAfter(u) == user_node_ids(u)'

\* Mutant: only the nodes reached before the change are pushed.
GroupTargets_before(e, u) == edit[e].nodes

\* "re-push nodes the user reached before AND after the change"
GroupTargets(e, u) == edit[e].nodes \union NodesAfter(u)

set_user_groups(e, u, gs) ==
  /\ edit[e].busy /\ u = edit[e].user /\ Live(u)
  /\ ugroups' = [ugroups EXCEPT ![u] = gs]
  /\ UNCHANGED <<serving, groups, ngroups, on, chained, user>>
  /\ Owe(GroupTargets(e, u), Missed(e))
  /\ edit' = [f \in Edits |->
                IF f = e THEN Ended(e)
                ELSE IF edit[f].busy /\ edit[f].user = u
                     THEN [edit[f] EXCEPT !.late = TRUE] ELSE edit[f]]

\* The row and its default grant are one transaction.
create_user(u) ==
  /\ user[u].row = "none"
  /\ user' = [user EXCEPT ![u] = [row |-> "live", active |-> TRUE]]
  /\ ugroups' = [ugroups EXCEPT ![u] = {DefaultGroup}]
  /\ UNCHANGED <<serving, groups, ngroups, on, chained, edit>>
  /\ Owe(NodesAfter(u), Always("forgotten"))

\* A round of the reconcile loop pushes every node that changed.
reconcile_push(n) ==
  /\ owed[n] = "late"
  /\ owed' = [owed EXCEPT ![n] = "covered"]
  /\ UNCHANGED <<fleetRows, edit>>

------------------------------------------------------------------------------
FleetInit ==
  /\ serving = Nodes /\ groups = {DefaultGroup}
  /\ ngroups = [n \in Nodes |-> {}] /\ ugroups = [u \in Users |-> {}]
  /\ on = {} /\ chained = FALSE
  /\ user = [u \in Users |-> NoRow("none")]
  /\ edit = [e \in Edits |-> [busy |-> FALSE, user |-> CHOOSE u \in Users : TRUE,
                              nodes |-> {}, late |-> FALSE]]
  /\ owed = [n \in Nodes |-> "covered"]

FleetNext ==
  \/ \E n \in Nodes : update_node(n) \/ reconcile_push(n)
  \/ \E n \in Nodes, gs \in SUBSET groups : set_node_groups(n, gs)
  \/ \E i \in Inbounds : edit_inbound(i) \/ delete_inbound(i)
  \/ set_upstream
  \/ \E g \in Groups : create_group(g) \/ delete_group(g)
  \/ \E u \in Users : create_user(u)
  \/ \E e \in Edits, u \in Users : EditRead(e, u)
  \/ \E e \in Edits : update_user(e) \/ delete_user(e) \/ edit_not_found(e)
  \/ \E e \in Edits, u \in Users, gs \in SUBSET groups : set_user_groups(e, u, gs)

FleetSpec == FleetInit /\ [][FleetNext]_fleetVars

------------------------------------------------------------------------------
(* Every edit that changes a node's specification hands that node to       *)
(* push_nodes, unless it is one of the known gaps: deleting a group, and   *)
(* an edit of one end of a chain that changes the node at the other end.   *)
(* A handler of a user misses a node only if the user's reach moved        *)
(* between its read and its write.                                         *)
NothingForgotten == \A n \in Nodes : owed[n] # "forgotten"

(* An endpoint a subscription offers to an active user is one whose node   *)
(* is told to accept that user: the three queries over the group tables    *)
(* and the filter on users agree.  The specification in turn names no user *)
(* who is not active.  Likewise a hop the entry node is told to use is one *)
(* the exit node is told to accept.                                        *)
OfferedIsServed ==
  /\ \A u \in Users : Live(u) =>
       /\ user[u].active => \A i \in subscription_endpoints(u) :
            u \in build_node_spec(Home[i])[i].users
       /\ ~user[u].active => \A n \in Nodes : \A i \in DOMAIN build_node_spec(n) :
            u \notin build_node_spec(n)[i].users
  /\ \A n \in Nodes : \A i \in DOMAIN build_node_spec(n) :
       build_node_spec(n)[i].out =>
         Exit \in on /\ build_node_spec(Home[Exit])[Exit].hop
==============================================================================

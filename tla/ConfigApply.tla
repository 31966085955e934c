---------------------------- MODULE ConfigApply ----------------------------
(***************************************************************************)
(* The declarative configuration (api config_apply): a document of groups, *)
(* routing profiles and nodes is applied table by table.  Each table is    *)
(* listed once, every entry of the document is created or updated against  *)
(* that list, and rows the document does not name are pruned if asked.     *)
(* There is no transaction around it: administrators edit the same tables  *)
(* between any two statements, and an error leaves what was done so far.   *)
(* Names stand for themselves trimmed and in lower case; the settings of a *)
(* row are one value.                                                      *)
(***************************************************************************)
EXTENDS Naturals, Sequences, FiniteSets

CONSTANTS
    Documents,    \* table -> sequence of entries [name, val, default]
    Starts,       \* table -> set of rows at the start, [id, name, val, default]
    RowNames,     \* names administrators give
    MaxAdminEdits

ApplyOrder == <<"groups", "profiles", "nodes">>
TableKinds == {ApplyOrder[k] : k \in DOMAIN ApplyOrder}

VARIABLES
    rows,       \* table -> set of rows
    run,        \* [pc, doc, prune, dry, at, listed, todo]: the request
    counts,     \* table -> <<created, updated, deleted>> of the answer
    before,     \* the rows when the request came in
    disturbed,  \* an administrator wrote since then
    adminEdits

applyVars == <<rows, run, counts, before, disturbed, adminEdits>>

NoCounts == [k \in TableKinds |-> <<0, 0, 0>>]
NoRun == [pc |-> "idle", doc |-> [k \in TableKinds |-> <<>>], prune |-> FALSE, dry |-> FALSE,
          at |-> 1, listed |-> {}, todo |-> <<>>]

ApplyInit ==
    /\ rows \in Starts
    /\ run = NoRun
    /\ counts = NoCounts
    /\ before = rows
    /\ disturbed = FALSE
    /\ adminEdits = 0

Table == ApplyOrder[run.at]
Named(rs, n) == {r \in rs : r.name = n}
FreshId(k) == 1 + Cardinality({i \in 1 .. 9 : \E r \in rows[k] \cup before[k] : r.id >= i})
Wanted(k) == {run.doc[k][i].name : i \in DOMAIN run.doc[k]}
Row(id, spec) == [id |-> id, name |-> spec.name, val |-> spec.val, default |-> spec.default]
Count(column) == counts' = [counts EXCEPT ![Table][column] = @ + 1]

\* A profile that becomes the default takes it from the others, in the same
\* transaction.
ClearDefault(rs, isDefault) ==
    IF isDefault THEN {[r EXCEPT !.default = FALSE] : r \in rs} ELSE rs

config_apply(doc, prune, dry) ==
    /\ run.pc = "idle"
    /\ run' = [NoRun EXCEPT !.pc = "list", !.doc = doc, !.prune = prune, !.dry = dry]
    /\ counts' = NoCounts
    /\ before' = rows
    /\ disturbed' = FALSE
    /\ UNCHANGED <<rows, adminEdits>>

\* The list that the rest of the table's phase works from.
ListRows ==
    /\ run.pc = "list"
    /\ run' = [run EXCEPT !.pc = "upsert", !.listed = rows[Table], !.todo = run.doc[Table]]
    /\ UNCHANGED <<rows, counts, before, disturbed, adminEdits>>

Fail == run' = [run EXCEPT !.pc = "failed", !.listed = {}, !.todo = <<>>]
NextEntry == run' = [run EXCEPT !.todo = Tail(@)]

create_node_group(spec) == rows["groups"] \cup {[Row(FreshId("groups"), spec) EXCEPT !.default = FALSE]}

create_routing_profile(spec) ==
    ClearDefault(rows["profiles"], spec.default) \cup {Row(FreshId("profiles"), spec)}

create_node(spec) == rows["nodes"] \cup {[Row(FreshId("nodes"), spec) EXCEPT !.default = FALSE]}

Created(spec) ==
    CASE Table = "groups"   -> create_node_group(spec)
      [] Table = "profiles" -> create_routing_profile(spec)
      [] Table = "nodes"    -> create_node(spec)

\* An entry without a row in the list: INSERT, under the table's UNIQUE name.
CreateEntry ==
    LET spec == Head(run.todo)
    IN /\ run.pc = "upsert" /\ run.todo # <<>>
       /\ Named(run.listed, spec.name) = {}
       /\ IF run.dry THEN NextEntry /\ Count(1) /\ UNCHANGED rows
          ELSE IF Named(rows[Table], spec.name) # {} THEN Fail /\ UNCHANGED <<rows, counts>>
          ELSE rows' = [rows EXCEPT ![Table] = Created(spec)] /\ NextEntry /\ Count(1)
       /\ UNCHANGED <<before, disturbed, adminEdits>>

\* Name and default stay.
update_node_group(cur, spec) == {[cur EXCEPT !.val = spec.val]} \cup (rows["groups"] \ {cur})

update_node_row(cur, spec) == {[cur EXCEPT !.val = spec.val]} \cup (rows["nodes"] \ {cur})

\* Mutant: the new default does not replace the old one.
update_routing_profile_two_defaults(cur, spec) == {Row(cur.id, spec)} \cup (rows["profiles"] \ {cur})

update_routing_profile(cur, spec) ==
    {Row(cur.id, spec)} \cup ClearDefault(rows["profiles"] \ {cur}, spec.default)

Updated(cur, spec) ==
    CASE Table = "groups"   -> update_node_group(cur, spec)
      [] Table = "profiles" -> update_routing_profile(cur, spec)
      [] Table = "nodes"    -> update_node_row(cur, spec)

\* Groups are only written when the note differs in the list.
SameNote(listed, spec) == Table = "groups" /\ listed.val = spec.val

\* An entry with a row in the list: UPDATE by id.  A row that has gone since is
\* no error.
UpdateEntry ==
    LET spec == Head(run.todo)
        listed == CHOOSE r \in run.listed : r.name = spec.name
        now == {r \in rows[Table] : r.id = listed.id}
        clash == Table = "profiles" /\ \E r \in rows[Table] \ now : r.name = spec.name
    IN /\ run.pc = "upsert" /\ run.todo # <<>>
       /\ Named(run.listed, spec.name) # {}
       /\ IF SameNote(listed, spec)
          THEN NextEntry /\ UNCHANGED <<rows, counts>>
          ELSE IF run.dry \/ now = {} THEN NextEntry /\ Count(2) /\ UNCHANGED rows
          ELSE IF clash THEN Fail /\ UNCHANGED <<rows, counts>>
          ELSE /\ rows' = [rows EXCEPT ![Table] = Updated(CHOOSE r \in now : TRUE, spec)]
               /\ NextEntry
               /\ Count(2)
       /\ UNCHANGED <<before, disturbed, adminEdits>>

\* Rows the document does not name; nodes have no default.
Extra(k) == {r \in run.listed : ~r.default /\ r.name \notin Wanted(k)}

\* delete_node_group looks at is_default again; the other two do not.
delete_node_group(id) == {r \in rows["groups"] : r.id # id \/ r.default}

DeletedRow(id) == {r \in rows[Table] : r.id # id}

PruneRow(r) ==
    /\ run.pc = "upsert" /\ run.todo = <<>> /\ run.prune
    /\ r \in Extra(Table)
    /\ rows' = IF run.dry THEN rows
               ELSE [rows EXCEPT ![Table] = IF Table = "groups" THEN delete_node_group(r.id)
                                            ELSE DeletedRow(r.id)]
    /\ run' = [run EXCEPT !.listed = @ \ {r}]
    /\ Count(3)
    /\ UNCHANGED <<before, disturbed, adminEdits>>

EndTable ==
    /\ run.pc = "upsert" /\ run.todo = <<>>
    /\ run.prune => Extra(Table) = {}
    /\ run' = IF run.at < Len(ApplyOrder)
              THEN [run EXCEPT !.pc = "list", !.at = @ + 1, !.listed = {}]
              ELSE [run EXCEPT !.pc = "done", !.listed = {}]
    /\ UNCHANGED <<rows, counts, before, disturbed, adminEdits>>

Answered ==
    /\ run.pc \in {"done", "failed"}
    /\ run' = NoRun
    /\ counts' = NoCounts
    /\ before' = rows
    /\ disturbed' = FALSE
    /\ UNCHANGED <<rows, adminEdits>>

AdminWrites ==
    /\ adminEdits < MaxAdminEdits
    /\ adminEdits' = adminEdits + 1
    /\ disturbed' = TRUE
    /\ UNCHANGED <<run, counts, before>>

\* The panel's own handlers on the same tables.
create_row(k, n) ==
    /\ AdminWrites
    /\ Named(rows[k], n) = {}
    /\ \E d \in IF k = "profiles" THEN BOOLEAN ELSE {FALSE} :
        rows' = [rows EXCEPT ![k] = ClearDefault(@, d)
                                    \cup {[id |-> FreshId(k), name |-> n, val |-> 0, default |-> d]}]

rename_row(k, r, n) ==
    /\ AdminWrites
    /\ Named(rows[k], n) = {}
    /\ rows' = [rows EXCEPT ![k] = (@ \ {r}) \cup {[r EXCEPT !.name = n]}]

delete_row(k, r) ==
    /\ AdminWrites
    /\ k = "groups" => ~r.default
    /\ rows' = [rows EXCEPT ![k] = @ \ {r}]

ApplyNext ==
    \/ \E d \in Documents, prune, dry \in BOOLEAN : config_apply(d, prune, dry)
    \/ ListRows \/ CreateEntry \/ UpdateEntry \/ EndTable \/ Answered
    \/ \E r \in run.listed : PruneRow(r)
    \/ \E k \in TableKinds, n \in RowNames : create_row(k, n)
    \/ \E k \in TableKinds, n \in RowNames : \E r \in rows[k] : rename_row(k, r, n)
    \/ \E k \in TableKinds : \E r \in rows[k] : delete_row(k, r)

ApplySpec == ApplyInit /\ [][ApplyNext]_applyVars

(***************************************************************************)
(* What the document asks for, table by table.                             *)
(***************************************************************************)
LastEntry(k, n) ==
    CHOOSE i \in DOMAIN run.doc[k] :
        run.doc[k][i].name = n /\ \A j \in DOMAIN run.doc[k] : run.doc[k][j].name = n => j <= i

Survivors(k) ==
    {r \in before[k] : r.name \notin Wanted(k) /\ (run.prune => r.default)}

DefaultAfter(k, i) == \E j \in DOMAIN run.doc[k] : j > i /\ run.doc[k][j].default

IsDefault(k, n) ==
    CASE k = "profiles" /\ n \in Wanted(k) ->
            run.doc[k][LastEntry(k, n)].default /\ ~DefaultAfter(k, LastEntry(k, n))
      [] k = "profiles" /\ n \notin Wanted(k) ->
            (\E r \in before[k] : r.name = n /\ r.default) /\ ~DefaultAfter(k, 0)
      [] OTHER -> \E r \in before[k] : r.name = n /\ r.default

Asked(k) ==
    {<<n, run.doc[k][LastEntry(k, n)].val, IsDefault(k, n)>> : n \in Wanted(k)}
        \cup {<<r.name, r.val, IsDefault(k, r.name)>> : r \in Survivors(k)}

\* An apply that nobody disturbed and that reports success has made the tables
\* what the document asks for: every entry is there with its settings, what
\* is not named is gone if it was to be pruned, the profile the document makes
\* the default is the only one, and a default the document does not name
\* outlives the prune, its default lost to the new one or not.
AppliedIsAsked ==
    run.pc = "done" /\ ~run.dry /\ ~disturbed =>
        \A k \in TableKinds : {<<r.name, r.val, r.default>> : r \in rows[k]} = Asked(k)

\* A dry run announces what an apply would do: undisturbed, its counts are the
\* differences between the tables and the document, and those of a successful
\* apply are the same.
PlanIsTrue ==
    run.pc = "done" /\ ~disturbed =>
        \A k \in TableKinds :
            LET known == {r.name : r \in before[k]}
                entries(P(_)) == Cardinality({i \in DOMAIN run.doc[k] : P(run.doc[k][i])})
            IN counts[k] =
                 <<entries(LAMBDA e : e.name \notin known),
                   entries(LAMBDA e : \E r \in before[k] :
                               r.name = e.name /\ (k = "groups" => r.val # e.val)),
                   IF run.prune
                   THEN Cardinality({r \in before[k] : ~r.default /\ r.name \notin Wanted(k)})
                   ELSE 0>>
=============================================================================

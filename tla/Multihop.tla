------------------------------ MODULE Multihop ------------------------------
(***************************************************************************)
(* The graph of chained inbounds.  An inbound may name another one as the  *)
(* upstream its traffic leaves through.  update_inbound validates a new    *)
(* upstream by walking the chain from it, and writes the row in a later    *)
(* query; revert_inbound writes an older version of the row back without   *)
(* that walk.                                                              *)
(***************************************************************************)
EXTENDS Naturals, Sequences

CONSTANTS Chainables,  \* the inbounds that may ever exist
          Handlers,    \* concurrent update_inbound requests
          NoUpstream,
          MaxWalk,     \* hops that validate_upstream follows (8)
          Keep,        \* versions kept of an entity (20)
          MaxWrites    \* bound on the writes of a behaviour

ASSUME HopAssumption ==
  /\ NoUpstream \notin Chainables
  /\ MaxWalk \in Nat \ {0} /\ Keep \in Nat \ {0} /\ MaxWrites \in Nat

VARIABLES
  inb,       \* the rows: [up, sb, cred], by inbound; cred 0 is null
  versions,  \* the snapshots of each inbound, oldest first
  pending,   \* the validated updates that are not written yet
  writes,
  excused    \* an update was overtaken, or a version reverted

hopVars == <<inb, versions, pending, writes, excused>>

NoUpdate == [id |-> NoUpstream, up |-> NoUpstream]

Exists(x) == x \in DOMAIN inb

------------------------------------------------------------------------------
(* validate_upstream.                                                      *)

\* The inbounds the walk comes to from x, NoUpstream behind the last one.
Walk(x) ==
  LET hop[n \in 0 .. MaxWalk] ==
        IF n = 0 THEN inb[x].up
        ELSE IF hop[n - 1] = NoUpstream THEN NoUpstream ELSE inb[hop[n - 1]].up
  IN  hop

\* Mutant: the walk gives up quietly on a chain that is too deep.
LeadsBackOrTooDeep_quiet(self, x) == \E n \in 0 .. MaxWalk - 1 : Walk(x)[n] = self

LeadsBackOrTooDeep(self, x) ==
  \/ \E n \in 0 .. MaxWalk - 1 : Walk(x)[n] = self
  \/ Walk(x)[MaxWalk] # NoUpstream

ValidExit(x) == Exists(x) /\ inb[x].sb

validate_upstream(self, x) ==
  /\ inb[self].sb /\ x # self /\ ValidExit(x)
  /\ ~LeadsBackOrTooDeep(self, x)

------------------------------------------------------------------------------
(* The rows and their history.                                             *)

\* Mutant: an inbound that has a credential keeps it for its next exit.
chain_credential_kept(old, up) == IF up = NoUpstream THEN 0
                                  ELSE IF old # 0 THEN old ELSE writes + 1

\* A fresh credential, or none; the one the row had plays no part.
chain_credential(old, up) == IF up = NoUpstream THEN 0 ELSE writes + 1

\* capture_version and record_entity_version; secrets are not in a snapshot.
capture_version(x, row) ==
  LET seq == Append(versions[x], [up |-> row.up, sb |-> row.sb])
  IN  versions' = [versions EXCEPT ![x] =
                     IF Len(seq) > Keep THEN Tail(seq) ELSE seq]

\* Updates that were validated before this write of the graph.
Overtaken(h) == \E g \in Handlers \ {h} : pending[g] # NoUpdate

Written == writes' = writes + 1

create_chainable(x, up, sb) ==
  /\ writes < MaxWrites /\ ~Exists(x) /\ versions[x] = << >>
  /\ up # NoUpstream => sb /\ ValidExit(up)
  /\ LET row == [up |-> up, sb |-> sb, cred |-> chain_credential(0, up)]
     IN  /\ inb' = [y \in DOMAIN inb \union {x} |-> IF y = x THEN row ELSE inb[y]]
         /\ capture_version(x, row)
  /\ Written /\ UNCHANGED <<pending, excused>>

\* update_inbound with an upstream: up to the end of the walk.
update_validate(h, x, up) ==
  /\ writes < MaxWrites /\ pending[h] = NoUpdate /\ Exists(x)
  /\ validate_upstream(x, up)
  /\ pending' = [pending EXCEPT ![h] = [id |-> x, up |-> up]]
  /\ UNCHANGED <<inb, versions, writes, excused>>

\* The write fails when the row or its upstream went in the meantime.
update_write(h) ==
  LET p == pending[h]
  IN  /\ p # NoUpdate
      /\ pending' = [pending EXCEPT ![h] = NoUpdate]
      /\ IF Exists(p.id) /\ Exists(p.up)
         THEN LET row == [inb[p.id] EXCEPT !.up = p.up,
                            !.cred = chain_credential(inb[p.id].cred, p.up)]
              IN  /\ inb' = [inb EXCEPT ![p.id] = row]
                  /\ capture_version(p.id, row)
                  /\ excused' = (excused \/ Overtaken(h))
                  /\ Written
         ELSE UNCHANGED <<inb, versions, excused, writes>>

\* update_inbound of the core alone looks at no upstream.
update_core(x) ==
  /\ writes < MaxWrites /\ Exists(x)
  /\ LET row == [inb[x] EXCEPT !.sb = ~inb[x].sb]
     IN  inb' = [inb EXCEPT ![x] = row] /\ capture_version(x, row)
  /\ Written /\ UNCHANGED <<pending, excused>>

\* update_inbound with an explicit null.
update_unchain(x) ==
  /\ writes < MaxWrites /\ Exists(x) /\ inb[x].up # NoUpstream
  /\ LET row == [inb[x] EXCEPT !.up = NoUpstream, !.cred = 0]
     IN  inb' = [inb EXCEPT ![x] = row] /\ capture_version(x, row)
  /\ Written /\ UNCHANGED <<pending, excused>>

\* The foreign key nulls the upstream of others, and only that column.
delete_chainable(x) ==
  /\ writes < MaxWrites /\ Exists(x)
  /\ inb' = [y \in DOMAIN inb \ {x} |->
               IF inb[y].up = x THEN [inb[y] EXCEPT !.up = NoUpstream] ELSE inb[y]]
  /\ Written /\ UNCHANGED <<versions, pending, excused>>

\* A snapshot names its upstream always, so the credential is made anew.
revert_inbound(x, i) ==
  /\ writes < MaxWrites /\ Exists(x)
  /\ LET v == versions[x][i]
         row == [up |-> v.up, sb |-> v.sb, cred |-> chain_credential(inb[x].cred, v.up)]
     IN  /\ v.up = NoUpstream \/ Exists(v.up)
         /\ inb' = [inb EXCEPT ![x] = row]
         /\ capture_version(x, row)
         /\ excused' = (excused \/ v.up \notin {NoUpstream, inb[x].up})
  /\ Written /\ UNCHANGED pending

------------------------------------------------------------------------------
HopInit ==
  /\ inb = << >> /\ versions = [x \in Chainables |-> << >>]
  /\ pending = [h \in Handlers |-> NoUpdate] /\ writes = 0 /\ excused = FALSE

HopNext ==
  \/ \E x \in Chainables, up \in Chainables \union {NoUpstream}, sb \in BOOLEAN :
       create_chainable(x, up, sb)
  \/ \E h \in Handlers, x, up \in Chainables : update_validate(h, x, up)
  \/ \E h \in Handlers : update_write(h)
  \/ \E x \in Chainables : update_core(x) \/ update_unchain(x) \/ delete_chainable(x)
  \/ \E x \in Chainables : \E i \in DOMAIN versions[x] : revert_inbound(x, i)

HopSpec == HopInit /\ [][HopNext]_hopVars

------------------------------------------------------------------------------
Loop == \E S \in SUBSET DOMAIN inb : S # {} /\ \A x \in S : inb[x].up \in S

(* The walk of validate_upstream keeps traffic from going round in a       *)
(* circle, however long the chain and although it follows a bounded number *)
(* of hops: the chains have no loop unless an update was overtaken by      *)
(* another between its walk and its write, or a version was reverted.      *)
NoChainLoop == ~excused => ~Loop

(* An inbound with an upstream has a credential for it: a patch of other   *)
(* columns, the deletion of an exit and a revert leave the two columns in  *)
(* step.                                                                   *)
HopHasCredential == \A x \in DOMAIN inb : inb[x].up # NoUpstream => inb[x].cred # 0

(* A chain credential is never presented to two exits: while an inbound    *)
(* keeps its credential it keeps its exit or has none.                     *)
CredentialOfOneExit ==
  [][\A x \in DOMAIN inb \intersect DOMAIN inb' :
       inb[x].cred # 0 /\ inb'[x].cred = inb[x].cred
         => inb'[x].up \in {inb[x].up, NoUpstream}]_hopVars

(* docs/multihop.md: "An inbound cannot chain to itself, and a direct      *)
(* two-node cycle (A->B while B->A) is rejected."                          *)
TwoNodeCycleRejected ==
  ~\E x, y \in DOMAIN inb : inb[x].up = y /\ inb[y].up = x
==============================================================================

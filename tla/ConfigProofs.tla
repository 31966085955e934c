---------------------------- MODULE ConfigProofs ----------------------------
(***************************************************************************)
(* The audit chain, chains of nodes, the reach of a user and the WireGuard *)
(* peers, for every value of the constants.                                *)
(***************************************************************************)
EXTENDS AuditChain, Multihop, Reach, WireGuard, WellFoundedInduction, TLAPS

\* Every set of naturals that has an element has a least one.
LEMMA LeastNat == ASSUME NEW S \in SUBSET Nat, S # {} PROVE \E m \in S : \A k \in S : m <= k
  <1> DEFINE R == OpToRel(<, Nat)
  <1>1. IsWellFoundedOn(R, Nat)
    BY NatLessThanWellFounded, Zenon
  <1>r. \A k, m \in Nat : <<k, m>> \in R <=> k < m
    BY Zenon DEF OpToRel
  <1> HIDE DEF R
  <1>2. PICK m \in S : \A k \in S : ~ (<<k, m>> \in R)
    BY <1>1, WFMin, Zenon
  <1>3. ASSUME NEW k \in S PROVE m <= k
    <2>1. k \in Nat /\ m \in Nat
      BY Zenon
    <2>2. ~ (k < m)
      BY <1>2, <1>r, <2>1, Zenon
    <2> QED BY <2>1, <2>2
  <1> QED BY <1>3, Zenon

-----------------------------------------------------------------------------
(* The audit chain verifies at every moment, for any number of writers. *)

\* Whoever is inside its transaction holds the lock and has read the hash of
\* the row that is still the newest; the id it drew is above every committed one.
Insider(w) ==
    /\ lock = w
    /\ tx[w].prev = LastHash
    /\ tx[w].pc = "stamp" => /\ tx[w].id \in 1 .. seqId
                             /\ \A i \in DOMAIN log : i < tx[w].id

\* The inductive invariant.
ChainInv ==
    /\ seqId \in Nat
    /\ DOMAIN log \subseteq 1 .. seqId
    /\ tx = [w \in Writers |-> tx[w]]
    /\ \A w \in Writers : tx[w] # NoTx => Insider(w)
    /\ ChainIntact

\* The newest row exists: a set of ids that is bounded and not empty has a maximum.
LEMMA HasMax ==
    ASSUME NEW k \in Nat, NEW S \in SUBSET (1 .. k), S # {}
    PROVE  Max(S) \in S
  <1> DEFINE T == {k - x : x \in S}
  <1>2. T \subseteq Nat /\ T # {}
    <2>1. \A x \in S : k - x \in Nat
      OBVIOUS
    <2>2. PICK x \in S : TRUE
      BY Zenon
    <2>3. k - x \in T
      BY <2>2, Zenon
    <2> QED BY <2>1, <2>3, Zenon
  <1>4. PICK t \in T : \A y \in T : t <= y
    BY <1>2, LeastNat, Zenon
  <1>5. PICK x \in S : t = k - x
    BY <1>4, Zenon
  <1>6. ASSUME NEW y \in S PROVE x >= y
    <2>1. t <= k - y
      BY <1>4, Zenon
    <2>2. x \in Nat /\ y \in Nat
      OBVIOUS
    <2> HIDE DEF T
    <2> QED BY <1>5, <2>1, <2>2
  <1> QED BY <1>5, <1>6, Zenon DEF Max

\* The chain starts with the rows from before it, which carry no hash.
LEMMA ChainStart == AuditInit => ChainInv
  BY LegacyAssumption, Zenon DEF AuditInit, ChainInv, ChainIntact, verify_audit_chain

\* Only the holder of the lock is inside a transaction.
LEMMA OneInside == ASSUME ChainInv, NEW w \in Writers, NEW v \in Writers,
                          tx[w] # NoTx, tx[v] # NoTx
                   PROVE  v = w
  BY Zenon DEF ChainInv, Insider

\* What a verifier expects of a row depends on the rows before it only.
LEMMA CommitExtends ==
    ASSUME ChainInv, NEW w \in Writers, AuditCommit(w)
    PROVE  ChainIntact'
  <1>0. PICK n : n = tx[w].id
    BY Zenon
  <1>1. tx[w] # NoTx /\ tx[w].pc = "stamp"
    BY DEF AuditCommit, NoTx
  <1>2. n \in 1 .. seqId /\ (\A i \in DOMAIN log : i < n) /\ tx[w].prev = LastHash
    BY <1>0, <1>1, Zenon DEF ChainInv, Insider
  <1>3. /\ DOMAIN log' = DOMAIN log \cup {n}
        /\ log'[n] = [id |-> n, prev |-> tx[w].prev.id]
        /\ \A i \in DOMAIN log : log'[i] = log[i]
    BY <1>0, <1>2 DEF AuditCommit, ChainInv
  <1>4. \A i \in DOMAIN log \cup {n} : {j \in DOMAIN log' : j < i} = {j \in DOMAIN log : j < i}
    BY <1>2, <1>3 DEF ChainInv
  <1>5. ASSUME NEW i \in DOMAIN log \cup {n}
        PROVE  Expected(i)' = [id |-> i, prev |-> IF {j \in DOMAIN log : j < i} = {} THEN 0
                                                  ELSE log[Max({j \in DOMAIN log : j < i})].id]
    <2> DEFINE before == {j \in DOMAIN log : j < i}
    <2>1. CASE before = {}
      BY <1>4, <2>1, Zenon DEF Expected
    <2>2. CASE before # {}
      <3>1. before \in SUBSET (1 .. seqId) /\ seqId \in Nat
        BY Zenon DEF ChainInv
      <3>2. Max(before) \in before
        BY <2>2, <3>1, HasMax, Zenon
      <3>3. log'[Max(before)] = log[Max(before)]
        BY <1>3, <3>2, Zenon
      <3> HIDE DEF before
      <3>4. Expected(i)' = [id |-> i, prev |-> log'[Max(before)].id]
        BY <1>4, <2>2, Zenon DEF Expected, before
      <3> QED BY <2>2, <3>3, <3>4, Zenon DEF before
    <2> QED BY <2>1, <2>2, Zenon
  <1>6. ASSUME NEW i \in DOMAIN log, log'[i] # NoHash PROVE log'[i] = Expected(i)'
    <2>1. log[i] = Expected(i)
      BY <1>3, <1>6, Zenon DEF ChainInv, ChainIntact, verify_audit_chain
    <2> QED BY <1>3, <1>5, <2>1, Zenon DEF Expected
  <1>7. log'[n] = Expected(n)'
    <2>1. {j \in DOMAIN log : j < n} = DOMAIN log
      BY <1>2, Zenon
    <2>2. LastHash.id = IF DOMAIN log = {} THEN 0 ELSE log[Max(DOMAIN log)].id
      BY Zenon DEF LastHash, NoHash
    <2>3. Expected(n)' = [id |-> n, prev |-> LastHash.id]
      BY <1>5, <2>1, <2>2, Zenon
    <2> QED BY <1>2, <1>3, <2>3, Zenon
  <1> QED BY <1>3, <1>6, <1>7, Zenon DEF ChainIntact, verify_audit_chain

\* Every step of a writer keeps the invariant.
LEMMA ChainStep == ChainInv /\ [AuditNext]_auditVars => ChainInv'
  <1> SUFFICES ASSUME ChainInv, [AuditNext]_auditVars PROVE ChainInv'
    BY Zenon
  <1>0. ASSUME UNCHANGED log PROVE ChainIntact' /\ LastHash' = LastHash
    BY <1>0, Zenon DEF ChainInv, ChainIntact, verify_audit_chain, Expected, LastHash
  <1>1. ASSUME NEW w \in Writers, AuditBegin(w) PROVE ChainInv'
    <2>1. \A v \in Writers : tx[v] = NoTx
      BY <1>1, WritersAssumption, Zenon DEF AuditBegin, ChainInv, Insider
    <2> QED BY <1>0, <1>1, <2>1, Zenon DEF AuditBegin, ChainInv, Insider
  <1>2. ASSUME NEW w \in Writers, AuditInsert(w) PROVE ChainInv'
    <2>1. tx[w] # NoTx
      BY <1>2 DEF AuditInsert, NoTx
    <2>2. \A v \in Writers \ {w} : tx[v] = NoTx
      BY <2>1, OneInside, Zenon
    <2> QED BY <1>0, <1>2, <2>1, <2>2 DEF AuditInsert, ChainInv, Insider
  <1>3. ASSUME NEW w \in Writers, AuditCommit(w) PROVE ChainInv'
    <2>1. tx[w] # NoTx /\ tx[w].pc = "stamp"
      BY <1>3 DEF AuditCommit, NoTx
    <2>2. \A v \in Writers \ {w} : tx[v] = NoTx
      BY <2>1, OneInside, Zenon
    <2>3. ChainIntact'
      BY <1>3, CommitExtends, Zenon
    <2> QED BY <1>3, <2>1, <2>2, <2>3, Zenon DEF AuditCommit, ChainInv, Insider
  <1>4. ASSUME NEW w \in Writers, AuditAbort(w) PROVE ChainInv'
    <2>1. \A v \in Writers \ {w} : tx[v] = NoTx
      BY <1>4, OneInside, Zenon DEF AuditAbort
    <2> QED BY <1>0, <1>4, <2>1, Zenon DEF AuditAbort, ChainInv, Insider
  <1>5. CASE UNCHANGED auditVars
    BY <1>0, <1>5, Zenon DEF auditVars, ChainInv, Insider
  <1> QED BY <1>1, <1>2, <1>3, <1>4, <1>5, Zenon DEF AuditNext

\* GET /audit/verify finds the chain intact at every moment, for any number of
\* concurrent writers and of events: the lock makes reading the newest hash
\* and committing the next row one step (repo.rs record_audit).
THEOREM ChainAlwaysVerifies == AuditSpec => []ChainIntact
  <1>1. ChainInv => ChainIntact
    BY Zenon DEF ChainInv
  <1> QED BY <1>1, ChainStart, ChainStep, PTL DEF AuditSpec

-----------------------------------------------------------------------------
(* The upstream relation has no loop, whatever the edits. *)

\* The step of the walk, applied to the walk so far.
NextHop(x, w, n) ==
    IF n = 0 THEN inb[x].up
    ELSE IF w[n - 1] = NoUpstream THEN NoUpstream ELSE inb[w[n - 1]].up

\* w is the walk from x over m hops.
IsWalk(x, m, w) == w = [n \in 0 .. m |-> NextHop(x, w, n)]

\* There is a walk of every length.
LEMMA WalkExists == \A x : \A m \in Nat : \E w : IsWalk(x, m, w)
  <1> SUFFICES ASSUME NEW x PROVE \A m \in Nat : \E w : IsWalk(x, m, w)
    BY Zenon
  <1> DEFINE bad == {m \in Nat : ~\E w : IsWalk(x, m, w)}
  <1> SUFFICES ASSUME bad # {} PROVE FALSE
    BY Zenon
  <1>1. PICK m \in bad : \A k \in bad : m <= k
    <2> bad \in SUBSET Nat
      BY Zenon
    <2> HIDE DEF bad
    <2> QED BY LeastNat, Zenon
  <1>2. m \in Nat /\ ~\E w : IsWalk(x, m, w)
    BY Zenon
  <1>3. CASE m = 0
    <2> DEFINE v == [n \in 0 .. 0 |-> inb[x].up]
    <2>1. IsWalk(x, 0, v)
      BY DEF IsWalk, NextHop
    <2> QED BY <1>2, <1>3, <2>1, Zenon
  <1>4. CASE m # 0
    <2>0. m - 1 \in Nat /\ m - 1 \notin bad
      BY <1>1, <1>2, <1>4
    <2>1. PICK w : IsWalk(x, m - 1, w)
      BY <2>0, Zenon
    <2> DEFINE v == [n \in 0 .. m |-> IF n = m THEN NextHop(x, w, m) ELSE w[n]]
    <2>2. \A n \in 0 .. m - 1 : v[n] = w[n]
      BY <1>2
    <2>3. \A n \in 0 .. m - 1 : w[n] = NextHop(x, w, n)
      BY <2>1, Zenon DEF IsWalk
    <2>4. \A n \in 0 .. m : n # 0 => n - 1 \in 0 .. m - 1
      BY <1>2
    <2>5. \A n \in 0 .. m : NextHop(x, v, n) = NextHop(x, w, n)
      BY <2>2, <2>4, SMTT(40) DEF NextHop
    <2>6. \A n \in 0 .. m : v[n] = NextHop(x, v, n)
      <3> SUFFICES ASSUME NEW n \in 0 .. m PROVE v[n] = NextHop(x, v, n)
        BY Zenon
      <3>1. CASE n = m
        BY <2>5, <3>1, Zenon
      <3>2. CASE n # m
        <4>1. n \in 0 .. m - 1
          BY <1>2, <3>2
        <4> QED BY <2>2, <2>3, <2>5, <4>1, Zenon
      <3> QED BY <3>1, <3>2, Zenon
    <2>7. v = [n \in 0 .. m |-> NextHop(x, v, n)]
      <3>1. v = [n \in 0 .. m |-> v[n]]
        BY Zenon
      <3> HIDE DEF v
      <3> QED BY <2>6, <3>1, Zenon
    <2>8. IsWalk(x, m, v)
      BY <2>7, Zenon DEF IsWalk
    <2> QED BY <1>2, <2>8, Zenon
  <1> QED BY <1>3, <1>4, Zenon

\* Walk is that walk.
LEMMA WalkIsWalk == \A x : IsWalk(x, MaxWalk, Walk(x))
  <1> SUFFICES ASSUME NEW x PROVE IsWalk(x, MaxWalk, Walk(x))
    BY Zenon
  <1>1. Walk(x) = CHOOSE w : w = [n \in 0 .. MaxWalk |-> NextHop(x, w, n)]
    BY Zenon DEF Walk, NextHop
  <1>2. \E w : w = [n \in 0 .. MaxWalk |-> NextHop(x, w, n)]
    BY WalkExists, HopAssumption, Zenon DEF IsWalk
  <1> QED BY <1>1, <1>2, Zenon DEF IsWalk

HopRow == [up : Chainables \cup {NoUpstream}, sb : BOOLEAN, cred : Nat]

HopTypeOK ==
    /\ DOMAIN inb \subseteq Chainables /\ inb \in [DOMAIN inb -> HopRow]
    /\ versions \in [Chainables -> Seq([up : Chainables \cup {NoUpstream}, sb : BOOLEAN])]
    /\ pending \in [Handlers -> [id : Chainables, up : Chainables] \cup {NoUpdate}]
    /\ writes \in Nat
    /\ excused \in BOOLEAN

\* An edge from x to dest would close no circle: no set of inbounds that holds
\* both is closed under the upstreams of its members other than x.
OpensNoLoop(g, x, dest) ==
    ~\E S \in SUBSET DOMAIN g : x \in S /\ dest \in S /\ \A y \in S \ {x} : g[y].up \in S

Looped(g) == \E S \in SUBSET DOMAIN g : S # {} /\ \A x \in S : g[x].up \in S

\* The inductive invariant: upstreams exist (the foreign key), an inbound that
\* exists or was validated has a version, credentials are older than the next
\* one, and an update that waits for its write is still good to write.
HopInv ==
    /\ HopTypeOK
    /\ \A x \in DOMAIN inb :
         /\ inb[x].up \in DOMAIN inb \cup {NoUpstream}
         /\ inb[x].cred <= writes
         /\ versions[x] # << >>
    /\ \A h \in Handlers : pending[h] # NoUpdate =>
         versions[pending[h].id] # << >> /\ versions[pending[h].up] # << >>
    /\ ~excused =>
         /\ ~Looped(inb)
         /\ \A h \in Handlers :
              pending[h] # NoUpdate /\ Exists(pending[h].id) /\ Exists(pending[h].up)
                => OpensNoLoop(inb, pending[h].id, pending[h].up)

\* The walk of validate_upstream is long enough: an edge it lets through opens
\* no loop, although it follows MaxWalk hops only.
LEMMA WalkSuffices ==
    ASSUME HopInv, NEW self \in DOMAIN inb, NEW x \in DOMAIN inb, validate_upstream(self, x)
    PROVE  OpensNoLoop(inb, self, x)
  <1> SUFFICES ASSUME NEW S \in SUBSET DOMAIN inb, self \in S, x \in S,
                      \A y \in S \ {self} : inb[y].up \in S
               PROVE  FALSE
    BY Zenon DEF OpensNoLoop
  <1> DEFINE w == Walk(x)
  <1>0. MaxWalk \in Nat \ {0} /\ x # self /\ NoUpstream \notin S
    BY HopAssumption, Zenon DEF validate_upstream, HopInv, HopTypeOK
  <1>1. (\A n \in 0 .. MaxWalk - 1 : w[n] # self) /\ w[MaxWalk] = NoUpstream
    BY Zenon DEF validate_upstream, LeadsBackOrTooDeep
  <1>2. \A n \in 0 .. MaxWalk : w[n] = NextHop(x, w, n)
    <2>1. w = [n \in 0 .. MaxWalk |-> NextHop(x, w, n)]
      BY WalkIsWalk, Zenon DEF IsWalk
    <2> HIDE DEF w
    <2> QED BY <2>1, Zenon
  <1> HIDE DEF w
  <1> DEFINE out == {n \in 0 .. MaxWalk : w[n] \notin S}
  <1>3. MaxWalk \in out /\ out \in SUBSET Nat
    BY <1>0, <1>1
  <1>4. PICK m \in out : \A k \in out : m <= k
    <2> HIDE DEF out
    <2> QED BY <1>3, LeastNat, Zenon
  <1>5. CASE m = 0
    <2>1. w[0] = inb[x].up
      BY <1>0, <1>2 DEF NextHop
    <2> QED BY <1>0, <1>4, <1>5, <2>1, Zenon
  <1>6. CASE m # 0
    <2>1. m \in 0 .. MaxWalk /\ m - 1 \in 0 .. MaxWalk - 1 /\ m - 1 \notin out
      BY <1>0, <1>4, <1>6
    <2>2. w[m - 1] \in S \ {self}
      BY <1>0, <1>1, <2>1
    <2>3. w[m] = inb[w[m - 1]].up
      BY <1>0, <1>2, <1>6, <2>1, <2>2, Zenon DEF NextHop
    <2> QED BY <1>4, <2>2, <2>3, Zenon
  <1> QED BY <1>5, <1>6, Zenon

\* Fewer inbounds and fewer edges close no circle.
LEMMA GraphShrinks ==
    ASSUME NEW g, NEW f, NoUpstream \notin DOMAIN g, DOMAIN f \subseteq DOMAIN g,
           \A y \in DOMAIN f : f[y].up \in {g[y].up, NoUpstream}
    PROVE  /\ Looped(f) => Looped(g)
           /\ \A x, dest : OpensNoLoop(g, x, dest) => OpensNoLoop(f, x, dest)
  <1>1. \A S \in SUBSET DOMAIN f : \A y \in S : f[y].up \in S => g[y].up \in S
    BY Zenon
  <1>2. Looped(f) => Looped(g)
    BY <1>1, Zenon DEF Looped
  <1>3. \A x, dest : OpensNoLoop(g, x, dest) => OpensNoLoop(f, x, dest)
    <2> SUFFICES ASSUME NEW x, NEW dest, ~OpensNoLoop(f, x, dest)
                 PROVE  ~OpensNoLoop(g, x, dest)
      BY Zenon
    <2>0. PICK S \in SUBSET DOMAIN f : x \in S /\ dest \in S /\ \A y \in S \ {x} : f[y].up \in S
      BY Zenon DEF OpensNoLoop
    <2>1. S \in SUBSET DOMAIN g /\ \A y \in S \ {x} : g[y].up \in S
      BY <1>1, <2>0, Zenon
    <2> QED BY <2>0, <2>1, Zenon DEF OpensNoLoop
  <1> QED BY <1>2, <1>3, Zenon

\* Nor does a new inbound, which nobody can have as upstream yet.
LEMMA GraphGrows ==
    ASSUME NEW g, NEW f, NEW z, z \notin DOMAIN g, DOMAIN f = DOMAIN g \cup {z},
           NoUpstream \notin DOMAIN f, f[z].up \in DOMAIN g \cup {NoUpstream},
           \A y \in DOMAIN g : f[y].up = g[y].up /\ g[y].up \in DOMAIN g \cup {NoUpstream}
    PROVE  /\ Looped(f) => Looped(g)
           /\ \A x, dest \in DOMAIN g : OpensNoLoop(g, x, dest) => OpensNoLoop(f, x, dest)
  <1>1. \A S \in SUBSET DOMAIN f : \A y \in S \ {z} : f[y].up \in S => g[y].up \in S \ {z}
    BY Zenon
  <1>2. ASSUME NEW S \in SUBSET DOMAIN f, S # {}, \A x \in S : f[x].up \in S PROVE Looped(g)
    <2> DEFINE T == S \ {z}
    <2>1. T \in SUBSET DOMAIN g /\ \A x \in T : g[x].up \in T
      BY <1>1, <1>2, Zenon
    <2>2. T # {}
      BY <1>2
    <2> QED BY <2>1, <2>2, Zenon DEF Looped
  <1>3. ASSUME NEW x \in DOMAIN g, NEW dest \in DOMAIN g, NEW S \in SUBSET DOMAIN f, x \in S, dest \in S,
               \A y \in S \ {x} : f[y].up \in S
        PROVE  ~OpensNoLoop(g, x, dest)
    <2> DEFINE T == S \ {z}
    <2>1. T \in SUBSET DOMAIN g /\ x \in T /\ dest \in T /\ \A y \in T \ {x} : g[y].up \in T
      BY <1>1, <1>3, Zenon
    <2> QED BY <2>1, Zenon DEF OpensNoLoop
  <1>4. Looped(f) => Looped(g)
    BY <1>2, Zenon DEF Looped
  <1>5. ASSUME NEW x \in DOMAIN g, NEW dest \in DOMAIN g, ~OpensNoLoop(f, x, dest)
        PROVE  ~OpensNoLoop(g, x, dest)
    <2>1. PICK S \in SUBSET DOMAIN f : x \in S /\ dest \in S /\ \A y \in S \ {x} : f[y].up \in S
      BY <1>5, Zenon DEF OpensNoLoop
    <2> QED BY <1>3, <2>1, Zenon
  <1> QED BY <1>4, <1>5, Zenon

\* An edge that opens no loop leaves a graph without loops without loops.
LEMMA GraphLinks ==
    ASSUME NEW g, NEW f, NEW x \in DOMAIN g, NEW dest, DOMAIN f = DOMAIN g,
           \A y \in DOMAIN g \ {x} : f[y].up = g[y].up, f[x].up = dest,
           ~Looped(g), OpensNoLoop(g, x, dest)
    PROVE  ~Looped(f)
  <1> SUFFICES ASSUME NEW S \in SUBSET DOMAIN g, S # {}, \A y \in S : f[y].up \in S PROVE FALSE
    BY Zenon DEF Looped
  <1>1. CASE x \in S
    <2>1. dest \in S /\ \A y \in S \ {x} : g[y].up \in S
      BY <1>1, Zenon
    <2> QED BY <1>1, <2>1, Zenon DEF OpensNoLoop
  <1>2. CASE x \notin S
    <2>1. \A y \in S : g[y].up \in S
      BY <1>2, Zenon
    <2> QED BY <2>1, Zenon DEF Looped
  <1> QED BY <1>1, <1>2, Zenon

\* A write leaves a version behind and forgets no inbound's versions.
LEMMA VersionKept ==
    ASSUME HopTypeOK, NEW x \in Chainables, NEW hop \in HopRow, capture_version(x, hop)
    PROVE  /\ versions' \in [Chainables -> Seq([up : Chainables \cup {NoUpstream}, sb : BOOLEAN])]
           /\ versions'[x] # << >>
           /\ \A y \in Chainables : versions[y] # << >> => versions'[y] # << >>
  <1> DEFINE V == [up : Chainables \cup {NoUpstream}, sb : BOOLEAN]
             v == [up |-> hop.up, sb |-> hop.sb]
             longer == Append(versions[x], v)
             kept == IF Len(longer) > Keep THEN Tail(longer) ELSE longer
  <1>1. v \in V /\ versions[x] \in Seq(V)
    BY Zenon DEF HopTypeOK, HopRow
  <1> HIDE DEF V, v
  <1>2. longer \in Seq(V) /\ Len(longer) \in Nat /\ Len(longer) >= 1
    BY <1>1
  <1> HIDE DEF longer
  <1>3. kept \in Seq(V) /\ Len(kept) >= 1
    BY <1>2, HopAssumption
  <1> HIDE DEF kept
  <1>4. kept # << >>
    <2>1. Len(<< >>) = 0
      BY Zenon
    <2> QED BY <1>3, <2>1
  <1>5. versions' = [versions EXCEPT ![x] = kept]
    BY Zenon DEF capture_version, kept, longer, v
  <1> QED BY <1>3, <1>4, <1>5, Zenon DEF HopTypeOK, V

\* What the write of an existing row keeps of the invariant.
LEMMA RowWritten ==
    ASSUME HopInv, NEW x \in DOMAIN inb, NEW hop \in HopRow,
           hop.up \in DOMAIN inb \cup {NoUpstream}, hop.cred <= writes + 1,
           inb' = [inb EXCEPT ![x] = hop], capture_version(x, hop), Written,
           pending' \in [Handlers -> [id : Chainables, up : Chainables] \cup {NoUpdate}],
           \A h \in Handlers : pending'[h] # NoUpdate => pending'[h] = pending[h],
           excused' \in BOOLEAN
    PROVE  /\ HopTypeOK' /\ DOMAIN inb' = DOMAIN inb /\ inb'[x] = hop
           /\ \A y \in DOMAIN inb \ {x} : inb'[y] = inb[y]
           /\ \A y \in DOMAIN inb' :
                /\ inb'[y].up \in DOMAIN inb' \cup {NoUpstream}
                /\ inb'[y].cred <= writes'
                /\ versions'[y] # << >>
           /\ \A h \in Handlers : pending'[h] # NoUpdate =>
                versions'[pending'[h].id] # << >> /\ versions'[pending'[h].up] # << >>
  <1>t. /\ DOMAIN inb \subseteq Chainables /\ inb \in [DOMAIN inb -> HopRow] /\ writes \in Nat
        /\ pending \in [Handlers -> [id : Chainables, up : Chainables] \cup {NoUpdate}]
    BY Zenon DEF HopInv, HopTypeOK
  <1>1. /\ versions' \in [Chainables -> Seq([up : Chainables \cup {NoUpstream}, sb : BOOLEAN])]
        /\ versions'[x] # << >>
        /\ \A y \in Chainables : versions[y] # << >> => versions'[y] # << >>
    BY <1>t, VersionKept, Zenon DEF HopInv
  <1>2. /\ DOMAIN inb' = DOMAIN inb /\ inb'[x] = hop /\ inb' \in [DOMAIN inb' -> HopRow]
        /\ \A y \in DOMAIN inb \ {x} : inb'[y] = inb[y]
    BY <1>t, Zenon
  <1>3. writes' = writes + 1 /\ writes' \in Nat
    BY <1>t DEF Written
  <1>4. HopTypeOK'
    BY <1>1, <1>2, <1>3, <1>t, Zenon DEF HopTypeOK
  <1>5. ASSUME NEW y \in DOMAIN inb'
        PROVE  /\ inb'[y].up \in DOMAIN inb' \cup {NoUpstream}
               /\ inb'[y].cred <= writes'
               /\ versions'[y] # << >>
    <2>1. CASE y = x
      BY <1>1, <1>2, <1>3, <2>1, Zenon
    <2>2. CASE y # x
      <3>1. inb'[y] = inb[y] /\ y \in DOMAIN inb /\ inb[y].cred \in Nat /\ y \in Chainables
        BY <1>2, <1>t, <2>2, Zenon DEF HopRow
      <3>2. inb[y].up \in DOMAIN inb \cup {NoUpstream} /\ inb[y].cred <= writes /\ versions[y] # << >>
        BY <3>1, Zenon DEF HopInv
      <3> QED BY <1>1, <1>2, <1>3, <1>t, <3>1, <3>2
    <2> QED BY <2>1, <2>2, Zenon
  <1>6. ASSUME NEW h \in Handlers, pending'[h] # NoUpdate
        PROVE  versions'[pending'[h].id] # << >> /\ versions'[pending'[h].up] # << >>
    <2>1. pending'[h] = pending[h] /\ pending[h] \in [id : Chainables, up : Chainables]
      BY <1>6, <1>t, Zenon
    <2>2. versions[pending[h].id] # << >> /\ versions[pending[h].up] # << >>
      BY <1>6, <2>1, Zenon DEF HopInv
    <2> QED BY <1>1, <2>1, <2>2, Zenon
  <1> QED BY <1>2, <1>4, <1>5, <1>6, Zenon

\* Writes that add no edge to the graph and leave the waiting updates alone.
LEMMA RowWithoutEdge ==
    ASSUME HopInv, NEW x \in DOMAIN inb, NEW hop \in HopRow,
           hop.up \in {inb[x].up, NoUpstream}, hop.cred <= writes + 1,
           inb' = [inb EXCEPT ![x] = hop], capture_version(x, hop), Written,
           UNCHANGED pending, excused' = excused
    PROVE  HopInv'
  <1>t. /\ DOMAIN inb \subseteq Chainables
        /\ pending' \in [Handlers -> [id : Chainables, up : Chainables] \cup {NoUpdate}]
        /\ excused' \in BOOLEAN
    BY Zenon DEF HopInv, HopTypeOK
  <1>0. hop.up \in DOMAIN inb \cup {NoUpstream}
    BY Zenon DEF HopInv
  <1>1. /\ HopTypeOK' /\ DOMAIN inb' = DOMAIN inb /\ inb'[x] = hop
        /\ \A y \in DOMAIN inb \ {x} : inb'[y] = inb[y]
        /\ \A y \in DOMAIN inb' :
             /\ inb'[y].up \in DOMAIN inb' \cup {NoUpstream}
             /\ inb'[y].cred <= writes'
             /\ versions'[y] # << >>
        /\ \A h \in Handlers : pending'[h] # NoUpdate =>
             versions'[pending'[h].id] # << >> /\ versions'[pending'[h].up] # << >>
    BY <1>t, <1>0, RowWritten, Zenon
  <1>2. NoUpstream \notin DOMAIN inb /\ \A y \in DOMAIN inb' : inb'[y].up \in {inb[y].up, NoUpstream}
    BY <1>1, <1>t, HopAssumption, Zenon
  <1>3. /\ Looped(inb') => Looped(inb)
        /\ \A z, dest : OpensNoLoop(inb, z, dest) => OpensNoLoop(inb', z, dest)
    BY <1>1, <1>2, GraphShrinks, Zenon
  <1>4. ~excused' =>
         /\ ~Looped(inb')
         /\ \A h \in Handlers :
              pending'[h] # NoUpdate /\ pending'[h].id \in DOMAIN inb' /\ pending'[h].up \in DOMAIN inb'
                => OpensNoLoop(inb', pending'[h].id, pending'[h].up)
    BY <1>1, <1>3, Zenon DEF HopInv, Exists
  <1> QED BY <1>1, <1>4, Zenon DEF HopInv, Exists

\* Every write of a row and every validation keeps it.
LEMMA HopInvStep == HopInv /\ [HopNext]_hopVars => HopInv'
  <1> SUFFICES ASSUME HopInv, [HopNext]_hopVars PROVE HopInv'
    BY Zenon
  <1>t. /\ DOMAIN inb \subseteq Chainables /\ inb \in [DOMAIN inb -> HopRow] /\ writes \in Nat
        /\ versions \in [Chainables -> Seq([up : Chainables \cup {NoUpstream}, sb : BOOLEAN])]
        /\ pending \in [Handlers -> [id : Chainables, up : Chainables] \cup {NoUpdate}]
        /\ excused \in BOOLEAN
    BY Zenon DEF HopInv, HopTypeOK
  <1>n. NoUpstream \notin Chainables /\ NoUpstream \notin DOMAIN inb
    BY <1>t, HopAssumption, Zenon
  <1>1. ASSUME NEW x \in Chainables, update_core(x) PROVE HopInv'
    <2> DEFINE hop == [inb[x] EXCEPT !.sb = ~inb[x].sb]
    <2>1. x \in DOMAIN inb /\ inb' = [inb EXCEPT ![x] = hop] /\ capture_version(x, hop) /\ Written
          /\ UNCHANGED <<pending, excused>>
      BY <1>1, Zenon DEF update_core, Exists
    <2>2. hop \in HopRow /\ hop.up = inb[x].up /\ hop.cred = inb[x].cred
      BY <2>1, <1>t, Zenon DEF HopRow
    <2>3. hop.cred <= writes + 1
      BY <2>1, <2>2, <1>t DEF HopInv, HopRow
    <2> HIDE DEF hop
    <2> QED BY <2>1, <2>2, <2>3, RowWithoutEdge, Zenon
  <1>2. ASSUME NEW x \in Chainables, update_unchain(x) PROVE HopInv'
    <2> DEFINE hop == [inb[x] EXCEPT !.up = NoUpstream, !.cred = 0]
    <2>1. x \in DOMAIN inb /\ inb' = [inb EXCEPT ![x] = hop] /\ capture_version(x, hop) /\ Written
          /\ UNCHANGED <<pending, excused>>
      BY <1>2, Zenon DEF update_unchain, Exists
    <2>2. hop \in HopRow /\ hop.up = NoUpstream /\ hop.cred = 0
      BY <2>1, <1>t, Zenon DEF HopRow
    <2>3. hop.cred <= writes + 1
      BY <2>2, <1>t
    <2> HIDE DEF hop
    <2> QED BY <2>1, <2>2, <2>3, RowWithoutEdge, Zenon
  <1>3. ASSUME NEW x \in Chainables, delete_chainable(x) PROVE HopInv'
    <2>1. /\ inb' = [y \in DOMAIN inb \ {x} |->
               IF inb[y].up = x THEN [inb[y] EXCEPT !.up = NoUpstream] ELSE inb[y]]
          /\ writes' = writes + 1 /\ UNCHANGED <<versions, pending, excused>>
      BY <1>3, Zenon DEF delete_chainable, Written
    <2>2. DOMAIN inb' = DOMAIN inb \ {x}
      BY <2>1, Zenon
    <2>3. ASSUME NEW y \in DOMAIN inb'
          PROVE  /\ inb'[y] \in HopRow /\ inb'[y].cred = inb[y].cred /\ y \in DOMAIN inb
                 /\ inb'[y].up = IF inb[y].up = x THEN NoUpstream ELSE inb[y].up
      <3>1. inb[y] \in HopRow /\ y \in DOMAIN inb
        BY <2>2, <1>t, Zenon
      <3>2. inb'[y] = IF inb[y].up = x THEN [inb[y] EXCEPT !.up = NoUpstream] ELSE inb[y]
        BY <2>1, <2>2, Zenon
      <3> QED BY <3>1, <3>2, Zenon DEF HopRow
    <2>4. inb' \in [DOMAIN inb' -> HopRow]
      <3> DEFINE f(y) == IF inb[y].up = x THEN [inb[y] EXCEPT !.up = NoUpstream] ELSE inb[y]
      <3>1. inb' = [y \in DOMAIN inb' |-> f(y)]
        BY <2>1, <2>2, Zenon
      <3>2. \A y \in DOMAIN inb' : f(y) \in HopRow
        BY <2>3, <3>1, Zenon
      <3> HIDE DEF f
      <3> QED BY <3>1, <3>2, Zenon
    <2>5. HopTypeOK'
      <3>1. DOMAIN inb' \subseteq Chainables /\ writes' \in Nat
        BY <2>1, <2>2, <1>t
      <3>2. versions' = versions /\ pending' = pending /\ excused' = excused
        BY <2>1, Zenon
      <3> QED BY <2>4, <3>1, <3>2, <1>t, Zenon DEF HopTypeOK
    <2>6. \A y \in DOMAIN inb' :
             /\ inb'[y].up \in DOMAIN inb' \cup {NoUpstream}
             /\ inb'[y].cred <= writes'
             /\ versions'[y] # << >>
      <3> SUFFICES ASSUME NEW y \in DOMAIN inb'
                   PROVE  /\ inb'[y].up \in DOMAIN inb' \cup {NoUpstream}
                          /\ inb'[y].cred <= writes'
                          /\ versions'[y] # << >>
        BY Zenon
      <3>1. inb[y].up \in DOMAIN inb \cup {NoUpstream} /\ inb[y].cred <= writes /\ versions[y] # << >>
            /\ inb[y].cred \in Nat
        BY <2>3, <1>t, Zenon DEF HopInv, HopRow
      <3> QED BY <2>1, <2>2, <2>3, <3>1, <1>t
    <2>7. /\ Looped(inb') => Looped(inb)
          /\ \A z, dest : OpensNoLoop(inb, z, dest) => OpensNoLoop(inb', z, dest)
      <3>1. DOMAIN inb' \subseteq DOMAIN inb /\ \A y \in DOMAIN inb' : inb'[y].up \in {inb[y].up, NoUpstream}
        BY <2>2, <2>3, Zenon
      <3> QED BY <3>1, <1>n, GraphShrinks, Zenon
    <2>8. ~excused' =>
         /\ ~Looped(inb')
         /\ \A h \in Handlers :
              pending'[h] # NoUpdate /\ pending'[h].id \in DOMAIN inb' /\ pending'[h].up \in DOMAIN inb'
                => OpensNoLoop(inb', pending'[h].id, pending'[h].up)
      BY <2>1, <2>2, <2>7, Zenon DEF HopInv, Exists
    <2>9. \A h \in Handlers : pending'[h] # NoUpdate =>
            versions'[pending'[h].id] # << >> /\ versions'[pending'[h].up] # << >>
      BY <2>1, Zenon DEF HopInv
    <2> QED BY <2>5, <2>6, <2>8, <2>9, Zenon DEF HopInv, Exists
  <1>4. ASSUME NEW x \in Chainables, NEW i \in DOMAIN versions[x], revert_inbound(x, i) PROVE HopInv'
    <2>0. i \in 1 .. Len(versions[x])
      BY <1>t
    <2> DEFINE v == versions[x][i]
               cred == chain_credential(inb[x].cred, v.up)
               hop == [up |-> v.up, sb |-> v.sb, cred |-> cred]
    <2>1. /\ x \in DOMAIN inb /\ v.up \in DOMAIN inb \cup {NoUpstream}
          /\ inb' = [inb EXCEPT ![x] = hop]
          /\ capture_version(x, hop) /\ Written /\ UNCHANGED pending
          /\ excused' = (excused \/ v.up \notin {NoUpstream, inb[x].up})
      BY <1>4, Zenon DEF revert_inbound, Exists
    <2>2. v \in [up : Chainables \cup {NoUpstream}, sb : BOOLEAN]
      <3> DEFINE V == [up : Chainables \cup {NoUpstream}, sb : BOOLEAN]
      <3>1. versions[x] \in Seq(V)
        BY <1>t, Zenon
      <3> HIDE DEF V
      <3>2. v \in V
        BY <2>0, <3>1
      <3> QED BY <3>2, Zenon DEF V
    <2>3. cred \in Nat /\ cred <= writes + 1
      BY <1>t DEF chain_credential
    <2> HIDE DEF v, cred
    <2>4. hop \in HopRow /\ hop.up = v.up /\ hop.cred <= writes + 1
      BY <2>2, <2>3, Zenon DEF HopRow
    <2> HIDE DEF hop
    <2>5. CASE excused' = excused /\ v.up \in {NoUpstream, inb[x].up}
      BY <2>1, <2>4, <2>5, RowWithoutEdge, Zenon
    <2>6. CASE excused'
      <3>1. excused' \in BOOLEAN
        BY <2>6, <2>1, Zenon
      <3>2. /\ HopTypeOK'
            /\ \A y \in DOMAIN inb' :
                /\ inb'[y].up \in DOMAIN inb' \cup {NoUpstream}
                /\ inb'[y].cred <= writes'
                /\ versions'[y] # << >>
            /\ \A h \in Handlers : pending'[h] # NoUpdate =>
                versions'[pending'[h].id] # << >> /\ versions'[pending'[h].up] # << >>
        BY <2>1, <2>4, <3>1, <1>t, RowWritten, Zenon
      <3> QED BY <2>6, <3>2, Zenon DEF HopInv
    <2> QED BY <2>1, <2>5, <2>6, <1>t, Zenon
  <1>5. ASSUME NEW h \in Handlers, NEW x \in Chainables, NEW dest \in Chainables, update_validate(h, x, dest)
        PROVE  HopInv'
    <2> DEFINE p == [id |-> x, up |-> dest]
    <2>1. /\ x \in DOMAIN inb /\ dest \in DOMAIN inb /\ validate_upstream(x, dest)
          /\ pending' = [pending EXCEPT ![h] = p] /\ UNCHANGED <<inb, versions, writes, excused>>
      BY <1>5, Zenon DEF update_validate, validate_upstream, ValidExit, Exists
    <2>2. p \in [id : Chainables, up : Chainables] /\ p.id = x /\ p.up = dest
      BY Zenon
    <2> HIDE DEF p
    <2>3. pending'[h] = p /\ \A g \in Handlers \ {h} : pending'[g] = pending[g]
      BY <2>1, <1>t, Zenon
    <2>4. HopTypeOK'
      <3>1. pending' \in [Handlers -> [id : Chainables, up : Chainables] \cup {NoUpdate}]
        BY <2>1, <2>2, <1>t, Zenon
      <3> QED BY <2>1, <3>1, <1>t, Zenon DEF HopTypeOK
    <2>5. OpensNoLoop(inb, x, dest)
      BY <2>1, WalkSuffices, Zenon
    <2>6. versions[x] # << >> /\ versions[dest] # << >>
      BY <2>1, Zenon DEF HopInv
    <2>7. \A g \in Handlers : pending'[g] # NoUpdate =>
            versions'[pending'[g].id] # << >> /\ versions'[pending'[g].up] # << >>
      BY <2>1, <2>2, <2>3, <2>6 DEF HopInv
    <2>8. ~excused' =>
         /\ ~Looped(inb')
         /\ \A g \in Handlers :
              pending'[g] # NoUpdate /\ pending'[g].id \in DOMAIN inb' /\ pending'[g].up \in DOMAIN inb'
                => OpensNoLoop(inb', pending'[g].id, pending'[g].up)
      BY <2>1, <2>2, <2>3, <2>5, Zenon DEF HopInv, Exists
    <2> QED BY <2>1, <2>4, <2>7, <2>8, Zenon DEF HopInv, Exists
  <1>6. ASSUME NEW h \in Handlers, update_write(h) PROVE HopInv'
    <2> DEFINE p == pending[h]
               hop == [inb[p.id] EXCEPT !.up = p.up,
                         !.cred = chain_credential(inb[p.id].cred, p.up)]
    <2>1. p # NoUpdate /\ pending' = [pending EXCEPT ![h] = NoUpdate]
      BY <1>6, Zenon DEF update_write
    <2>2. p \in [id : Chainables, up : Chainables]
      BY <2>1, <1>t, Zenon
    <2>3. /\ pending'[h] = NoUpdate /\ \A g \in Handlers \ {h} : pending'[g] = pending[g]
          /\ pending' \in [Handlers -> [id : Chainables, up : Chainables] \cup {NoUpdate}]
      BY <2>1, <1>t, Zenon
    <2>4. CASE ~(p.id \in DOMAIN inb /\ p.up \in DOMAIN inb)
      <3>1. UNCHANGED <<inb, versions, excused, writes>>
        BY <1>6, <2>4, Zenon DEF update_write, Exists
      <3>2. HopTypeOK'
        BY <2>3, <3>1, <1>t, Zenon DEF HopTypeOK
      <3>3. \A g \in Handlers : pending'[g] # NoUpdate => pending'[g] = pending[g]
        BY <2>3, Zenon
      <3> HIDE DEF p, hop
      <3> QED BY <3>1, <3>2, <3>3, Zenon DEF HopInv, Exists
    <2>5. CASE p.id \in DOMAIN inb /\ p.up \in DOMAIN inb
      <3>1. /\ inb' = [inb EXCEPT ![p.id] = hop] /\ capture_version(p.id, hop) /\ Written
            /\ excused' = (excused \/ Overtaken(h))
        BY <1>6, <2>5, Zenon DEF update_write, Exists
      <3>2. chain_credential(inb[p.id].cred, p.up) \in Nat
            /\ chain_credential(inb[p.id].cred, p.up) <= writes + 1
        BY <1>t DEF chain_credential
      <3>3. hop \in HopRow /\ hop.up = p.up /\ hop.cred = chain_credential(inb[p.id].cred, p.up)
        <4>1. inb[p.id] \in HopRow
          BY <2>5, <1>t, Zenon
        <4> DEFINE c == chain_credential(inb[p.id].cred, p.up)
        <4> HIDE DEF c
        <4>2. c \in Nat
          BY <3>2, Zenon DEF c
        <4>3. hop = [inb[p.id] EXCEPT !.up = p.up, !.cred = c]
          BY Zenon DEF c
        <4>4. hop \in HopRow /\ hop.up = p.up /\ hop.cred = c
          BY <2>2, <4>1, <4>2, <4>3, Zenon DEF HopRow
        <4> QED BY <4>4, Zenon DEF c
      <3> HIDE DEF hop
      <3>4. \A g \in Handlers : pending'[g] # NoUpdate => pending'[g] = pending[g]
        BY <2>3, Zenon
      <3>5. excused' \in BOOLEAN
        BY <3>1, <1>t, Zenon
      <3>6. /\ HopTypeOK' /\ DOMAIN inb' = DOMAIN inb /\ inb'[p.id] = hop
            /\ \A y \in DOMAIN inb \ {p.id} : inb'[y] = inb[y]
            /\ \A y \in DOMAIN inb' :
                /\ inb'[y].up \in DOMAIN inb' \cup {NoUpstream}
                /\ inb'[y].cred <= writes'
                /\ versions'[y] # << >>
            /\ \A g \in Handlers : pending'[g] # NoUpdate =>
                versions'[pending'[g].id] # << >> /\ versions'[pending'[g].up] # << >>
        BY <2>3, <2>5, <3>1, <3>2, <3>3, <3>4, <3>5, RowWritten, Zenon
      <3>7. ASSUME ~excused' PROVE ~Looped(inb') /\ \A g \in Handlers : pending'[g] = NoUpdate
        <4>1. ~excused /\ \A g \in Handlers \ {h} : pending[g] = NoUpdate
          BY <3>1, <3>7, Zenon DEF Overtaken
        <4>2. ~Looped(inb) /\ OpensNoLoop(inb, p.id, p.up)
          BY <2>1, <2>5, <4>1, Zenon DEF HopInv, Exists
        <4>3. ~Looped(inb')
          BY <2>5, <3>3, <3>6, <4>2, GraphLinks
        <4> QED BY <2>3, <4>1, <4>3
      <3> QED BY <3>6, <3>7, Zenon DEF HopInv
    <2> QED BY <2>4, <2>5, Zenon
  <1>7. ASSUME NEW x \in Chainables, NEW dest \in Chainables \cup {NoUpstream}, NEW sb \in BOOLEAN,
               create_chainable(x, dest, sb)
        PROVE  HopInv'
    <2> DEFINE cred == chain_credential(0, dest)
               hop == [up |-> dest, sb |-> sb, cred |-> cred]
    <2>1. /\ x \notin DOMAIN inb /\ versions[x] = << >> /\ dest \in DOMAIN inb \cup {NoUpstream}
          /\ inb' = [y \in DOMAIN inb \cup {x} |-> IF y = x THEN hop ELSE inb[y]]
          /\ capture_version(x, hop) /\ writes' = writes + 1 /\ UNCHANGED <<pending, excused>>
      BY <1>7, Zenon DEF create_chainable, Exists, ValidExit, Written
    <2>2. cred \in Nat /\ cred <= writes + 1
      BY <1>t DEF chain_credential
    <2> HIDE DEF cred
    <2>3. hop \in HopRow /\ hop.up = dest /\ hop.cred = cred
      BY <2>2, Zenon DEF HopRow
    <2> HIDE DEF hop
    <2>4. /\ versions' \in [Chainables -> Seq([up : Chainables \cup {NoUpstream}, sb : BOOLEAN])]
          /\ versions'[x] # << >>
          /\ \A y \in Chainables : versions[y] # << >> => versions'[y] # << >>
      BY <2>1, <2>3, VersionKept, Zenon DEF HopInv
    <2>5. /\ DOMAIN inb' = DOMAIN inb \cup {x} /\ inb'[x] = hop
          /\ \A y \in DOMAIN inb : inb'[y] = inb[y]
      BY <2>1, Zenon
    <2>6. inb' \in [DOMAIN inb' -> HopRow]
      BY <2>1, <2>3, <2>5, <1>t, Zenon
    <2>7. HopTypeOK'
      <3>1. DOMAIN inb' \subseteq Chainables /\ writes' \in Nat
        BY <2>1, <2>5, <1>t
      <3>2. pending' = pending /\ excused' = excused
        BY <2>1, Zenon
      <3> QED BY <2>4, <2>6, <3>1, <3>2, <1>t, Zenon DEF HopTypeOK
    <2>8. ASSUME NEW y \in DOMAIN inb'
          PROVE  /\ inb'[y].up \in DOMAIN inb' \cup {NoUpstream}
                 /\ inb'[y].cred <= writes'
                 /\ versions'[y] # << >>
      <3>1. CASE y = x
        BY <2>1, <2>2, <2>3, <2>4, <2>5, <3>1, Zenon
      <3>2. CASE y # x
        <4>1. inb'[y] = inb[y] /\ y \in DOMAIN inb /\ inb[y].cred \in Nat /\ y \in Chainables
          BY <2>5, <3>2, <1>t, Zenon DEF HopRow
        <4>2. inb[y].up \in DOMAIN inb \cup {NoUpstream} /\ inb[y].cred <= writes /\ versions[y] # << >>
          BY <4>1, Zenon DEF HopInv
        <4>3. writes' = writes + 1
          BY <2>1, Zenon
        <4> QED BY <2>4, <2>5, <4>1, <4>2, <4>3, <1>t
      <3> QED BY <3>1, <3>2, Zenon
    <2>9. /\ Looped(inb') => Looped(inb)
          /\ \A y, z \in DOMAIN inb : OpensNoLoop(inb, y, z) => OpensNoLoop(inb', y, z)
      <3>1. \A y \in DOMAIN inb : inb'[y].up = inb[y].up /\ inb[y].up \in DOMAIN inb \cup {NoUpstream}
        BY <2>5, Zenon DEF HopInv
      <3>2. NoUpstream \notin DOMAIN inb' /\ inb'[x].up \in DOMAIN inb \cup {NoUpstream}
        BY <2>1, <2>3, <2>5, <1>n, Zenon
      <3> QED BY <2>1, <2>5, <3>1, <3>2, GraphGrows
    <2>10. ASSUME NEW h \in Handlers, pending[h] # NoUpdate
           PROVE  /\ pending[h].id \in Chainables \ {x} /\ pending[h].up \in Chainables \ {x}
                  /\ versions'[pending[h].id] # << >> /\ versions'[pending[h].up] # << >>
      <3>1. pending[h] \in [id : Chainables, up : Chainables]
        BY <2>10, <1>t, Zenon
      <3>2. versions[pending[h].id] # << >> /\ versions[pending[h].up] # << >>
        BY <2>10, Zenon DEF HopInv
      <3> QED BY <2>1, <2>4, <3>1, <3>2, Zenon
    <2>11. ~excused' =>
         /\ ~Looped(inb')
         /\ \A h \in Handlers :
              pending'[h] # NoUpdate /\ pending'[h].id \in DOMAIN inb' /\ pending'[h].up \in DOMAIN inb'
                => OpensNoLoop(inb', pending'[h].id, pending'[h].up)
      <3>1. pending' = pending /\ excused' = excused
        BY <2>1, Zenon
      <3> QED BY <2>5, <2>9, <2>10, <3>1, Zenon DEF HopInv, Exists
    <2>12. \A h \in Handlers : pending'[h] # NoUpdate =>
             versions'[pending'[h].id] # << >> /\ versions'[pending'[h].up] # << >>
      BY <2>1, <2>10, Zenon
    <2> QED BY <2>7, <2>8, <2>11, <2>12, Zenon DEF HopInv, Exists
  <1>8. CASE UNCHANGED hopVars
    BY <1>8, Zenon DEF hopVars, HopInv, HopTypeOK, Exists
  <1> QED BY <1>1, <1>2, <1>3, <1>4, <1>5, <1>6, <1>7, <1>8, Zenon DEF HopNext

\* There is no inbound at the start.
LEMMA HopInvInit == HopInit => HopInv
  <1> SUFFICES ASSUME HopInit PROVE HopInv
    BY Zenon
  <1>1. inb = << >> /\ DOMAIN inb = {}
    BY DEF HopInit
  <1>2. inb \in [DOMAIN inb -> HopRow] /\ DOMAIN inb \subseteq Chainables
    BY <1>1
  <1>3. versions \in [Chainables -> Seq([up : Chainables \cup {NoUpstream}, sb : BOOLEAN])]
    BY DEF HopInit
  <1>4. HopTypeOK
    BY <1>2, <1>3, Zenon DEF HopInit, HopTypeOK
  <1>5. \A h \in Handlers : pending[h] = NoUpdate
    BY Zenon DEF HopInit
  <1>6. ~Looped(inb)
    BY <1>1, Zenon DEF Looped
  <1> QED BY <1>1, <1>4, <1>5, <1>6, Zenon DEF HopInv

\* The chains never close a circle, however deep they are and however the
\* handlers interleave, but for the two ways NoChainLoop excuses.
THEOREM ChainsNeverLoop == HopSpec => []NoChainLoop
  <1>1. HopInv => NoChainLoop
    BY Zenon DEF HopInv, NoChainLoop, Loop, Looped
  <1> QED BY <1>1, HopInvInit, HopInvStep, PTL DEF HopSpec

\* A chain credential is made for one exit: whenever a handler writes an
\* upstream it writes a credential no row had before.
THEOREM CredentialsAreOfOneExit == HopSpec => CredentialOfOneExit
  <1> DEFINE Kept == \A x \in DOMAIN inb \intersect DOMAIN inb' :
                       inb[x].cred # 0 /\ inb'[x].cred = inb[x].cred
                         => inb'[x].up \in {inb[x].up, NoUpstream}
  <1>1. HopInv /\ [HopNext]_hopVars => [Kept]_hopVars
    <2> SUFFICES ASSUME HopInv, HopNext, NEW x \in DOMAIN inb \intersect DOMAIN inb',
                        inb[x].cred # 0, inb'[x].cred = inb[x].cred
                 PROVE  inb'[x].up \in {inb[x].up, NoUpstream}
      BY Zenon
    <2>t. /\ inb \in [DOMAIN inb -> HopRow] /\ inb[x] \in HopRow /\ inb[x].cred \in Nat
          /\ inb[x].cred <= writes /\ writes \in Nat
      BY Zenon DEF HopInv, HopTypeOK, HopRow
    <2>c. \A old, dest : chain_credential(old, dest) # inb[x].cred
      BY <2>t DEF chain_credential
    <2>1. ASSUME NEW y \in Chainables, NEW dest \in Chainables \cup {NoUpstream}, NEW sb \in BOOLEAN,
                 create_chainable(y, dest, sb)
          PROVE  inb'[x].up = inb[x].up
      <3> DEFINE hop == [up |-> dest, sb |-> sb, cred |-> chain_credential(0, dest)]
      <3>1. y \notin DOMAIN inb /\ inb' = [z \in DOMAIN inb \cup {y} |-> IF z = y THEN hop ELSE inb[z]]
        BY <2>1, Zenon DEF create_chainable, Exists
      <3> HIDE DEF hop
      <3> QED BY <3>1, Zenon
    <2>2. ASSUME NEW h \in Handlers, NEW y \in Chainables, NEW dest \in Chainables, update_validate(h, y, dest)
          PROVE  inb'[x].up = inb[x].up
      BY <2>2, Zenon DEF update_validate
    <2>3. ASSUME NEW h \in Handlers, update_write(h) PROVE inb'[x].up = inb[x].up
      <3> DEFINE p == pending[h]
                 c == chain_credential(inb[p.id].cred, p.up)
                 hop == [inb[p.id] EXCEPT !.up = p.up, !.cred = c]
      <3>1. \/ UNCHANGED inb
            \/ p.id \in DOMAIN inb /\ inb' = [inb EXCEPT ![p.id] = hop]
        BY <2>3, Zenon DEF update_write, Exists
      <3>2. p.id \in DOMAIN inb => hop.cred = c
        BY <2>t, Zenon DEF HopRow
      <3>3. c # inb[x].cred
        BY <2>c, Zenon
      <3> HIDE DEF p, c, hop
      <3> QED BY <3>1, <3>2, <3>3, Zenon
    <2>4. ASSUME NEW y \in Chainables, update_core(y) PROVE inb'[x].up = inb[x].up
      BY <2>4, <2>t, Zenon DEF update_core, Exists, HopRow
    <2>5. ASSUME NEW y \in Chainables, update_unchain(y) PROVE inb'[x].up \in {inb[x].up, NoUpstream}
      BY <2>5, <2>t, Zenon DEF update_unchain, Exists, HopRow
    <2>6. ASSUME NEW y \in Chainables, delete_chainable(y) PROVE inb'[x].up \in {inb[x].up, NoUpstream}
      BY <2>6, <2>t, Zenon DEF delete_chainable, Exists, HopRow
    <2>7. ASSUME NEW y \in Chainables, NEW i \in DOMAIN versions[y], revert_inbound(y, i)
          PROVE  inb'[x].up = inb[x].up
      <3> DEFINE v == versions[y][i]
                 c == chain_credential(inb[y].cred, v.up)
                 hop == [up |-> v.up, sb |-> v.sb, cred |-> c]
      <3>1. y \in DOMAIN inb /\ inb' = [inb EXCEPT ![y] = hop]
        BY <2>7, Zenon DEF revert_inbound, Exists
      <3>2. hop.cred = c /\ c # inb[x].cred
        BY <2>c, Zenon
      <3> HIDE DEF v, c, hop
      <3> QED BY <3>1, <3>2, Zenon
    <2> QED BY <2>1, <2>2, <2>3, <2>4, <2>5, <2>6, <2>7, Zenon DEF HopNext
  <1> QED BY <1>1, HopInvInit, HopInvStep, PTL DEF HopSpec, CredentialOfOneExit

-----------------------------------------------------------------------------
(* A block wins over every grant. *)

TaskFields == {"pc", "verdict", "stale", "said", "next"}

Blocked == \E s \in Sources : report[s] = "no"

ReachTypeOK ==
    /\ report \in [Sources -> Verdicts]
    /\ DOMAIN task = Tasks
    /\ \A t \in Tasks : DOMAIN task[t] = TaskFields /\ task[t].stale \in BOOLEAN
    /\ overtaken \in BOOLEAN

\* A decision that is not stale is newer than every report: it clears the
\* inbound only if no recent report says blocked.
FreshDecision(t) ==
    /\ task[t].pc = "verdict" => ~task[t].stale
    /\ task[t].pc = "set" /\ ~task[t].stale /\ task[t].verdict # "no" => ~Blocked
    /\ task[t].pc = "probe" /\ ~task[t].stale => ~Blocked

\* The task will write the block, or will find it when it reads the reports.
WillBlock(t) ==
    \/ task[t].pc = "verdict"
    \/ task[t].pc = "set" /\ ~task[t].stale /\ task[t].verdict = "no"

\* The inductive invariant: a column that says reachable against a report has
\* a handler on its way that will correct it.
ReachInv ==
    /\ ReachTypeOK
    /\ \A t \in Tasks : FreshDecision(t)
    /\ reachable = "yes" /\ ~overtaken /\ Blocked => \E t \in Tasks : WillBlock(t)

\* The fields of the record every task starts and ends with.
LEMMA IdleFields ==
    /\ DOMAIN IdleTask = TaskFields /\ IdleTask.pc = "idle"
    /\ IdleTask.stale \in BOOLEAN /\ ~IdleTask.stale
  <1> DEFINE first == Head(Snis)
  <1> HIDE DEF first
  <1>1. IdleTask = [pc |-> "idle", verdict |-> "null", stale |-> FALSE, said |-> "null",
                    next |-> first]
    BY Zenon DEF IdleTask, first
  <1>2. DOMAIN IdleTask = TaskFields /\ IdleTask.pc = "idle" /\ IdleTask.stale \in BOOLEAN
    BY <1>1, Zenon DEF TaskFields
  <1>3. ~IdleTask.stale
    BY <1>1, Zenon
  <1> QED BY <1>2, <1>3, Zenon

\* Nobody has reported and nobody decides at the start.
LEMMA ReachInvInit == ReachInit => ReachInv
  <1> SUFFICES ASSUME ReachInit PROVE ReachInv
    BY Zenon
  <1>1. \A t \in Tasks : task[t] = IdleTask
    BY Zenon DEF ReachInit
  <1>2. \A t \in Tasks : DOMAIN task[t] = TaskFields /\ task[t].pc = "idle" /\ ~task[t].stale
                         /\ task[t].stale \in BOOLEAN
    BY <1>1, IdleFields, Zenon
  <1> QED BY <1>1, <1>2, Zenon DEF ReachInit, ReachInv, ReachTypeOK, FreshDecision, Verdicts

\* A step that moves one task and leaves the reports and the column alone.
LEMMA TaskMoves ==
    ASSUME ReachInv, NEW t \in Tasks, UNCHANGED <<report, reachable, overtaken>>,
           DOMAIN task' = Tasks, \A u \in Tasks \ {t} : task'[u] = task[u],
           DOMAIN task'[t] = TaskFields, task'[t].stale \in BOOLEAN,
           FreshDecision(t)', WillBlock(t) => ~Blocked \/ WillBlock(t)'
    PROVE  ReachInv'
  <1>1. \A u \in Tasks \ {t} : (FreshDecision(u)' <=> FreshDecision(u)) /\ (WillBlock(u)' <=> WillBlock(u))
    BY Zenon DEF FreshDecision, WillBlock, Blocked
  <1>2. Blocked' <=> Blocked
    BY Zenon DEF Blocked
  <1>3. ReachTypeOK'
    BY Zenon DEF ReachInv, ReachTypeOK
  <1> QED BY <1>1, <1>2, <1>3, Zenon DEF ReachInv

\* Reports, their expiry, the monitor, rotations and probes keep it.
LEMMA ReachInvStep == ReachInv /\ [ReachNext]_reachVars => ReachInv'
  <1> SUFFICES ASSUME ReachInv, [ReachNext]_reachVars PROVE ReachInv'
    BY Zenon
  <1>d. DOMAIN task = Tasks /\ \A t \in Tasks : DOMAIN task[t] = TaskFields /\ task[t].stale \in BOOLEAN
    BY Zenon DEF ReachInv, ReachTypeOK
  <1>m. Monitor \in Tasks /\ Reporters \subseteq Tasks
    BY Zenon DEF Tasks
  <1>0. ASSUME UNCHANGED <<report, reachable, task, overtaken>> PROVE ReachInv'
    BY <1>0, Zenon DEF ReachInv, ReachTypeOK, FreshDecision, WillBlock, Blocked
  <1>1. ASSUME NEW t \in Reporters, NEW s \in Sources, NEW v \in {"yes", "no"}, InsertReport(t, s, v)
        PROVE  ReachInv'
    <2>1. /\ report' = [report EXCEPT ![s] = v] /\ UNCHANGED <<reachable, overtaken>>
          /\ task' = [u \in Tasks |->
                IF u = t THEN [IdleTask EXCEPT !.pc = "verdict", !.said = v]
                ELSE [task[u] EXCEPT !.stale = (task[u].pc \in {"set", "probe"})]]
      BY <1>1, Zenon DEF InsertReport
    <2>2. DOMAIN task'[t] = TaskFields /\ task'[t].pc = "verdict" /\ ~task'[t].stale /\ task'[t].stale \in BOOLEAN
      <3>1. task'[t] = [IdleTask EXCEPT !.pc = "verdict", !.said = v]
        BY <2>1, <1>m, Zenon
      <3> QED BY <3>1, IdleFields, Zenon DEF TaskFields
    <2>3. \A u \in Tasks \ {t} :
            /\ DOMAIN task'[u] = TaskFields /\ task'[u].pc = task[u].pc
            /\ task'[u].stale = (task[u].pc \in {"set", "probe"})
      BY <2>1, <1>d, Zenon DEF TaskFields
    <2>4. ReachTypeOK'
      <3>1. \A u \in Tasks : DOMAIN task'[u] = TaskFields
        BY <2>2, <2>3, Zenon
      <3>2. ASSUME NEW u \in Tasks PROVE task'[u].stale \in BOOLEAN
        <4>1. CASE u = t
          BY <2>2, <4>1, Zenon
        <4>2. CASE u # t
          <5>1. (task[u].pc \in {"set", "probe"}) \in BOOLEAN
            OBVIOUS
          <5> QED BY <2>3, <4>2, <5>1, Zenon
        <4> QED BY <4>1, <4>2, Zenon
      <3>3. report' \in [Sources -> Verdicts] /\ DOMAIN task' = Tasks /\ overtaken' \in BOOLEAN
        BY <2>1, Zenon DEF ReachInv, ReachTypeOK, Verdicts
      <3> QED BY <3>1, <3>2, <3>3, Zenon DEF ReachTypeOK
    <2>5. \A u \in Tasks : FreshDecision(u)'
      BY <2>2, <2>3, Zenon DEF FreshDecision
    <2> QED BY <2>2, <2>4, <2>5, <1>m, Zenon DEF ReachInv, WillBlock
  <1>2. ASSUME NEW t \in Reporters, ReadVerdict(t) PROVE ReachInv'
    <2>1. /\ task' = [task EXCEPT ![t].pc = "set", ![t].verdict = consensus] /\ task[t].pc = "verdict"
          /\ UNCHANGED <<report, reachable, overtaken>>
      BY <1>2, Zenon DEF ReadVerdict
    <2>2. /\ DOMAIN task' = Tasks /\ \A u \in Tasks \ {t} : task'[u] = task[u]
          /\ DOMAIN task'[t] = TaskFields /\ task'[t].pc = "set" /\ task'[t].verdict = consensus
          /\ task'[t].stale = task[t].stale
      BY <2>1, <1>d, <1>m, Zenon DEF TaskFields
    <2>3. consensus # "no" => ~Blocked
      BY Zenon DEF consensus, Blocked
    <2>4. ~task[t].stale /\ task[t].stale \in BOOLEAN
      BY <2>1, <1>d, <1>m, Zenon DEF ReachInv, FreshDecision
    <2>5. Blocked' <=> Blocked
      BY <2>1, Zenon DEF Blocked
    <2>6. FreshDecision(t)'
      BY <2>2, <2>3, <2>5, Zenon DEF FreshDecision
    <2>7. ~Blocked \/ WillBlock(t)'
      BY <2>2, <2>3, <2>4, Zenon DEF WillBlock
    <2> QED BY <2>1, <2>2, <2>4, <2>6, <2>7, <1>m, TaskMoves, Zenon
  <1>3. ASSUME NEW t \in Tasks, set_inbound_reachability(t) PROVE ReachInv'
    <2>1. /\ task[t].pc = "set" /\ reachable' = task[t].verdict /\ overtaken' = task[t].stale
          /\ UNCHANGED report
      BY <1>3, Zenon DEF set_inbound_reachability
    <2>2. \/ task' = [task EXCEPT ![t].pc = "rotate", ![t].stale = FALSE]
          \/ task' = [task EXCEPT ![t] = [IdleTask EXCEPT !.pc = "cdn"]]
          \/ task' = [task EXCEPT ![t] = [IdleTask EXCEPT !.pc = "idle"]]
      BY <1>3, Zenon DEF set_inbound_reachability
    <2>3. /\ DOMAIN task' = Tasks /\ \A u \in Tasks \ {t} : task'[u] = task[u]
          /\ DOMAIN task'[t] = TaskFields /\ task'[t].pc \in {"rotate", "cdn", "idle"}
          /\ ~task'[t].stale /\ task'[t].stale \in BOOLEAN
      <3>1. CASE task' = [task EXCEPT ![t].pc = "rotate", ![t].stale = FALSE]
        BY <3>1, <1>d, Zenon DEF TaskFields
      <3>2. CASE task' = [task EXCEPT ![t] = [IdleTask EXCEPT !.pc = "cdn"]]
        BY <3>2, <1>d, IdleFields, Zenon DEF TaskFields
      <3>3. CASE task' = [task EXCEPT ![t] = [IdleTask EXCEPT !.pc = "idle"]]
        BY <3>3, <1>d, IdleFields, Zenon DEF TaskFields
      <3> QED BY <2>2, <3>1, <3>2, <3>3, Zenon
    <2>4. Blocked' <=> Blocked
      BY <2>1, Zenon DEF Blocked
    <2>5. \A u \in Tasks : FreshDecision(u)'
      BY <2>3, <2>4, Zenon DEF ReachInv, FreshDecision
    <2>6. reachable' = "yes" /\ ~overtaken' => ~Blocked'
      BY <2>1, <2>4, Zenon DEF ReachInv, FreshDecision
    <2> QED BY <2>1, <2>3, <2>5, <2>6, Zenon DEF ReachInv, ReachTypeOK
  <1>4. ASSUME NEW t \in Reporters, RotateRead(t) PROVE ReachInv'
    <2>1. /\ \/ task' = [task EXCEPT ![t] = IdleTask]
             \/ task' = [task EXCEPT ![t].pc = "rotating", ![t].next = NextSni]
          /\ task[t].pc = "rotate" /\ UNCHANGED <<report, reachable, overtaken>>
      BY <1>4, Zenon DEF RotateRead
    <2>2. /\ DOMAIN task' = Tasks /\ \A u \in Tasks \ {t} : task'[u] = task[u]
          /\ DOMAIN task'[t] = TaskFields /\ task'[t].pc \in {"idle", "rotating"}
          /\ task'[t].stale \in BOOLEAN
      <3>1. CASE task' = [task EXCEPT ![t] = IdleTask]
        BY <3>1, <1>d, <1>m, IdleFields, Zenon DEF TaskFields
      <3>2. CASE task' = [task EXCEPT ![t].pc = "rotating", ![t].next = NextSni]
        <4> DEFINE n == NextSni
        <4> HIDE DEF n
        <4>1. task' = [task EXCEPT ![t].pc = "rotating", ![t].next = n]
          BY <3>2, Zenon DEF n
        <4> QED BY <4>1, <1>d, <1>m, Zenon DEF TaskFields
      <3> QED BY <2>1, <3>1, <3>2, Zenon
    <2>3. FreshDecision(t)' /\ ~WillBlock(t)
      BY <2>1, <2>2, Zenon DEF FreshDecision, WillBlock
    <2> QED BY <2>1, <2>2, <2>3, <1>m, TaskMoves, Zenon
  <1>5. ASSUME NEW t \in Reporters, rotate_inbound_sni(t) PROVE ReachInv'
    <2>1. /\ task' = [task EXCEPT ![t] = IdleTask] /\ reachable' = "null"
          /\ UNCHANGED <<report, overtaken>>
      BY <1>5, Zenon DEF rotate_inbound_sni
    <2>2. /\ DOMAIN task' = Tasks /\ \A u \in Tasks \ {t} : task'[u] = task[u]
          /\ DOMAIN task'[t] = TaskFields /\ task'[t].pc = "idle" /\ task'[t].stale \in BOOLEAN
      BY <2>1, <1>d, <1>m, IdleFields, Zenon DEF TaskFields
    <2>3. \A u \in Tasks : FreshDecision(u)'
      BY <2>1, <2>2 DEF ReachInv, FreshDecision, Blocked
    <2> QED BY <2>1, <2>2, <2>3, Zenon DEF ReachInv, ReachTypeOK
  <1>6. ASSUME rotate_sni PROVE ReachInv'
    BY <1>6, Zenon DEF rotate_sni, ReachInv, ReachTypeOK, FreshDecision, Blocked
  <1>7. ASSUME NEW s \in Sources, ReportExpires(s) PROVE ReachInv'
    <2>1. report' = [report EXCEPT ![s] = "null"] /\ UNCHANGED <<reachable, task, overtaken>>
      BY <1>7, Zenon DEF ReportExpires
    <2>2. ReachTypeOK' /\ (Blocked' => Blocked)
      BY <2>1, Zenon DEF ReachInv, ReachTypeOK, Verdicts, Blocked
    <2>3. \A t \in Tasks : FreshDecision(t)' /\ (WillBlock(t)' <=> WillBlock(t))
      BY <2>1, <2>2, Zenon DEF ReachInv, FreshDecision, WillBlock
    <2> QED BY <2>1, <2>2, <2>3, Zenon DEF ReachInv
  <1>8. ASSUME MonitorChecks PROVE ReachInv'
    <2>1. PICK pc \in {"cdn", "probe"} :
            /\ task' = [task EXCEPT ![Monitor].pc = pc] /\ task[Monitor].pc = "idle"
            /\ pc = "probe" => ~Blocked
            /\ UNCHANGED <<report, reachable, overtaken>>
      BY <1>8, Zenon DEF MonitorChecks, Goto, has_recent_vantage_report, Blocked
    <2>2. /\ DOMAIN task' = Tasks /\ \A u \in Tasks \ {Monitor} : task'[u] = task[u]
          /\ DOMAIN task'[Monitor] = TaskFields /\ task'[Monitor].pc = pc
          /\ task'[Monitor].stale \in BOOLEAN
      BY <2>1, <1>d, <1>m, Zenon DEF TaskFields
    <2>3. FreshDecision(Monitor)' /\ ~WillBlock(Monitor)
      BY <2>1, <2>2, Zenon DEF FreshDecision, WillBlock, Blocked
    <2> QED BY <2>1, <2>2, <2>3, <1>m, TaskMoves, Zenon
  <1>9. ASSUME NEW v \in {"yes", "no"}, MonitorProbes(v) PROVE ReachInv'
    <2>1. /\ task' = [task EXCEPT ![Monitor].pc = "set", ![Monitor].verdict = v]
          /\ task[Monitor].pc = "probe" /\ UNCHANGED <<report, reachable, overtaken>>
      BY <1>9, Zenon DEF MonitorProbes
    <2>2. /\ DOMAIN task' = Tasks /\ \A u \in Tasks \ {Monitor} : task'[u] = task[u]
          /\ DOMAIN task'[Monitor] = TaskFields /\ task'[Monitor].pc = "set"
          /\ task'[Monitor].stale = task[Monitor].stale /\ task'[Monitor].stale \in BOOLEAN
      BY <2>1, <1>d, <1>m, Zenon DEF TaskFields
    <2>3. ~task[Monitor].stale => ~Blocked
      BY <2>1, <1>m, Zenon DEF ReachInv, FreshDecision
    <2>4. FreshDecision(Monitor)' /\ ~WillBlock(Monitor)
      BY <2>1, <2>2, <2>3, Zenon DEF FreshDecision, WillBlock, Blocked
    <2> QED BY <2>1, <2>2, <2>4, <1>m, TaskMoves, Zenon
  <1>10. ASSUME NEW v \in {"yes", "no"}, probe_inbound(v) PROVE ReachInv'
    <2>1. overtaken' \in BOOLEAN /\ UNCHANGED <<report, task>> /\ (~overtaken' => ~Blocked)
      BY <1>10, Zenon DEF probe_inbound, has_recent_vantage_report, Blocked
    <2>2. \A t \in Tasks : FreshDecision(t)'
      BY <2>1, Zenon DEF ReachInv, FreshDecision, Blocked
    <2>3. Blocked' <=> Blocked
      BY <2>1, Zenon DEF Blocked
    <2> QED BY <2>1, <2>2, <2>3, Zenon DEF ReachInv, ReachTypeOK
  <1>11. ASSUME MonitorSleeps \/ \E m \in Measures : cdn_rotate(m) PROVE ReachInv'
    <2>1. PICK pc \in {"pushed", "kept", "idle"} :
            /\ task' = [task EXCEPT ![Monitor].pc = pc] /\ task[Monitor].pc \in {"cdn", "pushed", "kept"}
            /\ UNCHANGED <<report, reachable, overtaken>>
      BY <1>11, Zenon DEF cdn_rotate, MonitorSleeps, Goto
    <2>2. /\ DOMAIN task' = Tasks /\ \A u \in Tasks \ {Monitor} : task'[u] = task[u]
          /\ DOMAIN task'[Monitor] = TaskFields /\ task'[Monitor].pc = pc
          /\ task'[Monitor].stale \in BOOLEAN
      BY <2>1, <1>d, <1>m, Zenon DEF TaskFields
    <2>3. FreshDecision(Monitor)' /\ ~WillBlock(Monitor)
      BY <2>1, <2>2, Zenon DEF FreshDecision, WillBlock
    <2> QED BY <2>1, <2>2, <2>3, <1>m, TaskMoves, Zenon
  <1>13. CASE UNCHANGED reachVars
    BY <1>0, <1>13, Zenon DEF reachVars
  <1> QED BY <1>1, <1>2, <1>3, <1>4, <1>5, <1>6, <1>7, <1>8, <1>9, <1>10, <1>11, <1>13, Zenon
          DEF ReachNext

\* A block reported from the target region decides: whatever the interleaving
\* of reports, the monitor, rotations and probes, but for the decisions that a
\* report had overtaken and the probes an administrator asked for.
THEOREM BlockAlwaysWins == ReachSpec => []BlockWins
  <1>1. ReachInv => BlockWins
    BY Zenon DEF ReachInv, BlockWins, WillBlock, Blocked
  <1> QED BY <1>1, ReachInvInit, ReachInvStep, PTL DEF ReachSpec

-----------------------------------------------------------------------------
(* What the agent is handed can be served, and stays served. *)

\* Peers that one interface can serve: no address twice, none the server's.
Fit(peers) == \A p, q \in peers : p[2] # server_address /\ (p # q => p[2] # q[2])

Calls == [pc : {"idle", "found", "insert", "error"}, iface : Ifaces \cup {0},
          user : Users \cup {0}, addr : Nat]
Peers == SUBSET (Users \X Nat)
Entries == [iface : Ifaces, name : Names, peers : Peers]
Builds == [pc : {"idle", "iface", "ensure", "apply"}, users : SUBSET Users,
           todo : SUBSET Ifaces, iface : Ifaces \cup {0}, missing : SUBSET Users,
           spec : Seq(Entries), at : Nat \ {0}, failed : SUBSET Names]

WgTypeOK ==
    /\ row \in [Ifaces -> {"none", "on", "off", "gone"}]
    /\ name \in [Ifaces -> Names]
    /\ user \in [Users -> {"active", "inactive", "gone"}]
    /\ peer \in [Ifaces -> [Users -> Nat]]
    /\ ensure \in [Actors -> Calls]
    /\ build \in Builds
    /\ up \in [Names -> [iface : Ifaces \cup {0}, peers : Peers]]
    /\ handed \subseteq Ifaces \X Users \X Nat

\* The rows of one interface: an address belongs to one peer and never to the server.
RowsFit ==
    \A i \in Ifaces, u \in Users :
        /\ peer[i][u] # server_address
        /\ \A v \in Users : u # v /\ peer[i][u] # 0 => peer[i][u] # peer[i][v]

\* A call of ensure_wg_peer names an address a peer can have; one that is about
\* to return names the row, unless the row went with its interface or user.
CallFits(e) ==
    /\ e.pc \in {"insert", "found"} => e.iface \in Ifaces /\ e.user \in Users /\ e.addr >= 2
    /\ e.pc = "found" /\ row[e.iface] # "gone" /\ user[e.user] # "gone" =>
         peer[e.iface][e.user] = e.addr
EnsureFits == \A a \in Actors : CallFits(ensure[a])

\* The inductive invariant: what was read, sent, applied or handed out was fit
\* when it was read, and what was handed out is still a row.
WgInv ==
    /\ WgTypeOK
    /\ build.pc = "ensure" => build.iface \in Ifaces
    /\ RowsFit /\ EnsureFits
    /\ \A c \in handed : peer[c[1]][c[2]] = c[3] /\ c[3] # 0
    /\ \A k \in DOMAIN build.spec : Fit(build.spec[k].peers)
    /\ \A n \in Names : Fit(up[n].peers)

\* allocate_ip returns an address that a peer can have, or the error.
LEMMA AllocatedIsFree ==
    ASSUME NEW prefix, NEW taken
    PROVE  LET ip == allocate_ip(prefix, taken) IN ip \in Nat /\ (ip = 0 \/ (ip >= 2 /\ ip \notin taken))
  <1> DEFINE hosts == 2 .. 2 ^ (Width - prefix) - 1 - 1
             first(h) == h \notin taken /\ \A g \in hosts : g < h => g \in taken
             ip == CHOOSE h \in hosts : first(h)
  <1>1. \A h \in hosts : h \in Nat /\ h >= 2
    OBVIOUS
  <1> HIDE DEF hosts
  <1>2. (\E h \in hosts : first(h)) => ip \in hosts /\ ip \notin taken
    BY Zenon
  <1>3. allocate_ip(prefix, taken) = 0
        \/ ((\E h \in hosts : first(h)) /\ allocate_ip(prefix, taken) = ip)
    BY Zenon DEF allocate_ip, hosts
  <1> HIDE DEF ip, first
  <1>4. CASE allocate_ip(prefix, taken) = 0
    BY <1>4
  <1>5. CASE allocate_ip(prefix, taken) = ip /\ \E h \in hosts : first(h)
    BY <1>1, <1>2, <1>5, Zenon
  <1> QED BY <1>3, <1>4, <1>5, Zenon

\* There are no peers, no interfaces and no specification at the start.
LEMMA WgInvInit == WgInit => WgInv
  <1> SUFFICES ASSUME WgInit PROVE WgInv
    BY Zenon
  <1>1. (CHOOSE n \in Names : TRUE) \in Names
    BY NamesAssumption, Zenon
  <1>2. <<>> \in Seq(Entries)
    OBVIOUS
  <1>a. NotBuilding \in Builds /\ NotEnsuring \in Calls
    BY <1>2 DEF NotBuilding, Builds, NotEnsuring, Calls
  <1>b. Down \in [iface : Ifaces \cup {0}, peers : Peers]
    BY Zenon DEF Down, Peers
  <1>3. WgTypeOK
    BY <1>1, <1>a, <1>b, Zenon DEF WgInit, WgTypeOK
  <1>4. build.spec = <<>> /\ build.pc = "idle"
    BY Zenon DEF WgInit, NotBuilding
  <1>5. \A a \in Actors : ensure[a].pc = "idle"
    BY Zenon DEF WgInit, NotEnsuring
  <1>6. \A n \in Names : up[n].peers = {}
    BY Zenon DEF WgInit, Down
  <1>7. \A i \in Ifaces, u \in Users : peer[i][u] = 0
    BY Zenon DEF WgInit
  <1> QED BY <1>3, <1>4, <1>5, <1>6, <1>7 DEF WgInit, WgInv, RowsFit, EnsureFits, CallFits, Fit, server_address

\* The calls stay fit when the rows they name stay or are gone.
LEMMA EnsuresStay ==
  ASSUME WgInv, ensure' = ensure,
         \A i \in Ifaces, u \in Users :
            /\ row[i] = "gone" => row'[i] = "gone"
            /\ user[u] = "gone" => user'[u] = "gone"
            /\ row'[i] # "gone" /\ user'[u] # "gone" => peer'[i][u] = peer[i][u]
  PROVE  EnsureFits'
  <1>1. ASSUME NEW a \in Actors PROVE CallFits(ensure[a])'
    <2>1. CallFits(ensure[a])
      BY Zenon DEF WgInv, EnsureFits
    <2> QED BY <2>1, Zenon DEF CallFits
  <1> QED BY <1>1, Zenon DEF EnsureFits

\* One call goes on, on the rows as they are.
LEMMA CallMoves ==
  ASSUME WgInv, NEW a \in Actors, NEW f \in Calls, CallFits(f),
         ensure' = [ensure EXCEPT ![a] = f], UNCHANGED <<row, user, peer>>
  PROVE  ensure' \in [Actors -> Calls] /\ EnsureFits'
  <1>1. ensure \in [Actors -> Calls]
    BY Zenon DEF WgInv, WgTypeOK
  <1>2. ASSUME NEW b \in Actors PROVE CallFits(ensure[b])'
    <2>1. ensure'[b] = f \/ ensure'[b] = ensure[b]
      BY <1>1, Zenon
    <2>2. CallFits(ensure'[b])
      BY <2>1, Zenon DEF WgInv, EnsureFits
    <2> QED BY <2>2, Zenon DEF CallFits
  <1> QED BY <1>1, <1>2, Zenon DEF EnsureFits

\* A call that is over names nothing.
LEMMA IdleFits == NotEnsuring \in Calls /\ CallFits(NotEnsuring)
  BY Zenon DEF NotEnsuring, Calls, CallFits

\* The administrator's edits: rows and users come, change and go.
LEMMA WgEditStep ==
  ASSUME WgInv,
         \/ \E i \in Ifaces : create_wg(i) \/ update_wg(i) \/ delete_wg(i)
         \/ \E u \in Users : UserChanges(u) \/ delete_user(u)
  PROVE  WgInv'
  <1> USE DEF rowVars, nodeVars
  <1>1. ASSUME NEW i \in Ifaces, create_wg(i) \/ update_wg(i) PROVE WgInv'
    <2>1. PICK to \in {"on", "off"}, n \in Names :
            row' = [row EXCEPT ![i] = to] /\ name' = [name EXCEPT ![i] = n]
      BY <1>1, Zenon DEF create_wg, update_wg, create_wg_interface, update_wg_interface
    <2>2. /\ row[i] # "gone"
          /\ UNCHANGED <<user, peer, ensure, build, applied, up, stopped, failures, handed>>
      BY <1>1, Zenon DEF create_wg, update_wg
    <2>3. WgTypeOK'
      BY <2>1, <2>2, Zenon DEF WgInv, WgTypeOK
    <2>4. \A j \in Ifaces : row'[j] = "gone" <=> row[j] = "gone"
      BY <2>1, <2>2, Zenon DEF WgInv, WgTypeOK
    <2>5. EnsureFits'
      BY <2>2, <2>4, EnsuresStay, Zenon
    <2>6. RowsFit'
      BY <2>2, Zenon DEF WgInv, RowsFit
    <2> QED BY <2>2, <2>3, <2>5, <2>6, Zenon DEF WgInv
  <1>2. ASSUME NEW i \in Ifaces, delete_wg(i) PROVE WgInv'
    <2>1. /\ row' = [row EXCEPT ![i] = "gone"]
          /\ peer' = [peer EXCEPT ![i] = [u \in Users |-> 0]]
          /\ handed' = {c \in handed : c[1] # i}
          /\ UNCHANGED <<name, user, ensure, build, applied, up, stopped, failures>>
      BY <1>2, Zenon DEF delete_wg, delete_wg_interface
    <2>2. WgTypeOK'
      BY <2>1, Zenon DEF WgInv, WgTypeOK
    <2>3. \A j \in Ifaces : j # i => peer'[j] = peer[j] /\ row'[j] = row[j]
      BY <2>1, Zenon DEF WgInv, WgTypeOK
    <2>4. row'[i] = "gone" /\ \A u \in Users : peer'[i][u] = 0
      BY <2>1, Zenon DEF WgInv, WgTypeOK
    <2>5. RowsFit'
      BY <2>3, <2>4 DEF WgInv, RowsFit, server_address
    <2>6. EnsureFits'
      BY <2>1, <2>3, <2>4, EnsuresStay, Zenon
    <2>7. \A c \in handed' : peer'[c[1]][c[2]] = c[3] /\ c[3] # 0
      BY <2>1, <2>3, Zenon DEF WgInv, WgTypeOK
    <2> QED BY <2>1, <2>2, <2>5, <2>6, <2>7, Zenon DEF WgInv
  <1>3. ASSUME NEW u \in Users, UserChanges(u) PROVE WgInv'
    <2>1. PICK to \in {"active", "inactive"} : user' = [user EXCEPT ![u] = to]
      BY <1>3, Zenon DEF UserChanges
    <2>2. /\ user[u] # "gone"
          /\ UNCHANGED <<row, name, peer, ensure, build, applied, up, stopped, failures, handed>>
      BY <1>3, Zenon DEF UserChanges
    <2>3. WgTypeOK'
      BY <2>1, <2>2, Zenon DEF WgInv, WgTypeOK
    <2>4. \A v \in Users : user'[v] = "gone" <=> user[v] = "gone"
      BY <2>1, <2>2, Zenon DEF WgInv, WgTypeOK
    <2>5. EnsureFits'
      BY <2>2, <2>4, EnsuresStay, Zenon
    <2>6. RowsFit'
      BY <2>2, Zenon DEF WgInv, RowsFit
    <2> QED BY <2>2, <2>3, <2>5, <2>6, Zenon DEF WgInv
  <1>4. ASSUME NEW u \in Users, delete_user(u) PROVE WgInv'
    <2>1. /\ user' = [user EXCEPT ![u] = "gone"]
          /\ peer' = [i \in Ifaces |-> [peer[i] EXCEPT ![u] = 0]]
          /\ handed' = {c \in handed : c[2] # u}
          /\ UNCHANGED <<row, name, ensure, build, applied, up, stopped, failures>>
      BY <1>4, Zenon DEF delete_user
    <2>2. WgTypeOK'
      BY <2>1, Zenon DEF WgInv, WgTypeOK
    <2>3. \A i \in Ifaces, v \in Users :
            peer'[i][v] = (IF v = u THEN 0 ELSE peer[i][v]) /\ (v # u => user'[v] = user[v])
      BY <2>1, Zenon DEF WgInv, WgTypeOK
    <2>4. user'[u] = "gone"
      BY <2>1, Zenon DEF WgInv, WgTypeOK
    <2>5. RowsFit'
      BY <2>3 DEF WgInv, RowsFit, server_address
    <2>6. EnsureFits'
      <3>1. \A i \in Ifaces, v \in Users :
              /\ user[v] = "gone" => user'[v] = "gone"
              /\ user'[v] # "gone" => peer'[i][v] = peer[i][v]
        BY <2>3, <2>4, Zenon
      <3> QED BY <2>1, <3>1, EnsuresStay, Zenon
    <2>7. \A c \in handed' : peer'[c[1]][c[2]] = c[3] /\ c[3] # 0
      BY <2>1, <2>3 DEF WgInv, WgTypeOK
    <2> QED BY <2>1, <2>2, <2>5, <2>6, <2>7, Zenon DEF WgInv
  <1> QED BY <1>1, <1>2, <1>3, <1>4, Zenon

\* The result of the first half of ensure_wg_peer fits the rows it was read from.
LEMMA EnsureReads ==
  ASSUME WgInv, NEW i \in Ifaces, NEW u \in Users
  PROVE  LET e == ensure_wg_peer(i, u) IN
         /\ e \in Calls
         /\ e.pc \in {"insert", "found"} => e.iface = i /\ e.user = u /\ e.addr >= 2
         /\ e.pc = "found" => peer[i][u] = e.addr
  <1>1. peer[i][u] \in Nat /\ peer[i][u] # 1
    BY DEF WgInv, WgTypeOK, RowsFit, server_address
  <1>2. CASE peer[i][u] # 0
    BY <1>1, <1>2, SMTT(40) DEF ensure_wg_peer, Calls
  <1>3. CASE peer[i][u] = 0
    <2> DEFINE ip == allocate_ip(Prefix[i], Taken(i))
    <2>1. ip \in Nat /\ (ip = 0 \/ ip >= 2)
      BY AllocatedIsFree, Zenon
    <2>2. ensure_wg_peer(i, u) = [pc |-> IF ip = 0 THEN "error" ELSE "insert", iface |-> i,
                                  user |-> u, addr |-> ip]
      BY <1>3, Zenon DEF ensure_wg_peer
    <2> HIDE DEF ip
    <2> QED BY <2>1, <2>2 DEF Calls
  <1> QED BY <1>2, <1>3, Zenon

\* The INSERT, with the constraints of the table.
LEMMA InsertStep ==
  ASSUME WgInv, NEW a \in Actors, EnsureInserts(a)
  PROVE  WgInv'
  <1> DEFINE e == ensure[a]
  <1> USE DEF rowVars, nodeVars
  <1>0. ensure \in [Actors -> Calls] /\ e \in Calls
    BY Zenon DEF WgInv, WgTypeOK
  <1>1. /\ e.pc = "insert" /\ e.iface \in Ifaces /\ e.user \in Users /\ e.addr \in Nat /\ e.addr >= 2
        /\ UNCHANGED <<row, name, user, build, applied, up, stopped, failures, handed>>
    <2>1. e.pc = "insert" /\ UNCHANGED <<row, name, user, build, applied, up, stopped, failures, handed>>
      BY Zenon DEF EnsureInserts
    <2>2. CallFits(e)
      BY Zenon DEF WgInv, EnsureFits
    <2> QED BY <1>0, <2>1, <2>2, Zenon DEF CallFits, Calls
  <1>2. CASE ~InsertAccepted(e)
    <2> DEFINE f == [e EXCEPT !.pc = "error"]
    <2>1. ensure' = [ensure EXCEPT ![a] = f] /\ peer' = peer
      BY <1>0, <1>2, Zenon DEF EnsureInserts
    <2>2. f \in Calls /\ f.pc = "error"
      BY <1>0, Zenon DEF Calls
    <2> HIDE DEF f
    <2>3. CallFits(f)
      BY <2>2, Zenon DEF CallFits
    <2>4. ensure' \in [Actors -> Calls] /\ EnsureFits'
      BY <1>1, <2>1, <2>2, <2>3, CallMoves, Zenon
    <2>5. WgTypeOK'
      BY <1>1, <2>1, <2>4, Zenon DEF WgInv, WgTypeOK
    <2> QED BY <1>1, <2>1, <2>4, <2>5, Zenon DEF WgInv, RowsFit
  <1>3. CASE InsertAccepted(e)
    <2> DEFINE f == [e EXCEPT !.pc = "found"]
    <2>1. /\ peer' = [peer EXCEPT ![e.iface][e.user] = e.addr]
          /\ ensure' = [ensure EXCEPT ![a] = f]
      BY <1>0, <1>3, Zenon DEF EnsureInserts
    <2>2. peer[e.iface][e.user] = 0 /\ \A u \in Users : peer[e.iface][u] # e.addr
      BY <1>1, <1>3 DEF InsertAccepted, Taken
    <2>6. f \in Calls /\ f.pc = "found" /\ f.iface = e.iface /\ f.user = e.user /\ f.addr = e.addr
      BY <1>0, Zenon DEF Calls
    <2> HIDE DEF e, f
    <2>3. WgTypeOK'
      <3>1. peer' \in [Ifaces -> [Users -> Nat]]
        BY <1>1, <2>1, Zenon DEF WgInv, WgTypeOK
      <3>2. ensure' \in [Actors -> Calls]
        BY <2>1, <2>6, Zenon DEF WgInv, WgTypeOK
      <3> QED BY <1>1, <3>1, <3>2, Zenon DEF WgInv, WgTypeOK
    <2>4. \A i \in Ifaces, u \in Users :
            peer'[i][u] = IF i = e.iface /\ u = e.user THEN e.addr ELSE peer[i][u]
      BY <1>1, <2>1, Zenon DEF WgInv, WgTypeOK
    <2>5. \A b \in Actors : ensure'[b] = IF b = a THEN f ELSE ensure[b]
      BY <1>0, <2>1, Zenon
    <2>7. RowsFit'
      BY <1>1, <2>2, <2>4 DEF WgInv, RowsFit, server_address
    <2>8. EnsureFits'
      <3> SUFFICES ASSUME NEW b \in Actors PROVE CallFits(ensure[b])'
        BY Zenon DEF EnsureFits
      <3>1. CASE b = a
        <4>1. ensure'[b] = f
          BY <2>5, <3>1, Zenon
        <4> QED BY <1>1, <2>4, <2>6, <4>1, Zenon DEF CallFits
      <3>2. CASE b # a
        <4>1. ensure'[b] = ensure[b] /\ ensure[b] \in Calls /\ CallFits(ensure[b])
          BY <1>0, <2>5, <3>2, Zenon DEF WgInv, EnsureFits
        <4>2. ensure[b].addr \in Nat
          BY <4>1, Zenon DEF Calls
        <4>3. ensure[b].addr >= 2 => ensure[b].addr # 0
          BY <4>2
        <4>4. ensure[b].pc = "found" => ~(ensure[b].iface = e.iface /\ ensure[b].user = e.user)
                                        \/ row[e.iface] = "gone" \/ user[e.user] = "gone"
          BY <2>2, <4>1, <4>3, Zenon DEF CallFits
        <4>5. ASSUME ensure[b].pc = "found", row[ensure[b].iface] # "gone", user[ensure[b].user] # "gone"
              PROVE  peer'[ensure[b].iface][ensure[b].user] = ensure[b].addr
          <5>1. /\ ensure[b].iface \in Ifaces /\ ensure[b].user \in Users
                /\ peer[ensure[b].iface][ensure[b].user] = ensure[b].addr
            BY <4>1, <4>5, Zenon DEF CallFits
          <5> QED BY <2>4, <4>4, <4>5, <5>1, Zenon
        <4> QED BY <1>1, <4>1, <4>5, Zenon DEF CallFits
      <3> QED BY <3>1, <3>2, Zenon
    <2>9. \A c \in handed' : peer'[c[1]][c[2]] = c[3] /\ c[3] # 0
      <3>1. \A c \in handed : c[1] \in Ifaces /\ c[2] \in Users
        BY Zenon DEF WgInv, WgTypeOK
      <3> QED BY <1>1, <2>2, <2>4, <3>1, ZenonT(60) DEF WgInv
    <2> QED BY <1>1, <2>3, <2>7, <2>8, <2>9, Zenon DEF WgInv
  <1> QED BY <1>2, <1>3, Zenon

\* A download: the call, its answer, and the configuration handed out.
LEMMA DownloadStep ==
  ASSUME WgInv, DownloadEnds \/ \E i \in Ifaces, u \in Users : build_wg_config(i, u)
  PROVE  WgInv'
  <1> USE DEF rowVars, nodeVars, Actors
  <1>1. ASSUME NEW i \in Ifaces, NEW u \in Users, build_wg_config(i, u) PROVE WgInv'
    <2> DEFINE e == ensure_wg_peer(i, u)
    <2>1. /\ ensure' = [ensure EXCEPT !["download"] = e]
          /\ UNCHANGED <<row, name, user, peer, build, applied, up, stopped, failures, handed>>
      BY <1>1, Zenon DEF build_wg_config
    <2>2. /\ e \in Calls
          /\ e.pc \in {"insert", "found"} => e.iface = i /\ e.user = u /\ e.addr >= 2
          /\ e.pc = "found" => peer[i][u] = e.addr
      BY EnsureReads, Zenon
    <2> HIDE DEF e
    <2>3. CallFits(e)
      BY <2>2, Zenon DEF CallFits
    <2>4. ensure' \in [Actors -> Calls] /\ EnsureFits'
      BY <2>1, <2>2, <2>3, CallMoves, Zenon
    <2>5. WgTypeOK'
      BY <2>1, <2>4, Zenon DEF WgInv, WgTypeOK
    <2> QED BY <2>1, <2>4, <2>5, Zenon DEF WgInv, RowsFit
  <1>2. CASE DownloadEnds
    <2> DEFINE e == ensure["download"]
    <2>1. /\ handed' = IF e.pc = "found" /\ row[e.iface] # "gone" /\ user[e.user] # "gone"
                       THEN handed \cup {<<e.iface, e.user, e.addr>>} ELSE handed
          /\ ensure' = [ensure EXCEPT !["download"] = NotEnsuring]
          /\ UNCHANGED <<row, name, user, peer, build, applied, up, stopped, failures>>
      BY <1>2, Zenon DEF DownloadEnds
    <2>2. /\ e.pc = "found" => e.iface \in Ifaces /\ e.user \in Users /\ e.addr \in Nat /\ e.addr # 0
          /\ e.pc = "found" /\ row[e.iface] # "gone" /\ user[e.user] # "gone" =>
               peer[e.iface][e.user] = e.addr
      <3>1. e \in Calls /\ CallFits(e)
        BY Zenon DEF WgInv, WgTypeOK, EnsureFits
      <3> HIDE DEF e
      <3>2. e.addr \in Nat
        BY <3>1, Zenon DEF Calls
      <3>3. e.addr >= 2 => e.addr # 0
        BY <3>2
      <3> QED BY <3>1, <3>2, <3>3, Zenon DEF CallFits
    <2> HIDE DEF e
    <2>3. handed' \subseteq Ifaces \X Users \X Nat /\ \A c \in handed' : peer[c[1]][c[2]] = c[3] /\ c[3] # 0
      <3>1. e.pc = "found" => <<e.iface, e.user, e.addr>> \in Ifaces \X Users \X Nat
        BY <2>2, Zenon
      <3>2. ASSUME NEW c \in handed' PROVE peer[c[1]][c[2]] = c[3] /\ c[3] # 0
        <4>1. CASE c \in handed
          BY <4>1, Zenon DEF WgInv
        <4>2. CASE c \notin handed
          BY <2>1, <2>2, <4>2, SMTT(40)
        <4> QED BY <4>1, <4>2, Zenon
      <3> QED BY <2>1, <3>1, <3>2, Zenon DEF WgInv, WgTypeOK
    <2>4. ensure' \in [Actors -> Calls] /\ EnsureFits'
      BY <2>1, CallMoves, IdleFits, Zenon
    <2>5. WgTypeOK'
      BY <2>1, <2>3, <2>4, Zenon DEF WgInv, WgTypeOK
    <2> QED BY <2>1, <2>3, <2>4, <2>5, Zenon DEF WgInv, RowsFit
  <1> QED BY <1>1, <1>2, Zenon

\* A step that moves the build and nothing else, and keeps its spec fit.
LEMMA BuildMoves ==
  ASSUME WgInv, build' \in Builds,
         build'.pc = "ensure" => build'.iface \in Ifaces,
         build'.spec = build.spec \/ build'.spec = <<>>,
         UNCHANGED <<row, name, user, peer, ensure, up, handed>>
  PROVE  WgInv'
  <1>1. WgTypeOK'
    BY Zenon DEF WgInv, WgTypeOK
  <1>2. \A k \in DOMAIN build'.spec : Fit(build'.spec[k].peers)
    <2>1. CASE build'.spec = build.spec
      BY <2>1, Zenon DEF WgInv
    <2>2. CASE build'.spec = <<>>
      BY <2>2
    <2> QED BY <2>1, <2>2, Zenon
  <1>3. RowsFit' /\ EnsureFits'
    BY ZenonT(60) DEF WgInv, RowsFit, EnsureFits, CallFits
  <1> QED BY <1>1, <1>2, <1>3, Zenon DEF WgInv

\* The build of a spec, its peers and its way to the interfaces.
LEMMA WgBuildStep == ASSUME WgInv, BuildStep PROVE WgInv'
  <1> USE DEF rowVars, nodeVars
  <1>a. build \in Builds
    BY Zenon DEF WgInv, WgTypeOK
  <1>b. NotBuilding \in Builds /\ NotBuilding.pc = "idle" /\ NotBuilding.spec = <<>>
    <2>1. <<>> \in Seq(Entries) /\ 1 \in Nat \ {0}
      OBVIOUS
    <2> QED BY <2>1, Zenon DEF NotBuilding, Builds
  <1>1. CASE BuildBegins
    <2>1. /\ build' = [NotBuilding EXCEPT !.pc = "iface", !.users = ActiveUsers,
                                          !.todo = enabled_wg_interfaces]
          /\ UNCHANGED <<row, name, user, peer, ensure, up, handed>>
      BY <1>1, Zenon DEF BuildBegins
    <2>2. ActiveUsers \in SUBSET Users /\ enabled_wg_interfaces \in SUBSET Ifaces
      BY Zenon DEF ActiveUsers, enabled_wg_interfaces
    <2>3. build' \in Builds /\ build'.pc = "iface" /\ build'.spec = <<>>
      BY <1>b, <2>1, <2>2, Zenon DEF Builds
    <2> QED BY <2>1, <2>3, BuildMoves, Zenon
  <1>2. CASE BuildIface
    <2>1. PICK i \in build.todo :
            build' = [build EXCEPT !.pc = "ensure", !.iface = i,
                                   !.missing = {u \in build.users : peer[i][u] = 0}]
      BY <1>2, Zenon DEF BuildIface
    <2>2. i \in Ifaces /\ {u \in build.users : peer[i][u] = 0} \in SUBSET Users
      BY <1>a, Zenon DEF Builds
    <2>3. build' \in Builds /\ build'.iface \in Ifaces /\ build'.spec = build.spec
      BY <1>a, <2>1, <2>2, Zenon DEF Builds
    <2>4. UNCHANGED <<row, name, user, peer, ensure, up, handed>>
      BY <1>2, Zenon DEF BuildIface
    <2> QED BY <2>3, <2>4, BuildMoves, Zenon
  <1>3. CASE PushSpec
    <2>1. build' \in Builds /\ build'.pc # "ensure" /\ (build'.spec = build.spec \/ build'.spec = <<>>)
      BY <1>3, <1>a, <1>b, Zenon DEF PushSpec, Builds
    <2>2. UNCHANGED <<row, name, user, peer, ensure, up, handed>>
      BY <1>3, Zenon DEF PushSpec
    <2> QED BY <2>1, <2>2, BuildMoves, Zenon
  <1>4. CASE SpecApplied
    <2>1. build' = NotBuilding /\ UNCHANGED <<row, name, user, peer, ensure, up, handed>>
      BY <1>4, Zenon DEF SpecApplied
    <2> QED BY <1>b, <2>1, BuildMoves, Zenon
  <1>5. ASSUME NEW u \in build.missing, BuildEnsures(u) PROVE WgInv'
    <2> DEFINE e == ensure_wg_peer(build.iface, u)
    <2>1. /\ ensure' = [ensure EXCEPT !["push"] = e]
          /\ build' = [build EXCEPT !.missing = @ \ {u}] /\ build.iface \in Ifaces /\ u \in Users
          /\ UNCHANGED <<row, name, user, peer, up, handed>>
      BY <1>5, <1>a, Zenon DEF BuildEnsures, WgInv, Builds
    <2>2. /\ e \in Calls
          /\ e.pc \in {"insert", "found"} => e.iface = build.iface /\ e.user = u /\ e.addr >= 2
          /\ e.pc = "found" => peer[build.iface][u] = e.addr
      BY <2>1, EnsureReads, Zenon
    <2> HIDE DEF e
    <2>3. build' \in Builds /\ build'.spec = build.spec /\ build'.iface = build.iface
      BY <1>a, <2>1, Zenon DEF Builds
    <2>4. CallFits(e)
      BY <2>1, <2>2, Zenon DEF CallFits
    <2>5. ensure' \in [Actors -> Calls] /\ EnsureFits'
      BY <2>1, <2>2, <2>4, CallMoves, Zenon DEF Actors
    <2>6. WgTypeOK'
      BY <2>1, <2>3, <2>5, Zenon DEF WgInv, WgTypeOK
    <2> QED BY <2>1, <2>3, <2>5, <2>6, Zenon DEF WgInv, RowsFit
  <1>6. CASE BuildEnsured
    <2>1. /\ ensure' = [ensure EXCEPT !["push"] = NotEnsuring]
          /\ build' = NotBuilding \/ build' = build
          /\ UNCHANGED <<row, name, user, peer, up, handed>>
      BY <1>6, Zenon DEF BuildEnsured
    <2>3. build' \in Builds
      BY <1>a, <1>b, <2>1, Zenon
    <2>5. ensure' \in [Actors -> Calls] /\ EnsureFits'
      BY <2>1, CallMoves, IdleFits, Zenon DEF Actors
    <2>4. WgTypeOK'
      BY <2>1, <2>3, <2>5, Zenon DEF WgInv, WgTypeOK
    <2>7. /\ \A k \in DOMAIN build'.spec : Fit(build'.spec[k].peers)
          /\ build'.pc = "ensure" => build'.iface \in Ifaces
      <3>1. CASE build' = build
        BY <3>1, Zenon DEF WgInv
      <3>2. CASE build' = NotBuilding
        BY <1>b, <3>2
      <3> QED BY <2>1, <3>1, <3>2, Zenon
    <2> QED BY <2>1, <2>4, <2>5, <2>7, Zenon DEF WgInv, RowsFit
  <1>7. CASE BuildPeers
    <2> DEFINE i == build.iface
               w == [iface |-> i, name |-> name[i], peers |-> wg_peers_for_interface(i)]
    <2>1. /\ build' = [build EXCEPT !.pc = "iface", !.todo = @ \ {i}, !.spec = Append(@, w)]
          /\ i \in Ifaces
          /\ UNCHANGED <<row, name, user, peer, ensure, up, handed>>
      BY <1>7, Zenon DEF BuildPeers, WgInv
    <2>2. wg_peers_for_interface(i) \in Peers /\ Fit(wg_peers_for_interface(i))
      <3> DEFINE S == wg_peers_for_interface(i)
      <3>1. \A p \in S : \E u \in Users : p = <<u, peer[i][u]>> /\ peer[i][u] # 0
        BY <1>a, Zenon DEF wg_peers_for_interface, Builds
      <3>2. \A u \in Users : peer[i][u] \in Nat /\ peer[i][u] # server_address
        BY <2>1 DEF WgInv, WgTypeOK, RowsFit
      <3> HIDE DEF S
      <3>3. \A p \in S : p \in Users \X Nat
        BY <3>1, <3>2
      <3>4. ASSUME NEW p \in S, NEW q \in S PROVE p[2] # server_address /\ (p # q => p[2] # q[2])
        <4>1. PICK u \in Users : p = <<u, peer[i][u]>> /\ peer[i][u] # 0
          BY <3>1, Zenon
        <4>2. PICK v \in Users : q = <<v, peer[i][v]>> /\ peer[i][v] # 0
          BY <3>1, Zenon
        <4>3. u # v => peer[i][u] # peer[i][v]
          BY <2>1, <4>1, Zenon DEF WgInv, RowsFit
        <4> QED BY <3>2, <4>1, <4>2, <4>3, Zenon
      <3> QED BY <3>3, <3>4, Zenon DEF Peers, Fit, S
    <2>3. w \in Entries /\ w.peers = wg_peers_for_interface(i)
      BY <2>1, <2>2, Zenon DEF Entries, WgInv, WgTypeOK
    <2> HIDE DEF w
    <2>4. build' \in Builds /\ build'.pc = "iface" /\ build'.spec = Append(build.spec, w)
      <3>1. Append(build.spec, w) \in Seq(Entries) /\ build.todo \ {i} \in SUBSET Ifaces
        BY <1>a, <2>3 DEF Builds
      <3> QED BY <1>a, <2>1, <3>1, Zenon DEF Builds
    <2>5. \A k \in DOMAIN build'.spec : Fit(build'.spec[k].peers)
      BY <1>a, <2>2, <2>3, <2>4 DEF WgInv, Builds
    <2>6. WgTypeOK'
      BY <2>1, <2>4, Zenon DEF WgInv, WgTypeOK
    <2> QED BY <2>1, <2>4, <2>5, <2>6, Zenon DEF WgInv, RowsFit, EnsureFits, CallFits
  <1>8. CASE AgentApplies
    <2> DEFINE w == build.spec[build.at]
    <2>1. w \in Entries /\ Fit(w.peers)
      BY <1>8, <1>a DEF AgentApplies, Builds, WgInv
    <2>2. PICK error \in {"none", "file", "up"}, gone \in {TRUE, FALSE} :
            /\ applyOne(w, error)
            /\ build' = [build EXCEPT !.at = @ + 1,
                                      !.failed = IF gone THEN @ \cup {w.name} ELSE @]
      BY <1>8, Zenon DEF AgentApplies
    <2>3. UNCHANGED <<row, name, user, peer, ensure, handed>>
      BY <1>8, Zenon DEF AgentApplies
    <2>4. up' = up \/ up' = Cleared(w) \/ up' = [up EXCEPT ![w.name] = serverConf(w)]
      BY <2>2 DEF applyOne
    <2>5. serverConf(w) \in [iface : Ifaces \cup {0}, peers : Peers] /\ Fit(serverConf(w).peers)
      BY <2>1, Zenon DEF serverConf, Entries
    <2>6. Down \in [iface : Ifaces \cup {0}, peers : Peers] /\ Fit(Down.peers)
      BY Zenon DEF Down, Peers, Fit
    <2>7. /\ up' \in [Names -> [iface : Ifaces \cup {0}, peers : Peers]]
          /\ \A n \in Names : Fit(up'[n].peers)
      <3>1. /\ up \in [Names -> [iface : Ifaces \cup {0}, peers : Peers]]
            /\ \A n \in Names : Fit(up[n].peers)
        BY Zenon DEF WgInv, WgTypeOK
      <3>2. PICK c \in [iface : Ifaces \cup {0}, peers : Peers] :
              Fit(c.peers) /\ (up' = up \/ up' = [up EXCEPT ![w.name] = c])
        BY <2>4, <2>5, <2>6, Zenon DEF Cleared
      <3> QED BY <3>1, <3>2, Zenon
    <2> HIDE DEF w
    <2>8. build' \in Builds /\ build'.spec = build.spec /\ build'.pc = build.pc /\ build'.iface = build.iface
      <3> DEFINE failed == IF gone THEN build.failed \cup {w.name} ELSE build.failed
      <3>1. failed \in SUBSET Names /\ build.at + 1 \in Nat \ {0}
        BY <1>a, <2>1 DEF Builds, Entries
      <3>2. build' = [build EXCEPT !.at = build.at + 1, !.failed = failed]
        BY <2>2, Zenon
      <3> HIDE DEF failed
      <3> QED BY <1>a, <3>1, <3>2, Zenon DEF Builds
    <2>9. WgTypeOK'
      BY <2>3, <2>7, <2>8, Zenon DEF WgInv, WgTypeOK
    <2> QED BY <2>3, <2>7, <2>8, <2>9, Zenon DEF WgInv, RowsFit, EnsureFits, CallFits
  <1>9. CASE EnsureInserts("push")
    BY <1>9, InsertStep, Zenon DEF Actors
  <1> QED BY <1>1, <1>2, <1>3, <1>4, <1>5, <1>6, <1>7, <1>8, <1>9, Zenon DEF BuildStep

\* Every edit, download, build, push and step of the agent keeps it.
LEMMA WgInvStep == WgInv /\ [WgNext]_wgVars => WgInv'
  <1> SUFFICES ASSUME WgInv, [WgNext]_wgVars PROVE WgInv'
    BY Zenon
  <1>1. CASE UNCHANGED wgVars
    <2>1. UNCHANGED <<row, name, user, peer, ensure, build, up, handed>>
      BY <1>1, Zenon DEF wgVars, rowVars, nodeVars
    <2>2. WgTypeOK'
      BY <2>1, Zenon DEF WgInv, WgTypeOK
    <2>3. RowsFit' /\ EnsureFits'
      BY <2>1, Zenon DEF WgInv, RowsFit, EnsureFits, CallFits
    <2> QED BY <2>1, <2>2, <2>3, Zenon DEF WgInv
  <1>2. CASE EnsureInserts("download")
    BY <1>2, InsertStep, Zenon DEF Actors
  <1> QED BY <1>1, <1>2, WgEditStep, DownloadStep, WgBuildStep, Zenon DEF WgNext

\* A configuration that was handed out keeps its address and shares it with
\* nobody, for every number of interfaces, users, names and failures and every
\* pool: the UNIQUE constraints decide what two calls of ensure_wg_peer that
\* read the same rows leave behind (repo.rs ensure_wg_peer, spec.rs, wg.go).
THEOREM HandedOutAlwaysHolds == WgSpec => []HandedOutHolds
  <1>1. WgInv => HandedOutHolds
    BY Zenon DEF WgInv, HandedOutHolds, AddressesDistinct, Fit
  <1> QED BY <1>1, WgInvInit, WgInvStep, PTL DEF WgSpec
=============================================================================

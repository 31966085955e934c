----------------------------- MODULE AuditChain -----------------------------
(***************************************************************************)
(* The audit log: every handler ends by appending an event whose SHA-256   *)
(* hash covers the hash of the event before it.  A hash is modelled by     *)
(* what it covers: the id of the event and the id of the event whose hash  *)
(* it was chained to (0 for none); equal hashes are equal records.         *)
(***************************************************************************)
EXTENDS Naturals, FiniteSets, FiniteSetsExt

CONSTANTS
    Writers,   \* handlers that audit at the same time
    Legacy,    \* number of events from before the chain, without a hash
    MaxEvents  \* bound: ids drawn from the table's sequence

NoWriter == 0

ASSUME WritersAssumption == NoWriter \notin Writers
ASSUME LegacyAssumption == Legacy \in Nat

NoHash == [id |-> 0, prev |-> 0]

VARIABLES
    log,      \* committed rows of audit_events: id -> entry_hash (NoHash if NULL)
    seqId,    \* last id the sequence handed out; rollbacks do not return ids
    lock,     \* the holder of pg_advisory_xact_lock, or None
    tx        \* the open transaction of each writer

auditVars == <<log, seqId, lock, tx>>

NoTx == [pc |-> "out"]

AuditInit ==
    /\ log = [i \in 1..Legacy |-> NoHash]
    /\ seqId = Legacy
    /\ lock = NoWriter
    /\ tx = [w \in Writers |-> NoTx]

\* SELECT entry_hash ... ORDER BY id DESC LIMIT 1: the hash of the newest committed row.
LastHash == IF DOMAIN log = {} THEN NoHash ELSE log[Max(DOMAIN log)]

\* Mutant: the previous hash is read without waiting for the writers' lock.
AuditBeginUnlocked(w) ==
    /\ tx[w] = NoTx
    /\ tx' = [tx EXCEPT ![w] = [pc |-> "insert", prev |-> LastHash]]
    /\ UNCHANGED <<log, seqId, lock>>

\* The advisory lock, then the newest hash.
AuditBegin(w) ==
    /\ tx[w] = NoTx /\ lock = NoWriter
    /\ lock' = w
    /\ tx' = [tx EXCEPT ![w] = [pc |-> "insert", prev |-> LastHash]]
    /\ UNCHANGED <<log, seqId>>

\* INSERT ... RETURNING id: the row is the transaction's own until it commits.
AuditInsert(w) ==
    /\ tx[w].pc = "insert" /\ seqId < MaxEvents
    /\ seqId' = seqId + 1
    /\ tx' = [tx EXCEPT ![w] = [pc |-> "stamp", prev |-> @.prev, id |-> seqId + 1]]
    /\ UNCHANGED <<log, lock>>

\* entry_hash is stamped over the previous hash and the row, and both commit together.
AuditCommit(w) ==
    /\ tx[w].pc = "stamp"
    /\ LET t == tx[w] IN
         log' = [i \in DOMAIN log \cup {t.id} |->
                    IF i = t.id THEN [id |-> t.id, prev |-> t.prev.id] ELSE log[i]]
    /\ tx' = [tx EXCEPT ![w] = NoTx]
    /\ lock' = IF lock = w THEN NoWriter ELSE lock
    /\ UNCHANGED seqId

\* An error or a crash rolls the transaction back; the handler only logs it.
AuditAbort(w) ==
    /\ tx[w] # NoTx
    /\ tx' = [tx EXCEPT ![w] = NoTx]
    /\ lock' = IF lock = w THEN NoWriter ELSE lock
    /\ UNCHANGED <<log, seqId>>

AuditNext ==
    \E w \in Writers : AuditBegin(w) \/ AuditInsert(w) \/ AuditCommit(w) \/ AuditAbort(w)

AuditSpec == AuditInit /\ [][AuditNext]_auditVars

-----------------------------------------------------------------------------
\* The hash a verifier expects of row i: chained to the row before it, which
\* counts as "no previous hash" when it is a legacy row or there is none.
Expected(i) ==
    LET before == {j \in DOMAIN log : j < i}
    IN  [id |-> i, prev |-> IF before = {} THEN 0 ELSE log[Max(before)].id]

verify_audit_chain == \A i \in DOMAIN log : log[i] # NoHash => log[i] = Expected(i)

\* GET /audit/verify finds the chain intact at every moment, whatever writers
\* interleave, roll back or leave gaps in the ids (repo.rs record_audit).
ChainIntact == verify_audit_chain
=============================================================================

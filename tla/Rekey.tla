------------------------------- MODULE Rekey -------------------------------
(***************************************************************************)
(* The secrets at rest (secret.rs) and the two maintenance commands that   *)
(* rewrite them: `reencrypt`, which wraps legacy plaintext under the       *)
(* current key, and `rekey`, which moves every secret from an old key to a *)
(* new one.  Both walk the tables one after the other; a table is SELECTed *)
(* whole and then UPDATEd row by row, each statement committed on its own, *)
(* so that the process can die between any two of them, and `reencrypt`    *)
(* may run beside a serving master.  The operator's part (back up, stop,   *)
(* rekey, restore or start) is the procedure of docs/runbooks.md.          *)
(***************************************************************************)
EXTENDS Naturals, Sequences

CONSTANTS
    Rows,        \* secrets that are set, one per row of a table
    Table,       \* Table[r]: the table the row belongs to
    Keys,        \* master keys the operator has generated
    Plain,       \* the "key" of a value stored without the enc:v1: prefix
    NoKey,       \* no key: a stopped master, or no command running
    Mangled,     \* the data of a secret that cannot be opened
    MaxWrites    \* bound on the secrets the master replaces

\* The columns the master writes through secret::encrypt.
ASSUME SecretsAssumption ==
    /\ Table \in [Rows -> {"users", "user_subscriptions", "wg", "node_services",
                           "inbounds.reality", "inbounds.chain", "admins"}]
    /\ NoKey \notin Keys /\ MaxWrites \in Nat

VARIABLES
    store,     \* row -> [data, key]: the stored value
    written,   \* row -> the data the master stored there last
    service,   \* the key of the serving master, or NoKey
    env,       \* HONEY_SECRET_KEY in master.env
    command,   \* the running command: [name, old, new, at, batch]
    outcome,   \* how the last command ended: "none", "done", "failed"
    backup,    \* the dump, taken before a rotation
    racedWrites      \* rows whose write a later UPDATE of reencrypt put back

rekeyVars == <<store, written, service, env, command, outcome, backup, racedWrites>>

Error == [data |-> Mangled, key |-> NoKey]

\* Mutant: the administrators' table is forgotten.
RekeyTables_no_admins ==
    <<"users", "user_subscriptions", "wg", "node_services", "inbounds.reality", "inbounds.chain">>

\* The tables in the order the two commands visit them.  reencrypt stops
\* before the administrators' TOTP secrets.
RekeyTables ==
    <<"users", "user_subscriptions", "wg", "node_services", "inbounds.reality", "inbounds.chain",
      "admins">>

ReencryptTables == SubSeq(RekeyTables, 1, 6)

Tables(name) == IF name = "rekey" THEN RekeyTables ELSE ReencryptTables

encrypt(key, data) == [data |-> data, key |-> key]

CanDecrypt(key, value) == value.key \in {Plain, key}

\* A prefixed value must open under the old key; legacy plaintext is taken as
\* it is.  Either way the result is under the new key.
rekey_value(old, new, value) ==
    IF CanDecrypt(old, value) THEN encrypt(new, value.data) ELSE Error

NoCommand == [name |-> "none", old |-> NoKey, new |-> NoKey, at |-> 0, batch |-> <<>>]

Running == command.name # "none"

RekeyInit ==
    \E k \in Keys :
        /\ store \in [Rows -> {[data |-> 0, key |-> q] : q \in {Plain, k}}]
        /\ written = [r \in Rows |-> 0]
        /\ service = k
        /\ env = k
        /\ command = NoCommand
        /\ outcome = "none"
        /\ racedWrites = {}
        /\ backup = [store |-> store, written |-> written, racedWrites |-> racedWrites]

\* The serving master replaces a secret: rotated credentials, a new token,
\* a new TOTP secret.
WriteSecret(r) ==
    /\ service # NoKey
    /\ written[r] < MaxWrites
    /\ written' = [written EXCEPT ![r] = @ + 1]
    /\ store' = [store EXCEPT ![r] = encrypt(service, written[r] + 1)]
    /\ racedWrites' = racedWrites \ {r}
    /\ UNCHANGED <<service, env, command, outcome, backup>>

\* `honey-master reencrypt`: the key of the environment on both sides.
reencrypt ==
    /\ ~Running
    /\ service # NoKey
    /\ command' = [name |-> "reencrypt", old |-> env, new |-> env, at |-> 0, batch |-> <<>>]
    /\ outcome' = "none"
    /\ UNCHANGED <<store, written, service, env, backup, racedWrites>>

\* `honey-master rekey`: refused when the two keys are the same.
rekey(new) ==
    /\ ~Running
    /\ service = NoKey /\ outcome # "done"
    /\ new # env
    /\ command' = [name |-> "rekey", old |-> env, new |-> new, at |-> 0, batch |-> <<>>]
    /\ outcome' = "none"
    /\ UNCHANGED <<store, written, service, env, backup, racedWrites>>

\* The SELECT of the next table, or the end of the walk.
SelectTable ==
    LET at == command.at + 1
        tables == Tables(command.name)
        rows == {r \in Rows : Table[r] = tables[at]}
    IN /\ Running
       /\ DOMAIN command.batch = {}
       /\ IF at > Len(tables)
          THEN /\ command' = [command EXCEPT !.name = "none", !.batch = <<>>]
               /\ outcome' = "done"
          ELSE /\ command' = [command EXCEPT !.at = at, !.batch = [r \in rows |-> store[r]]]
               /\ UNCHANGED outcome
       /\ UNCHANGED <<store, written, service, env, backup, racedWrites>>

\* One row: the value that was read is converted and stored, whatever the row
\* holds by now.  A value that does not open ends the command.
RewriteRow(r) ==
    LET value == rekey_value(command.old, command.new, command.batch[r])
        rest == DOMAIN command.batch \ {r}
    IN /\ IF value = Error
          THEN /\ command' = NoCommand
               /\ outcome' = "failed"
               /\ UNCHANGED <<store, racedWrites>>
          ELSE /\ store' = [store EXCEPT ![r] = value]
               /\ racedWrites' = IF command.batch[r].data # store[r].data THEN racedWrites \cup {r} ELSE racedWrites
               /\ command' = [command EXCEPT !.batch = [q \in rest |-> command.batch[q]]]
               /\ UNCHANGED outcome
       /\ UNCHANGED <<written, service, env, backup>>

\* The process dies, or the database connection does.
Interrupted ==
    /\ Running
    /\ command' = NoCommand
    /\ outcome' = "failed"
    /\ UNCHANGED <<store, written, service, env, backup, racedWrites>>

\* Runbook, steps 1 to 3: back up and stop the master.
StopMaster ==
    /\ service # NoKey /\ ~Running
    /\ service' = NoKey
    /\ command' = NoCommand
    /\ outcome' = "none"
    /\ backup' = [store |-> store, written |-> written, racedWrites |-> racedWrites]
    /\ UNCHANGED <<store, written, env, racedWrites>>

\* Runbook, step 5: the rotation ended well, so the new key goes into the
\* environment and the master starts with it.
StartRotated(new) ==
    /\ service = NoKey /\ outcome = "done" /\ command.new = new
    /\ env' = new
    /\ service' = new
    /\ outcome' = "none"
    /\ command' = NoCommand
    /\ UNCHANGED <<store, written, backup, racedWrites>>

\* Runbook, step 1: an interrupted rotation is undone from the backup.  The
\* operator then retries, or starts the master with the old key.
Restore ==
    /\ service = NoKey /\ outcome = "failed"
    /\ store' = backup.store
    /\ written' = backup.written
    /\ racedWrites' = backup.racedWrites
    /\ outcome' = "none"
    /\ UNCHANGED <<service, env, command, backup>>

StartAgain ==
    /\ service = NoKey /\ ~Running /\ outcome = "none"
    /\ service' = env
    /\ UNCHANGED <<store, written, env, command, outcome, backup, racedWrites>>

RekeyNext ==
    \/ \E r \in Rows : WriteSecret(r)
    \/ reencrypt
    \/ \E k \in Keys : rekey(k) \/ StartRotated(k)
    \/ SelectTable
    \/ \E r \in DOMAIN command.batch : RewriteRow(r)
    \/ Interrupted
    \/ StopMaster
    \/ Restore
    \/ StartAgain

\* A master that serves can open every secret it has stored: whatever the
\* operator did before (an interrupted rotation that was restored or retried,
\* a reencrypt cut short, two rotations in a row), no row was left under
\* another key than the one the master was started with (secret::decrypt,
\* rekey_secrets).
MasterReadsAll ==
    service # NoKey => \A r \in Rows : CanDecrypt(service, store[r])

\* Neither command changes what a secret says: a row holds the data the master
\* stored there last, however many times it was wrapped again.  The only
\* writes that are lost are those reencrypt put back: made between its SELECT
\* of the table and its UPDATE of the row.
OnlyRacedWritesLost ==
    \A r \in Rows \ racedWrites : store[r].data = written[r]

\* A secret survives its rotations: the master can open it, and it says what
\* was stored (rekey_secrets, reencrypt_secrets).
SecretsSurvive == MasterReadsAll /\ OnlyRacedWritesLost

\* A command that reports success has left no plaintext in the tables it
\* walks, the rows the master rewrote meanwhile included.
NothingLeftPlain ==
    [][\A r \in Rows :
        /\ outcome # "done" /\ outcome' = "done"
        /\ \E i \in DOMAIN Tables(command.name) : Tables(command.name)[i] = Table[r]
        => store[r].key # Plain]_rekeyVars

RekeySpec == RekeyInit /\ [][RekeyNext]_rekeyVars
=============================================================================

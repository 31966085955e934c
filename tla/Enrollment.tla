----------------------------- MODULE Enrollment -----------------------------
(***************************************************************************)
(* How a node gets its certificate.  The master mints a one-time token     *)
(* (api::create_enrollment); honey-enroll, run on a host, sends a CSR with *)
(* the token (agent/cmd/enroll/main.go), the master claims the token,      *)
(* signs the CSR, writes the certificate into its inventory and answers    *)
(* (api::claim_enrollment), and the client writes four files, one after    *)
(* the other.  The request can fail after the token is spent, the answer   *)
(* can be lost, and the client can stop between any two writes.            *)
(*                                                                         *)
(* A run of honey-enroll is named by its number; the key it generates, the *)
(* certificate signed for that key and the files written from them carry   *)
(* the run's number, so two files belong together when the numbers agree.  *)
(***************************************************************************)
EXTENDS Naturals, Sequences

CONSTANTS Tokens,       \* enrollment tokens of one node
          Hosts,        \* machines honey-enroll is run on, one run at a time
          MaxRuns       \* bound: runs of honey-enroll altogether

ASSUME TokensAssumption == Tokens # {}
ASSUME RunsAssumption == MaxRuns \in Nat

Runs == 1..MaxRuns
Files == <<"key", "crt", "ca", "env">>

VARIABLES token,        \* node_enrollment_tokens: its state
          inventory,    \* node_certificates: runs whose certificate is listed
          srv,          \* claim_enrollment per run: [pc, tok]
          cli,          \* per host: [run, pc, at, forced]; at indexes Files
          disk,         \* per host: file -> the run it was written by, 0 absent
          issued,       \* <<run, token>> of every certificate ever signed
          cut,          \* hosts where a run with --force stopped among its writes
          runs          \* runs started so far

enrollVars == <<token, inventory, srv, cli, disk, issued, cut, runs>>

NoRun == [run |-> 0, pc |-> "idle", at |-> 0, forced |-> FALSE]
NoFiles == [f \in {"key", "crt", "ca", "env"} |-> 0]

EnrollInit ==
    /\ token = [t \in Tokens |-> "none"]
    /\ inventory = {} /\ issued = {} /\ cut = {} /\ runs = 0
    /\ srv = [r \in Runs |-> [pc |-> "none", tok |-> CHOOSE t \in Tokens : TRUE]]
    /\ cli = [h \in Hosts |-> NoRun]
    /\ disk = [h \in Hosts |-> NoFiles]

-----------------------------------------------------------------------------
(* The master's side. *)

create_enrollment(t) ==
    /\ token[t] = "none"
    /\ token' = [token EXCEPT ![t] = "open"]
    /\ UNCHANGED <<inventory, srv, cli, disk, issued, cut, runs>>

\* revoke_enrollment succeeds only on an unclaimed, unrevoked row; an expired
\* row may be revoked too, which changes nothing for a claim.
revoke_enrollment(t) ==
    /\ token[t] \in {"open", "expired"}
    /\ token' = [token EXCEPT ![t] = "revoked"]
    /\ UNCHANGED <<inventory, srv, cli, disk, issued, cut, runs>>

TokenExpires(t) ==
    /\ token[t] = "open"
    /\ token' = [token EXCEPT ![t] = "expired"]
    /\ UNCHANGED <<inventory, srv, cli, disk, issued, cut, runs>>

\* Mutant: the row is looked up first and marked claimed only at the end.
claim_enrollment_token_late(r, t) ==
    /\ srv[r].pc = "asked" /\ srv[r].tok = t
    /\ IF token[t] = "open" \/ \E q \in Runs : srv[q].tok = t /\ srv[q].pc = "claimed"
         THEN token' = [token EXCEPT ![t] = "claimed"]
              /\ srv' = [srv EXCEPT ![r].pc = "claimed"]
         ELSE token' = token /\ srv' = [srv EXCEPT ![r].pc = "refused"]

\* One UPDATE ... WHERE claimed_at IS NULL AND revoked_at IS NULL AND
\* expires_at > now(): the row is taken or the claim is refused.
claim_enrollment_token(r, t) ==
    /\ srv[r].pc = "asked" /\ srv[r].tok = t
    /\ IF token[t] = "open"
         THEN token' = [token EXCEPT ![t] = "claimed"]
              /\ srv' = [srv EXCEPT ![r].pc = "claimed"]
         ELSE token' = token /\ srv' = [srv EXCEPT ![r].pc = "refused"]

Claim(r) ==
    /\ claim_enrollment_token(r, srv[r].tok)
    /\ UNCHANGED <<inventory, cli, disk, issued, cut, runs>>

issue_node_certificate(r) ==
    /\ srv[r].pc = "claimed"
    /\ issued' = issued \cup {<<r, srv[r].tok>>}
    /\ srv' = [srv EXCEPT ![r].pc = "signed"]
    /\ UNCHANGED <<token, inventory, cli, disk, cut, runs>>

add_node_certificate(r) ==
    /\ srv[r].pc = "signed"
    /\ inventory' = inventory \cup {r}
    /\ srv' = [srv EXCEPT ![r].pc = "listed"]
    /\ UNCHANGED <<token, cli, disk, issued, cut, runs>>

\* set_node_tls_name and record_audit, then the 200 answer.
Answer(r) ==
    /\ srv[r].pc = "listed"
    /\ srv' = [srv EXCEPT ![r].pc = "answered"]
    /\ UNCHANGED <<token, inventory, cli, disk, issued, cut, runs>>

\* Any of the calls after the claim returns an error (no such node, openssl,
\* the database): the handler answers 4xx/5xx and undoes nothing.
ClaimFails(r) ==
    /\ srv[r].pc \in {"claimed", "signed", "listed"}
    /\ srv' = [srv EXCEPT ![r].pc = "refused"]
    /\ UNCHANGED <<token, inventory, cli, disk, issued, cut, runs>>

-----------------------------------------------------------------------------
(* honey-enroll. *)

EnrollStart(h, t, forced) ==
    /\ cli[h] = NoRun /\ runs < MaxRuns
    /\ token[t] # "none"
    /\ forced \/ (disk[h].env = 0 /\ disk[h].key = 0)
    /\ runs' = runs + 1
    /\ cli' = [cli EXCEPT ![h] = [run |-> runs + 1, pc |-> "asking", at |-> 1, forced |-> forced]]
    /\ srv' = [srv EXCEPT ![runs + 1] = [pc |-> "asked", tok |-> t]]
    /\ UNCHANGED <<token, inventory, disk, issued, cut>>

\* A complete 200 answer arrives; anything else ends the run.
ReadAnswer(h) ==
    /\ cli[h].pc = "asking" /\ srv[cli[h].run].pc \in {"answered", "refused"}
    /\ cli' = [cli EXCEPT ![h] =
                 IF srv[cli[h].run].pc = "answered" THEN [@ EXCEPT !.pc = "remove"] ELSE NoRun]
    /\ UNCHANGED <<token, inventory, srv, disk, issued, cut, runs>>

\* Mutant: the environment file is written first.
WriteOrderEnvFirst(i) == <<"env", "key", "crt", "ca">>[i]

\* The order main writes the files in.
WriteOrder(i) == Files[i]

\* writeAtomic, after the temporary file is synced: the target is removed ...
writeAtomic_remove(h) ==
    /\ cli[h].pc = "remove"
    /\ disk' = [disk EXCEPT ![h][WriteOrder(cli[h].at)] = 0]
    /\ cli' = [cli EXCEPT ![h].pc = "rename"]
    /\ UNCHANGED <<token, inventory, srv, issued, cut, runs>>

\* ... and the temporary file renamed onto it; after the fourth file main ends.
writeAtomic_rename(h) ==
    /\ cli[h].pc = "rename"
    /\ disk' = [disk EXCEPT ![h][WriteOrder(cli[h].at)] = cli[h].run]
    /\ IF cli[h].at = Len(Files)
         THEN cli' = [cli EXCEPT ![h] = NoRun] /\ cut' = cut \ {h}
         ELSE cli' = [cli EXCEPT ![h].pc = "remove", ![h].at = @ + 1] /\ UNCHANGED cut
    /\ UNCHANGED <<token, inventory, srv, issued, runs>>

\* A write error, the 30 s client timeout or the end of the process.  The
\* request already sent is not withdrawn: the master goes on with it.
EnrollStops(h) ==
    /\ cli[h] # NoRun
    /\ cut' = IF cli[h].forced /\ cli[h].pc # "asking" THEN cut \cup {h} ELSE cut
    /\ cli' = [cli EXCEPT ![h] = NoRun]
    /\ UNCHANGED <<token, inventory, srv, disk, issued, runs>>

EnrollNext ==
    \/ \E t \in Tokens : create_enrollment(t) \/ revoke_enrollment(t) \/ TokenExpires(t)
    \/ \E r \in Runs : \/ Claim(r) \/ issue_node_certificate(r) \/ add_node_certificate(r)
                       \/ Answer(r) \/ ClaimFails(r)
    \/ \E h \in Hosts :
         \/ \E t \in Tokens, forced \in BOOLEAN : EnrollStart(h, t, forced)
         \/ ReadAnswer(h) \/ writeAtomic_remove(h) \/ writeAtomic_rename(h) \/ EnrollStops(h)

EnrollSpec == EnrollInit /\ [][EnrollNext]_enrollVars

-----------------------------------------------------------------------------
(* Two hosts given the same token, however their requests interleave with  *)
(* each other, with the revocation and with the expiry: one certificate at *)
(* most is ever signed for a token (the claim is one conditional UPDATE).  *)
OneCertificatePerToken ==
    \A c, d \in issued : c[2] = d[2] => c = d

(* A certificate a host holds on disk is one the master's inventory lists: *)
(* the row is committed before the answer leaves, so an enrolled agent is  *)
(* never refused as unknown, whatever fails in between.                    *)
EnrolledIsListed ==
    \A h \in Hosts : disk[h].crt # 0 => disk[h].crt \in inventory

(* Once the environment file exists and nothing is being written, the key, *)
(* the certificate and the CA it points at come from one run; the env file *)
(* is written last.  The exception is a run with --force that stopped      *)
(* among its writes on top of an older set (cut).                          *)
EnvMeansWholeSet ==
    \A h \in Hosts :
        (disk[h].env # 0 /\ cli[h].pc \notin {"remove", "rename"} /\ h \notin cut) =>
            \A f \in {"key", "crt", "ca"} : disk[h][f] = disk[h].env
=============================================================================

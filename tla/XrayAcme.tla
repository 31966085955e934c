------------------------------- MODULE XrayAcme ------------------------------
(***************************************************************************)
(* The certificate manager beside Xray, for one domain.  Two tasks may be  *)
(* inside ensure: the handler of Apply and the renewal loop.  The lock of  *)
(* ensure belongs to the entry of the domain, and activate replaces the    *)
(* entry when the settings of the domain change.  A certificate and its    *)
(* key are written to two files; the ACME account is kept on disk, its key *)
(* and its registration separately.                                        *)
(***************************************************************************)
EXTENDS Naturals, FiniteSets

CONSTANTS Settings,   \* requests for the domain: e-mail and CA directory
          NoSetting,
          MaxIssue,   \* bound on the certificates issued
          MaxPush,    \* bound on the pushes
          MaxCrash    \* bound on the agent's restarts

Threads == {"apply", "renew"}

VARIABLES
  entry,       \* m.domains: [gen, req, uri]; uri: the account is known
  thread,      \* [pc, gen, req, uri, cert] of each task
  registered,  \* registrations.json
  accounts,    \* the paths that hold an account.json
  certFile, keyFile,   \* the issue each file is from; 0 when absent
  aged,        \* the issues up to this one are due for renewal
  loaded,      \* the pair that Xray read when it started last
  known,       \* the account keys the CA has registered
  issued, pushes, acmeCrashes,
  overlap      \* a replaced entry's issuer was still at work

acmeVars == <<entry, thread, registered, accounts, certFile, keyFile, aged, loaded,
              known, issued, pushes, acmeCrashes, overlap>>

NoEntry == [gen |-> 0, req |-> NoSetting, uri |-> FALSE]
Parked == [pc |-> "idle", gen |-> 0, req |-> NoSetting, uri |-> FALSE, cert |-> 0]

AcmeAt(t, pc) == thread[t].pc = pc
To(t, pc) == thread' = [thread EXCEPT ![t].pc = pc]
Done(t) == thread' = [thread EXCEPT ![t] = Parked]

\* The steps between the lock of the entry and its release.
Holding(t) == thread[t].pc \in {"locked", "order", "export", "key"}

------------------------------------------------------------------------------
(* The account.                                                            *)

\* activate: cacheDir is made of the domain and the CA directory.
LoadPath(req) == <<"domain", req>>

\* issueHTTP01: saveAccount's directory is made of the domain only.
SavePath(req) == <<"domain">>

\* account.key is in LoadPath as well, so a setting keeps its key.
loadAccount(req) == LoadPath(req) \in accounts

activate(req) ==
  /\ entry' = IF req = NoSetting THEN [NoEntry EXCEPT !.gen = entry.gen]
              ELSE IF entry.req = req THEN entry
              ELSE [gen |-> entry.gen + 1, req |-> req, uri |-> loadAccount(req)]
  /\ overlap' = (overlap \/ (entry'.gen # entry.gen /\ \E t \in Threads : Holding(t)))

------------------------------------------------------------------------------
(* The tasks.                                                              *)

\* Apply, after the candidate passed validation: Prepare with issue.
Prepare(req) ==
  /\ pushes < MaxPush /\ AcmeAt("apply", "idle")
  /\ pushes' = pushes + 1
  /\ activate(req) /\ registered' = req
  /\ To("apply", IF req = NoSetting THEN "reload" ELSE "ensure")
  /\ UNCHANGED <<accounts, certFile, keyFile, aged, loaded, known, issued, acmeCrashes>>

\* persistRequests fails: the new setting is in force and not on disk.
PrepareFails(req) ==
  /\ pushes < MaxPush /\ AcmeAt("apply", "idle")
  /\ pushes' = pushes + 1
  /\ activate(req)
  /\ UNCHANGED <<thread, registered, accounts, certFile, keyFile, aged, loaded, known,
                 issued, acmeCrashes>>

\* Mutant: the loop passes over a domain that has its files.
RenewTick_missing ==
  /\ AcmeAt("renew", "idle") /\ entry.req # NoSetting /\ certFile = 0
  /\ To("renew", "ensure")
  /\ UNCHANGED <<entry, registered, accounts, certFile, keyFile, aged, loaded, known,
                 issued, pushes, acmeCrashes, overlap>>

\* renewLoop, every twelve hours.
RenewTick ==
  /\ AcmeAt("renew", "idle") /\ entry.req # NoSetting
  /\ To("renew", "ensure")
  /\ UNCHANGED <<entry, registered, accounts, certFile, keyFile, aged, loaded, known,
                 issued, pushes, acmeCrashes, overlap>>

\* Mutant: two tasks may be inside ensure of the same entry.
EnsureLocks_free(t) == TRUE

\* entry.mu.Lock
EnsureLocks(t) ==
  \A u \in Threads \ {t} : ~(Holding(u) /\ thread[u].gen = entry.gen)

\* The entry is looked up and its lock taken.
EnsureBegin(t) ==
  /\ AcmeAt(t, "ensure")
  /\ EnsureLocks(t)
  /\ thread' = [thread EXCEPT ![t] =
       IF entry.req = NoSetting THEN Parked
       ELSE [pc |-> "locked", gen |-> entry.gen, req |-> entry.req,
             uri |-> entry.uri, cert |-> 0]]
  /\ UNCHANGED <<entry, registered, accounts, certFile, keyFile, aged, loaded, known,
                 issued, pushes, acmeCrashes, overlap>>

loadUsableCertificate == certFile = keyFile /\ certFile > aged

\* The apply goes on to restart the core, the renewal loop has no news.
EnsureUsable(t) ==
  /\ AcmeAt(t, "locked") /\ loadUsableCertificate
  /\ IF t = "apply" THEN To(t, "reload") ELSE Done(t)
  /\ UNCHANGED <<entry, registered, accounts, certFile, keyFile, aged, loaded, known,
                 issued, pushes, acmeCrashes, overlap>>

\* Register answers ErrAccountAlreadyExists for a key it knows: external.
Register(t) ==
  /\ AcmeAt(t, "locked") /\ ~loadUsableCertificate
  /\ LET req == thread[t].req
     IN  IF thread[t].uri
         THEN To(t, "order") /\ UNCHANGED <<entry, accounts, known>>
         ELSE IF req \in known
         THEN Done(t) /\ UNCHANGED <<entry, accounts, known>>
         ELSE /\ known' = known \union {req}
              /\ thread' = [thread EXCEPT ![t].pc = "order", ![t].uri = TRUE]
              /\ entry' = IF entry.gen = thread[t].gen
                          THEN [entry EXCEPT !.uri = TRUE] ELSE entry
              /\ accounts' = accounts \union {SavePath(req)}
  /\ UNCHANGED <<registered, certFile, keyFile, aged, loaded, issued, pushes, acmeCrashes,
                 overlap>>

(* From the order to CreateOrderCert.  ServeHTTP answers the challenge out *)
(* of the current entry of the domain.                                     *)
ServesChallenge(t) == entry.req # NoSetting /\ entry.gen = thread[t].gen

issueHTTP01(t) ==
  /\ AcmeAt(t, "order") /\ ServesChallenge(t) /\ issued < MaxIssue
  /\ issued' = issued + 1
  /\ thread' = [thread EXCEPT ![t].pc = "export", ![t].cert = issued + 1]
  /\ UNCHANGED <<entry, registered, accounts, certFile, keyFile, aged, loaded, known,
                 pushes, acmeCrashes, overlap>>

\* Any request to the CA may fail; a challenge nobody answers does.
IssueFails(t) ==
  /\ AcmeAt(t, "order") \/ (AcmeAt(t, "locked") /\ ~loadUsableCertificate)
  /\ Done(t)
  /\ UNCHANGED <<entry, registered, accounts, certFile, keyFile, aged, loaded, known,
                 issued, pushes, acmeCrashes, overlap>>

\* export: the certificate, then the key, each by an atomic rename.
ExportCert(t) ==
  /\ AcmeAt(t, "export")
  /\ certFile' = thread[t].cert
  /\ To(t, "key")
  /\ UNCHANGED <<entry, registered, accounts, keyFile, aged, loaded, known, issued,
                 pushes, acmeCrashes, overlap>>

ExportKey(t) ==
  /\ AcmeAt(t, "key")
  /\ keyFile' = thread[t].cert
  /\ To(t, "reload")
  /\ UNCHANGED <<entry, registered, accounts, certFile, aged, loaded, known, issued,
                 pushes, acmeCrashes, overlap>>

\* The rest of Apply, or the reload callback: Xray starts again.
ReloadXray(t) ==
  /\ AcmeAt(t, "reload") /\ Done(t)
  /\ loaded' = IF thread[t].req = NoSetting THEN <<0, 0>> ELSE <<certFile, keyFile>>
  /\ UNCHANGED <<entry, registered, accounts, certFile, keyFile, aged, known, issued,
                 pushes, acmeCrashes, overlap>>

\* Another core fails to apply, or the restart does: it is only logged.
ReloadFails(t) ==
  /\ AcmeAt(t, "reload") /\ Done(t)
  /\ UNCHANGED <<entry, registered, accounts, certFile, keyFile, aged, loaded, known,
                 issued, pushes, acmeCrashes, overlap>>

\* The agent stops anywhere; Start loads the registrations and activates.
AcmeStart ==
  /\ acmeCrashes < MaxCrash
  /\ acmeCrashes' = acmeCrashes + 1
  /\ thread' = [t \in Threads |-> Parked]
  /\ entry' = IF registered = NoSetting THEN [NoEntry EXCEPT !.gen = entry.gen]
              ELSE [gen |-> entry.gen + 1, req |-> registered,
                    uri |-> loadAccount(registered)]
  /\ loaded' = <<certFile, keyFile>>
  /\ UNCHANGED <<registered, accounts, certFile, keyFile, aged, known, issued, pushes,
                 overlap>>

(* The certificates issued so far come within thirty days of their end,    *)
(* which takes longer than an issuance and the restart after it.           *)
CertificateAges ==
  /\ \A t \in Threads : thread[t].pc \notin {"export", "key", "reload"}
  /\ aged < issued /\ issued < MaxIssue
  /\ aged' = issued
  /\ UNCHANGED <<entry, thread, registered, accounts, certFile, keyFile, loaded, known,
                 issued, pushes, acmeCrashes, overlap>>

------------------------------------------------------------------------------
AcmeInit ==
  /\ entry = NoEntry /\ thread = [t \in Threads |-> Parked]
  /\ registered = NoSetting /\ accounts = {} /\ certFile = 0 /\ keyFile = 0
  /\ aged = 0 /\ loaded = <<0, 0>> /\ known = {}
  /\ issued = 0 /\ pushes = 0 /\ acmeCrashes = 0 /\ overlap = FALSE

ThreadStep(t) ==
  EnsureBegin(t) \/ EnsureUsable(t) \/ Register(t) \/ issueHTTP01(t) \/ IssueFails(t)
  \/ ExportCert(t) \/ ExportKey(t) \/ ReloadXray(t) \/ ReloadFails(t)

AcmeNext ==
  \/ \E req \in Settings \union {NoSetting} : Prepare(req) \/ PrepareFails(req)
  \/ RenewTick \/ AcmeStart \/ CertificateAges
  \/ \E t \in Threads : ThreadStep(t)

(* The timer of the renewal loop fires, a task that can go on does, and a  *)
(* CA that the loop asks again and again does not refuse it for ever.      *)
AcmeFairness ==
  /\ WF_acmeVars(RenewTick)
  /\ \A t \in Threads : WF_acmeVars(ThreadStep(t))
  /\ SF_acmeVars(Register("renew")) /\ SF_acmeVars(issueHTTP01("renew"))

AcmeSpec == AcmeInit /\ [][AcmeNext]_acmeVars /\ AcmeFairness

------------------------------------------------------------------------------
(* Xray is never restarted on a certificate with another one's key: a      *)
(* crash between the two files is noticed by the next ensure, and the lock *)
(* keeps two tasks from writing at once, unless the settings of the domain *)
(* changed while an issuer was at work.                                    *)
PairOnReload ==
  [][\A t \in Threads : AcmeAt(t, "reload") /\ loaded' # loaded /\ acmeCrashes' = acmeCrashes
       => overlap \/ loaded'[1] = loaded'[2]]_acmeVars

Renewed == entry.req = NoSetting \/ (certFile = keyFile /\ certFile > aged)

\* The CA knows the account's key and the agent has lost the account.
AccountLost == entry.req \in known /\ ~entry.uri

(* Whatever fails or is interrupted, a domain that stays configured has,   *)
(* again and again, a matching pair that is not due, or the agent has lost *)
(* the account it registered.                                              *)
RenewsUnlessLost == []<>(Renewed \/ AccountLost \/ issued = MaxIssue)

(* The package comment: the manager "persists ACME state, exports PEM      *)
(* files atomically and asks the agent to reload Xray after renewal".  A   *)
(* domain that stays configured is renewed, before and after a restart of  *)
(* the agent.                                                              *)
RenewsAfterRestart == []<>(Renewed \/ issued = MaxIssue)
==============================================================================

---------------------------- MODULE AccessProofs ----------------------------
(***************************************************************************)
(* Who may do what, for every value of the constants: the credentials of   *)
(* an administrator, the enrollment of a node, the revocation of its       *)
(* certificate, and the limiter of the subscription URLs.                  *)
(***************************************************************************)
EXTENDS Accounts, Enrollment, NodeLink, SubscriptionGuard, TLAPS

(* Credentials decide, whatever the interleaving of the account handlers. *)

\* A handler in flight, by the point it has reached.
Handling ==
    {Idle} \cup [pc : {"lookup"}, admin : Admins, client : Clients]
           \cup [pc : {"verify", "grant"}, admin : Admins, client : Clients, pw : Nat,
                 totp : BOOLEAN, good : BOOLEAN]
           \cup [pc : {"wipe", "enable"}, admin : Admins]

AdminRows == [enabled : BOOLEAN, pw : Nat, totp : BOOLEAN, secret : Nat]

CredentialTypeOK ==
    /\ admin \in [Admins -> AdminRows]
    /\ code \in [Admins -> 0 .. fresh.code]
    /\ session \subseteq [admin : Admins, pw : Nat, late : BOOLEAN]
    /\ req \in [Requests -> Handling]
    /\ fresh \in [secret : Nat, code : 0 .. MaxCode]
    /\ uses \in [1 .. MaxCode -> Nat]

\* A stored recovery code has opened no login yet, belongs to one account, and
\* the codes still to be generated are unused.
CodesAreFresh ==
    /\ \A a \in Admins : code[a] # 0 => uses[code[a]] = 0
    /\ \A a, b \in Admins : code[a] = code[b] /\ code[a] # 0 => a = b
    /\ \A k \in 1 .. MaxCode : k > fresh.code => uses[k] = 0

\* An enable request that is past its check has proven the stored secret.
EnablingIsProven ==
    \A r \in Requests : req[r].pc = "enable" /\ req[r].admin \notin raced
                          => admin[req[r].admin].secret \in proven

AccountsInv ==
    /\ CredentialTypeOK
    /\ CodesAreFresh /\ EnablingIsProven
    /\ CodeOpensOneLogin /\ StalePasswordSession /\ SecretConfirmed

\* At the start nobody is signed in and no second factor is set up.
LEMMA AccountsInvInit == AccountsInit => AccountsInv
  <1> SUFFICES ASSUME AccountsInit PROVE AccountsInv
    BY Zenon
  <1> USE VersionsAssumption
  <1>1. [enabled |-> TRUE, pw |-> 1, totp |-> FALSE, secret |-> NoSecret] \in AdminRows
    BY Zenon DEF AdminRows, NoSecret
  <1>2. CredentialTypeOK
    BY <1>1 DEF AccountsInit, CredentialTypeOK, Handling, NoSecret
  <1>3. \A r \in Requests : req[r].pc = "idle"
    BY Zenon DEF AccountsInit, Idle
  <1>4. \A a \in Admins : ~admin[a].totp /\ code[a] = 0
    BY Zenon DEF AccountsInit, NoSecret
  <1> QED BY <1>2, <1>3, <1>4
          DEF AccountsInit, AccountsInv, CodesAreFresh, EnablingIsProven, CodeOpensOneLogin,
              StalePasswordSession, SecretConfirmed

\* Steps that leave the rows, the codes and the sessions alone and move one
\* handler, which does not wipe, on to where it neither wipes nor enables.
LEMMA HandlerMoves ==
  ASSUME AccountsInv, NEW r \in Requests, NEW h \in Handling,
         req[r].pc # "wipe", h.pc \notin {"wipe", "enable"},
         req' = [req EXCEPT ![r] = h],
         UNCHANGED <<admin, code, session, fresh, uses, proven, raced, half>>
  PROVE  AccountsInv'
  <1>1. CredentialTypeOK'
    BY Zenon DEF AccountsInv, CredentialTypeOK
  <1>2. \A q \in Requests : req'[q] = IF q = r THEN h ELSE req[q]
    BY Zenon DEF AccountsInv, CredentialTypeOK
  <1>3. EnablingIsProven'
    BY <1>2 DEF AccountsInv, EnablingIsProven
  <1>4. StalePasswordSession'
    BY <1>2 DEF AccountsInv, StalePasswordSession
  <1>5. CodesAreFresh' /\ CodeOpensOneLogin' /\ SecretConfirmed'
    BY Zenon DEF AccountsInv, CodesAreFresh, CodeOpensOneLogin, SecretConfirmed
  <1> QED BY <1>1, <1>3, <1>4, <1>5, Zenon DEF AccountsInv

\* Sessions that go away leave every account as it is.
LEMMA SessionsGo ==
  ASSUME AccountsInv, session' \subseteq session,
         UNCHANGED <<admin, code, req, fresh, uses, proven, raced, half>>
  PROVE  AccountsInv'
  BY Zenon DEF AccountsInv, CredentialTypeOK, CodesAreFresh, EnablingIsProven, CodeOpensOneLogin,
         StalePasswordSession, SecretConfirmed

\* The handlers of the login pipeline.
LEMMA LoginStep ==
  ASSUME AccountsInv, NEW r \in Requests,
         \/ \E a \in Admins, c \in Clients : LoginBegin(r, a, c)
         \/ LoginLookup(r) \/ LoginRefuse(r) \/ LoginAskSecond(r) \/ LoginSecond(r) \/ LoginGrant(r)
  PROVE  AccountsInv'
  <1> DEFINE Past == [pc : {"verify", "grant"}, admin : Admins, client : Clients, pw : Nat,
                      totp : BOOLEAN, good : BOOLEAN]
  <1>a. req[r] \in Handling /\ Idle \in Handling /\ Idle.pc = "idle"
    BY Zenon DEF AccountsInv, CredentialTypeOK, Handling, Idle
  <1>b. req[r].pc \in {"verify", "grant"} => req[r] \in Past
    BY <1>a, Zenon DEF Handling, Idle
  <1>c. req[r].pc = "lookup" => req[r].admin \in Admins /\ req[r].client \in Clients
    BY <1>a, Zenon DEF Handling, Idle
  <1>d. ASSUME Finish(r), req[r].pc # "wipe",
               UNCHANGED <<admin, code, session, fresh, uses, proven, raced, half>>
        PROVE  AccountsInv'
    BY <1>a, <1>d, HandlerMoves, Zenon DEF Finish
  <1>1. ASSUME NEW a \in Admins, NEW c \in Clients, LoginBegin(r, a, c) PROVE AccountsInv'
    <2>1. CASE Locked(guard[c])
      <3>1. UNCHANGED <<admin, code, session, req, fresh, uses, proven, raced, half>>
        BY <1>1, <2>1, Zenon DEF LoginBegin
      <3> QED BY <3>1, SessionsGo, Zenon
    <2>2. CASE ~Locked(guard[c])
      <3>1. [pc |-> "lookup", admin |-> a, client |-> c] \in Handling
        BY Zenon DEF Handling
      <3>2. req' = [req EXCEPT ![r] = [pc |-> "lookup", admin |-> a, client |-> c]]
            /\ req[r].pc = "idle"
        BY <1>1, <1>a, <2>2, Zenon DEF LoginBegin
      <3> QED BY <1>1, <3>1, <3>2, HandlerMoves, Zenon DEF LoginBegin
    <2> QED BY <2>1, <2>2, Zenon
  <1>2. CASE LoginLookup(r)
    <2> DEFINE row == admin[req[r].admin]
    <2>1. PICK typed \in {0, row.pw} :
            req' = [req EXCEPT ![r] =
                     [pc |-> "verify", admin |-> req[r].admin, client |-> req[r].client,
                      pw |-> row.pw, totp |-> row.totp, good |-> row.enabled /\ typed = row.pw]]
      BY <1>2, Zenon DEF LoginLookup
    <2>2. row \in AdminRows /\ row.pw \in Nat /\ row.totp \in BOOLEAN
      BY <1>2, <1>c, Zenon DEF LoginLookup, AccountsInv, CredentialTypeOK, AdminRows
    <2>3. (row.enabled /\ typed = row.pw) \in BOOLEAN
      BY Zenon
    <2> HIDE DEF row
    <2>4. [pc |-> "verify", admin |-> req[r].admin, client |-> req[r].client,
           pw |-> row.pw, totp |-> row.totp, good |-> row.enabled /\ typed = row.pw] \in Handling
      BY <1>2, <1>c, <2>2, <2>3, Zenon DEF LoginLookup, Handling
    <2> QED BY <1>2, <2>1, <2>4, HandlerMoves, Zenon DEF LoginLookup
  <1>3. CASE LoginRefuse(r)
    BY <1>3, <1>d, Zenon DEF LoginRefuse, Fail
  <1>4. CASE LoginAskSecond(r)
    BY <1>4, <1>d, Zenon DEF LoginAskSecond, PastPassword
  <1>e. ASSUME req[r].pc = "verify"
        PROVE  LET h == [req[r] EXCEPT !.pc = "grant"]
               IN  h \in Handling /\ h.pc = "grant"
    BY <1>b, <1>e, Zenon DEF Handling
  <1>5. CASE LoginSecond(r)
    <2> DEFINE a == req[r].admin
               granted == [req[r] EXCEPT !.pc = "grant"]
    <2>1. req[r].pc = "verify" /\ a \in Admins
      BY <1>5, <1>b, Zenon DEF LoginSecond, PastPassword
    <2>2. PICK otp \in 0 .. fresh.secret, rec \in 0 .. fresh.code :
            \/ /\ req' = [req EXCEPT ![r].pc = "grant"]
               /\ UNCHANGED <<admin, code, session, ips, guard, fresh, uses, proven, raced, half>>
            \/ /\ consume_admin_recovery_code(a, rec)
               /\ code' = [code EXCEPT ![a] = NoSecret]
               /\ uses' = [uses EXCEPT ![rec] = @ + 1]
               /\ req' = [req EXCEPT ![r].pc = "grant"]
               /\ UNCHANGED <<admin, session, ips, guard, fresh, proven, raced, half>>
            \/ Fail(r)
      BY <1>5, Zenon DEF LoginSecond
    <2>3. CASE Fail(r)
      BY <2>1, <2>3, <1>d, Zenon DEF Fail
    <2>4. CASE UNCHANGED <<admin, code, session, fresh, uses, proven, raced, half>>
               /\ req' = [req EXCEPT ![r].pc = "grant"]
      <3>1. req' = [req EXCEPT ![r] = granted]
        BY <2>4, Zenon
      <3> QED BY <2>1, <2>4, <3>1, <1>e, HandlerMoves, Zenon
    <2>5. CASE /\ consume_admin_recovery_code(a, rec)
               /\ code' = [code EXCEPT ![a] = NoSecret]
               /\ uses' = [uses EXCEPT ![rec] = @ + 1]
               /\ req' = [req EXCEPT ![r].pc = "grant"]
               /\ UNCHANGED <<admin, session, fresh, proven, raced, half>>
      <3>1. rec # 0 /\ code[a] = rec /\ rec \in 1 .. MaxCode
        BY <2>5, VersionsAssumption
           DEF consume_admin_recovery_code, NoSecret, AccountsInv, CredentialTypeOK
      <3>2. req' = [req EXCEPT ![r] = granted]
        BY <2>5, Zenon
      <3>3. \A q \in Requests : req'[q] = IF q = r THEN granted ELSE req[q]
        BY <3>2, Zenon DEF AccountsInv, CredentialTypeOK
      <3>4. granted \in Handling /\ granted.pc = "grant"
        BY <2>1, <1>e, Zenon
      <3> HIDE DEF granted
      <3>5. CredentialTypeOK'
        <4>1. req' \in [Requests -> Handling]
          BY <3>2, <3>4, Zenon DEF AccountsInv, CredentialTypeOK
        <4>2. uses' \in [1 .. MaxCode -> Nat]
          BY <2>5, <3>1 DEF AccountsInv, CredentialTypeOK
        <4>3. code' \in [Admins -> 0 .. fresh.code]
          <5>1. fresh.code \in Nat
            BY VersionsAssumption DEF AccountsInv, CredentialTypeOK
          <5>2. 0 \in 0 .. fresh.code
            BY <5>1
          <5> QED BY <2>5, <5>2, Zenon DEF AccountsInv, CredentialTypeOK, NoSecret
        <4> QED BY <2>5, <4>1, <4>2, <4>3, Zenon DEF AccountsInv, CredentialTypeOK
      <3>6. CodesAreFresh' /\ CodeOpensOneLogin'
        BY <2>1, <2>5, <3>1, VersionsAssumption DEF AccountsInv, CredentialTypeOK, CodesAreFresh, CodeOpensOneLogin, NoSecret
      <3>7. EnablingIsProven' /\ SecretConfirmed'
        BY <2>5, <3>3, <3>4 DEF AccountsInv, EnablingIsProven, SecretConfirmed
      <3>8. StalePasswordSession'
        BY <2>1, <2>5, <3>3, <3>4 DEF AccountsInv, StalePasswordSession
      <3> QED BY <3>5, <3>6, <3>7, <3>8, Zenon DEF AccountsInv
    <2> QED BY <2>2, <2>3, <2>4, <2>5, Zenon
  <1>6. CASE LoginGrant(r)
    <2> DEFINE a == req[r].admin
               opened == [admin |-> a, pw |-> req[r].pw, late |-> req[r].pw # admin[a].pw]
    <2>1. req[r].pc \in {"verify", "grant"} /\ req[r] \in Past
      BY <1>6, <1>b, Zenon DEF LoginGrant, PastPassword
    <2>2. /\ session' = session \cup {opened} /\ req' = [req EXCEPT ![r] = Idle]
          /\ UNCHANGED <<admin, code, fresh, uses, proven, raced, half>>
      BY <1>6, Zenon DEF LoginGrant, Finish
    <2>3. /\ opened \in [admin : Admins, pw : Nat, late : BOOLEAN]
          /\ opened.admin = a /\ opened.pw = req[r].pw
          /\ opened.pw # admin[a].pw => opened.late
      BY <2>1, Zenon
    <2>4. \A q \in Requests : req'[q] = IF q = r THEN Idle ELSE req[q]
      BY <2>2, Zenon DEF AccountsInv, CredentialTypeOK
    <2> HIDE DEF opened
    <2>5. CredentialTypeOK'
      BY <1>a, <2>2, <2>3, Zenon DEF AccountsInv, CredentialTypeOK
    <2>6. CodesAreFresh' /\ CodeOpensOneLogin' /\ SecretConfirmed'
      BY <2>2, Zenon DEF AccountsInv, CodesAreFresh, CodeOpensOneLogin, SecretConfirmed
    <2>7. EnablingIsProven'
      BY <1>a, <2>2, <2>4 DEF AccountsInv, EnablingIsProven
    <2>8. StalePasswordSession'
      BY <2>1, <2>2, <2>3, <2>4 DEF AccountsInv, StalePasswordSession
    <2> QED BY <2>5, <2>6, <2>7, <2>8, Zenon DEF AccountsInv
  <1> QED BY <1>1, <1>2, <1>3, <1>4, <1>5, <1>6, Zenon

\* An edit of an account, and the deletion of its sessions that follows.
LEMMA EditStep ==
  ASSUME AccountsInv, NEW r \in Requests,
         \/ \E a \in Admins, self \in BOOLEAN : update_admin(r, a, self)
         \/ delete_admin_sessions(r) \/ UpdateFails(r)
  PROVE  AccountsInv'
  <1>a. req[r] \in Handling /\ Idle \in Handling /\ Idle.pc = "idle"
    BY Zenon DEF AccountsInv, CredentialTypeOK, Handling, Idle
  <1>b. req[r].pc = "wipe" => req[r].admin \in Admins
    BY <1>a, Zenon DEF Handling, Idle
  <1>1. ASSUME NEW a \in Admins, NEW self \in BOOLEAN, update_admin(r, a, self) PROVE AccountsInv'
    <2> DEFINE wipe == [pc |-> "wipe", admin |-> a]
    <2>1. PICK enabled, newpw \in BOOLEAN :
            /\ admin' = [admin EXCEPT ![a].enabled = enabled,
                                      ![a].pw = IF newpw THEN @ + 1 ELSE @]
            /\ req' = IF WipesSessions(enabled, newpw) THEN [req EXCEPT ![r] = wipe] ELSE req
      BY <1>1, Zenon DEF update_admin
    <2>2. req[r] = Idle /\ UNCHANGED <<code, session, fresh, uses, proven, raced, half>>
      BY <1>1, Zenon DEF update_admin
    <2>3. wipe \in Handling /\ wipe.pc = "wipe" /\ wipe.admin = a
      BY Zenon DEF Handling
    <2> HIDE DEF wipe
    <2>4. \A b \in Admins :
            /\ admin'[b].totp = admin[b].totp /\ admin'[b].secret = admin[b].secret
            /\ admin'[b].pw # admin[b].pw => b = a /\ newpw
      BY <2>1, Zenon DEF AccountsInv, CredentialTypeOK, AdminRows
    <2>5. admin' \in [Admins -> AdminRows]
      <3> DEFINE pw == IF newpw THEN admin[a].pw + 1 ELSE admin[a].pw
      <3>1. admin[a] \in AdminRows /\ pw \in Nat
        BY DEF AccountsInv, CredentialTypeOK, AdminRows
      <3>2. admin' = [admin EXCEPT ![a] = [admin[a] EXCEPT !.enabled = enabled, !.pw = pw]]
        BY <2>1, Zenon DEF AccountsInv, CredentialTypeOK
      <3> HIDE DEF pw
      <3>3. [admin[a] EXCEPT !.enabled = enabled, !.pw = pw] \in AdminRows
        BY <3>1, Zenon DEF AdminRows
      <3> QED BY <3>2, <3>3, Zenon DEF AccountsInv, CredentialTypeOK
    <2>6. req' \in [Requests -> Handling]
      BY <2>1, <2>3, Zenon DEF AccountsInv, CredentialTypeOK
    <2>7. CredentialTypeOK'
      BY <2>2, <2>5, <2>6, Zenon DEF AccountsInv, CredentialTypeOK
    <2>8. \A q \in Requests : q # r => req'[q] = req[q]
      BY <2>1, Zenon DEF AccountsInv, CredentialTypeOK
    <2>9. req'[r] = wipe \/ req' = req
      BY <2>1, Zenon DEF AccountsInv, CredentialTypeOK
    <2>10. newpw => req'[r] = wipe
      BY <2>1, Zenon DEF WipesSessions, AccountsInv, CredentialTypeOK
    <2>11. CodesAreFresh' /\ CodeOpensOneLogin'
      BY <2>2, Zenon DEF AccountsInv, CodesAreFresh, CodeOpensOneLogin
    <2>12. SecretConfirmed'
      BY <2>2, <2>4, Zenon DEF AccountsInv, SecretConfirmed
    <2>13. EnablingIsProven'
      <3> SUFFICES ASSUME NEW q \in Requests, req'[q].pc = "enable", req'[q].admin \notin raced
                   PROVE  admin'[req'[q].admin].secret \in proven
        BY <2>2, Zenon DEF EnablingIsProven
      <3>1. req'[q] = req[q]
        BY <2>3, <2>8, <2>9, Zenon
      <3>2. req[q].admin \in Admins
        BY <3>1 DEF AccountsInv, CredentialTypeOK, Handling, Idle
      <3> QED BY <3>1, <3>2, <2>4, Zenon DEF AccountsInv, EnablingIsProven
    <2>14. StalePasswordSession'
      <3> SUFFICES ASSUME NEW s \in session, s.pw # admin'[s.admin].pw, ~s.late, s.admin \notin half
                   PROVE  \E q \in Requests : req'[q].pc = "wipe" /\ req'[q].admin = s.admin
        BY <2>2, Zenon DEF StalePasswordSession
      <3>1. s.admin \in Admins
        BY Zenon DEF AccountsInv, CredentialTypeOK
      <3>2. CASE s.pw # admin[s.admin].pw
        <4>1. PICK q \in Requests : req[q].pc = "wipe" /\ req[q].admin = s.admin
          BY <3>2, Zenon DEF AccountsInv, StalePasswordSession
        <4> QED BY <4>1, <2>2, <2>8, <1>a, Zenon
      <3>3. CASE s.pw = admin[s.admin].pw
        BY <3>1, <3>3, <2>3, <2>4, <2>10, ZenonT(60)
      <3> QED BY <3>2, <3>3, Zenon
    <2> QED BY <2>7, <2>11, <2>12, <2>13, <2>14, Zenon DEF AccountsInv
  <1>2. CASE delete_admin_sessions(r) \/ UpdateFails(r)
    <2>1. /\ req[r].pc = "wipe" /\ req' = [req EXCEPT ![r] = Idle]
          /\ session' \subseteq session /\ half' \subseteq half \cup {req[r].admin}
          /\ half \ {req[r].admin} \subseteq half'
          /\ req[r].admin \in half' \/ \A s \in session' : s.admin # req[r].admin
          /\ UNCHANGED <<admin, code, fresh, uses, proven, raced>>
      BY <1>2, Zenon DEF delete_admin_sessions, UpdateFails, Finish
    <2>2. \A q \in Requests : req'[q] = IF q = r THEN Idle ELSE req[q]
      BY <2>1, Zenon DEF AccountsInv, CredentialTypeOK
    <2>3. CredentialTypeOK'
      BY <1>a, <2>1, Zenon DEF AccountsInv, CredentialTypeOK
    <2>4. CodesAreFresh' /\ CodeOpensOneLogin' /\ SecretConfirmed'
      BY <2>1, Zenon DEF AccountsInv, CodesAreFresh, CodeOpensOneLogin, SecretConfirmed
    <2>5. EnablingIsProven'
      BY <1>a, <2>1, <2>2 DEF AccountsInv, EnablingIsProven
    <2>6. StalePasswordSession'
      BY <2>1, <2>2 DEF AccountsInv, StalePasswordSession
    <2> QED BY <2>3, <2>4, <2>5, <2>6, Zenon DEF AccountsInv
  <1> QED BY <1>1, <1>2, Zenon

\* The management of the second factor.
LEMMA TotpStep ==
  ASSUME AccountsInv, NEW a \in Admins,
         \/ totp_setup(a) \/ totp_disable(a) \/ totp_recovery_generate(a)
         \/ \E r \in Requests : totp_enable_check(r, a) \/ totp_enable(r)
  PROVE  AccountsInv'
  <1>a. Idle \in Handling /\ Idle.pc = "idle"
    BY Zenon DEF Handling, Idle
  <1>b. \A r \in Requests : req[r].pc \in {"wipe", "enable"} => req[r].admin \in Admins
    BY DEF AccountsInv, CredentialTypeOK, Handling, Idle
  <1>1. CASE totp_setup(a) \/ totp_disable(a)
    <2>1. PICK s \in Nat :
            /\ admin' = [admin EXCEPT ![a].secret = s, ![a].totp = FALSE]
            /\ fresh' \in [secret : Nat, code : 0 .. MaxCode] /\ fresh'.code = fresh.code
      <3>1. CASE totp_setup(a)
        <4>1. fresh.secret + 1 \in Nat
          BY DEF AccountsInv, CredentialTypeOK
        <4>2. admin' = [admin EXCEPT ![a].secret = fresh.secret + 1, ![a].totp = FALSE]
          BY <3>1, Zenon DEF totp_setup, SecretOnSetup, AccountsInv, CredentialTypeOK, AdminRows
        <4>3. fresh' \in [secret : Nat, code : 0 .. MaxCode] /\ fresh'.code = fresh.code
          BY <3>1, <4>1, Zenon DEF totp_setup, AccountsInv, CredentialTypeOK
        <4> QED BY <4>1, <4>2, <4>3, Zenon
      <3>2. CASE totp_disable(a)
        BY <3>2, Zenon DEF totp_disable, NoSecret, AccountsInv, CredentialTypeOK
      <3> QED BY <1>1, <3>1, <3>2, Zenon
    <2>2. /\ raced' = IF Enabling(a) THEN raced \cup {a} ELSE raced
          /\ UNCHANGED <<code, session, req, uses, proven, half>>
      BY <1>1, Zenon DEF totp_setup, totp_disable
    <2>3. \A b \in Admins :
            /\ admin'[b].pw = admin[b].pw
            /\ b # a => admin'[b] = admin[b]
            /\ b = a => ~admin'[b].totp
      BY <2>1, <1>1, Zenon DEF AccountsInv, CredentialTypeOK, AdminRows
    <2>4. CredentialTypeOK'
      <3> DEFINE v == [admin[a] EXCEPT !.secret = s, !.totp = FALSE]
      <3>0. admin \in [Admins -> AdminRows]
        BY Zenon DEF AccountsInv, CredentialTypeOK
      <3>1. v \in AdminRows
        BY <3>0, Zenon DEF AdminRows
      <3>2. admin' = [admin EXCEPT ![a] = v]
        BY <2>1, <3>0, Zenon
      <3> HIDE DEF v
      <3>3. admin' \in [Admins -> AdminRows]
        BY <3>0, <3>1, <3>2, Zenon
      <3> QED BY <2>1, <2>2, <3>3, Zenon DEF AccountsInv, CredentialTypeOK
    <2>5. CodesAreFresh' /\ CodeOpensOneLogin'
      BY <2>1, <2>2, Zenon DEF AccountsInv, CodesAreFresh, CodeOpensOneLogin
    <2>6. SecretConfirmed'
      BY <2>2, <2>3, Zenon DEF AccountsInv, SecretConfirmed
    <2>7. EnablingIsProven'
      BY <1>b, <2>2, <2>3, Zenon DEF AccountsInv, EnablingIsProven, Enabling
    <2>8. StalePasswordSession'
      BY <2>2, <2>3, Zenon DEF AccountsInv, CredentialTypeOK, StalePasswordSession
    <2> QED BY <2>4, <2>5, <2>6, <2>7, <2>8, Zenon DEF AccountsInv
  <1>2. CASE totp_recovery_generate(a)
    <2>1. /\ fresh.code + 1 \in 1 .. MaxCode
          /\ fresh' = [fresh EXCEPT !.code = @ + 1]
          /\ code' = [code EXCEPT ![a] = fresh.code + 1]
          /\ UNCHANGED <<admin, session, req, uses, proven, raced, half>>
      BY <1>2, VersionsAssumption DEF totp_recovery_generate, AccountsInv, CredentialTypeOK
    <2>2. fresh' \in [secret : Nat, code : 0 .. MaxCode] /\ fresh'.code = fresh.code + 1
      BY <2>1 DEF AccountsInv, CredentialTypeOK
    <2>3. code' \in [Admins -> 0 .. fresh'.code]
      BY <2>1, <2>2, VersionsAssumption DEF AccountsInv, CredentialTypeOK
    <2>4. CredentialTypeOK'
      BY <2>1, <2>2, <2>3, Zenon DEF AccountsInv, CredentialTypeOK
    <2>5. CodesAreFresh'
      BY <2>1, <2>2, VersionsAssumption DEF AccountsInv, CredentialTypeOK, CodesAreFresh
    <2> QED BY <2>1, <2>4, <2>5, Zenon
            DEF AccountsInv, EnablingIsProven, CodeOpensOneLogin, StalePasswordSession, SecretConfirmed
  <1>3. ASSUME NEW r \in Requests, totp_enable_check(r, a) PROVE AccountsInv'
    <2> DEFINE filed == [pc |-> "enable", admin |-> a]
    <2>1. /\ req[r] = Idle /\ proven' = proven \cup {admin[a].secret}
          /\ req' = [req EXCEPT ![r] = filed]
          /\ UNCHANGED <<admin, code, session, fresh, uses, raced, half>>
      BY <1>3, Zenon DEF totp_enable_check
    <2>2. filed \in Handling /\ filed.pc = "enable" /\ filed.admin = a
      BY Zenon DEF Handling
    <2> HIDE DEF filed
    <2>3. \A q \in Requests : req'[q] = IF q = r THEN filed ELSE req[q]
      BY <2>1, Zenon DEF AccountsInv, CredentialTypeOK
    <2>4. CredentialTypeOK'
      BY <2>1, <2>2, Zenon DEF AccountsInv, CredentialTypeOK
    <2>5. EnablingIsProven'
      BY <2>1, <2>2, <2>3 DEF AccountsInv, EnablingIsProven
    <2>6. StalePasswordSession'
      BY <1>a, <2>1, <2>2, <2>3 DEF AccountsInv, StalePasswordSession
    <2>7. CodesAreFresh' /\ CodeOpensOneLogin' /\ SecretConfirmed'
      BY <2>1, Zenon DEF AccountsInv, CodesAreFresh, CodeOpensOneLogin, SecretConfirmed
    <2> QED BY <2>4, <2>5, <2>6, <2>7, Zenon DEF AccountsInv
  <1>4. ASSUME NEW r \in Requests, totp_enable(r) PROVE AccountsInv'
    <2> DEFINE b == req[r].admin
    <2>1. /\ req[r].pc = "enable" /\ req' = [req EXCEPT ![r] = Idle]
          /\ admin' = [admin EXCEPT ![b].totp = TRUE]
          /\ UNCHANGED <<code, session, fresh, uses, proven, raced, half>>
      BY <1>4, Zenon DEF totp_enable, Finish
    <2>2. b \in Admins
      BY <1>b, <2>1, Zenon
    <2>3. \A q \in Requests : req'[q] = IF q = r THEN Idle ELSE req[q]
      BY <2>1, Zenon DEF AccountsInv, CredentialTypeOK
    <2>4. \A c \in Admins :
            /\ admin'[c].pw = admin[c].pw /\ admin'[c].secret = admin[c].secret
            /\ c # b => admin'[c] = admin[c]
      BY <2>1, ZenonT(60) DEF AccountsInv, CredentialTypeOK, AdminRows
    <2>5. CredentialTypeOK'
      <3> DEFINE v == [admin[b] EXCEPT !.totp = TRUE]
      <3>0. admin \in [Admins -> AdminRows]
        BY Zenon DEF AccountsInv, CredentialTypeOK
      <3>1. v \in AdminRows
        BY <2>2, <3>0, Zenon DEF AdminRows
      <3>2. admin' = [admin EXCEPT ![b] = v]
        BY <2>1, Zenon
      <3> HIDE DEF v
      <3>3. admin' \in [Admins -> AdminRows]
        BY <2>2, <3>0, <3>1, <3>2, Zenon
      <3> QED BY <1>a, <2>1, <3>3, Zenon DEF AccountsInv, CredentialTypeOK
    <2>6. SecretConfirmed'
      BY <2>1, <2>2, <2>4 DEF AccountsInv, SecretConfirmed, EnablingIsProven
    <2>7. EnablingIsProven'
      BY <1>a, <1>b, <2>1, <2>3, <2>4, SMTT(40) DEF AccountsInv, EnablingIsProven
    <2>8. StalePasswordSession'
      <3> SUFFICES ASSUME NEW s \in session, s.pw # admin'[s.admin].pw, ~s.late, s.admin \notin half
                   PROVE  \E q \in Requests : req'[q].pc = "wipe" /\ req'[q].admin = s.admin
        BY <2>1, Zenon DEF StalePasswordSession
      <3>1. s.admin \in Admins
        BY Zenon DEF AccountsInv, CredentialTypeOK
      <3>2. PICK q \in Requests : req[q].pc = "wipe" /\ req[q].admin = s.admin
        BY <3>1, <2>4, Zenon DEF AccountsInv, StalePasswordSession
      <3> QED BY <3>2, <2>1, <2>3, Zenon
    <2>9. CodesAreFresh' /\ CodeOpensOneLogin'
      BY <2>1, Zenon DEF AccountsInv, CodesAreFresh, CodeOpensOneLogin
    <2> QED BY <2>5, <2>6, <2>7, <2>8, <2>9, Zenon DEF AccountsInv
  <1> QED BY <1>1, <1>2, <1>3, <1>4, Zenon

\* Every step of a handler, of an administrator's edit and of the clock keeps it.
LEMMA AccountsInvStep == AccountsInv /\ [AccountsNext]_accountVars => AccountsInv'
  <1> SUFFICES ASSUME AccountsInv, [AccountsNext]_accountVars PROVE AccountsInv'
    BY Zenon
  <1>1. ASSUME NEW r \in Requests,
               \/ LoginLookup(r) \/ LoginRefuse(r) \/ LoginAskSecond(r) \/ LoginSecond(r)
               \/ LoginGrant(r) \/ \E a \in Admins, c \in Clients : LoginBegin(r, a, c)
        PROVE  AccountsInv'
    BY <1>1, LoginStep, Zenon
  <1>2. ASSUME NEW r \in Requests,
               \/ delete_admin_sessions(r) \/ UpdateFails(r)
               \/ \E a \in Admins, self \in BOOLEAN : update_admin(r, a, self)
        PROVE  AccountsInv'
    BY <1>2, EditStep, Zenon
  <1>3. ASSUME NEW r \in Requests, NEW a \in Admins, totp_enable_check(r, a) PROVE AccountsInv'
    BY <1>3, TotpStep, Zenon
  <1>4. ASSUME NEW r \in Requests, totp_enable(r) PROVE AccountsInv'
    <2>1. req[r].admin \in Admins
      BY <1>4 DEF totp_enable, AccountsInv, CredentialTypeOK, Handling, Idle
    <2> QED BY <1>4, <2>1, TotpStep, Zenon
  <1>5. ASSUME NEW a \in Admins, totp_setup(a) \/ totp_disable(a) \/ totp_recovery_generate(a)
        PROVE  AccountsInv'
    BY <1>5, TotpStep, Zenon
  <1>6. ASSUME NEW s \in session, SessionEnds(s) \/ revoke_other_sessions(s) PROVE AccountsInv'
    <2>1. session' \subseteq session /\ UNCHANGED <<admin, code, req, fresh, uses, proven, raced, half>>
      BY <1>6, Zenon DEF SessionEnds, revoke_other_sessions
    <2> QED BY <2>1, SessionsGo, Zenon
  <1>7. ASSUME LoginTick \/ \E c \in Clients : AllowIp(c) \/ DeleteIp(c) PROVE AccountsInv'
    <2>1. UNCHANGED <<admin, code, session, req, fresh, uses, proven, raced, half>>
      BY <1>7, Zenon DEF LoginTick, AllowIp, DeleteIp
    <2> QED BY <2>1, SessionsGo, Zenon
  <1>8. CASE UNCHANGED accountVars
    <2>1. UNCHANGED <<admin, code, session, req, fresh, uses, proven, raced, half>>
      BY <1>8, Zenon DEF accountVars
    <2> QED BY <2>1, SessionsGo, Zenon
  <1> QED BY <1>1, <1>2, <1>3, <1>4, <1>5, <1>6, <1>7, <1>8, Zenon DEF AccountsNext

\* An administrator gets in by credentials that count, for any number of
\* accounts, addresses and requests in flight: a recovery code opens one login,
\* a replaced password keeps no session and an unconfirmed secret is never on,
\* but for the races the property names (api/mod.rs login, update_admin, totp_*).
THEOREM CredentialsAlwaysDecide == AccountsSpec => []CredentialsDecide
  <1>1. AccountsInv => CredentialsDecide
    BY Zenon DEF AccountsInv, CredentialsDecide
  <1> QED BY <1>1, AccountsInvInit, AccountsInvStep, PTL DEF AccountsSpec

-----------------------------------------------------------------------------
(* A token yields one certificate at most, and a certificate on a host's disk
   is in the master's inventory. *)

SrvPc == {"none", "asked", "claimed", "signed", "listed", "answered", "refused"}

EnrollTypes ==
    /\ runs \in 0 .. MaxRuns
    /\ token \in [Tokens -> {"none", "open", "expired", "revoked", "claimed"}]
    /\ srv \in [Runs -> [pc: SrvPc, tok: Tokens]]
    /\ issued \subseteq Runs \X Tokens
    /\ inventory \subseteq Runs

\* The run took its token: it is between the claim and the answer, or has a
\* certificate.
Took(r) ==
    \/ srv[r].pc \in {"claimed", "signed", "listed", "answered"}
    \/ <<r, srv[r].tok>> \in issued

\* The inductive invariant of the master's side: who took a token left it
\* claimed, and took it alone.
ClaimInv ==
    /\ EnrollTypes
    /\ \A r \in Runs : r > runs => srv[r].pc = "none"
    /\ \A r \in Runs, t \in Tokens :
         <<r, t>> \in issued => srv[r].tok = t /\ srv[r].pc \notin {"none", "asked"}
    /\ \A r \in Runs : Took(r) => token[srv[r].tok] = "claimed"
    /\ \A r, q \in Runs : Took(r) /\ Took(q) /\ srv[r].tok = srv[q].tok => r = q

\* The steps of honey-enroll that leave the master alone.
Client(h) ==
    ReadAnswer(h) \/ writeAtomic_remove(h) \/ writeAtomic_rename(h) \/ EnrollStops(h)

\* Every step of the master and of the hosts keeps a token with the run that
\* took it.
LEMMA ClaimStep == ClaimInv /\ [EnrollNext]_enrollVars => ClaimInv'
  <1> SUFFICES ASSUME ClaimInv, [EnrollNext]_enrollVars PROVE ClaimInv'
    BY Zenon
  <1> USE RunsAssumption DEF Runs, SrvPc
  <1>0. ASSUME UNCHANGED <<token, inventory, srv, issued, runs>> PROVE ClaimInv'
    BY <1>0, Zenon DEF ClaimInv, EnrollTypes, Took
  <1>1. ASSUME NEW t \in Tokens, create_enrollment(t) \/ revoke_enrollment(t) \/ TokenExpires(t)
        PROVE  ClaimInv'
    <2>1. /\ UNCHANGED <<srv, issued, inventory, runs>>
          /\ token' \in [Tokens -> {"none", "open", "expired", "revoked", "claimed"}]
          /\ \A s \in Tokens : token[s] = "claimed" => token'[s] = "claimed"
      BY <1>1, Zenon DEF create_enrollment, revoke_enrollment, TokenExpires, ClaimInv, EnrollTypes
    <2> QED BY <2>1, Zenon DEF ClaimInv, EnrollTypes, Took
  <1>2. ASSUME NEW r \in Runs, Claim(r) PROVE ClaimInv'
    <2> DEFINE t == srv[r].tok
    <2>0. t \in Tokens /\ ~Took(r) /\ r <= runs
      BY <1>2 DEF Claim, claim_enrollment_token, ClaimInv, EnrollTypes, Took
    <2>1. CASE token[t] = "open"
      <3>1. /\ token' = [token EXCEPT ![t] = "claimed"]
            /\ srv' = [srv EXCEPT ![r].pc = "claimed"]
            /\ UNCHANGED <<inventory, issued, runs>>
        BY <1>2, <2>1, Zenon DEF Claim, claim_enrollment_token
      <3>2. EnrollTypes' /\ \A q \in Runs : srv'[q].tok = srv[q].tok
        BY <3>1 DEF ClaimInv, EnrollTypes
      <3>3. \A q \in Runs \ {r} : srv'[q] = srv[q] /\ (Took(q)' <=> Took(q))
        BY <3>1 DEF ClaimInv, EnrollTypes, Took
      <3>4. srv'[r].pc = "claimed"
        BY <3>1 DEF ClaimInv, EnrollTypes
      <3>5. \A q \in Runs : Took(q) => srv[q].tok # t
        BY <2>1, Zenon DEF ClaimInv
      <3>6. \A q \in Runs : Took(q)' => token'[srv'[q].tok] = "claimed"
        BY <2>0, <3>1, <3>2, <3>3 DEF ClaimInv, EnrollTypes
      <3>7. \A p, q \in Runs : Took(p)' /\ Took(q)' /\ srv'[p].tok = srv'[q].tok => p = q
        BY <3>2, <3>3, <3>5 DEF ClaimInv
      <3>8. \A q \in Runs : q > runs' => srv'[q].pc = "none"
        BY <2>0, <3>1, <3>3 DEF ClaimInv, EnrollTypes
      <3>9. \A q \in Runs, s \in Tokens :
              <<q, s>> \in issued' => srv'[q].tok = s /\ srv'[q].pc \notin {"none", "asked"}
        BY <3>1, <3>2, <3>3, <3>4, Zenon DEF ClaimInv
      <3> QED BY <3>2, <3>6, <3>7, <3>8, <3>9, Zenon DEF ClaimInv
    <2>2. CASE token[t] # "open"
      <3>1. /\ srv' = [srv EXCEPT ![r].pc = "refused"]
            /\ UNCHANGED <<token, inventory, issued, runs>>
        BY <1>2, <2>2, Zenon DEF Claim, claim_enrollment_token
      <3> QED BY <2>0, <3>1 DEF ClaimInv, EnrollTypes, Took
    <2> QED BY <2>1, <2>2, Zenon
  <1>3. ASSUME NEW r \in Runs, issue_node_certificate(r) PROVE ClaimInv'
    BY <1>3 DEF issue_node_certificate, ClaimInv, EnrollTypes, Took
  <1>4. ASSUME NEW r \in Runs, add_node_certificate(r) \/ Answer(r) \/ ClaimFails(r) PROVE ClaimInv'
    <2>1. PICK pc \in {"listed", "answered", "refused"} :
            /\ srv' = [srv EXCEPT ![r].pc = pc]
            /\ srv[r].pc \in {"claimed", "signed", "listed"}
            /\ inventory' \in {inventory, inventory \cup {r}}
            /\ UNCHANGED <<token, issued, runs>>
      BY <1>4, Zenon DEF add_node_certificate, Answer, ClaimFails
    <2>2. EnrollTypes' /\ \A q \in Runs : srv'[q].tok = srv[q].tok
      BY <2>1 DEF ClaimInv, EnrollTypes
    <2>3. \A q \in Runs : Took(q)' => Took(q)
      <3>1. Took(r)
        BY <2>1, Zenon DEF Took
      <3>2. \A q \in Runs \ {r} : srv'[q] = srv[q]
        BY <2>1, Zenon DEF ClaimInv, EnrollTypes
      <3> QED BY <2>1, <3>1, <3>2 DEF Took
    <2>4. \A q \in Runs : srv'[q].pc = srv[q].pc \/ (q = r /\ srv'[q].pc = pc)
      BY <2>1 DEF ClaimInv, EnrollTypes
    <2>5. r <= runs
      BY <2>1 DEF ClaimInv, EnrollTypes
    <2> QED BY <2>1, <2>2, <2>3, <2>4, <2>5 DEF ClaimInv
  <1>5. ASSUME NEW h \in Hosts, NEW t \in Tokens, NEW forced \in BOOLEAN, EnrollStart(h, t, forced)
        PROVE  ClaimInv'
    <2> DEFINE n == runs + 1
    <2>1. /\ n \in Runs /\ runs' = n
          /\ srv' = [srv EXCEPT ![n] = [pc |-> "asked", tok |-> t]]
          /\ UNCHANGED <<token, inventory, issued>>
      BY <1>5 DEF EnrollStart, ClaimInv, EnrollTypes
    <2>2. srv[n].pc = "none" /\ \A s \in Tokens : <<n, s>> \notin issued
      BY <2>1 DEF ClaimInv, EnrollTypes
    <2>3. EnrollTypes'
      BY <2>1 DEF ClaimInv, EnrollTypes
    <2>4. \A q \in Runs \ {n} : srv'[q] = srv[q]
      BY <2>1, Zenon DEF ClaimInv, EnrollTypes
    <2>5. srv'[n].pc = "asked" /\ srv'[n].tok = t
      BY <2>1, Zenon DEF ClaimInv, EnrollTypes
    <2>6. \A q \in Runs : Took(q)' => q # n /\ Took(q)
      BY <2>1, <2>2, <2>4, <2>5 DEF Took
    <2>7. \A q \in Runs : q > runs' => srv'[q].pc = "none"
      BY <2>1, <2>4 DEF ClaimInv, EnrollTypes
    <2>8. \A q \in Runs, s \in Tokens :
            <<q, s>> \in issued' => srv'[q].tok = s /\ srv'[q].pc \notin {"none", "asked"}
      BY <2>1, <2>2, <2>4, SMTT(40) DEF ClaimInv
    <2>9. \A q \in Runs : Took(q)' => token'[srv'[q].tok] = "claimed"
      BY <2>1, <2>4, <2>6 DEF ClaimInv
    <2> QED BY <2>3, <2>4, <2>6, <2>7, <2>8, <2>9, Zenon DEF ClaimInv
  <1>6. ASSUME NEW h \in Hosts, Client(h) PROVE ClaimInv'
    BY <1>0, <1>6, Zenon DEF Client, ReadAnswer, writeAtomic_remove, writeAtomic_rename, EnrollStops
  <1>7. CASE UNCHANGED enrollVars
    BY <1>0, <1>7, Zenon DEF enrollVars
  <1> QED BY <1>1, <1>2, <1>3, <1>4, <1>5, <1>6, <1>7, Zenon DEF EnrollNext, Client

\* Nothing is claimed or signed at the start.
LEMMA ClaimStart == EnrollInit => ClaimInv
  <1> SUFFICES ASSUME EnrollInit PROVE ClaimInv
    BY Zenon
  <1>1. (CHOOSE t \in Tokens : TRUE) \in Tokens
    BY TokensAssumption, Zenon
  <1>2. EnrollTypes
    <2>1. PICK t \in Tokens : srv = [r \in Runs |-> [pc |-> "none", tok |-> t]]
      BY <1>1, Zenon DEF EnrollInit
    <2>2. srv \in [Runs -> [pc: SrvPc, tok: Tokens]]
      BY <2>1, Zenon DEF SrvPc
    <2>3. token \in [Tokens -> {"none", "open", "expired", "revoked", "claimed"}]
      BY Zenon DEF EnrollInit
    <2>4. runs \in 0 .. MaxRuns /\ issued \subseteq Runs \X Tokens /\ inventory \subseteq Runs
      BY RunsAssumption DEF EnrollInit
    <2> QED BY <2>2, <2>3, <2>4, Zenon DEF EnrollTypes
  <1>3. issued = {} /\ \A r \in Runs : srv[r].pc = "none"
    BY Zenon DEF EnrollInit
  <1>4. \A r \in Runs : ~Took(r)
    BY <1>3, Zenon DEF Took
  <1> QED BY <1>2, <1>3, <1>4, Zenon DEF ClaimInv

\* However requests with one token interleave with each other, with failures
\* after the claim, with revocation and expiry, one certificate at most is
\* signed for it (repo.rs claim_enrollment_token is one conditional UPDATE).
THEOREM TokenYieldsOneCertificate == EnrollSpec => []OneCertificatePerToken
  <1>1. ClaimInv => OneCertificatePerToken
    <2> SUFFICES ASSUME ClaimInv, NEW c \in issued, NEW d \in issued, c[2] = d[2] PROVE c = d
      BY Zenon DEF OneCertificatePerToken
    <2>1. PICK r \in Runs, q \in Runs, t \in Tokens : c = <<r, t>> /\ d = <<q, t>>
      BY DEF ClaimInv, EnrollTypes
    <2>2. srv[r].tok = t /\ srv[q].tok = t
      BY <2>1, Zenon DEF ClaimInv
    <2>3. Took(r) /\ Took(q)
      BY <2>1, <2>2, Zenon DEF Took
    <2> QED BY <2>1, <2>2, <2>3, Zenon DEF ClaimInv
  <1> QED BY <1>1, ClaimStart, ClaimStep, PTL DEF EnrollSpec

-----------------------------------------------------------------------------

FileNames == {"key", "crt", "ca", "env"}

HostRuns == [run: 0 .. MaxRuns, pc: {"idle", "asking", "remove", "rename"}, at: 0 .. 4, forced: BOOLEAN]

\* Whoever writes files has the answer, and the answer left after the
\* inventory row was committed.
Answered(c) ==
    /\ c.pc # "idle" => c.run \in Runs /\ c.at \in 1 .. 4
    /\ c.pc \in {"remove", "rename"} => c.run \in inventory

\* The inductive invariant of the client's side.
FilesInv ==
    /\ EnrollTypes
    /\ cli \in [Hosts -> HostRuns]
    /\ disk \in [Hosts -> [FileNames -> 0 .. MaxRuns]]
    /\ \A r \in Runs : srv[r].pc \in {"listed", "answered"} => r \in inventory
    /\ \A h \in Hosts : Answered(cli[h])
    /\ EnrolledIsListed

\* The files main writes are the four it names.
LEMMA WritesKnownFiles == \A k \in 1 .. 4 : WriteOrder(k) \in FileNames
  BY DEF WriteOrder, Files, FileNames

\* A step of honey-enroll on one host.
LEMMA ClientMoves ==
    ASSUME FilesInv, EnrollTypes', NEW h \in Hosts, NEW c \in HostRuns, Answered(c),
           cli' = [cli EXCEPT ![h] = c], inventory' = inventory,
           \A r \in Runs : srv'[r].pc \in {"listed", "answered"} => srv[r].pc \in {"listed", "answered"},
           disk' \in [Hosts -> [FileNames -> 0 .. MaxRuns]], EnrolledIsListed'
    PROVE  FilesInv'
  <1>1. cli' \in [Hosts -> HostRuns] /\ cli'[h] = c /\ \A g \in Hosts : g # h => cli'[g] = cli[g]
    BY Zenon DEF FilesInv
  <1>2. ASSUME NEW g \in Hosts PROVE Answered(cli[g])'
    <2>1. Answered(cli'[g])
      BY <1>1, Zenon DEF FilesInv
    <2> QED BY <2>1, Zenon DEF Answered
  <1> QED BY <1>1, <1>2, Zenon DEF FilesInv

\* Every step keeps the certificates on disk in the inventory.
LEMMA FilesStep == ClaimInv /\ ClaimInv' /\ FilesInv /\ [EnrollNext]_enrollVars => FilesInv'
  <1> SUFFICES ASSUME ClaimInv, ClaimInv', FilesInv, [EnrollNext]_enrollVars PROVE FilesInv'
    BY Zenon
  <1>t. EnrollTypes /\ EnrollTypes'
    BY Zenon DEF ClaimInv
  <1>n. MaxRuns \in Nat /\ 0 \in 0 .. MaxRuns /\ Runs \subseteq 0 .. MaxRuns
    BY RunsAssumption DEF Runs
  <1>i. NoRun \in HostRuns /\ Answered(NoRun)
    BY <1>n DEF NoRun, HostRuns, Answered
  <1>0. ASSUME UNCHANGED <<inventory, srv, cli, disk>> PROVE FilesInv'
    BY <1>0, <1>t, Zenon DEF FilesInv, EnrolledIsListed, Answered
  <1>1. ASSUME NEW t \in Tokens, create_enrollment(t) \/ revoke_enrollment(t) \/ TokenExpires(t)
        PROVE  FilesInv'
    BY <1>0, <1>1, Zenon DEF create_enrollment, revoke_enrollment, TokenExpires
  <1>2. ASSUME NEW r \in Runs, Claim(r) \/ issue_node_certificate(r) \/ Answer(r) \/ ClaimFails(r)
        PROVE  FilesInv'
    <2>1. /\ UNCHANGED <<inventory, cli, disk>>
          /\ \A q \in Runs : srv'[q].pc \in {"listed", "answered"}
                               => srv[q].pc \in {"listed", "answered"}
      <3>1. CASE Claim(r)
        BY <3>1, <1>t DEF Claim, claim_enrollment_token, EnrollTypes
      <3>2. CASE issue_node_certificate(r)
        BY <3>2, <1>t, Zenon DEF issue_node_certificate, EnrollTypes
      <3>3. CASE Answer(r)
        BY <3>3, <1>t, Zenon DEF Answer, EnrollTypes
      <3>4. CASE ClaimFails(r)
        BY <3>4, <1>t, Zenon DEF ClaimFails, EnrollTypes
      <3> QED BY <1>2, <3>1, <3>2, <3>3, <3>4, Zenon
    <2> QED BY <1>t, <2>1, Zenon DEF FilesInv, EnrolledIsListed, Answered
  <1>3. ASSUME NEW r \in Runs, add_node_certificate(r) PROVE FilesInv'
    <2>1. UNCHANGED <<cli, disk>> /\ inventory' = inventory \cup {r}
      BY <1>3, Zenon DEF add_node_certificate
    <2>2. \A q \in Runs : q # r => srv'[q] = srv[q]
      BY <1>3, <1>t, Zenon DEF add_node_certificate, EnrollTypes
    <2>3. \A q \in Runs : srv'[q].pc \in {"listed", "answered"} => q \in inventory'
      BY <2>1, <2>2, Zenon DEF FilesInv
    <2> QED BY <1>t, <2>1, <2>3, Zenon DEF FilesInv, EnrolledIsListed, Answered
  <1>5. ASSUME NEW h \in Hosts, NEW t \in Tokens, NEW forced \in BOOLEAN, EnrollStart(h, t, forced)
        PROVE  FilesInv'
    <2> DEFINE c == [run |-> runs + 1, pc |-> "asking", at |-> 1, forced |-> forced]
    <2>1. runs + 1 \in Runs
      BY <1>5, <1>n, <1>t DEF EnrollStart, EnrollTypes, Runs
    <2>2. c \in HostRuns /\ Answered(c)
      <3>1. runs + 1 \in 0 .. MaxRuns
        BY <1>n, <2>1, Zenon
      <3>2. 1 \in 1 .. 4 /\ 1 \in 0 .. 4
        OBVIOUS
      <3> QED BY <2>1, <3>1, <3>2, Zenon DEF HostRuns, Answered
    <2>3. /\ cli' = [cli EXCEPT ![h] = c] /\ UNCHANGED <<inventory, disk>>
          /\ srv' = [srv EXCEPT ![runs + 1] = [pc |-> "asked", tok |-> t]]
      BY <1>5, Zenon DEF EnrollStart
    <2>4. \A q \in Runs : srv'[q].pc \in {"listed", "answered"} => srv[q].pc \in {"listed", "answered"}
      <3>1. srv'[runs + 1].pc = "asked" /\ \A q \in Runs : q # runs + 1 => srv'[q] = srv[q]
        BY <1>t, <2>1, <2>3, Zenon DEF EnrollTypes
      <3> QED BY <3>1, Zenon
    <2> HIDE DEF c
    <2>5. disk' \in [Hosts -> [FileNames -> 0 .. MaxRuns]] /\ EnrolledIsListed'
      BY <2>3, Zenon DEF FilesInv, EnrolledIsListed
    <2> QED BY <1>t, <2>2, <2>3, <2>4, <2>5, ClientMoves, Zenon
  <1>6. ASSUME NEW h \in Hosts, ReadAnswer(h) PROVE FilesInv'
    <2>0. cli[h].pc = "asking" /\ cli[h] \in HostRuns /\ UNCHANGED <<inventory, srv, disk>>
      BY <1>6, Zenon DEF ReadAnswer, FilesInv
    <2>1. cli[h].run \in Runs /\ cli[h].at \in 1 .. 4
      BY <2>0, Zenon DEF FilesInv, Answered
    <2>d. disk' \in [Hosts -> [FileNames -> 0 .. MaxRuns]] /\ EnrolledIsListed'
      BY <2>0, Zenon DEF FilesInv, EnrolledIsListed
    <2>2. CASE srv[cli[h].run].pc = "answered"
      <3> DEFINE c == [cli[h] EXCEPT !.pc = "remove"]
      <3>1. cli[h].run \in inventory
        BY <2>1, <2>2, Zenon DEF FilesInv
      <3>2. cli' = [cli EXCEPT ![h] = c]
        BY <1>6, <2>2, Zenon DEF ReadAnswer
      <3>3. c \in HostRuns /\ c.run = cli[h].run /\ c.at = cli[h].at
        BY <2>0, Zenon DEF HostRuns
      <3> HIDE DEF c
      <3>4. Answered(c)
        BY <2>1, <3>1, <3>3, Zenon DEF Answered
      <3> QED BY <1>t, <2>0, <2>d, <3>2, <3>3, <3>4, ClientMoves, Zenon
    <2>3. CASE srv[cli[h].run].pc # "answered"
      <3>1. cli' = [cli EXCEPT ![h] = NoRun]
        BY <1>6, <2>3, Zenon DEF ReadAnswer
      <3> QED BY <1>t, <1>i, <2>0, <2>d, <3>1, ClientMoves, Zenon
    <2> QED BY <2>2, <2>3, Zenon
  <1>7. ASSUME NEW h \in Hosts, writeAtomic_remove(h) PROVE FilesInv'
    <2> DEFINE c == [cli[h] EXCEPT !.pc = "rename"]
    <2>0. cli[h].pc = "remove" /\ cli[h] \in HostRuns /\ UNCHANGED <<inventory, srv>>
      BY <1>7, Zenon DEF writeAtomic_remove, FilesInv
    <2>1. cli[h].run \in Runs /\ cli[h].run \in inventory /\ cli[h].at \in 1 .. 4
      BY <2>0, Zenon DEF FilesInv, Answered
    <2>2. PICK f \in FileNames : disk' = [disk EXCEPT ![h] = [disk[h] EXCEPT ![f] = 0]]
      BY <1>7, <2>1, WritesKnownFiles, Zenon DEF writeAtomic_remove
    <2>3. disk' \in [Hosts -> [FileNames -> 0 .. MaxRuns]]
      BY <1>n, <2>2, Zenon DEF FilesInv
    <2>4. EnrolledIsListed'
      BY <2>0, <2>2, Zenon DEF FilesInv, EnrolledIsListed, FileNames
    <2>5. cli' = [cli EXCEPT ![h] = c]
      BY <1>7, Zenon DEF writeAtomic_remove
    <2>6. c \in HostRuns /\ c.run = cli[h].run /\ c.at = cli[h].at
      BY <2>0, Zenon DEF HostRuns
    <2> HIDE DEF c
    <2>7. Answered(c)
      BY <2>1, <2>6, Zenon DEF Answered
    <2> QED BY <1>t, <2>0, <2>3, <2>4, <2>5, <2>6, <2>7, ClientMoves, Zenon
  <1>8. ASSUME NEW h \in Hosts, writeAtomic_rename(h) PROVE FilesInv'
    <2>0. cli[h].pc = "rename" /\ cli[h] \in HostRuns /\ UNCHANGED <<inventory, srv>>
      BY <1>8, Zenon DEF writeAtomic_rename, FilesInv
    <2>1. cli[h].run \in Runs /\ cli[h].run \in inventory /\ cli[h].at \in 1 .. 4
      BY <2>0, Zenon DEF FilesInv, Answered
    <2>2. PICK f \in FileNames : disk' = [disk EXCEPT ![h] = [disk[h] EXCEPT ![f] = cli[h].run]]
      BY <1>8, <2>1, WritesKnownFiles, Zenon DEF writeAtomic_rename
    <2>3. disk' \in [Hosts -> [FileNames -> 0 .. MaxRuns]]
      BY <1>n, <2>1, <2>2, Zenon DEF FilesInv
    <2>4. EnrolledIsListed'
      BY <2>0, <2>1, <2>2, Zenon DEF FilesInv, EnrolledIsListed, FileNames
    <2>5. CASE cli[h].at = Len(Files)
      <3>1. cli' = [cli EXCEPT ![h] = NoRun]
        BY <1>8, <2>5, Zenon DEF writeAtomic_rename
      <3> QED BY <1>t, <1>i, <2>0, <2>3, <2>4, <3>1, ClientMoves, Zenon
    <2>6. CASE cli[h].at # Len(Files)
      <3>2. PICK n \in 1 .. 4 : n = cli[h].at + 1 /\ n \in 0 .. 4
        BY <2>1, <2>6 DEF Files
      <3> DEFINE c == [cli[h] EXCEPT !.pc = "remove", !.at = n]
      <3>1. cli' = [cli EXCEPT ![h] = c]
        BY <1>8, <2>6, <3>2, Zenon DEF writeAtomic_rename, FilesInv
      <3>3. c \in HostRuns /\ c.run = cli[h].run /\ c.at = n
        BY <2>0, <3>2, Zenon DEF HostRuns
      <3> HIDE DEF c
      <3>4. Answered(c)
        BY <2>1, <3>3, Zenon DEF Answered
      <3> QED BY <1>t, <2>0, <2>3, <2>4, <3>1, <3>3, <3>4, ClientMoves, Zenon
    <2> QED BY <2>5, <2>6, Zenon
  <1>9. ASSUME NEW h \in Hosts, EnrollStops(h) PROVE FilesInv'
    <2>1. cli' = [cli EXCEPT ![h] = NoRun] /\ UNCHANGED <<inventory, srv, disk>>
      BY <1>9, Zenon DEF EnrollStops
    <2>2. disk' \in [Hosts -> [FileNames -> 0 .. MaxRuns]] /\ EnrolledIsListed'
      BY <2>1, Zenon DEF FilesInv, EnrolledIsListed
    <2> QED BY <1>t, <1>i, <2>1, <2>2, ClientMoves, Zenon
  <1>10. CASE UNCHANGED enrollVars
    BY <1>0, <1>10, Zenon DEF enrollVars
  <1> QED BY <1>1, <1>2, <1>3, <1>5, <1>6, <1>7, <1>8, <1>9, <1>10, Zenon DEF EnrollNext

\* No host starts with files, no run with an answer.
LEMMA FilesStart == EnrollInit => FilesInv
  <1> SUFFICES ASSUME EnrollInit PROVE FilesInv
    BY Zenon
  <1>1. EnrollTypes /\ \A r \in Runs : srv[r].pc = "none"
    BY ClaimStart, Zenon DEF ClaimInv, EnrollInit
  <1>2. cli \in [Hosts -> HostRuns] /\ \A h \in Hosts : cli[h].pc = "idle"
    BY RunsAssumption DEF EnrollInit, NoRun, HostRuns
  <1>3. disk \in [Hosts -> [FileNames -> 0 .. MaxRuns]] /\ \A h \in Hosts : disk[h].crt = 0
    BY RunsAssumption DEF EnrollInit, NoFiles, FileNames
  <1> QED BY <1>1, <1>2, <1>3, Zenon DEF FilesInv, EnrolledIsListed, Answered

\* A certificate an agent holds is one the master lists, for any number of
\* hosts and runs, wherever a request or a run of honey-enroll stops.
THEOREM EnrolledAlwaysListed == EnrollSpec => []EnrolledIsListed
  <1>1. FilesInv => EnrolledIsListed
    BY Zenon DEF FilesInv
  <1> QED BY <1>1, ClaimStart, ClaimStep, FilesStart, FilesStep, PTL DEF EnrollSpec

-----------------------------------------------------------------------------
(* The environment file of a host names a whole set of certificates. *)

\* What a host's files are while honey-enroll runs there: without --force no
\* environment file is there until the run's last rename, and the files before
\* the one in hand are the run's own.
HostSet(h) ==
    /\ cli[h].pc = "asking" => cli[h].at = 1
    /\ cli[h].pc # "idle" /\ ~cli[h].forced => disk[h].env = 0
    /\ cli[h].pc \in {"remove", "rename"} =>
         /\ cli[h].at > 1 => disk[h].key = cli[h].run
         /\ cli[h].at > 2 => disk[h].crt = cli[h].run
         /\ cli[h].at > 3 => disk[h].ca = cli[h].run
    /\ disk[h].env # 0 /\ cli[h].pc \notin {"remove", "rename"} /\ h \notin cut =>
         \A f \in {"key", "crt", "ca"} : disk[h][f] = disk[h].env

SetInv == FilesInv /\ \A h \in Hosts : HostSet(h)

\* A run that goes on with its next call.
LEMMA RunGoesOn ==
    ASSUME NEW c \in HostRuns, NEW p, NEW d, d = [c EXCEPT !.pc = p]
    PROVE  d.pc = p /\ d.at = c.at /\ d.run = c.run /\ (d.forced <=> c.forced)
  <1>1. d.pc = p /\ d.at = c.at /\ d.run = c.run /\ d.forced = c.forced
    BY Zenon DEF HostRuns
  <1> QED BY <1>1, Zenon

\* A step of honey-enroll on one host leaves the files of the others alone.
LEMMA HostMoves ==
    ASSUME SetInv, FilesInv', NEW h \in Hosts, HostSet(h)',
           \A g \in Hosts \ {h} : cli'[g] = cli[g] /\ disk'[g] = disk[g] /\ (g \in cut' <=> g \in cut)
    PROVE  SetInv'
  <1>1. ASSUME NEW g \in Hosts, g # h PROVE HostSet(g)'
    <2>1. HostSet(g) /\ cli'[g] = cli[g] /\ disk'[g] = disk[g] /\ (g \in cut' <=> g \in cut)
      BY <1>1, Zenon DEF SetInv
    <2> QED BY <2>1, Zenon DEF HostSet
  <1> QED BY <1>1, Zenon DEF SetInv

\* Every step keeps the files of a host together.
LEMMA SetStep == SetInv /\ FilesInv' /\ [EnrollNext]_enrollVars => SetInv'
  <1> SUFFICES ASSUME SetInv, FilesInv', [EnrollNext]_enrollVars PROVE SetInv'
    BY Zenon
  <1>o. WriteOrder(1) = "key" /\ WriteOrder(2) = "crt" /\ WriteOrder(3) = "ca" /\ WriteOrder(4) = "env"
        /\ Len(Files) = 4
    BY Zenon DEF WriteOrder, Files
  <1>t. /\ cli \in [Hosts -> HostRuns] /\ disk \in [Hosts -> [FileNames -> 0 .. MaxRuns]]
        /\ \A h \in Hosts : Answered(cli[h]) /\ HostSet(h)
    BY Zenon DEF SetInv, FilesInv
  <1>f. DOMAIN disk = Hosts /\ \A h \in Hosts : DOMAIN disk[h] = {"key", "crt", "ca", "env"}
    BY <1>t, Zenon DEF FileNames
  <1>0. ASSUME UNCHANGED <<cli, disk, cut>> PROVE SetInv'
    BY <1>0, Zenon DEF SetInv, HostSet
  <1>1. ASSUME NEW t \in Tokens, create_enrollment(t) \/ revoke_enrollment(t) \/ TokenExpires(t)
        PROVE  SetInv'
    BY <1>0, <1>1, Zenon DEF create_enrollment, revoke_enrollment, TokenExpires
  <1>2. ASSUME NEW r \in Runs, \/ Claim(r) \/ issue_node_certificate(r) \/ add_node_certificate(r)
                               \/ Answer(r) \/ ClaimFails(r)
        PROVE  SetInv'
    BY <1>0, <1>2, Zenon DEF Claim, issue_node_certificate, add_node_certificate, Answer, ClaimFails
  <1>3. ASSUME NEW h \in Hosts, NEW t \in Tokens, NEW forced \in BOOLEAN, EnrollStart(h, t, forced)
        PROVE  SetInv'
    <2>1. /\ cli' = [cli EXCEPT ![h] = [run |-> runs + 1, pc |-> "asking", at |-> 1, forced |-> forced]]
          /\ UNCHANGED <<disk, cut>> /\ cli[h].pc = "idle"
          /\ forced \/ disk[h].env = 0
      <3>1. cli[h] = NoRun
        BY <1>3, Zenon DEF EnrollStart
      <3> QED BY <1>3, <3>1 DEF EnrollStart, NoRun
    <2>2. cli'[h].pc = "asking" /\ cli'[h].at = 1 /\ (cli'[h].forced <=> forced)
          /\ \A g \in Hosts \ {h} : cli'[g] = cli[g]
      BY <2>1, <1>t, Zenon
    <2>3. HostSet(h)'
      BY <1>t, <2>1, <2>2, Zenon DEF HostSet
    <2> QED BY <2>1, <2>2, <2>3, HostMoves, Zenon
  <1>4. ASSUME NEW h \in Hosts, ReadAnswer(h) PROVE SetInv'
    <2>1. /\ cli' = [cli EXCEPT ![h] = [cli[h] EXCEPT !.pc = "remove"]]
             \/ cli' = [cli EXCEPT ![h] = NoRun]
          /\ UNCHANGED <<disk, cut>> /\ cli[h].pc = "asking"
      BY <1>4, Zenon DEF ReadAnswer
    <2>h. cli[h] \in HostRuns
      BY <1>t, Zenon
    <2>2. \A g \in Hosts \ {h} : cli'[g] = cli[g]
      BY <2>1, <1>t, Zenon
    <2>3. HostSet(h)'
      <3>1. CASE cli' = [cli EXCEPT ![h] = [cli[h] EXCEPT !.pc = "remove"]]
        <4>1. cli'[h] = [cli[h] EXCEPT !.pc = "remove"]
          BY <3>1, <1>t, Zenon
        <4>2. cli'[h].pc = "remove" /\ cli'[h].at = cli[h].at /\ (cli'[h].forced <=> cli[h].forced)
          BY <4>1, <2>h, RunGoesOn
        <4>3. cli'[h].at = 1
          BY <1>t, <2>1, <4>2, Zenon DEF HostSet
        <4>4. ~(cli'[h].at > 1) /\ ~(cli'[h].at > 2) /\ ~(cli'[h].at > 3)
          BY <4>3
        <4> QED BY <1>t, <2>1, <4>2, <4>4, Zenon DEF HostSet
      <3>2. CASE cli' = [cli EXCEPT ![h] = NoRun]
        <4>1. cli'[h].pc = "idle"
          BY <3>2, <1>t, Zenon DEF NoRun
        <4> QED BY <1>t, <2>1, <4>1, Zenon DEF HostSet
      <3> QED BY <2>1, <3>1, <3>2, Zenon
    <2> QED BY <2>1, <2>2, <2>3, HostMoves, Zenon
  <1>5. ASSUME NEW h \in Hosts, writeAtomic_remove(h) PROVE SetInv'
    <2> DEFINE f == WriteOrder(cli[h].at)
    <2>1. /\ disk' = [disk EXCEPT ![h] = [disk[h] EXCEPT ![f] = 0]]
          /\ cli' = [cli EXCEPT ![h] = [cli[h] EXCEPT !.pc = "rename"]]
          /\ cli[h].pc = "remove" /\ UNCHANGED cut /\ cli[h] \in HostRuns
      BY <1>5, <1>t, Zenon DEF writeAtomic_remove
    <2>2. /\ \A g \in Hosts \ {h} : cli'[g] = cli[g] /\ disk'[g] = disk[g]
          /\ cli'[h] = [cli[h] EXCEPT !.pc = "rename"]
          /\ disk'[h] = [disk[h] EXCEPT ![f] = 0]
      BY <2>1, <1>t, Zenon
    <2>3. /\ cli'[h].pc = "rename" /\ cli'[h].at = cli[h].at
          /\ (cli'[h].forced <=> cli[h].forced) /\ cli'[h].run = cli[h].run
      <3>1. cli'[h] = [cli[h] EXCEPT !.pc = "rename"] /\ cli[h] \in HostRuns
        BY <2>1, <2>2, Zenon
      <3> QED BY <3>1, RunGoesOn
    <2>4. /\ cli[h].at > 1 => disk'[h].key = disk[h].key
          /\ cli[h].at > 2 => disk'[h].crt = disk[h].crt
          /\ cli[h].at > 3 => disk'[h].ca = disk[h].ca
          /\ disk[h].env = 0 => disk'[h].env = 0
      <3>1. cli[h].at \in 1 .. 4
        BY <1>t, <2>1, Zenon DEF Answered
      <3>2. CASE cli[h].at = 1 BY <2>2, <1>f, <1>o, <3>2
      <3>3. CASE cli[h].at = 2 BY <2>2, <1>f, <1>o, <3>3
      <3>4. CASE cli[h].at = 3 BY <2>2, <1>f, <1>o, <3>4
      <3>5. CASE cli[h].at = 4 BY <2>2, <1>f, <1>o, <3>5, Zenon
      <3> QED BY <3>1, <3>2, <3>3, <3>4, <3>5, SMTT(40)
    <2> HIDE DEF f
    <2>5. HostSet(h)
      BY <1>t, Zenon
    <2>6. HostSet(h)'
      BY <2>1, <2>3, <2>4, <2>5, Zenon DEF HostSet
    <2> QED BY <2>1, <2>2, <2>6, HostMoves, Zenon
  <1>6. ASSUME NEW h \in Hosts, writeAtomic_rename(h) PROVE SetInv'
    <2> DEFINE f == WriteOrder(cli[h].at)
    <2>1. disk' = [disk EXCEPT ![h] = [disk[h] EXCEPT ![f] = cli[h].run]] /\ cli[h].pc = "rename"
          /\ cli[h].at \in 1 .. 4 /\ cli[h] \in HostRuns
      BY <1>6, <1>t, Zenon DEF writeAtomic_rename, Answered
    <2>2. /\ \A g \in Hosts \ {h} : disk'[g] = disk[g]
          /\ disk'[h] = [disk[h] EXCEPT ![f] = cli[h].run]
      BY <2>1, <1>t, Zenon
    <2>3. CASE cli[h].at = 4
      <3>1. cli' = [cli EXCEPT ![h] = NoRun] /\ cut' = cut \ {h}
        BY <1>6, <1>o, <2>3, Zenon DEF writeAtomic_rename
      <3>2. cli'[h].pc = "idle" /\ \A g \in Hosts \ {h} : cli'[g] = cli[g] /\ (g \in cut' <=> g \in cut)
        BY <3>1, <1>t, Zenon DEF NoRun
      <3>3. disk'[h].env = cli[h].run /\ disk'[h].key = disk[h].key
            /\ disk'[h].crt = disk[h].crt /\ disk'[h].ca = disk[h].ca
        BY <2>2, <2>3, <1>o, <1>f, Zenon
      <3>4. cli[h].at > 1 /\ cli[h].at > 2 /\ cli[h].at > 3
        BY <2>3
      <3>5. disk[h].key = cli[h].run /\ disk[h].crt = cli[h].run /\ disk[h].ca = cli[h].run
        BY <1>t, <2>1, <3>4, Zenon DEF HostSet
      <3>6. \A x \in {"key", "crt", "ca"} : disk'[h][x] = disk'[h].env
        BY <3>3, <3>5, Zenon
      <3> HIDE DEF f
      <3>7. HostSet(h)'
        BY <3>2, <3>6, Zenon DEF HostSet
      <3> QED BY <2>2, <3>2, <3>7, HostMoves, Zenon
    <2>4. CASE cli[h].at # 4
      <3>1. PICK n \in 2 .. 4 : n = cli[h].at + 1
        BY <2>1, <2>4
      <3>2. cli' = [cli EXCEPT ![h] = [cli[h] EXCEPT !.pc = "remove", !.at = n]] /\ UNCHANGED cut
        BY <1>6, <1>o, <1>t, <2>4, <3>1, Zenon DEF writeAtomic_rename
      <3>3. /\ \A g \in Hosts \ {h} : cli'[g] = cli[g]
            /\ cli'[h] = [cli[h] EXCEPT !.pc = "remove", !.at = n]
        BY <3>2, <1>t, Zenon
      <3>4. /\ cli'[h].pc = "remove" /\ cli'[h].at = n
            /\ (cli'[h].forced <=> cli[h].forced) /\ cli'[h].run = cli[h].run
        BY <2>1, <3>3, Zenon DEF HostRuns
      <3>5. /\ disk'[h].env = disk[h].env
            /\ disk'[h].key = IF cli[h].at = 1 THEN cli[h].run ELSE disk[h].key
            /\ disk'[h].crt = IF cli[h].at = 2 THEN cli[h].run ELSE disk[h].crt
            /\ disk'[h].ca = IF cli[h].at = 3 THEN cli[h].run ELSE disk[h].ca
        <4>1. CASE cli[h].at = 1 BY <2>2, <1>f, <1>o, <4>1, Zenon
        <4>2. CASE cli[h].at = 2 BY <2>2, <1>f, <1>o, <4>2, Zenon
        <4>3. CASE cli[h].at = 3 BY <2>2, <1>f, <1>o, <4>3, Zenon
        <4> QED BY <2>1, <2>4, <4>1, <4>2, <4>3, SMTT(40)
      <3> HIDE DEF f
      <3>6. /\ n > 1 => cli[h].at = 1 \/ cli[h].at > 1
            /\ n > 2 => cli[h].at = 2 \/ cli[h].at > 2
            /\ n > 3 => cli[h].at = 3 \/ cli[h].at > 3
        BY <2>1, <3>1
      <3>7. HostSet(h)
        BY <1>t, Zenon
      <3>8. HostSet(h)'
        BY <2>1, <3>4, <3>5, <3>6, <3>7, Zenon DEF HostSet
      <3> QED BY <2>2, <3>2, <3>3, <3>8, HostMoves, Zenon
    <2> QED BY <2>3, <2>4, Zenon
  <1>7. ASSUME NEW h \in Hosts, EnrollStops(h) PROVE SetInv'
    <2>1. /\ cut' = IF cli[h].forced /\ cli[h].pc # "asking" THEN cut \cup {h} ELSE cut
          /\ cli' = [cli EXCEPT ![h] = NoRun] /\ UNCHANGED disk
      BY <1>7, Zenon DEF EnrollStops
    <2>2. cli'[h].pc = "idle" /\ \A g \in Hosts \ {h} : cli'[g] = cli[g]
      BY <2>1, <1>t, Zenon DEF NoRun
    <2>3. \A g \in Hosts \ {h} : g \in cut' <=> g \in cut
      BY <2>1, Zenon
    <2>4. h \notin cut' /\ disk[h].env # 0 => cli[h].pc \notin {"remove", "rename"} /\ h \notin cut
      BY <1>t, <2>1, Zenon DEF HostSet
    <2>5. HostSet(h)'
      BY <1>t, <2>1, <2>2, <2>4, Zenon DEF HostSet
    <2> QED BY <2>1, <2>2, <2>3, <2>5, HostMoves, Zenon
  <1>8. CASE UNCHANGED enrollVars
    BY <1>0, <1>8, Zenon DEF enrollVars
  <1> QED BY <1>1, <1>2, <1>3, <1>4, <1>5, <1>6, <1>7, <1>8, Zenon DEF EnrollNext

\* Once the environment file exists and nothing is being written, the files it
\* points at come from one run, on any number of hosts and for any number of
\* runs, unless a run with --force was cut short: main writes it last.
THEOREM EnvAlwaysMeansWholeSet == EnrollSpec => []EnvMeansWholeSet
  <1>1. EnrollInit => SetInv
    <2> SUFFICES ASSUME EnrollInit PROVE SetInv
      BY Zenon
    <2>1. \A h \in Hosts : cli[h].pc = "idle" /\ disk[h].env = 0
      BY Zenon DEF EnrollInit, NoRun, NoFiles
    <2> QED BY <2>1, FilesStart, Zenon DEF SetInv, HostSet
  <1>2. SetInv => EnvMeansWholeSet
    BY Zenon DEF SetInv, HostSet, EnvMeansWholeSet
  <1> QED BY <1>1, <1>2, ClaimStart, ClaimStep, FilesStart, FilesStep, SetStep, PTL DEF EnrollSpec

-----------------------------------------------------------------------------
(* A revoked node is evicted. *)

\* What the registry and the connections hold.
LinkTypeOK ==
    /\ cert \in [Certs -> {"none", "valid", "revoked", "expired"}]
    /\ agentCert \in Certs
    /\ conn \in [Conns -> [st : {"none", "shook", "authorized", "open", "dead"},
                           cert : Certs, dialed : BOOLEAN]]
    /\ reg \in Conns \cup {NoConn}
    /\ late \subseteq Conns
    /\ revoking \in BOOLEAN

\* The inductive invariant: the registered channel went through register and
\* is not yet forgotten, and a channel that passed the check before its
\* certificate was revoked, registered or not, is known to be late.
LinkInv ==
    /\ LinkTypeOK
    /\ reg # NoConn => conn[reg].st \in {"open", "dead"}
    /\ \A c \in Conns : conn[c].st = "authorized" /\ ~revoking /\ cert[conn[c].cert] = "revoked"
                          => c \in late
    /\ RevokedIsEvicted

\* No channel is registered at the start.
LEMMA LinkInvInit == LinkInit => LinkInv
  <1> SUFFICES ASSUME LinkInit PROVE LinkInv
    BY Zenon
  <1>1. [st |-> "none", cert |-> agentCert, dialed |-> FALSE]
          \in [st : {"none", "shook", "authorized", "open", "dead"}, cert : Certs, dialed : BOOLEAN]
    BY Zenon DEF LinkInit
  <1>2. LinkTypeOK
    BY <1>1, Zenon DEF LinkInit, LinkTypeOK
  <1>3. \A c \in Conns : conn[c].st = "none"
    BY Zenon DEF LinkInit
  <1> QED BY <1>2, <1>3, Zenon DEF LinkInit, LinkInv, RevokedIsEvicted

\* Every step of the connections, the operations and the certificates keeps it.
LEMMA LinkInvStep == LinkInv /\ [LinkNext]_linkVars => LinkInv'
  <1> SUFFICES ASSUME LinkInv, [LinkNext]_linkVars PROVE LinkInv'
    BY Zenon
  <1> USE NoConnAssumption DEF LinkInv, LinkTypeOK, RevokedIsEvicted
  <1>1. ASSUME NEW c \in Conns, connect_serve(c) PROVE LinkInv'
    BY <1>1, Zenon DEF connect_serve, Free
  <1>2. ASSUME NEW c \in Conns, DialIn(c) PROVE LinkInv'
    BY <1>2, Zenon DEF DialIn, Free
  <1>3. ASSUME NEW c \in Conns, authorize_certificate(c) PROVE LinkInv'
    BY <1>3, ZenonT(60) DEF authorize_certificate, authorize_node_certificate
  <1>4. ASSUME NEW c \in Conns, register(c) PROVE LinkInv'
    BY <1>4, Zenon DEF register
  <1>5. ASSUME NEW c \in Conns, DropClient(c) PROVE LinkInv'
    BY <1>5, ZenonT(60) DEF DropClient, Held
  <1>6. ASSUME NEW c \in Conns, Cut(c) PROVE LinkInv'
    BY <1>6, Zenon DEF Cut, Up
  <1>7. ASSUME NEW o \in Ops, NEW evicts \in BOOLEAN, client_of(o, evicts) PROVE LinkInv'
    BY <1>7, Zenon DEF client_of
  <1>8. ASSUME NEW o \in Ops, RpcEnds(o) PROVE LinkInv'
    BY <1>8, Zenon DEF RpcEnds
  <1>9. ASSUME NEW k \in Certs, Enroll(k) \/ CertExpires(k) PROVE LinkInv'
    BY <1>9, ZenonT(60) DEF Enroll, CertExpires
  <1>10. ASSUME NEW k \in Certs, revoke_node_certificate(k) PROVE LinkInv'
    BY <1>10, Zenon DEF revoke_node_certificate
  <1>11. ASSUME NEW k \in Certs, AgentRestart(k) PROVE LinkInv'
    BY <1>11, ZenonT(60) DEF AgentRestart, Up
  <1>12. CASE RevokeRemoves
    BY <1>12, Zenon DEF RevokeRemoves
  <1>13. CASE UNCHANGED linkVars
    BY <1>13, Zenon DEF linkVars
  <1> QED BY <1>1, <1>2, <1>3, <1>4, <1>5, <1>6, <1>7, <1>8, <1>9, <1>10, <1>11, <1>12, <1>13, Zenon DEF LinkNext

\* "Existing channels are not grandfathered": however connects, dials, checks,
\* registrations, errors and restarts interleave with revocations, for any
\* number of connections, certificates and faults (api::revoke_certificate).
THEOREM RevocationEvicts == LinkSpec => []RevokedIsEvicted
  <1>1. LinkInv => RevokedIsEvicted
    BY Zenon DEF LinkInv
  <1> QED BY <1>1, LinkInvInit, LinkInvStep, PTL DEF LinkSpec

-----------------------------------------------------------------------------
(* A client that waits as long as it was told is served.                   *)

\* A request in flight, by the point it has reached.
Asking ==
    {NoAsk} \cup [pc : {"subject"}, path : GuardPaths, config : Configs]
            \cup [pc : {"check"}, path : GuardPaths, config : Configs, subject : Subjects]

Buckets == [requests : Nat, age : Nat, blocked : Nat]

GuardTypeOK ==
    /\ settings \in GuardConfigs
    /\ bucket \in [Subjects -> Buckets]
    /\ ask \in [GuardRequests -> Asking]
    /\ told \in [Subjects -> [said : BOOLEAN, left : Nat, block : Nat]]

\* What an entry and the last answer about it have to do with each other: a
\* block was told, it ends a tick before the time that was told, and by then
\* the window is older than the block is long.
PromiseOf(entry, promise) ==
    /\ entry.blocked > 0 => /\ promise.said /\ entry.blocked < promise.left
                            /\ entry.age >= Longest \/ entry.age + entry.blocked >= promise.block
    /\ promise.said => entry.age >= Longest \/ entry.age + promise.left > promise.block

GuardInv == GuardTypeOK /\ \A s \in Subjects : PromiseOf(bucket[s], told[s])

LEMMA LongestIsLonger == Longest \in Nat /\ \A c \in Configs : c.window < Longest
<1> DEFINE Is(w) == w \in Windows /\ \A v \in Windows : v <= w
<1>1. \E w : Is(w)
  BY WindowAssumption, Zenon
<1>2. Is(CHOOSE w : Is(w))
  BY <1>1, Zenon
<1>3. (CHOOSE w \in Windows : \A v \in Windows : v <= w) = CHOOSE w : Is(w)
  BY Zenon
<1> DEFINE m == CHOOSE w : Is(w)
<1>4. Longest = 1 + m
  BY <1>3, Zenon DEF Longest
<1>5. Windows \subseteq Nat
  BY GuardAssumption, Zenon DEF Windows
<1>6. m \in Nat /\ \A v \in Windows : v <= m
  BY <1>2, <1>5, Zenon
<1> HIDE DEF m
<1>7. \A c \in Configs : c.window \in Windows
  BY Zenon DEF Windows
<1>8. ASSUME NEW c \in Configs PROVE c.window < 1 + m
  <2>1. c.window \in Nat /\ c.window <= m
    BY <1>5, <1>6, <1>7, Zenon
  <2> QED
    BY <2>1, <1>6
<1> QED
  BY <1>4, <1>6, <1>8

LEMMA SubjectsAre ==
  ASSUME NEW p \in GuardPaths
  PROVE  <<"user", Subscriber[p]>> \in Subjects /\ <<"invalid", p>> \in Subjects
BY Zenon DEF Subjects, Subscribers

LEMMA GuardInitInv == GuardInit => GuardInv
<1> SUFFICES ASSUME GuardInit PROVE GuardInv
  BY Zenon
<1>1. GuardTypeOK
  BY LongestIsLonger, Zenon DEF GuardInit, GuardTypeOK, Buckets, NoBucket, NoAsk, Unsaid, Asking
<1>2. \A s \in Subjects : PromiseOf(bucket[s], told[s])
  BY DEF GuardInit, PromiseOf, NoBucket, Unsaid
<1> QED
  BY <1>1, <1>2, Zenon DEF GuardInv

\* The entries that stay keep their promise, and so does a forgotten one: it is
\* older than any window.
LEMMA RetainedKeeps ==
  ASSUME GuardInv, NEW c \in Configs, NEW s \in Subjects
  PROVE  /\ Retained(c)[s] \in Buckets
         /\ PromiseOf(Retained(c)[s], told[s])
         /\ Retained(c)[s].blocked = bucket[s].blocked
<1> USE LongestIsLonger
<1>1. bucket[s] \in Buckets /\ told[s] \in [said : BOOLEAN, left : Nat, block : Nat]
  BY Zenon DEF GuardInv, GuardTypeOK
<1>2. PromiseOf(bucket[s], told[s])
  BY Zenon DEF GuardInv
<1>3. CASE bucket[s].blocked > 0 \/ bucket[s].age <= c.window
  <2>1. Retained(c)[s] = bucket[s]
    BY <1>3, Zenon DEF Retained
  <2> QED
    BY <2>1, <1>1, <1>2, Zenon
<1>4. CASE ~(bucket[s].blocked > 0 \/ bucket[s].age <= c.window)
  <2>1. Retained(c)[s] = NoBucket
    BY <1>4, Zenon DEF Retained
  <2>2. bucket[s].blocked = 0
    BY <1>1, <1>4 DEF Buckets
  <2> QED
    BY <2>1, <2>2, <1>1 DEF Buckets, NoBucket, PromiseOf
<1> QED
  BY <1>3, <1>4, Zenon

\* What counting a request does to an entry.
LEMMA CountedIs ==
  ASSUME NEW c \in Configs, NEW e \in Buckets
  PROVE  /\ Counted(e, c) \in Buckets
         /\ e.blocked > 0 => Counted(e, c) = e
         /\ e.blocked = 0 /\ e.age > c.window => Counted(e, c).blocked = 0
         /\ e.blocked = 0 /\ Counted(e, c).blocked > 0 =>
              Counted(e, c).blocked = c.block
<1>1. c.window \in Nat /\ c.block \in Nat /\ c.max_requests \in Nat /\ c.max_requests > 0
  BY GuardAssumption
<1>2. CASE e.blocked > 0
  BY <1>2 DEF Counted, Buckets
<1>3. CASE ~(e.blocked > 0)
  <2> DEFINE start == Restarted(e, c)
             n == start.requests + 1
             held == IF n > c.max_requests THEN c.block ELSE 0
  <2>1. start \in Buckets /\ (e.age > c.window => start.requests = 0)
    BY Zenon DEF Restarted, Buckets
  <2>2. /\ n \in Nat /\ held \in Nat /\ (held > 0 => held = c.block)
        /\ e.age > c.window => held = 0
    BY <1>1, <2>1 DEF Buckets
  <2>3. Counted(e, c) = [start EXCEPT !.requests = n, !.blocked = held]
    BY <1>3, Zenon DEF Counted
  <2> HIDE DEF start, n, held
  <2>4. Counted(e, c) \in Buckets /\ Counted(e, c).blocked = held
    BY <2>1, <2>2, <2>3, Zenon DEF Buckets
  <2> QED
    BY <2>2, <2>4, <1>3, Zenon
<1> QED
  BY <1>2, <1>3, Zenon

\* At a check, the request's settings and subject.
LEMMA CheckOf ==
  ASSUME GuardInv, NEW r \in GuardRequests, ask[r].pc = "check"
  PROVE  ask[r].config \in Configs /\ ask[r].subject \in Subjects
BY DEF GuardInv, GuardTypeOK, Asking, NoAsk

LEMMA CheckKeeps ==
  ASSUME GuardInv, NEW r \in GuardRequests, check(r)
  PROVE  GuardInv'
<1> DEFINE c == ask[r].config
           s == ask[r].subject
           e == Retained(c)[s]
           entry == Counted(e, c)
<1>1. c \in Configs /\ s \in Subjects
  BY CheckOf, Zenon DEF check
<1>2. e \in Buckets /\ PromiseOf(e, told[s]) /\ e.blocked = bucket[s].blocked
  BY <1>1, RetainedKeeps, Zenon
<1>3. /\ entry \in Buckets
      /\ e.blocked > 0 => entry = e
      /\ e.blocked = 0 /\ entry.blocked > 0 => entry.blocked = c.block
  BY <1>1, <1>2, CountedIs, Zenon
<1>4. told[s] \in [said : BOOLEAN, left : Nat, block : Nat] /\ c.block \in Nat
  BY <1>1, GuardAssumption, Zenon DEF GuardInv, GuardTypeOK
<1>5. settings' \in GuardConfigs /\ ask' \in [GuardRequests -> Asking]
  BY Zenon DEF check, GuardInv, GuardTypeOK, Asking
<1>6. CASE ~c.enabled
  <2>1. bucket' = bucket /\ told' = told
    BY <1>6, Zenon DEF check
  <2> QED
    BY <2>1, <1>5, Zenon DEF GuardInv, GuardTypeOK
<1>7. CASE c.enabled
  <2>1. /\ bucket' = [Retained(c) EXCEPT ![s] = entry]
        /\ told' = [told EXCEPT ![s] = Told(r, entry)]
    BY <1>7, Zenon DEF check
  <2>2. Allow(r) <=> entry.blocked = 0
    BY <1>7, Zenon DEF Allow
  <2>3. /\ Told(r, entry) \in [said : BOOLEAN, left : Nat, block : Nat]
        /\ PromiseOf(entry, Told(r, entry))
    <3> HIDE DEF entry, e
    <3>1. CASE entry.blocked = 0
      <4>1. Told(r, entry) = Unsaid
        BY <3>1, <2>2, Zenon DEF Told
      <4> QED
        BY <4>1, <3>1 DEF Unsaid, PromiseOf
    <3>2. CASE entry.blocked > 0 /\ e.blocked > 0
      <4>1. Told(r, entry) = [said |-> TRUE, left |-> entry.blocked + 1, block |-> told[s].block]
        <5>1. ~Allow(r)
          BY <3>2, <2>2
        <5>2. bucket[s].blocked > 0
          BY <3>2, <1>2, Zenon
        <5> QED
          BY <5>1, <5>2, Zenon DEF Told, retry_after
      <4>2. entry = e
        BY <3>2, <1>3, Zenon
      <4> HIDE DEF c, s
      <4> QED
        BY <4>1, <4>2, <3>2, <1>2, <1>4 DEF Buckets, PromiseOf
    <3>3. CASE entry.blocked > 0 /\ e.blocked = 0
      <4>1. Told(r, entry) = [said |-> TRUE, left |-> entry.blocked + 1, block |-> c.block]
        <5>1. ~Allow(r)
          BY <3>3, <2>2
        <5>2. ~(bucket[s].blocked > 0)
          BY <3>3, <1>2
        <5> QED
          BY <5>1, <5>2, Zenon DEF Told, retry_after
      <4>2. entry.blocked = c.block
        BY <3>3, <1>3, Zenon
      <4> HIDE DEF c, s
      <4> QED
        BY <4>1, <4>2, <3>3, <1>3, <1>4 DEF Buckets, PromiseOf
    <3> QED
      BY <3>1, <3>2, <3>3, <1>2, <1>3 DEF Buckets
  <2> HIDE DEF entry, e
  <2>4. \A x \in Subjects : bucket'[x] = IF x = s THEN entry ELSE Retained(c)[x]
    BY <2>1, Zenon DEF Retained
  <2>5. \A x \in Subjects : told'[x] = IF x = s THEN Told(r, entry) ELSE told[x]
    BY <2>1, Zenon DEF GuardInv, GuardTypeOK
  <2>6. \A x \in Subjects : Retained(c)[x] \in Buckets /\ PromiseOf(Retained(c)[x], told[x])
    BY <1>1, RetainedKeeps, Zenon
  <2>7. bucket' \in [Subjects -> Buckets]
    BY <2>1, <2>6, <1>3, Zenon DEF Retained
  <2>8. told' \in [Subjects -> [said : BOOLEAN, left : Nat, block : Nat]]
    BY <2>1, <2>3, Zenon DEF GuardInv, GuardTypeOK
  <2>9. \A x \in Subjects : PromiseOf(bucket'[x], told'[x])
    BY <2>3, <2>4, <2>5, <2>6, Zenon
  <2> QED
    BY <2>7, <2>8, <2>9, <1>5, Zenon DEF GuardInv, GuardTypeOK
<1> QED
  BY <1>6, <1>7, Zenon

LEMMA TickKeeps ==
  ASSUME GuardInv, GuardTick
  PROVE  GuardInv'
<1> USE LongestIsLonger
<1>1. ASSUME NEW s \in Subjects
      PROVE  /\ bucket'[s] \in Buckets
             /\ told'[s] \in [said : BOOLEAN, left : Nat, block : Nat]
             /\ PromiseOf(bucket'[s], told'[s])
  <2> DEFINE b == bucket[s]
             p == told[s]
             aged == [b EXCEPT !.age = IF @ < Longest THEN @ + 1 ELSE @,
                               !.blocked = IF @ > 0 THEN @ - 1 ELSE 0]
             heard == [p EXCEPT !.left = IF @ > 0 THEN @ - 1 ELSE 0]
  <2>1. bucket'[s] = aged /\ told'[s] = heard
    BY Zenon DEF GuardTick
  <2>2. b \in Buckets /\ p \in [said : BOOLEAN, left : Nat, block : Nat] /\ PromiseOf(b, p)
    BY Zenon DEF GuardInv, GuardTypeOK
  <2>3. /\ aged.age = IF b.age < Longest THEN b.age + 1 ELSE b.age
        /\ aged.blocked = IF b.blocked > 0 THEN b.blocked - 1 ELSE 0
        /\ heard.left = IF p.left > 0 THEN p.left - 1 ELSE 0
        /\ heard.said = p.said /\ heard.block = p.block
        /\ aged \in Buckets /\ heard \in [said : BOOLEAN, left : Nat, block : Nat]
    <3>1. /\ b.age \in Nat /\ b.blocked \in Nat /\ p.left \in Nat
          /\ (IF b.blocked > 0 THEN b.blocked - 1 ELSE 0) \in Nat
          /\ (IF b.age < Longest THEN b.age + 1 ELSE b.age) \in Nat
          /\ (IF p.left > 0 THEN p.left - 1 ELSE 0) \in Nat
      BY <2>2 DEF Buckets
    <3> DEFINE older == IF b.age < Longest THEN b.age + 1 ELSE b.age
               rest == IF b.blocked > 0 THEN b.blocked - 1 ELSE 0
               wait == IF p.left > 0 THEN p.left - 1 ELSE 0
    <3>2. /\ aged = [b EXCEPT !.age = older, !.blocked = rest]
          /\ heard = [p EXCEPT !.left = wait]
      <4> HIDE DEF b, p
      <4> QED
        BY Zenon
    <3>3. older \in Nat /\ rest \in Nat /\ wait \in Nat
      BY <3>1, Zenon
    <3> HIDE DEF b, p, aged, heard, older, rest, wait
    <3>4. /\ aged.age = older /\ aged.blocked = rest /\ aged \in Buckets
          /\ heard.left = wait /\ heard.said = p.said /\ heard.block = p.block
          /\ heard \in [said : BOOLEAN, left : Nat, block : Nat]
      BY <3>2, <3>3, <2>2, Zenon DEF Buckets
    <3> QED
      BY <3>4, Zenon DEF older, rest, wait
  <2> HIDE DEF b, p, aged, heard
  <2>4. PromiseOf(aged, heard)
    BY <2>2, <2>3 DEF Buckets, PromiseOf
  <2> QED
    BY <2>1, <2>3, <2>4, Zenon
<1>2. /\ DOMAIN bucket' = Subjects /\ DOMAIN told' = Subjects
      /\ bucket' = [s \in Subjects |-> bucket'[s]] /\ told' = [s \in Subjects |-> told'[s]]
      /\ settings' \in GuardConfigs /\ ask' \in [GuardRequests -> Asking]
  BY Zenon DEF GuardTick, GuardInv, GuardTypeOK
<1>3. /\ bucket' \in [Subjects -> Buckets]
      /\ told' \in [Subjects -> [said : BOOLEAN, left : Nat, block : Nat]]
  BY <1>1, <1>2, Zenon
<1> QED
  BY <1>1, <1>2, <1>3, Zenon DEF GuardInv, GuardTypeOK

LEMMA GuardNextInv == GuardInv /\ [GuardNext]_guardVars => GuardInv'
<1> SUFFICES ASSUME GuardInv, [GuardNext]_guardVars PROVE GuardInv'
  BY Zenon
<1>1. ASSUME bucket' = bucket, told' = told, settings' \in GuardConfigs,
             ask' \in [GuardRequests -> Asking]
      PROVE  GuardInv'
  BY <1>1, Zenon DEF GuardInv, GuardTypeOK
<1>2. ASSUME NEW r \in GuardRequests, NEW p \in GuardPaths,
             require_subscription_access(r, p) \/ subscription_guard_config(r, p)
      PROVE  GuardInv'
  <2>1. /\ [pc |-> "subject", path |-> p, config |-> settings] \in Asking
        /\ [pc |-> "subject", path |-> p, config |-> GuardDefault] \in Asking
    BY Zenon DEF Asking, Configs, GuardInv, GuardTypeOK
  <2>2. /\ bucket' = bucket /\ told' = told /\ settings' = settings
        /\ ask' \in [GuardRequests -> Asking]
    BY <1>2, <2>1, Zenon DEF require_subscription_access, subscription_guard_config, GuardInv, GuardTypeOK
  <2> QED
    BY <1>1, <2>2, Zenon DEF GuardInv, GuardTypeOK
<1>3. ASSUME NEW r \in GuardRequests, ResolveSubject(r)
      PROVE  GuardInv'
  <2>1. ask[r].path \in GuardPaths /\ ask[r].config \in Configs
    BY <1>3 DEF ResolveSubject, GuardInv, GuardTypeOK, Asking, NoAsk
  <2>2. \A s \in Subjects : [pc |-> "check", config |-> ask[r].config, path |-> ask[r].path,
                             subject |-> s] \in Asking
    BY <2>1, Zenon DEF Asking
  <2>3. /\ <<"user", Subscriber[ask[r].path]>> \in Subjects
        /\ <<"invalid", ask[r].path>> \in Subjects
    BY <2>1, SubjectsAre, Zenon
  <2>4. ask' \in [GuardRequests -> Asking]
    BY <1>3, <2>2, <2>3, Zenon DEF ResolveSubject, subscription_guard_subject, GuardInv, GuardTypeOK
  <2>5. bucket' = bucket /\ told' = told /\ settings' = settings
    BY <1>3, Zenon DEF ResolveSubject
  <2> QED
    BY <1>1, <2>4, <2>5, Zenon DEF GuardInv, GuardTypeOK
<1>4. ASSUME NEW c \in GuardConfigs, update_settings(c)
      PROVE  GuardInv'
  BY <1>1, <1>4, Zenon DEF update_settings, GuardInv, GuardTypeOK
<1>5. CASE UNCHANGED guardVars
  BY <1>1, <1>5, Zenon DEF guardVars, GuardInv, GuardTypeOK
<1> QED
  BY <1>2, <1>3, <1>4, <1>5, CheckKeeps, TickKeeps, Zenon DEF GuardNext

\* The theorem: a client of the subscription URLs that comes back after the
\* Retry-After of its last refusal gets past the limiter, whatever happened in
\* between, unless the window it is counted by is longer than the block was.
THEOREM WaitingIsEnough == GuardSpec => RetryAfterHolds
<1>1. ASSUME GuardInv, NEW r \in GuardRequests, check(r), told[ask[r].subject].said,
             told[ask[r].subject].left = 0,
             ask[r].config.window <= told[ask[r].subject].block
      PROVE  Allow(r)
  <2> DEFINE c == ask[r].config
             s == ask[r].subject
             e == Retained(c)[s]
  <2>1. c \in Configs /\ s \in Subjects
    BY <1>1, CheckOf, Zenon DEF check
  <2>2. e \in Buckets /\ PromiseOf(e, told[s])
    BY <1>1, <2>1, RetainedKeeps, Zenon
  <2>3. told[s].block \in Nat /\ c.window \in Nat
    BY <1>1, <2>1, GuardAssumption, Zenon DEF GuardInv, GuardTypeOK
  <2> HIDE DEF e
  <2>4. e.blocked = 0
    BY <1>1, <2>2 DEF PromiseOf, Buckets
  <2>5. e.age > c.window
    BY <1>1, <2>1, <2>2, <2>3, LongestIsLonger, SMTT(40) DEF PromiseOf, Buckets
  <2>6. Counted(e, c).blocked = 0
    BY <2>1, <2>2, <2>4, <2>5, CountedIs, Zenon
  <2> QED
    BY <2>6, Zenon DEF Allow, e
<1>2. GuardInv /\ [GuardNext]_guardVars =>
        [\A r \in GuardRequests :
           LET promise == told[ask[r].subject]
           IN check(r) /\ promise.said /\ promise.left = 0
                /\ ask[r].config.window <= promise.block => Allow(r)]_guardVars
  BY <1>1, Zenon
<1> QED
  BY <1>2, GuardInitInv, GuardNextInv, PTL DEF GuardSpec, RetryAfterHolds
=============================================================================

------------------------------ MODULE Accounts ------------------------------
(***************************************************************************)
(* The operator side of the master's REST API: the login pipeline with its *)
(* brute-force guard, browser sessions, TOTP and recovery codes, and the   *)
(* edits of an administrator's row.  A request is a record that walks      *)
(* through the handler one database round trip at a time, so two handlers  *)
(* interleave wherever the code awaits.  Passwords, TOTP secrets and       *)
(* recovery codes are version numbers: typing a secret means naming its    *)
(* version, and 0 is a value that never matches.                           *)
(***************************************************************************)
EXTENDS Naturals, FiniteSets

CONSTANTS
    Admins,        \* rows of the admins table
    Clients,       \* keys of the login limiter (forwarded addresses)
    Requests,      \* handlers that can run at the same time
    MAX_FAILURES,  \* ratelimit.rs: failures before a lockout
    WINDOW,        \* ratelimit.rs: length of the counting window, in ticks
    LOCKOUT,       \* ratelimit.rs: length of the lockout, in ticks
    MaxPw,         \* bound: password versions
    MaxSecret,     \* bound: TOTP secrets ever generated
    MaxCode        \* bound: recovery codes ever generated

ASSUME LockoutOutlastsWindow == WINDOW \in Nat /\ LOCKOUT \in Nat /\ LOCKOUT > WINDOW
ASSUME VersionsAssumption == MaxPw \in Nat /\ MaxSecret \in Nat /\ MaxCode \in Nat

NoSecret == 0

VARIABLES
    admin,     \* admins: enabled, password version, totp_enabled, totp_secret
    code,      \* admin_recovery_codes: the unused code of each account's set
    session,   \* admin_sessions, expired rows left out (every query skips them)
    ips,       \* admin_ip_allowlist
    guard,     \* LoginLimiter.entries
    req,       \* the handlers in flight
    fresh,     \* last secret and code version handed out
    uses,      \* history: logins each recovery code has opened
    proven,    \* history: secrets an enable request verified a code against
    raced,     \* history: accounts whose secret changed under an enable
    half       \* history: accounts whose update stopped before the wipe

accountVars == <<admin, code, session, ips, guard, req, fresh, uses, proven, raced, half>>

Idle == [pc |-> "idle"]
NoEntry == [failures |-> 0, age |-> 0, lock |-> 0, present |-> FALSE]

AccountsInit ==
    /\ admin = [a \in Admins |-> [enabled |-> TRUE, pw |-> 1, totp |-> FALSE, secret |-> NoSecret]]
    /\ code = [a \in Admins |-> NoSecret]
    /\ session = {}
    /\ ips = {}
    /\ guard = [c \in Clients |-> NoEntry]
    /\ req = [r \in Requests |-> Idle]
    /\ fresh = [secret |-> 0, code |-> 0]
    /\ uses = [k \in 1..MaxCode |-> 0]
    /\ proven = {}
    /\ raced = {}
    /\ half = {}

-----------------------------------------------------------------------------
(* ratelimit.rs: the login guard. *)

Locked(e) == e.lock > 0

\* Entries that are neither locked nor inside their window are dropped.
prune(g) == [c \in Clients |-> IF Locked(g[c]) \/ g[c].age <= WINDOW THEN g[c] ELSE NoEntry]

record_failure(g, c) ==
    LET old == IF g[c].present THEN g[c] ELSE [NoEntry EXCEPT !.present = TRUE]
        cur == IF ~Locked(old) /\ old.age > WINDOW
               THEN [old EXCEPT !.failures = 0, !.age = 0]
               ELSE old
        n   == cur.failures + 1
    IN  [g EXCEPT ![c] = [cur EXCEPT !.failures = n,
                                     !.lock = IF n >= MAX_FAILURES THEN LOCKOUT ELSE @]]

record_success(g, c) == [g EXCEPT ![c] = NoEntry]

\* An entry one tick later; ages past the window are all alike.
Later(e) ==
    [e EXCEPT !.age = IF @ > WINDOW THEN @ ELSE @ + 1, !.lock = IF @ = 0 THEN 0 ELSE @ - 1]

\* Instants move on: windows age and lockouts run down.
LoginTick ==
    /\ guard' = [c \in Clients |-> IF guard[c].present THEN Later(guard[c]) ELSE guard[c]]
    /\ UNCHANGED <<admin, code, session, ips, req, fresh, uses, proven, raced, half>>

-----------------------------------------------------------------------------
(* The login handler. *)

ip_allowed(c) == ips = {} \/ c \in ips

Finish(r) == req' = [req EXCEPT ![r] = Idle]

\* The attempt counts against the address and the request ends.
Fail(r) ==
    /\ guard' = record_failure(guard, req[r].client)
    /\ Finish(r)
    /\ UNCHANGED <<admin, code, session, ips, fresh, uses, proven, raced, half>>

\* An address under lockout is answered at once; anyone else goes on to the lookup.
LoginBegin(r, a, c) ==
    /\ req[r] = Idle
    /\ guard' = prune(guard)
    /\ \/ /\ Locked(guard[c])
          /\ UNCHANGED req
       \/ /\ ~Locked(guard[c])
          /\ req' = [req EXCEPT ![r] = [pc |-> "lookup", admin |-> a, client |-> c]]
    /\ UNCHANGED <<admin, code, session, ips, fresh, uses, proven, raced, half>>

\* get_admin_by_username: the row as it is now decides everything up to the
\* second factor.  The password typed is this row's or it is not.
LoginLookup(r) ==
    /\ req[r].pc = "lookup"
    /\ \E typed \in {0, admin[req[r].admin].pw} :
         req' = [req EXCEPT ![r] =
                   [pc |-> "verify", admin |-> @.admin, client |-> @.client,
                    pw |-> admin[@.admin].pw, totp |-> admin[@.admin].totp,
                    good |-> admin[@.admin].enabled /\ typed = admin[@.admin].pw]]
    /\ UNCHANGED <<admin, code, session, ips, guard, fresh, uses, proven, raced, half>>

LoginRefuse(r) ==
    /\ req[r].pc = "verify"
    /\ ~req[r].good \/ ~ip_allowed(req[r].client)
    /\ Fail(r)

PastPassword(r) == req[r].pc = "verify" /\ req[r].good /\ ip_allowed(req[r].client)

\* No second factor offered: the reply asks for one and nothing is counted.
LoginAskSecond(r) ==
    /\ PastPassword(r) /\ req[r].totp
    /\ Finish(r)
    /\ UNCHANGED <<admin, code, session, ips, guard, fresh, uses, proven, raced, half>>

totp_ok(a, otp) == admin[a].secret # NoSecret /\ otp = admin[a].secret

\* UPDATE ... WHERE code_hash = $2 AND used_at IS NULL, tried only if the TOTP code failed.
consume_admin_recovery_code(a, rec) == rec # NoSecret /\ code[a] = rec

\* The secret is read afresh; otp and rec are what the request carries.
LoginSecond(r) ==
    /\ PastPassword(r) /\ req[r].totp
    /\ \E otp \in 0..fresh.secret, rec \in 0..fresh.code :
       LET a == req[r].admin IN
       \/ /\ totp_ok(a, otp)
          /\ req' = [req EXCEPT ![r].pc = "grant"]
          /\ UNCHANGED <<admin, code, session, ips, guard, fresh, uses, proven, raced, half>>
       \/ /\ ~totp_ok(a, otp) /\ consume_admin_recovery_code(a, rec)
          /\ code' = [code EXCEPT ![a] = NoSecret]
          /\ uses' = [uses EXCEPT ![rec] = @ + 1]
          /\ req' = [req EXCEPT ![r].pc = "grant"]
          /\ UNCHANGED <<admin, session, ips, guard, fresh, proven, raced, half>>
       \/ /\ ~totp_ok(a, otp) /\ ~consume_admin_recovery_code(a, rec)
          /\ otp # NoSecret \/ rec # NoSecret
          /\ Fail(r)

\* The limiter forgets the address and the session row is inserted.
LoginGrant(r) ==
    /\ \/ req[r].pc = "grant"
       \/ PastPassword(r) /\ ~req[r].totp
    /\ guard' = record_success(guard, req[r].client)
    /\ session' = session \cup
         {[admin |-> req[r].admin, pw |-> req[r].pw,
           late |-> req[r].pw # admin[req[r].admin].pw]}
    /\ Finish(r)
    /\ UNCHANGED <<admin, code, ips, fresh, uses, proven, raced, half>>

-----------------------------------------------------------------------------
(* Sessions. *)

\* logout, revoke_session, and a row whose expires_at has passed.
SessionEnds(s) ==
    /\ session' = session \ {s}
    /\ UNCHANGED <<admin, code, ips, guard, req, fresh, uses, proven, raced, half>>

revoke_other_sessions(s) ==
    /\ admin[s.admin].enabled
    /\ session' = {t \in session : t.admin # s.admin \/ t = s}
    /\ UNCHANGED <<admin, code, ips, guard, req, fresh, uses, proven, raced, half>>

-----------------------------------------------------------------------------
(* Edits of an account.  The row changes in one statement and the sessions *)
(* go in a later one; an error in between (the group or role statements,   *)
(* a lost connection) ends the request with the sessions still there.      *)

\* Mutant: a password change keeps the sessions.
WipesSessionsIfDisabled(enabled, newpw) == ~enabled

WipesSessions(enabled, newpw) == ~enabled \/ newpw

update_admin(r, a, self) ==
    /\ req[r] = Idle
    /\ \E enabled, newpw \in BOOLEAN :
         /\ ~(self /\ ~enabled)
         /\ newpw => admin[a].pw < MaxPw
         /\ admin' = [admin EXCEPT ![a].enabled = enabled,
                                   ![a].pw = IF newpw THEN @ + 1 ELSE @]
         /\ req' = IF WipesSessions(enabled, newpw)
                   THEN [req EXCEPT ![r] = [pc |-> "wipe", admin |-> a]]
                   ELSE req
    /\ UNCHANGED <<code, session, ips, guard, fresh, uses, proven, raced, half>>

delete_admin_sessions(r) ==
    /\ req[r].pc = "wipe"
    /\ session' = {s \in session : s.admin # req[r].admin}
    /\ half' = half \ {req[r].admin}
    /\ Finish(r)
    /\ UNCHANGED <<admin, code, ips, guard, fresh, uses, proven, raced>>

UpdateFails(r) ==
    /\ req[r].pc = "wipe"
    /\ half' = half \cup {req[r].admin}
    /\ Finish(r)
    /\ UNCHANGED <<admin, code, session, ips, guard, fresh, uses, proven, raced>>

AllowIp(c) ==
    /\ ips' = ips \cup {c}
    /\ UNCHANGED <<admin, code, session, guard, req, fresh, uses, proven, raced, half>>

DeleteIp(c) ==
    /\ c \in ips
    /\ ips' = ips \ {c}
    /\ UNCHANGED <<admin, code, session, guard, req, fresh, uses, proven, raced, half>>

-----------------------------------------------------------------------------
(* Two-factor management by the account itself, from a live session. *)

Signed(a) == admin[a].enabled /\ \E s \in session : s.admin = a

\* Accounts with an enable request that has read the secret and not yet written.
Enabling(a) == \E r \in Requests : req[r].pc = "enable" /\ req[r].admin = a

SecretOnSetup(row, s) == [row EXCEPT !.secret = s, !.totp = FALSE]

totp_setup(a) ==
    /\ Signed(a) /\ fresh.secret < MaxSecret
    /\ fresh' = [fresh EXCEPT !.secret = @ + 1]
    /\ admin' = [admin EXCEPT ![a] = SecretOnSetup(@, fresh.secret + 1)]
    /\ raced' = IF Enabling(a) THEN raced \cup {a} ELSE raced
    /\ UNCHANGED <<code, session, ips, guard, req, uses, proven, half>>

\* The secret is read and the code verified; enabling is a statement of its own.
totp_enable_check(r, a) ==
    /\ req[r] = Idle /\ Signed(a) /\ admin[a].secret # NoSecret
    /\ proven' = proven \cup {admin[a].secret}
    /\ req' = [req EXCEPT ![r] = [pc |-> "enable", admin |-> a]]
    /\ UNCHANGED <<admin, code, session, ips, guard, fresh, uses, raced, half>>

totp_enable(r) ==
    /\ req[r].pc = "enable"
    /\ admin' = [admin EXCEPT ![req[r].admin].totp = TRUE]
    /\ Finish(r)
    /\ UNCHANGED <<code, session, ips, guard, fresh, uses, proven, raced, half>>

\* Recovery codes stay in their table: only the secret and the flag go.
totp_disable(a) ==
    /\ Signed(a)
    /\ admin' = [admin EXCEPT ![a].secret = NoSecret, ![a].totp = FALSE]
    /\ raced' = IF Enabling(a) THEN raced \cup {a} ELSE raced
    /\ UNCHANGED <<code, session, ips, guard, req, fresh, uses, proven, half>>

totp_recovery_generate(a) ==
    /\ Signed(a) /\ admin[a].totp /\ admin[a].secret # NoSecret /\ fresh.code < MaxCode
    /\ fresh' = [fresh EXCEPT !.code = @ + 1]
    /\ code' = [code EXCEPT ![a] = fresh.code + 1]
    /\ UNCHANGED <<admin, session, ips, guard, req, uses, proven, raced, half>>

-----------------------------------------------------------------------------
AccountsNext ==
    \/ LoginTick
    \/ \E r \in Requests :
         \/ LoginLookup(r) \/ LoginRefuse(r) \/ LoginAskSecond(r) \/ LoginSecond(r) \/ LoginGrant(r)
         \/ delete_admin_sessions(r) \/ UpdateFails(r) \/ totp_enable(r)
         \/ \E a \in Admins : totp_enable_check(r, a) \/ \E self \in BOOLEAN : update_admin(r, a, self)
         \/ \E a \in Admins, c \in Clients : LoginBegin(r, a, c)
    \/ \E s \in session : SessionEnds(s) \/ revoke_other_sessions(s)
    \/ \E a \in Admins : totp_setup(a) \/ totp_disable(a) \/ totp_recovery_generate(a)
    \/ \E c \in Clients : AllowIp(c) \/ DeleteIp(c)

AccountsSpec == AccountsInit /\ [][AccountsNext]_accountVars

-----------------------------------------------------------------------------
\* Every variable holds what its table, map or handler can hold.
AccountsTypeOK ==
    /\ admin \in [Admins -> [enabled : BOOLEAN, pw : 1..MaxPw, totp : BOOLEAN, secret : 0..MaxSecret]]
    /\ code \in [Admins -> 0..MaxCode]
    /\ session \subseteq [admin : Admins, pw : 1..MaxPw, late : BOOLEAN]
    /\ ips \subseteq Clients
    /\ guard \in [Clients -> [failures : Nat, age : 0..(WINDOW + 1), lock : 0..LOCKOUT, present : BOOLEAN]]
    /\ \A r \in Requests : req[r].pc \in {"idle", "lookup", "verify", "grant", "wipe", "enable"}

\* A recovery code opens at most one login, however the logins that type it
\* interleave with each other and with the generation of a new set
\* (repo.rs consume_admin_recovery_code, docs/admin-recovery.md).
CodeOpensOneLogin == \A k \in 1..MaxCode : uses[k] <= 1

\* The failures counted against an address overshoot the limit by no more than
\* the requests that were already past locked_for when the lockout began, and a
\* lockout that has run out starts a new count: it never grows from one lockout
\* to the next (ratelimit.rs record_failure and prune).
OvershootBounded ==
    \A c \in Clients : guard[c].failures <= MAX_FAILURES - 1 + Cardinality(Requests)

\* A session opened with a password that is no longer the account's exists only
\* while the change has yet to delete the sessions, after such a change failed
\* half way, or because its login had read the row before the change
\* (api/mod.rs update_admin and login).
StalePasswordSession ==
    \A s \in session :
        s.pw # admin[s.admin].pw =>
            \/ s.late
            \/ s.admin \in half
            \/ \E r \in Requests : req[r].pc = "wipe" /\ req[r].admin = s.admin

\* Two-factor is on only with a stored secret that somebody typed a code of,
\* unless a setup or disable request changed the secret while an enable
\* request was between its check and its UPDATE (api/mod.rs totp_enable).
SecretConfirmed ==
    \A a \in Admins : admin[a].totp /\ a \notin raced => admin[a].secret \in proven

\* An administrator gets in by credentials that count: no code that was used, no
\* password that was replaced, no second factor that nobody confirmed, but for
\* the races named above (api/mod.rs login, update_admin and totp_enable).
CredentialsDecide == CodeOpensOneLogin /\ StalePasswordSession /\ SecretConfirmed
=============================================================================

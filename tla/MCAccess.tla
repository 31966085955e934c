------------------------------- MODULE MCAccess -------------------------------
(***************************************************************************)
(* Who may do what, and the records of it, for TLC: administrators'        *)
(* logins, node enrolment, the limiter of the subscription endpoint, the   *)
(* re-encryption of the secrets, the audit chain, and scheduled changes of *)
(* a user.  The modules share no variable; a behaviour picks one part and  *)
(* runs it.                                                                *)
(***************************************************************************)
EXTENDS Accounts, Enrollment, SubscriptionGuard, Rekey, AuditChain, Scheduler, TLC

CONSTANTS u1, u2, wg1, adm1

VARIABLE part

\* Both links of one subscriber.
MCSubscriber == [token |-> "u", alias |-> "u"]
GuardSetting(e, m, w, b) == [enabled |-> e, max_requests |-> m, window |-> w, block |-> b]
MCConfigs == {GuardSetting(TRUE, 1, 2, 2), GuardSetting(TRUE, 1, 1, 3), GuardSetting(FALSE, 1, 2, 2)}
\* A block laid under the defaults is shorter than the first window above.
MCDefault == GuardSetting(TRUE, 1, 1, 1)

MCTable == (u1 :> "users") @@ (u2 :> "users") @@ (wg1 :> "wg") @@ (adm1 :> "admins")

\* Two switches in one batch of two, then a rotation, then a third switch.
Switching == <<"disable", "enable", "rotate-sub", "disable">>

Symmetry == Permutations(Requests)

MCInit ==
    /\ AccountsInit /\ EnrollInit /\ GuardInit /\ RekeyInit /\ AuditInit /\ SchedInit
    /\ part \in {"accounts", "enroll", "guard", "rekey", "audit", "schedule"}
    \* A part that does not run has one initial state.
    /\ part = "guard" \/ settings = CHOOSE c \in GuardConfigs : TRUE
    /\ \/ part = "rekey"
       \/ env = (CHOOSE k \in Keys : TRUE) /\ \A r \in Rows : store[r].key = Plain

MCNext ==
    \/ /\ part = "accounts" /\ AccountsNext
       /\ UNCHANGED <<enrollVars, guardVars, rekeyVars, auditVars, schedVars, part>>
    \/ /\ part = "enroll" /\ EnrollNext
       /\ UNCHANGED <<accountVars, guardVars, rekeyVars, auditVars, schedVars, part>>
    \/ /\ part = "guard" /\ GuardNext
       /\ UNCHANGED <<accountVars, enrollVars, rekeyVars, auditVars, schedVars, part>>
    \/ /\ part = "rekey" /\ RekeyNext
       /\ UNCHANGED <<accountVars, enrollVars, guardVars, auditVars, schedVars, part>>
    \/ /\ part = "audit" /\ AuditNext
       /\ UNCHANGED <<accountVars, enrollVars, guardVars, rekeyVars, schedVars, part>>
    \/ /\ part = "schedule" /\ SchedNext
       /\ UNCHANGED <<accountVars, enrollVars, guardVars, rekeyVars, auditVars, part>>

MCSpec ==
    MCInit /\ [][MCNext]_<<accountVars, enrollVars, guardVars, rekeyVars, auditVars, schedVars, part>>
==============================================================================

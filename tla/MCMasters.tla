------------------------------ MODULE MCMasters ------------------------------
(***************************************************************************)
(* Several masters on one database, for TLC: the leader election, the      *)
(* scheduler's turns when they overlap, the alerts.  The modules share no  *)
(* variable; a behaviour picks one part and runs it, and the fairness of a *)
(* part is asked of the behaviours that run it.                            *)
(***************************************************************************)
EXTENDS HaLease, Scheduler, Alerts, TLC

CONSTANTS t1, t2, t3

VARIABLE part

\* One operation of each kind, for turns that overlap.
Pair == <<"disable", "rotate-sub">>

\* Two tasks of one master and one of another.
MCHost == (t1 :> "first") @@ (t2 :> "first") @@ (t3 :> "second")

MCInit ==
    /\ Init /\ SchedInit /\ AlertInit
    /\ part \in {"election", "schedule", "alerts"}

MCNext ==
    \/ part = "election" /\ Next /\ UNCHANGED <<schedVars, alertVars, part>>
    \/ part = "schedule" /\ SchedNext /\ UNCHANGED <<vars, alertVars, part>>
    \/ part = "alerts" /\ AlertNext /\ UNCHANGED <<vars, schedVars, part>>

\* Fairness, SchedFairness and AlertFairness of the part that runs.
Electing(A) == part = "election" /\ A
Scheduling(A) == part = "schedule" /\ A
Alerting(A) == part = "alerts" /\ A

MCSpec ==
    /\ MCInit /\ [][MCNext]_<<vars, schedVars, alertVars, part>>
    /\ WF_vars(Electing(Tick))
    /\ \A i \in Instances :
        /\ WF_vars(Electing(Wake(i))) /\ WF_vars(Electing(Heartbeat(i))) /\ WF_vars(Electing(Prune(i)))
        /\ WF_vars(Electing(SetLeader(i) \/ StepDown(i)))
        /\ SF_vars(Electing(TryAcquire(i))) /\ SF_vars(Electing(answer[i] /\ SetLeader(i)))
    /\ WF_schedVars(Scheduling(SchedTick))
    /\ \A m \in Masters : WF_schedVars(Scheduling(Turn(m)))
    /\ \A t \in Tasks : WF_alertVars(Alerting(AlertStep(t)))
    /\ WF_alertVars(Alerting(AlertTick))

\* No crash and no failure of the database silences the leader's loops for
\* good: scheduled_ops settles what is due (DueIsSettled) and alert reports a
\* condition that persists (ReportedAgain).
LoopsCatchUp == DueIsSettled /\ ReportedAgain
==============================================================================

-------------------------------- MODULE MCPush --------------------------------
(***************************************************************************)
(* The specification of a node, for TLC: its way to the agent, and the     *)
(* check that the agent still has it.  The modules share no variable; a    *)
(* behaviour picks one part and runs it, and the fairness of a part is     *)
(* asked of the behaviours that run it.                                    *)
(***************************************************************************)
EXTENDS MCNodePush, Drift

VARIABLE part

MCInit ==
    /\ Init /\ DriftInit
    /\ part \in {"push", "drift"}
    \* A part that does not run has one initial state; a bad spec owes nothing.
    \* The builds are alike: the first core starts with the first.
    /\ part = "push" \/ desired \in Bad
    /\ IF part = "drift" THEN wanted[1] = 1 ELSE \A k \in DriftCores : wanted[k] = NoBuild

MCNext ==
    \/ part = "push" /\ Next /\ UNCHANGED <<driftVars, part>>
    \/ part = "drift" /\ DriftNext /\ UNCHANGED <<vars, part>>

\* Fairness of NodePush, and that of DriftSpec, of the part that runs.
Pushing(A) == part = "push" /\ A

MCSpec ==
    /\ MCInit /\ [][MCNext]_<<vars, driftVars, part>>
    /\ WF_vars(Pushing(Tick)) /\ WF_vars(Pushing(TimerFires)) /\ WF_vars(Pushing(Connect))
    /\ SF_vars(Pushing(ReconcileTick)) /\ WF_vars(Pushing(BuildDesired)) /\ SF_vars(Pushing(Compare))
    /\ \A t \in Pushers : WF_vars(Pushing(PushStep(t)))
    /\ WF_vars(Pushing(\E s \in Specs : RunOrphan(s)))
    /\ WF_driftVars(part = "drift" /\ DriftStep)
==============================================================================

------------------------------- MODULE Drift -------------------------------
(***************************************************************************)
(* The drift monitor beside the pushes it has to tell apart from           *)
(* tampering (monitor.rs drift_tick, spec.rs preview, agent ConfigDrift,   *)
(* registry.rs push_with_context and reconcile_push).  A spec gives each   *)
(* core a config or none; Apply works core by core, puts back the file of  *)
(* the core it fails on (AgentCores) and leaves those before it, and never *)
(* removes a file.  The master records the hash of a spec only when the    *)
(* answer says it was applied.                                             *)
(***************************************************************************)
EXTENDS Naturals, FiniteSets

CONSTANTS
    DriftCores,     \* the cores, as numbers in the order Apply walks them
    Builds,         \* the configs BuildConfig makes
    NoBuild,        \* a core without inbounds, or without a file
    Edited,         \* a file somebody changed on the node
    MaxSpecEdits, MaxTampers, MaxPushFails

VARIABLES
    wanted,     \* the spec of the rows
    recorded,   \* the spec of nodes.applied_spec_hash
    onDisk,     \* the config files
    pushing,    \* the push in progress: [pc, spec, at, lost]; overlapping pushes
                \* are NodePush's subject, here the next one waits
    drift,      \* the check in progress: [pc, hash, spec]
    reported,   \* the cores of the last alert; {} after a check without one
    disturbed,  \* history: cores tampered with, or left by a push that did not
                \* complete, since the last push that did
    overlapped, \* history: a push wrote files since the check read the hash
    driftBounds \* [edits, tampers, fails]

driftVars == <<wanted, recorded, onDisk, pushing, drift, reported, disturbed, overlapped,
               driftBounds>>

NoPushing == [pc |-> "idle"]
NoDrift == [pc |-> "idle"]
Within(bound, max) ==
    driftBounds[bound] < max /\ driftBounds' = [driftBounds EXCEPT ![bound] = @ + 1]

DriftInit ==
    /\ wanted \in [DriftCores -> Builds \cup {NoBuild}]
    /\ recorded = wanted
    /\ onDisk = wanted
    /\ pushing = NoPushing
    /\ drift = NoDrift
    /\ reported = {} /\ disturbed = {} /\ overlapped = FALSE
    /\ driftBounds = [edits |-> 0, tampers |-> 0, fails |-> 0]

EditSpec(k, b) ==
    /\ Within("edits", MaxSpecEdits)
    /\ wanted[k] # b /\ wanted' = [wanted EXCEPT ![k] = b]
    /\ UNCHANGED <<recorded, onDisk, pushing, drift, reported, disturbed, overlapped>>

Tamper(k) ==
    /\ Within("tampers", MaxTampers)
    /\ onDisk[k] \in Builds
    /\ onDisk' = [onDisk EXCEPT ![k] = Edited]
    /\ disturbed' = disturbed \cup {k}
    /\ UNCHANGED <<wanted, recorded, pushing, drift, reported, overlapped>>

-----------------------------------------------------------------------------
(* Pushes.                                                                 *)

Unchanged(spec, applied) == spec = applied

PushBegin == pushing' = [pc |-> "apply", spec |-> wanted, at |-> 1, lost |-> FALSE]

\* The reconcile loop pushes what differs from the recorded hash.
reconcile_push ==
    /\ pushing.pc = "idle" /\ ~Unchanged(wanted, recorded)
    /\ PushBegin
    /\ UNCHANGED <<wanted, recorded, onDisk, drift, reported, disturbed, overlapped, driftBounds>>

\* An administrator's push does not compare.
push_node ==
    /\ pushing.pc = "idle"
    /\ PushBegin
    /\ UNCHANGED <<wanted, recorded, onDisk, drift, reported, disturbed, overlapped, driftBounds>>

ApplyCore ==
    /\ pushing.pc = "apply" /\ pushing.at \in DriftCores
    /\ LET k == pushing.at IN
         /\ onDisk' = IF pushing.spec[k] = NoBuild THEN onDisk
                      ELSE [onDisk EXCEPT ![k] = pushing.spec[k]]
         /\ disturbed' = disturbed \cup (IF onDisk' = onDisk THEN {} ELSE {k})
    /\ pushing' = [pushing EXCEPT !.at = @ + 1]
    /\ overlapped' = TRUE
    /\ UNCHANGED <<wanted, recorded, drift, reported, driftBounds>>

\* A core refuses its config: finish_node_push("failed") keeps the hash.
ApplyFails ==
    /\ pushing.pc = "apply" /\ pushing.at \in DriftCores
    /\ Within("fails", MaxPushFails)
    /\ pushing' = NoPushing
    /\ UNCHANGED <<wanted, recorded, onDisk, drift, reported, disturbed, overlapped>>

\* The connection breaks: the agent works on, the master hears nothing.
AnswerLost ==
    /\ pushing.pc = "apply" /\ ~pushing.lost
    /\ Within("fails", MaxPushFails)
    /\ pushing' = [pushing EXCEPT !.lost = TRUE]
    /\ UNCHANGED <<wanted, recorded, onDisk, drift, reported, disturbed, overlapped>>

\* finish_node_push, "applied" or, without an answer, "failed".
PushEnds ==
    /\ pushing.pc = "apply" /\ pushing.at \notin DriftCores
    /\ IF pushing.lost THEN UNCHANGED <<recorded, disturbed>>
       ELSE /\ recorded' = pushing.spec
            /\ disturbed' = {k \in disturbed : onDisk[k] = Edited}
    /\ pushing' = NoPushing
    /\ UNCHANGED <<wanted, onDisk, drift, reported, overlapped, driftBounds>>

-----------------------------------------------------------------------------
(* The monitor.                                                            *)

drift_tick ==
    /\ drift.pc = "idle"
    /\ drift' = [pc |-> "build", hash |-> recorded]
    /\ overlapped' = (pushing.pc = "apply")
    /\ UNCHANGED <<wanted, recorded, onDisk, pushing, reported, disturbed, driftBounds>>

\* preview.changed: a push is pending.
preview(spec, hash) == ~Unchanged(spec, hash)

DriftBuilds ==
    /\ drift.pc = "build"
    /\ drift' = IF preview(wanted, drift.hash) THEN NoDrift
                ELSE [pc |-> "ask", spec |-> wanted]
    /\ UNCHANGED <<wanted, recorded, onDisk, pushing, reported, disturbed, overlapped, driftBounds>>

\* Mutant: only the first core is compared.
ConfigDrift_first(spec) == {k \in {1} : spec[k] # NoBuild /\ onDisk[k] \notin {NoBuild, spec[k]}}

\* The cores of the spec whose file is there and differs.
ConfigDrift(spec) == {k \in DriftCores : spec[k] # NoBuild /\ onDisk[k] \notin {NoBuild, spec[k]}}

AskAgent ==
    /\ drift.pc = "ask"
    /\ reported' = ConfigDrift(drift.spec)
    /\ drift' = NoDrift
    /\ UNCHANGED <<wanted, recorded, onDisk, pushing, disturbed, overlapped, driftBounds>>

DriftStep == drift_tick \/ DriftBuilds \/ AskAgent

DriftNext ==
    \/ \E k \in DriftCores, b \in Builds \cup {NoBuild} : EditSpec(k, b)
    \/ \E k \in DriftCores : Tamper(k)
    \/ reconcile_push \/ push_node \/ ApplyCore \/ ApplyFails \/ AnswerLost \/ PushEnds
    \/ DriftStep

\* The monitor's ticker, and agents that answer.
DriftSpec == DriftInit /\ [][DriftNext]_driftVars /\ WF_driftVars(DriftStep)

-----------------------------------------------------------------------------
\* An alert has a cause: the reported core was tampered with, or a push that
\* did not complete left it, or a push wrote the node's files between the
\* read of the recorded hash and the agent's answer.  A push that is merely
\* pending never raises one.
AlertHasCause ==
    [][reported' # {} /\ AskAgent => reported' \subseteq disturbed \/ overlapped]_driftVars

Stranded(k) ==
    /\ wanted = recorded /\ wanted[k] # NoBuild
    /\ onDisk[k] \notin {NoBuild, wanted[k]}
    /\ pushing.pc = "idle"

\* A core whose file differs from the recorded spec, with rows that ask for no
\* push, is reported: edited by hand, or left by a push that failed half-way
\* before the rows returned to what was recorded.  The reconcile loop would
\* never repair either.
StrandedIsReported ==
    \A k \in DriftCores : <>[]Stranded(k) => <>[](k \in reported)
=============================================================================

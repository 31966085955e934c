------------------------------ MODULE NodePush ------------------------------
(***************************************************************************)
(* How one node gets its configuration: Registry (registry.rs) with the    *)
(* debounced, automatic, manual and reconcile pushes, the reconcile loop   *)
(* (reconcile.rs), the push record in the database (start_node_push and    *)
(* finish_node_push, repo.rs) and the agent's Apply as the master sees it. *)
(*                                                                         *)
(* A spec is an abstract value and stands for its own hash.  Nothing       *)
(* serialises pushes of one node: each runs in a task of its own and is    *)
(* split here at its awaits.  A call that the master gave up on may still  *)
(* be executed by the agent (orphans).                                     *)
(***************************************************************************)
EXTENDS Integers, FiniteSets

CONSTANTS
    Specs,        \* the specs build_node_spec may produce
    Bad,          \* those the agent rejects
    Follows,      \* <<s, t>>: an edit may take the desired spec from s to t
    NoSpec,       \* applied_spec_hash IS NULL / the agent runs nothing
    Partial,      \* the agent runs a mixture an Apply that failed half-way left
    Tasks,        \* tasks that push on a timer's or an administrator's behalf
    Loop,         \* the task of the reconcile loop
    NoPush,       \* deferred_pushes has no entry
    Delay,        \* the debounce delay
    MaxInFlight,  \* pushes that overlap, calls given up on included
    MaxEdits, MaxFaults, MaxLosses, MaxCrashes

ASSUME SpecsAssumption ==
    /\ Bad \subseteq Specs /\ Follows \subseteq Specs \X Specs
    /\ {NoSpec, Partial} \cap Specs = {} /\ IsFiniteSet(Tasks) /\ Loop \notin Tasks
    /\ Delay \in Nat \ {0} /\ NoPush \notin 0..Delay
    /\ {MaxInFlight, MaxEdits, MaxFaults, MaxLosses, MaxCrashes} \subseteq Nat

VARIABLES
    desired,    \* what build_node_spec returns now
    applied,    \* nodes.applied_spec_hash
    status,     \* nodes.last_push_status
    autoPush,   \* the auto_push_enabled setting
    connected,  \* Registry.conns has a client for the node
    deferred,   \* Registry.deferred_pushes: time left to the deadline
    timers,     \* time left of the tasks defer_push spawned
    task,       \* the pushes in progress
    orphans,    \* Apply calls the master gave up on and the agent may still run
    agent,      \* the spec the agent's cores run
    edits, faults, losses, crashes

db == <<desired, applied, status, autoPush>>
memory == <<connected, deferred, timers, task>>
bounds == <<edits, faults, losses, crashes>>
vars == <<db, memory, orphans, agent, bounds>>

Pushers == Tasks \cup {Loop}
Idle == [pc |-> "idle", spec |-> NoSpec]

\* Type invariant.
TypeOK ==
    /\ desired \in Specs /\ applied \in Specs \cup {NoSpec}
    /\ status \in {"none", "started", "applied", "failed"}
    /\ autoPush \in BOOLEAN /\ connected \in BOOLEAN
    /\ deferred \in 0..Delay \cup {NoPush} /\ timers \subseteq 0..Delay
    /\ task \in [Pushers -> [pc : {"idle", "compare", "judge", "begin", "build", "start",
                                   "send", "wait", "ok", "rejected", "failed"},
                             spec : Specs \cup {NoSpec}]]
    /\ orphans \subseteq Specs /\ agent \in Specs \cup {NoSpec, Partial}
    /\ edits \in 0..MaxEdits /\ faults \in 0..MaxFaults
    /\ losses \in 0..MaxLosses /\ crashes \in 0..MaxCrashes

Init ==
    /\ desired \in Specs /\ applied = NoSpec /\ status = "none" /\ autoPush = TRUE
    /\ connected = FALSE /\ deferred = NoPush /\ timers = {}
    /\ task = [t \in Pushers |-> Idle]
    /\ orphans = {} /\ agent = NoSpec
    /\ edits = 0 /\ faults = 0 /\ losses = 0 /\ crashes = 0

Goto(t, pc) == task' = [task EXCEPT ![t].pc = pc]

Waiting == {"idle", "compare", "judge"}

InFlight ==
    Cardinality({t \in Pushers : task[t].pc \notin Waiting}) + Cardinality(orphans)

-----------------------------------------------------------------------------
(* What the API and the clock do.                                          *)

\* defer_push: the latest deadline counts; every call spawns a timer.
DeferPush == deferred' = Delay /\ timers' = timers \cup {Delay}

\* A mutation, then push_nodes: a connected node gets a debounced push.
Edit ==
    /\ edits < MaxEdits /\ edits' = edits + 1
    /\ \E s \in Specs : <<desired, s>> \in Follows /\ desired' = s
    /\ IF autoPush /\ connected
         THEN DeferPush
         ELSE UNCHANGED <<deferred, timers>>
    /\ UNCHANGED <<applied, status, autoPush, connected, task, orphans, agent, faults, losses, crashes>>

SetAutoPush ==
    /\ edits < MaxEdits /\ edits' = edits + 1
    /\ autoPush' = ~autoPush
    /\ UNCHANGED <<desired, applied, status, memory, orphans, agent, faults, losses, crashes>>

Less(d) == IF d = 0 THEN 0 ELSE d - 1

Tick ==
    /\ \E d \in timers : d > 0
    /\ timers' = {Less(d) : d \in timers}
    /\ deferred' = IF deferred = NoPush THEN NoPush ELSE Less(deferred)
    /\ UNCHANGED <<db, connected, task, orphans, agent, bounds>>

\* take_due_push, once a timer of defer_push has run out.
TakeDue == deferred # NoPush /\ deferred = 0

\* The task defer_push spawned wakes; due, it runs auto_push.
TimerFires ==
    /\ 0 \in timers /\ timers' = timers \ {0}
    /\ IF TakeDue
         THEN /\ deferred' = NoPush
              /\ IF connected /\ autoPush
                   THEN \E t \in Tasks : /\ task[t].pc = "idle" /\ InFlight < MaxInFlight
                                         /\ Goto(t, "begin")
                   ELSE UNCHANGED task
         ELSE UNCHANGED <<deferred, task>>
    /\ UNCHANGED <<db, connected, orphans, agent, bounds>>

\* push_now of the API, or auto_push of the quota, scheduler or stats loops.
PushNow(t) ==
    /\ t \in Tasks /\ task[t].pc = "idle" /\ connected /\ InFlight < MaxInFlight
    /\ Goto(t, "begin")
    /\ UNCHANGED <<db, connected, deferred, timers, orphans, agent, bounds>>

-----------------------------------------------------------------------------
(* One node's turn of reconcile::tick.                                     *)

\* connect_serve, or an agent that dials in.
Connect ==
    /\ ~connected /\ connected' = TRUE
    /\ UNCHANGED <<db, deferred, timers, task, orphans, agent, bounds>>

ReconcileTick ==
    /\ task[Loop].pc = "idle" /\ connected /\ autoPush
    /\ deferred = NoPush
    /\ Goto(Loop, "compare")
    /\ UNCHANGED <<db, connected, deferred, timers, orphans, agent, bounds>>

\* reconcile_push builds the desired spec, then reads the node's row.
BuildDesired ==
    /\ task[Loop].pc = "compare"
    /\ task' = [task EXCEPT ![Loop] = [pc |-> "judge", spec |-> desired]]
    /\ UNCHANGED <<db, connected, deferred, timers, orphans, agent, bounds>>

Unless(same) ==
    /\ same \/ InFlight < MaxInFlight
    /\ task' = [task EXCEPT ![Loop] = [Idle EXCEPT !.pc = IF same THEN "idle" ELSE "begin"]]
    /\ UNCHANGED <<db, connected, deferred, timers, orphans, agent, bounds>>

\* Mutant: compare against the hash of the last push that was started.
CompareStarted ==
    /\ task[Loop].pc = "judge"
    /\ Unless(status # "none")

\* Nothing to do while the recorded hash is that of the spec just built.
Compare ==
    /\ task[Loop].pc = "judge"
    /\ Unless(applied = task[Loop].spec)

-----------------------------------------------------------------------------
(* push_with_context.                                                      *)

\* A push supersedes the queued one.
Begin(t) ==
    /\ task[t].pc = "begin" /\ Goto(t, "build")
    /\ deferred' = NoPush
    /\ UNCHANGED <<db, connected, timers, orphans, agent, bounds>>

BuildSpec(t) ==
    /\ task[t].pc = "build"
    /\ task' = [task EXCEPT ![t] = [pc |-> "start", spec |-> desired]]
    /\ UNCHANGED <<db, connected, deferred, timers, orphans, agent, bounds>>

StartNodePush(t) ==
    /\ task[t].pc = "start" /\ Goto(t, "send")
    /\ status' = "started"
    /\ UNCHANGED <<desired, applied, autoPush, connected, deferred, timers, orphans, agent, bounds>>

\* Registry::apply: no client, no call.
Send(t) ==
    /\ task[t].pc = "send"
    /\ Goto(t, IF connected THEN "wait" ELSE "failed")
    /\ UNCHANGED <<db, connected, deferred, timers, orphans, agent, bounds>>

\* The agent executes the call and answers.
AgentApply(t) ==
    /\ task[t].pc = "wait"
    /\ IF task[t].spec \in Bad
         THEN Goto(t, "rejected") /\ UNCHANGED agent
         ELSE Goto(t, "ok") /\ agent' = task[t].spec
    /\ UNCHANGED <<db, connected, deferred, timers, orphans, bounds>>

\* A core fails to take its new config: the Apply is answered with an error and
\* may leave the other cores on the new one.
AgentFails(t) ==
    /\ task[t].pc = "wait"
    /\ losses < MaxLosses /\ losses' = losses + 1
    /\ Goto(t, "rejected") /\ agent' \in {agent, Partial}
    /\ UNCHANGED <<db, connected, deferred, timers, orphans, edits, faults, crashes>>

\* The channel breaks under the call: the client is evicted, the agent may
\* have executed the call, execute it later, or never.
RpcFails(t) ==
    /\ task[t].pc \in {"wait", "ok", "rejected"}
    /\ faults < MaxFaults /\ faults' = faults + 1
    /\ connected' = FALSE /\ Goto(t, "failed")
    /\ orphans' \in {orphans, IF task[t].pc = "wait" THEN orphans \cup {task[t].spec} ELSE orphans}
    /\ UNCHANGED <<db, deferred, timers, agent, edits, losses, crashes>>

\* Mutant: a rejected spec is recorded as applied.
FinishRecordsAll(t) ==
    /\ task[t].pc \in {"ok", "rejected", "failed"}
    /\ applied' = task[t].spec /\ status' = "applied"
    /\ task' = [task EXCEPT ![t] = Idle]
    /\ UNCHANGED <<desired, autoPush, connected, deferred, timers, orphans, agent, bounds>>

FinishNodePush(t) ==
    /\ task[t].pc \in {"ok", "rejected", "failed"}
    /\ applied' = IF task[t].pc = "ok" THEN task[t].spec ELSE applied
    /\ status' = IF task[t].pc = "ok" THEN "applied" ELSE "failed"
    /\ task' = [task EXCEPT ![t] = Idle]
    /\ UNCHANGED <<desired, autoPush, connected, deferred, timers, orphans, agent, bounds>>

-----------------------------------------------------------------------------
(* Faults.                                                                 *)

\* A statement of the push fails and its task gives up: the row keeps what the
\* steps before wrote.
DbFails(t) ==
    /\ task[t].pc \in {"compare", "judge", "build", "start", "ok", "rejected", "failed"}
    /\ faults < MaxFaults /\ faults' = faults + 1
    /\ task' = [task EXCEPT ![t] = Idle]
    /\ UNCHANGED <<db, connected, deferred, timers, orphans, agent, edits, losses, crashes>>

\* The heartbeat fails and evicts the client.
HeartbeatFails ==
    /\ connected /\ task[Loop].pc = "idle" /\ connected' = FALSE
    /\ faults < MaxFaults /\ faults' = faults + 1
    /\ UNCHANGED <<db, deferred, timers, task, orphans, agent, edits, losses, crashes>>

\* The agent executes, or never executes, a call nobody waits for.
RunOrphan(s) ==
    /\ s \in orphans /\ orphans' = orphans \ {s}
    /\ agent' \in {agent, IF s \in Bad THEN agent ELSE s}
    /\ UNCHANGED <<db, memory, bounds>>

\* The cores die, or the agent comes back without them.
LoseCores ==
    /\ losses < MaxLosses /\ losses' = losses + 1
    /\ agent # NoSpec /\ agent' = NoSpec
    /\ UNCHANGED <<db, memory, orphans, edits, faults, crashes>>

\* The master restarts: its tasks, timers and channels are gone.
MasterCrash ==
    /\ crashes < MaxCrashes /\ crashes' = crashes + 1
    /\ connected' = FALSE /\ deferred' = NoPush /\ timers' = {}
    /\ task' = [t \in Pushers |-> Idle]
    /\ orphans' = orphans \cup {task[t].spec : t \in {u \in Pushers : task[u].pc = "wait"}}
    /\ UNCHANGED <<db, agent, edits, faults, losses>>

PushStep(t) ==
    \/ Begin(t) \/ BuildSpec(t) \/ StartNodePush(t) \/ Send(t)
    \/ AgentApply(t) \/ FinishNodePush(t)

Next ==
    \/ Edit \/ SetAutoPush \/ Tick \/ TimerFires \/ Connect \/ ReconcileTick \/ BuildDesired \/ Compare
    \/ HeartbeatFails \/ LoseCores \/ MasterCrash
    \/ \E t \in Pushers : PushNow(t) \/ PushStep(t) \/ AgentFails(t) \/ RpcFails(t) \/ DbFails(t)
    \/ \E s \in Specs : RunOrphan(s)

Spec == Init /\ [][Next]_vars

\* The runtime polls a task that can run, the timers advance, an unreachable
\* node is redialled on every tick, and a call is answered, fails, or is
\* abandoned.
Fairness ==
    /\ WF_vars(Tick) /\ WF_vars(TimerFires) /\ WF_vars(Connect)
    /\ SF_vars(ReconcileTick) /\ WF_vars(BuildDesired) /\ SF_vars(Compare)
    /\ \A t \in Pushers : WF_vars(PushStep(t))
    /\ WF_vars(\E s \in Specs : RunOrphan(s))
FairSpec == Spec /\ Fairness

-----------------------------------------------------------------------------
Quiet == orphans = {} /\ \A t \in Pushers : task[t].pc \in Waiting

\* With no push in progress and none that failed last, the recorded hash is what
\* the agent runs, so that the reconcile loop may rely on the comparison in
\* reconcile_push.
SuccessMeansRunning ==
    Quiet /\ status = "applied" /\ losses = 0 => agent = applied

\* A queued push always has a timer that will reach its deadline, so the
\* reconcile loop is never put off for ever by push_is_deferred, and no timer
\* outlives the entry's deadline (take_due_push, "waits for the latest
\* deadline").
DeferredHasTimer == deferred # NoPush => deferred \in timers

\* The loop's promise: once edits stop, auto-push is on and the spec is one the
\* agent accepts, the agent runs the desired spec from some time on ("keeps
\* agents converged to the db's desired state", reconcile.rs).
Converged ==
    <>[](autoPush /\ desired \notin Bad) => <>[](agent = desired)

\* The promise is kept, through broken calls, failing statements and restarts of
\* the master, when the agent's cores neither die nor fail to take a config.
Converges == [](losses = 0) => Converged
=============================================================================

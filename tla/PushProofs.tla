----------------------------- MODULE PushProofs -----------------------------
(***************************************************************************)
(* Pushing to a node, for any specs, tasks, delay and bounds, and what the *)
(* edits of users, groups and inbounds leave to be pushed.                 *)
(*                                                                         *)
(* DeferredHasTimer is inductive with the types of deferred and timers:    *)
(* time takes the same amount from both, a timer is only removed at 0, and *)
(* take_due_push then removes the entry it was the timer of.               *)
(***************************************************************************)
EXTENDS NodePush, Fleet, FiniteSetTheorems, TLAPS

(* Type correctness and DeferredHasTimer. *)

\* A push has a spec from BuildSpec on; until then no call can be outstanding.
HasSpec ==
    \A t \in Pushers :
        task[t].pc \in {"start", "send", "wait", "ok", "rejected", "failed"}
            => task[t].spec \in Specs

\* A remaining time stays within the debounce delay as it runs down.
LEMMA LessType ==
    ASSUME NEW d \in 0..Delay
    PROVE  Less(d) \in 0..Delay
BY SpecsAssumption DEF Less

\* A step of a push changes its own record and moves it between the pcs.
LEMMA TaskType ==
    ASSUME TypeOK, NEW t \in Pushers, NEW pc \in {"idle", "compare", "judge", "begin",
                "build", "start", "send", "wait", "ok", "rejected", "failed"}, Goto(t, pc)
    PROVE  task' \in [Pushers -> [pc : {"idle", "compare", "judge", "begin", "build",
                "start", "send", "wait", "ok", "rejected", "failed"}, spec : Specs \cup {NoSpec}]]
BY DEF TypeOK, Goto

\* Every step of the pushes keeps the types.
LEMMA TypeStep == TypeOK /\ HasSpec /\ [Next]_vars => TypeOK'
<1> SUFFICES ASSUME TypeOK, HasSpec, [Next]_vars PROVE TypeOK'
  BY Zenon
<1> USE SpecsAssumption
<1>1. Loop \in Pushers
  BY Zenon DEF Pushers
<1>2. CASE UNCHANGED vars
  BY <1>2, Zenon DEF TypeOK, vars, db, memory, bounds
<1>3. CASE Edit
  <2>1. autoPush' \in BOOLEAN /\ connected' \in BOOLEAN
    BY <1>3, Zenon DEF TypeOK, Edit
  <2>2. DeferPush \/ UNCHANGED <<deferred, timers>>
    BY <1>3, Zenon DEF Edit
  <2>5. Delay \in 0..Delay
    OBVIOUS
  <2>6. deferred' \in 0..Delay \cup {NoPush} /\ timers' \subseteq 0..Delay
    <3>1. CASE DeferPush
      BY <2>5, <3>1, Zenon DEF TypeOK, DeferPush
    <3>2. CASE UNCHANGED <<deferred, timers>>
      BY <3>2, Zenon DEF TypeOK
    <3> QED BY <2>2, <3>1, <3>2, Zenon
  <2>3. edits' \in 0..MaxEdits
    BY <1>3 DEF TypeOK, Edit
  <2>4. desired' \in Specs
    BY <1>3, Zenon DEF Edit
  <2> QED BY <1>3, <2>1, <2>3, <2>4, <2>6, Zenon DEF TypeOK, Edit
<1>4. CASE SetAutoPush
  <2>1. autoPush' \in BOOLEAN
    BY <1>4, Zenon DEF SetAutoPush
  <2> QED BY <1>4, <2>1 DEF TypeOK, SetAutoPush, memory
<1>5. CASE Tick
  BY <1>5, LessType DEF TypeOK, Tick, db, bounds
<1>6. CASE TimerFires
  <2>1. CASE \E t \in Tasks : Goto(t, "begin")
    <3>1. PICK t \in Tasks : Goto(t, "begin")
      BY <2>1, Zenon
    <3>2. t \in Pushers
      BY Zenon DEF Pushers
    <3> QED BY <1>6, <3>1, <3>2, TaskType DEF TypeOK, TimerFires, db, bounds
  <2>2. CASE UNCHANGED task
    BY <1>6, <2>2, Zenon DEF TypeOK, TimerFires, db, bounds
  <2> QED BY <1>6, <2>1, <2>2, Zenon DEF TimerFires
<1>7. CASE Connect
  BY <1>7, Zenon DEF TypeOK, Connect, db, bounds
<1>8. CASE ReconcileTick
  BY <1>1, <1>8, TaskType, Zenon DEF TypeOK, ReconcileTick, db, bounds
<1>9. CASE Compare
  BY <1>1, <1>9 DEF TypeOK, Compare, Unless, Idle, db, bounds
<1>9a. CASE BuildDesired
  BY <1>1, <1>9a DEF TypeOK, BuildDesired, db, bounds
<1>10. CASE HeartbeatFails
  <2>1. connected' \in BOOLEAN /\ autoPush' \in BOOLEAN
    BY <1>10, Zenon DEF TypeOK, HeartbeatFails, db
  <2> QED BY <1>10, <2>1 DEF TypeOK, HeartbeatFails, db
<1>11. CASE LoseCores
  BY <1>11 DEF TypeOK, LoseCores, db, memory
<1>12. CASE MasterCrash
  <2>1. connected' \in BOOLEAN /\ autoPush' \in BOOLEAN
    BY <1>12, Zenon DEF TypeOK, MasterCrash, db
  <2>2. orphans' \subseteq Specs
    BY <1>12 DEF TypeOK, MasterCrash, HasSpec
  <2> QED BY <1>12, <2>1, <2>2 DEF TypeOK, MasterCrash, db, Idle
<1>13. ASSUME NEW t \in Pushers, PushNow(t) PROVE TypeOK'
  BY <1>13, TaskType DEF TypeOK, PushNow, db, bounds
<1>14. ASSUME NEW t \in Pushers, Begin(t) PROVE TypeOK'
  BY <1>14, TaskType DEF TypeOK, Begin, db, bounds
<1>15. ASSUME NEW t \in Pushers, BuildSpec(t) PROVE TypeOK'
  BY <1>15 DEF TypeOK, BuildSpec, db, bounds
<1>16. ASSUME NEW t \in Pushers, StartNodePush(t) PROVE TypeOK'
  BY <1>16, TaskType, Zenon DEF TypeOK, StartNodePush, bounds
<1>17. ASSUME NEW t \in Pushers, Send(t) PROVE TypeOK'
  <2>1. Goto(t, "wait") \/ Goto(t, "failed")
    BY <1>17, Zenon DEF Send
  <2> QED BY <1>17, <2>1, TaskType DEF TypeOK, Send, db, bounds
<1>18. ASSUME NEW t \in Pushers, AgentApply(t) PROVE TypeOK'
  <2>1. Goto(t, "ok") \/ Goto(t, "rejected")
    BY <1>18, Zenon DEF AgentApply
  <2>2. task[t].spec \in Specs \cup {NoSpec}
    BY Zenon DEF TypeOK
  <2>3. agent' \in Specs \cup {NoSpec, Partial}
    BY <1>18, <2>2, Zenon DEF TypeOK, AgentApply
  <2> QED BY <1>18, <2>1, <2>3, TaskType DEF TypeOK, AgentApply, db, bounds
<1>19. ASSUME NEW t \in Pushers, AgentFails(t) PROVE TypeOK'
  BY <1>19, TaskType DEF TypeOK, AgentFails, db
<1>20. ASSUME NEW t \in Pushers, FinishNodePush(t) PROVE TypeOK'
  BY <1>20, Zenon DEF TypeOK, FinishNodePush, Idle, bounds
<1>21. ASSUME NEW t \in Pushers, RpcFails(t) PROVE TypeOK'
  <2>1. connected' \in BOOLEAN /\ autoPush' \in BOOLEAN
    BY <1>21, Zenon DEF TypeOK, RpcFails, db
  <2>2. orphans' \subseteq Specs
    BY <1>21 DEF TypeOK, RpcFails, HasSpec
  <2>3. Goto(t, "failed")
    BY <1>21, Zenon DEF RpcFails
  <2> QED BY <1>21, <2>1, <2>2, <2>3, TaskType DEF TypeOK, RpcFails, db
<1>21a. ASSUME NEW t \in Pushers, DbFails(t) PROVE TypeOK'
  <2>1. connected' \in BOOLEAN /\ autoPush' \in BOOLEAN
    BY <1>21a, Zenon DEF TypeOK, DbFails, db
  <2> QED BY <1>21a, <2>1 DEF TypeOK, DbFails, Idle, db
<1>22. ASSUME NEW s \in Specs, RunOrphan(s) PROVE TypeOK'
  BY <1>22, Zenon DEF TypeOK, RunOrphan, db, memory, bounds
<1> QED
  BY <1>2, <1>3, <1>4, <1>5, <1>6, <1>7, <1>8, <1>9, <1>10, <1>11, <1>12, <1>13, <1>14, Zenon,
     <1>15, <1>16, <1>17, <1>18, <1>19, <1>20, <1>21, <1>22, <1>9a, <1>21a DEF Next, PushStep

\* Every step keeps a spec in the tasks that are past BuildSpec.
LEMMA HasSpecStep == TypeOK /\ HasSpec /\ [Next]_vars => HasSpec'
<1> SUFFICES ASSUME TypeOK, HasSpec, [Next]_vars PROVE HasSpec'
  BY Zenon
<1>1. ASSUME UNCHANGED task PROVE HasSpec'
  BY <1>1, Zenon DEF HasSpec
<1>2. ASSUME NEW t \in Pushers, NEW pc, Goto(t, pc),
             pc \in {"idle", "compare", "begin", "build"} \/ task[t].spec \in Specs
      PROVE  HasSpec'
  BY <1>2 DEF HasSpec, TypeOK, Goto
<1>3. CASE \E t \in Pushers :
             Goto(t, "begin") \/ Goto(t, "build") \/ Goto(t, "idle") \/ Goto(t, "compare")
  BY <1>2, <1>3, Zenon
<1>4. ASSUME NEW t \in Pushers,
             StartNodePush(t) \/ Send(t) \/ AgentApply(t) \/ AgentFails(t) \/ RpcFails(t)
      PROVE  HasSpec'
  <2>1. task[t].spec \in Specs
    BY <1>4, Zenon DEF HasSpec, StartNodePush, Send, AgentApply, AgentFails, RpcFails
  <2>2. \E pc : Goto(t, pc)
    BY <1>4, Zenon DEF StartNodePush, Send, AgentApply, AgentFails, RpcFails
  <2> QED BY <1>2, <2>1, <2>2, Zenon
<1>5. ASSUME NEW t \in Pushers, BuildSpec(t) PROVE HasSpec'
  BY <1>5, Zenon DEF HasSpec, TypeOK, BuildSpec
<1>6. ASSUME NEW t \in Pushers, FinishNodePush(t) PROVE HasSpec'
  BY <1>6, Zenon DEF HasSpec, TypeOK, FinishNodePush, Idle
<1>7. CASE MasterCrash
  BY <1>7, Zenon DEF MasterCrash, HasSpec, Idle
<1>10. CASE BuildDesired \/ Compare \/ \E t \in Pushers : DbFails(t)
  BY <1>10 DEF BuildDesired, Compare, Unless, DbFails, Idle, HasSpec, TypeOK
<1>8. CASE UNCHANGED vars \/ Edit \/ SetAutoPush \/ Tick \/ Connect \/ HeartbeatFails
           \/ LoseCores \/ \E s \in Specs : RunOrphan(s)
  BY <1>1, <1>8, Zenon DEF vars, memory, Edit, SetAutoPush, Tick, Connect, HeartbeatFails,
                    LoseCores, RunOrphan
<1>9. CASE TimerFires \/ ReconcileTick \/ \E t \in Pushers : PushNow(t) \/ Begin(t)
  BY <1>1, <1>3, <1>9, Zenon DEF TimerFires, ReconcileTick, PushNow, Begin, Pushers
<1> QED
  BY <1>4, <1>5, <1>6, <1>7, <1>8, <1>9, <1>10, Zenon DEF Next, PushStep

\* Every reachable state has the types of TypeOK, for any constants.
THEOREM TypeCorrect == Spec => [](TypeOK /\ HasSpec)
<1>1. Init => TypeOK /\ HasSpec
  <2> SUFFICES ASSUME Init PROVE TypeOK /\ HasSpec
    BY Zenon
  <2>1. autoPush \in BOOLEAN /\ connected \in BOOLEAN
    BY Zenon DEF Init
  <2>2. {edits, faults, losses, crashes} = {0} /\ 0 \in 0..MaxEdits /\ 0 \in 0..MaxFaults
        /\ 0 \in 0..MaxLosses /\ 0 \in 0..MaxCrashes
    BY SpecsAssumption DEF Init
  <2>3. HasSpec
    BY Zenon DEF Init, HasSpec, Idle
  <2> QED BY <2>1, <2>2, <2>3, Zenon DEF Init, TypeOK, Idle
<1>2. TypeOK /\ HasSpec /\ [Next]_vars => (TypeOK /\ HasSpec)'
  BY TypeStep, HasSpecStep, Zenon
<1> QED BY <1>1, <1>2, PTL DEF Spec

\* A queued push always has the timer that will take it, so deferring a push
\* never leaves the reconcile loop waiting for nobody.
THEOREM DeferredPushHasTimer == Spec => []DeferredHasTimer
<1>1. Init => DeferredHasTimer
  BY Zenon DEF Init, DeferredHasTimer
<1>2. TypeOK /\ DeferredHasTimer /\ [Next]_vars => DeferredHasTimer'
  <2> SUFFICES ASSUME TypeOK, DeferredHasTimer, [Next]_vars PROVE DeferredHasTimer'
    BY Zenon
  <2>1. ASSUME UNCHANGED <<deferred, timers>> PROVE DeferredHasTimer'
    BY <2>1, Zenon DEF DeferredHasTimer
  <2>2. CASE Edit
    BY <2>1, <2>2, Zenon DEF Edit, DeferPush, DeferredHasTimer
  <2>3. CASE Tick
    BY <2>3, Zenon DEF Tick, DeferredHasTimer
  <2>4. CASE TimerFires
    BY <2>4, Zenon DEF TimerFires, TakeDue, DeferredHasTimer
  <2>5. CASE MasterCrash \/ \E t \in Pushers : Begin(t)
    BY <2>5, Zenon DEF MasterCrash, Begin, DeferredHasTimer
  <2>6. CASE UNCHANGED vars \/ SetAutoPush \/ Connect \/ ReconcileTick \/ BuildDesired
             \/ Compare \/ HeartbeatFails \/ LoseCores \/ \E s \in Specs : RunOrphan(s)
    BY <2>1, <2>6, Zenon DEF vars, memory, SetAutoPush, Connect, ReconcileTick, BuildDesired,
                      Compare, Unless, HeartbeatFails, LoseCores, RunOrphan
  <2>7. ASSUME NEW t \in Pushers,
               \/ PushNow(t) \/ BuildSpec(t) \/ StartNodePush(t) \/ Send(t)
               \/ AgentApply(t) \/ AgentFails(t) \/ RpcFails(t) \/ DbFails(t)
               \/ FinishNodePush(t)
        PROVE  DeferredHasTimer'
    BY <2>1, <2>7, Zenon DEF PushNow, BuildSpec, StartNodePush, Send, AgentApply, AgentFails,
                      RpcFails, DbFails, FinishNodePush
  <2> QED BY <2>2, <2>3, <2>4, <2>5, <2>6, <2>7, Zenon DEF Next, PushStep
<1>3. Spec => []TypeOK
  BY TypeCorrect, PTL
<1> QED BY <1>1, <1>2, <1>3, PTL DEF Spec

-----------------------------------------------------------------------------
(* A push recorded a success is what the node runs, one push at a time. *)

\* The pushes a task or an abandoned call is working on.
Busy == {t \in Pushers : task[t].pc \notin Waiting}

\* SuccessMeansRunning when no push begins before the last one, the call it may
\* have left behind included, is over.  An abandoned call is only ever of a push
\* that did not succeed; from start_node_push to finish_node_push the row says
\* "started"; and a push whose call was answered is what the agent runs.
PushInv ==
    /\ IsFiniteSet(orphans)
    /\ \A t, u \in Busy : t = u
    /\ orphans # {} => status # "applied" /\ \A t \in Busy : task[t].pc = "failed"
    /\ \A t \in Pushers :
          /\ task[t].pc \in {"send", "wait", "ok", "rejected", "failed"} => status = "started"
          /\ task[t].pc = "ok" /\ losses = 0 => agent = task[t].spec
    /\ status = "applied" /\ losses = 0 => agent = applied

\* With at most one push at a time, one begins only when nothing is under way.
LEMMA NothingUnderWay ==
    ASSUME MaxInFlight = 1, IsFiniteSet(orphans), InFlight < MaxInFlight
    PROVE  Busy = {} /\ orphans = {}
<1>1. IsFiniteSet(Pushers)
  BY SpecsAssumption, FS_AddElement, Tasks \cup {Loop} = Pushers, Zenon DEF Pushers
<1>2. IsFiniteSet(Busy)
  BY <1>1, FS_Subset, Zenon DEF Busy
<1>3. Cardinality(Busy) \in Nat /\ Cardinality(orphans) \in Nat
  BY <1>2, FS_CardinalityType, Zenon
<1>4. Cardinality(Busy) + Cardinality(orphans) < 1
  BY Zenon DEF InFlight, Busy
<1>5. Cardinality(Busy) = 0 /\ Cardinality(orphans) = 0
  BY <1>3, <1>4
<1> QED BY <1>2, <1>5, FS_EmptySet, Zenon

\* A push that begins when nothing is under way is the only one.
LEMMA BeginAlone ==
    ASSUME TypeOK, PushInv, Busy = {}, orphans = {},
           NEW t \in Pushers, task'[t].pc = "begin",
           \A u \in Pushers : u # t => task'[u] = task[u],
           UNCHANGED <<status, applied, orphans, agent, losses>>
    PROVE  PushInv'
<1>1. Busy' = {t}
  BY Zenon DEF Busy, Waiting
<1>2. \A u \in Pushers : task'[u].pc \in {"idle", "compare", "judge", "begin"}
  BY DEF Busy, Waiting
<1> QED BY <1>1, <1>2, Zenon DEF PushInv

\* The task that is busy takes its next step, or ends.
LEMMA BusyMoves ==
    ASSUME TypeOK, PushInv, NEW t \in Pushers, task[t].pc \notin Waiting,
           \A u \in Pushers : u # t => task'[u] = task[u]
    PROVE  /\ Busy = {t}
           /\ Busy' = IF task'[t].pc \in Waiting THEN {} ELSE {t}
           /\ \A u \in Pushers : u # t => task'[u].pc \in Waiting
<1>1. t \in Busy
  BY Zenon DEF Busy
<1>2. Busy = {t}
  BY <1>1, Zenon DEF PushInv
<1>3. \A u \in Pushers : u # t => task[u].pc \in Waiting
  BY <1>2, Zenon DEF Busy
<1> QED BY <1>2, <1>3, Zenon DEF Busy

\* A task outside a push moves between the states outside of a push.
LEMMA WaitingMoves ==
    ASSUME TypeOK, PushInv,
           \A u \in Pushers : task'[u] = task[u] \/ {task[u].pc, task'[u].pc} \subseteq Waiting,
           UNCHANGED <<status, applied, orphans, agent, losses>>
    PROVE  PushInv'
<1>1. Busy' = Busy /\ \A u \in Busy : task'[u] = task[u]
  BY Zenon DEF Busy
<1>2. \A u \in Pushers : task'[u].pc \notin Waiting => task'[u] = task[u]
  BY Zenon
<1> QED BY <1>1, <1>2 DEF PushInv, Waiting

\* Every step keeps it, as long as pushes are kept apart.
LEMMA PushInvStep ==
    ASSUME MaxInFlight = 1, TypeOK, HasSpec, PushInv, [Next]_vars
    PROVE  PushInv'
<1> DEFINE Record == [pc : {"idle", "compare", "judge", "begin", "build", "start",
                            "send", "wait", "ok", "rejected", "failed"},
                      spec : Specs \cup {NoSpec}]
<1>a. task \in [Pushers -> Record] /\ Loop \in Pushers /\ Tasks \subseteq Pushers
  BY Zenon DEF TypeOK, Pushers
<1>b. IsFiniteSet(orphans)
  BY Zenon DEF PushInv
<1> HIDE DEF Record
<1>c. \A u \in Pushers : task[u].pc \in {"idle", "compare", "judge", "begin", "build", "start",
                            "send", "wait", "ok", "rejected", "failed"}
  BY <1>a, Zenon DEF Record
<1>d. ASSUME NEW t \in Pushers, NEW pc, Goto(t, pc)
      PROVE  /\ task'[t].pc = pc /\ task'[t].spec = task[t].spec
             /\ \A u \in Pushers : u # t => task'[u] = task[u]
  BY <1>a, <1>d, Zenon DEF Goto, Record
<1>e. ASSUME NEW t \in Pushers, NEW r, task' = [task EXCEPT ![t] = r]
      PROVE  task'[t] = r /\ \A u \in Pushers : u # t => task'[u] = task[u]
  BY <1>a, <1>e, Zenon
<1>f. ASSUME NEW t \in Pushers, task' = [task EXCEPT ![t] = Idle]
      PROVE  task'[t].pc = "idle" /\ \A u \in Pushers : u # t => task'[u] = task[u]
  BY <1>a, <1>f, Zenon DEF Idle
<1>1. ASSUME UNCHANGED <<status, applied, task, orphans, agent, losses>> PROVE PushInv'
  BY <1>1, Zenon DEF PushInv, Busy
<1>2. CASE UNCHANGED vars \/ Edit \/ SetAutoPush \/ Tick \/ Connect \/ HeartbeatFails
  BY <1>1, <1>2, Zenon DEF vars, db, memory, bounds, Edit, SetAutoPush, Tick, Connect, HeartbeatFails
<1>3. CASE TimerFires
  <2>1. CASE UNCHANGED task
    BY <1>1, <1>3, <2>1, Zenon DEF TimerFires, db, bounds
  <2>2. CASE task' # task
    <3>1. PICK t \in Tasks : InFlight < MaxInFlight /\ Goto(t, "begin")
      BY <1>3, <2>2, Zenon DEF TimerFires
    <3> QED BY <1>3, <3>1, <1>a, <1>b, <1>d, NothingUnderWay, BeginAlone DEF TimerFires, db, bounds
  <2> QED BY <2>1, <2>2, Zenon
<1>4. ASSUME NEW t \in Pushers, PushNow(t) PROVE PushInv'
  BY <1>4, <1>b, <1>d, NothingUnderWay, BeginAlone, Zenon DEF PushNow, db, bounds
<1>5. CASE ReconcileTick \/ BuildDesired
  <2>1. \A u \in Pushers : task'[u] = task[u] \/ {task[u].pc, task'[u].pc} \subseteq Waiting
    BY <1>5, <1>a, <1>d, <1>e DEF ReconcileTick, BuildDesired, Waiting
  <2> QED BY <1>5, <2>1, WaitingMoves, Zenon DEF ReconcileTick, BuildDesired, db, bounds
<1>6. CASE Compare
  <2> DEFINE same == applied = task[Loop].spec
  <2>1. CASE same
    <3>1. task' = [task EXCEPT ![Loop] = [Idle EXCEPT !.pc = "idle"]]
      BY <1>6, <2>1, Zenon DEF Compare, Unless
    <3>2. \A u \in Pushers : task'[u] = task[u] \/ {task[u].pc, task'[u].pc} \subseteq Waiting
      BY <1>6, <1>a, <1>e, <3>1, Zenon DEF Compare, Idle, Waiting
    <3> QED BY <1>6, <3>2, WaitingMoves, Zenon DEF Compare, Unless, db, bounds
  <2>2. CASE ~same
    <3>1. InFlight < MaxInFlight /\ task' = [task EXCEPT ![Loop] = [Idle EXCEPT !.pc = "begin"]]
      BY <1>6, <2>2, Zenon DEF Compare, Unless
    <3> QED BY <1>6, <1>a, <1>b, <1>e, <3>1, NothingUnderWay, BeginAlone DEF Compare, Unless, Idle, db, bounds
  <2> QED BY <2>1, <2>2, Zenon
<1>7. CASE LoseCores
  <2>1. losses' # 0
    BY <1>7 DEF LoseCores, TypeOK
  <2> QED BY <1>7, <2>1, Zenon DEF LoseCores, PushInv, Busy, db, memory
<1>8. CASE MasterCrash
  <2> DEFINE Left == {task[t].spec : t \in {u \in Pushers : task[u].pc = "wait"}}
  <2>1. \A t \in Pushers : task'[t].pc = "idle"
    BY <1>8, Zenon DEF MasterCrash, Idle
  <2>2. Busy' = {}
    BY <2>1, Zenon DEF Busy, Waiting
  <2>3. CASE \E t \in Pushers : task[t].pc = "wait"
    <3>1. PICK t \in Pushers : task[t].pc = "wait"
      BY <2>3, Zenon
    <3>2. t \in Busy /\ \A u \in Busy : u = t
      BY <3>1, Zenon DEF PushInv, Busy, Waiting
    <3>3. \A u \in Pushers : task[u].pc = "wait" => u = t
      BY <3>2, Zenon DEF Busy, Waiting
    <3>4. Left = {task[t].spec} /\ orphans = {}
      BY <3>1, <3>2, <3>3, Zenon DEF PushInv
    <3>5. orphans' = {task[t].spec}
      BY <1>8, <3>4, Zenon DEF MasterCrash
    <3>6. IsFiniteSet(orphans') /\ status = "started"
      BY <3>1, <3>5, FS_Singleton, Zenon DEF PushInv
    <3> QED BY <1>8, <2>1, <2>2, <3>6, Zenon DEF MasterCrash, PushInv, db
  <2>4. CASE \A t \in Pushers : task[t].pc # "wait"
    <3>1. orphans' = orphans
      BY <1>8, <2>4, Zenon DEF MasterCrash
    <3> QED BY <1>8, <2>1, <2>2, <3>1, Zenon DEF MasterCrash, PushInv, db
  <2> QED BY <2>3, <2>4, Zenon
<1>9. ASSUME NEW t \in Pushers, Begin(t) \/ BuildSpec(t) \/ StartNodePush(t) \/ Send(t) PROVE PushInv'
  <2>1. task[t].pc \notin Waiting /\ \A u \in Pushers : u # t => task'[u] = task[u]
    BY <1>9, <1>d, <1>e, Zenon DEF Begin, BuildSpec, StartNodePush, Send, Waiting
  <2>2. /\ Busy = {t} /\ Busy' = IF task'[t].pc \in Waiting THEN {} ELSE {t}
        /\ \A u \in Pushers : u # t => task'[u].pc \in Waiting
    BY <2>1, BusyMoves, Zenon
  <2>3. UNCHANGED <<applied, orphans, agent, losses>>
    BY <1>9, Zenon DEF Begin, BuildSpec, StartNodePush, Send, db, bounds
  <2>4. task[t].pc # "failed" /\ orphans = {}
    BY <1>9, <2>2, Zenon DEF PushInv, Begin, BuildSpec, StartNodePush, Send
  <2>5. CASE task'[t].pc \in {"build", "start"} /\ UNCHANGED status
    BY <2>2, <2>3, <2>4, <2>5, Zenon DEF PushInv, Waiting
  <2>6. CASE task'[t].pc \in {"send", "wait", "failed"} /\ status' = "started"
    BY <2>2, <2>3, <2>4, <2>6, Zenon DEF PushInv, Waiting
  <2>7. CASE Begin(t) \/ BuildSpec(t)
    BY <2>5, <2>7, <1>d, <1>e DEF Begin, BuildSpec, db
  <2>8. CASE StartNodePush(t)
    BY <2>6, <2>8, <1>d, Zenon DEF StartNodePush
  <2>9. CASE Send(t)
    BY <2>6, <2>9, <1>d, Zenon DEF Send, PushInv, db
  <2> QED BY <1>9, <2>7, <2>8, <2>9, Zenon
<1>10. ASSUME NEW t \in Pushers, AgentApply(t) \/ AgentFails(t) PROVE PushInv'
  <2>1. task[t].pc = "wait" /\ \A u \in Pushers : u # t => task'[u] = task[u]
    BY <1>10, <1>d, Zenon DEF AgentApply, AgentFails
  <2>2. /\ Busy = {t} /\ Busy' = IF task'[t].pc \in Waiting THEN {} ELSE {t}
        /\ \A u \in Pushers : u # t => task'[u].pc \in Waiting
    BY <2>1, BusyMoves, Zenon DEF Waiting
  <2>3. UNCHANGED <<status, applied, orphans>>
    BY <1>10, Zenon DEF AgentApply, AgentFails, db
  <2>4. orphans = {} /\ status = "started"
    BY <2>1, <2>2, Zenon DEF PushInv
  <2>5. CASE AgentApply(t)
    <3>1. losses' = losses
      BY <2>5, Zenon DEF AgentApply, bounds
    <3>2. \/ task'[t].pc = "rejected"
          \/ task'[t].pc = "ok" /\ agent' = task'[t].spec
      BY <2>5, <1>d, Zenon DEF AgentApply
    <3> QED BY <2>2, <2>3, <2>4, <3>1, <3>2, Zenon DEF PushInv, Waiting
  <2>6. CASE AgentFails(t)
    <3>1. task'[t].pc = "rejected"
      BY <2>6, <1>d, Zenon DEF AgentFails
    <3> QED BY <2>2, <2>3, <2>4, <3>1, Zenon DEF PushInv, Waiting
  <2> QED BY <1>10, <2>5, <2>6, Zenon
<1>11. ASSUME NEW t \in Pushers, RpcFails(t) PROVE PushInv'
  <2>1. task[t].pc \in {"wait", "ok", "rejected"} /\ task'[t].pc = "failed"
        /\ \A u \in Pushers : u # t => task'[u] = task[u]
    BY <1>11, <1>d, Zenon DEF RpcFails
  <2>2. /\ Busy = {t} /\ Busy' = {t}
        /\ \A u \in Pushers : u # t => task'[u].pc \in Waiting
    BY <2>1, BusyMoves, Zenon DEF Waiting
  <2>3. UNCHANGED <<status, applied, agent, losses>>
    BY <1>11, Zenon DEF RpcFails, db
  <2>4. orphans = {} /\ status = "started"
    BY <2>1, <2>2, Zenon DEF PushInv
  <2>5. orphans' = {} \/ orphans' = {task[t].spec}
    BY <1>11, <2>4, Zenon DEF RpcFails
  <2>6. IsFiniteSet(orphans')
    <3>1. IsFiniteSet({})
      BY FS_EmptySet, Zenon
    <3>2. IsFiniteSet({task[t].spec})
      BY FS_Singleton, Zenon
    <3> QED BY <2>5, <3>1, <3>2, Zenon
  <2> QED BY <2>1, <2>2, <2>3, <2>4, <2>6, Zenon DEF PushInv, Waiting
<1>12. ASSUME NEW t \in Pushers, FinishNodePush(t) PROVE PushInv'
  <2>1. /\ task[t].pc \in {"ok", "rejected", "failed"} /\ task'[t].pc = "idle"
        /\ \A u \in Pushers : u # t => task'[u] = task[u]
    BY <1>12, <1>f, Zenon DEF FinishNodePush
  <2>2. /\ Busy = {t} /\ Busy' = {}
        /\ \A u \in Pushers : u # t => task'[u].pc \in Waiting
    BY <2>1, BusyMoves, Zenon DEF Waiting
  <2>3. UNCHANGED <<orphans, agent, losses>>
    BY <1>12, Zenon DEF FinishNodePush, bounds
  <2>4. CASE task[t].pc = "ok"
    <3>1. status' = "applied" /\ applied' = task[t].spec /\ orphans = {}
      BY <1>12, <2>2, <2>4, Zenon DEF FinishNodePush, PushInv
    <3> QED BY <2>1, <2>2, <2>3, <2>4, <3>1, Zenon DEF PushInv, Waiting
  <2>5. CASE task[t].pc # "ok"
    <3>1. status' = "failed"
      BY <1>12, <2>5, Zenon DEF FinishNodePush
    <3> QED BY <2>1, <2>2, <2>3, <3>1, Zenon DEF PushInv, Waiting
  <2> QED BY <2>4, <2>5, Zenon
<1>13. ASSUME NEW t \in Pushers, DbFails(t) PROVE PushInv'
  <2>1. /\ task'[t].pc = "idle" /\ \A u \in Pushers : u # t => task'[u] = task[u]
        /\ UNCHANGED <<status, applied, orphans, agent, losses>>
    BY <1>13, <1>f, Zenon DEF DbFails, db
  <2>2. CASE task[t].pc \in Waiting
    <3>1. \A u \in Pushers : task'[u] = task[u] \/ {task[u].pc, task'[u].pc} \subseteq Waiting
      BY <2>1, <2>2, Zenon DEF Waiting
    <3> QED BY <2>1, <3>1, WaitingMoves, Zenon
  <2>3. CASE task[t].pc \notin Waiting
    <3>1. Busy' = {} /\ \A u \in Pushers : u # t => task'[u].pc \in Waiting
      BY <2>1, <2>3, BusyMoves, Zenon DEF Waiting
    <3> QED BY <2>1, <3>1, Zenon DEF PushInv, Waiting
  <2> QED BY <2>2, <2>3, Zenon
<1>14. ASSUME NEW s \in Specs, RunOrphan(s) PROVE PushInv'
  <2>1. orphans # {} /\ orphans' \subseteq orphans /\ UNCHANGED <<status, applied, task, losses>>
    BY <1>14, Zenon DEF RunOrphan, db, memory, bounds
  <2>2. IsFiniteSet(orphans')
    BY <2>1, <1>b, FS_Subset, Zenon
  <2>3. Busy' = Busy /\ status # "applied" /\ \A t \in Busy : task[t].pc = "failed"
    BY <2>1, Zenon DEF PushInv, Busy
  <2>4. \A t \in Pushers : task[t].pc # "ok"
    BY <2>3, Zenon DEF Busy, Waiting
  <2> QED BY <2>1, <2>2, <2>3, <2>4, Zenon DEF PushInv
<1> QED
  BY <1>2, <1>3, <1>4, <1>5, <1>6, <1>7, <1>8, <1>9, <1>10, <1>11, <1>12, <1>13, <1>14, Zenon
     DEF Next, PushStep

\* Where pushes of a node are kept apart, whatever faults, restarts and edits
\* come between them, a recorded success is what the agent runs: the
\* comparison in reconcile_push misses no drift of the master's own making.
THEOREM RecordedIsRunning ==
    ASSUME MaxInFlight = 1
    PROVE  Spec => []SuccessMeansRunning
<1>1. Init => PushInv
  BY FS_EmptySet DEF Init, PushInv, Busy, Waiting, Idle
<1>2. TypeOK /\ HasSpec /\ PushInv /\ [Next]_vars => PushInv'
  BY PushInvStep, Zenon
<1>3. PushInv => SuccessMeansRunning
  BY Zenon DEF PushInv, SuccessMeansRunning
<1>4. Spec => [](TypeOK /\ HasSpec)
  BY TypeCorrect, Zenon
<1> QED BY <1>1, <1>2, <1>3, <1>4, PTL DEF Spec

-----------------------------------------------------------------------------
(* No edit forgets a node, and what is offered is served. *)

\* What the proofs need of the types: which rows and handlers there are.
FleetTypeOK ==
    /\ DOMAIN user = Users /\ DOMAIN ugroups = Users
    /\ \A u \in Users : user[u] \in [row : {"none", "live", "gone"}, active : BOOLEAN]
    /\ \A e \in Edits : DOMAIN edit[e] = {"busy", "user", "nodes", "late"}
                        /\ edit[e].busy \in BOOLEAN /\ edit[e].late \in BOOLEAN
    /\ DOMAIN edit = Edits
    /\ DOMAIN owed = Nodes

\* A handler that is not late holds the list that a fresh query would return,
\* as long as its user exists.
ListIsFresh(e) ==
    edit[e].busy =>
      /\ edit[e].user \in Users /\ user[edit[e].user].row # "none"
      /\ ~edit[e].late /\ Live(edit[e].user) => edit[e].nodes = user_node_ids(edit[e].user)

FleetInv ==
    /\ FleetTypeOK
    /\ \A e \in Edits : ListIsFresh(e)
    /\ NothingForgotten

\* A node's specification follows from the rows its queries read.
LEMMA SpecOfRows ==
    ASSUME NEW n \in Nodes, UNCHANGED <<serving, on, chained>>,
           ActiveUsers(n)' = ActiveUsers(n)
    PROVE  build_node_spec(n)' = build_node_spec(n)
  <1>1. \A i : /\ chain_users_for_exit(i)' = chain_users_for_exit(i)
               /\ build_chain_outbound(i)' = build_chain_outbound(i)
    BY Zenon DEF chain_users_for_exit, build_chain_outbound, endpoint_for_inbound
  <1>2. {j \in on : Home[j] = n}' = {j \in on : Home[j] = n}
    BY Zenon
  <1> QED BY <1>1, <1>2, Zenon DEF build_node_spec

\* A handler owes nothing to a node it pushes, and nothing new to a node whose
\* specification it leaves alone or for which it has an excuse.
LEMMA OweForgetsNothing ==
    ASSUME NothingForgotten, NEW pushes, NEW excuse, Owe(pushes, excuse),
           \A n \in Nodes \ pushes :
              excuse[n] # "forgotten" \/ build_node_spec(n)' = build_node_spec(n)
    PROVE  NothingForgotten' /\ DOMAIN owed' = Nodes
  <1>1. \A n \in Nodes : owed'[n] = IF n \in pushes THEN "covered"
             ELSE IF build_node_spec(n)' = build_node_spec(n) THEN owed[n]
             ELSE excuse[n]
    BY Zenon DEF Owe
  <1>2. DOMAIN owed' = Nodes
    BY Zenon DEF Owe
  <1> QED BY <1>1, <1>2, Zenon DEF NothingForgotten

\* After a write that goes through Stale, whoever is not late has a list that
\* is still right.
LEMMA StaleMarks ==
    ASSUME FleetInv, Stale, UNCHANGED user
    PROVE  /\ \A e \in Edits : ListIsFresh(e)'
           /\ \A e \in Edits : DOMAIN edit'[e] = {"busy", "user", "nodes", "late"}
                               /\ edit'[e].busy \in BOOLEAN /\ edit'[e].late \in BOOLEAN
           /\ DOMAIN edit' = Edits
  <1> DEFINE moved == \E u \in Users : user_node_ids(u)' # user_node_ids(u)
  <1>1. /\ DOMAIN edit' = Edits
        /\ \A e \in Edits : edit'[e] = IF moved THEN [edit[e] EXCEPT !.late = edit[e].busy] ELSE edit[e]
    BY Zenon DEF Stale
  <1>m. ~moved => \A u \in Users : user_node_ids(u)' = user_node_ids(u)
    BY Zenon
  <1> HIDE DEF moved
  <1>2. \A e \in Edits : /\ edit'[e].busy = edit[e].busy /\ edit'[e].user = edit[e].user
                         /\ edit'[e].nodes = edit[e].nodes
                         /\ DOMAIN edit'[e] = {"busy", "user", "nodes", "late"}
                         /\ edit'[e].late = IF moved THEN edit[e].busy ELSE edit[e].late
    BY <1>1 DEF FleetInv, FleetTypeOK
  <1>3. \A e \in Edits : edit'[e].busy \in BOOLEAN /\ edit'[e].late \in BOOLEAN
    BY <1>2, Zenon DEF FleetInv, FleetTypeOK
  <1>4. ASSUME NEW e \in Edits, edit'[e].busy
        PROVE  /\ edit'[e].user \in Users /\ user'[edit'[e].user].row # "none"
               /\ ~edit'[e].late /\ Live(edit[e].user)' => edit'[e].nodes = user_node_ids(edit[e].user)'
    <2>1. edit[e].busy /\ edit'[e].user = edit[e].user /\ edit'[e].nodes = edit[e].nodes
      BY <1>2, <1>4, Zenon
    <2>2. edit[e].user \in Users /\ user[edit[e].user].row # "none"
      BY <2>1, Zenon DEF FleetInv, ListIsFresh
    <2>3. ASSUME ~edit'[e].late, Live(edit[e].user)'
          PROVE  edit'[e].nodes = user_node_ids(edit[e].user)'
      <3>1. ~moved /\ ~edit[e].late
        <4>1. CASE moved
          BY <1>2, <2>1, <2>3, <4>1, Zenon
        <4>2. CASE ~moved
          BY <1>2, <2>3, <4>2, Zenon
        <4> QED BY <4>1, <4>2, Zenon
      <3>2. Live(edit[e].user)
        BY <2>1, <2>3, Zenon DEF Live
      <3>3. edit[e].nodes = user_node_ids(edit[e].user)
        BY <2>1, <3>1, <3>2, Zenon DEF FleetInv, ListIsFresh
      <3>4. user_node_ids(edit[e].user)' = {n \in Nodes : Reaches(ngroups'[n], ugroups'[edit[e].user])}
        BY <2>1, Zenon DEF user_node_ids, Reaches
      <3>5. user_node_ids(edit[e].user) = {n \in Nodes : Reaches(ngroups'[n], ugroups'[edit[e].user])}
        BY <1>m, <2>2, <3>1, Zenon DEF user_node_ids, Reaches
      <3> QED BY <2>1, <3>3, <3>4, <3>5, Zenon
    <2> QED BY <2>1, <2>2, <2>3, Zenon
  <1>5. \A e \in Edits : ListIsFresh(e)'
    BY <1>4, Zenon DEF ListIsFresh
  <1> QED BY <1>1, <1>2, <1>3, <1>5, Zenon

\* The writes of node, inbound and group handlers.
LEMMA RowEdit ==
    ASSUME FleetInv, Stale, UNCHANGED user, DOMAIN ugroups' = Users,
           NEW pushes, NEW excuse, Owe(pushes, excuse),
           \A n \in Nodes \ pushes : excuse[n] # "forgotten"
    PROVE  FleetInv'
  <1>1. NothingForgotten' /\ DOMAIN owed' = Nodes
    BY OweForgetsNothing, Zenon DEF FleetInv
  <1>2. /\ \A e \in Edits : ListIsFresh(e)'
        /\ \A e \in Edits : DOMAIN edit'[e] = {"busy", "user", "nodes", "late"}
                            /\ edit'[e].busy \in BOOLEAN /\ edit'[e].late \in BOOLEAN
        /\ DOMAIN edit' = Edits
    BY StaleMarks, Zenon
  <1> QED BY <1>1, <1>2, Zenon DEF FleetInv, FleetTypeOK

\* A write of one user's rows changes the specification of no node but those
\* that user reaches, before the write or after it.
LEMMA UserEditReach ==
    ASSUME NEW u \in Users, NEW n \in Nodes,
           UNCHANGED <<serving, ngroups, on, chained>>,
           \A v \in Users \ {u} : user'[v] = user[v] /\ ugroups'[v] = ugroups[v],
           ~Live(u) \/ n \notin user_node_ids(u),
           ~Live(u)' \/ n \notin NodesAfter(u)
    PROVE  build_node_spec(n)' = build_node_spec(n)
  <1>1. \A v \in Users \ {u} : v \in ActiveUsers(n)' <=> v \in ActiveUsers(n)
    BY Zenon DEF ActiveUsers, users_with_node_access, Live, Reaches
  <1>2. u \notin ActiveUsers(n) /\ u \notin ActiveUsers(n)'
    <2>1. u \notin ActiveUsers(n)
      BY Zenon DEF ActiveUsers, users_with_node_access, user_node_ids
    <2>2. NodesAfter(u) = {m \in Nodes : Reaches(ngroups[m], ugroups'[u])}
      BY Zenon DEF NodesAfter, user_node_ids, Reaches
    <2>3. u \in ActiveUsers(n)' => Live(u)' /\ Reaches(ngroups[n], ugroups'[u])
      BY Zenon DEF ActiveUsers, users_with_node_access, Reaches
    <2> QED BY <2>1, <2>2, <2>3, Zenon
  <1>3. ActiveUsers(n) \subseteq Users /\ ActiveUsers(n)' \subseteq Users
    BY Zenon DEF ActiveUsers, users_with_node_access
  <1>4. ActiveUsers(n)' = ActiveUsers(n)
    BY <1>1, <1>2, <1>3
  <1> QED BY <1>4, SpecOfRows, Zenon

\* The handler that ends frees its place; the lists of the others are as good
\* as they were if their users' rows were left alone, and otherwise late or
\* of no more use.
LEMMA UserEditLists ==
    ASSUME FleetInv, NEW e \in Edits, NEW u \in Users, UNCHANGED ngroups,
           DOMAIN user' = Users, DOMAIN ugroups' = Users,
           \A v \in Users : user'[v] \in [row : {"none", "live", "gone"}, active : BOOLEAN],
           \A v \in Users \ {u} : user'[v] = user[v] /\ ugroups'[v] = ugroups[v],
           user[u].row # "none", user'[u].row # "none",
           DOMAIN owed' = Nodes, NothingForgotten',
           DOMAIN edit' = Edits, edit'[e] = Ended(e),
           \A f \in Edits \ {e} :
              \/ edit'[f] = edit[f]
                 /\ (~edit[f].busy \/ edit[f].user # u \/ ~Live(u)' \/ (Live(u) /\ ugroups'[u] = ugroups[u]))
              \/ edit'[f] = [edit[f] EXCEPT !.late = TRUE] /\ edit[f].busy
    PROVE  FleetInv'
  <1>1. DOMAIN edit'[e] = {"busy", "user", "nodes", "late"} /\ edit'[e].busy \in BOOLEAN
        /\ edit'[e].late \in BOOLEAN /\ ~edit'[e].busy
    BY Zenon DEF FleetInv, FleetTypeOK, Ended
  <1>2. \A f \in Edits \ {e} : DOMAIN edit'[f] = {"busy", "user", "nodes", "late"}
          /\ edit'[f].busy \in BOOLEAN /\ edit'[f].late \in BOOLEAN
    <2> SUFFICES ASSUME NEW f \in Edits \ {e}
                 PROVE  DOMAIN edit'[f] = {"busy", "user", "nodes", "late"}
                        /\ edit'[f].busy \in BOOLEAN /\ edit'[f].late \in BOOLEAN
      BY Zenon
    <2>1. DOMAIN edit[f] = {"busy", "user", "nodes", "late"}
          /\ edit[f].busy \in BOOLEAN /\ edit[f].late \in BOOLEAN
      BY Zenon DEF FleetInv, FleetTypeOK
    <2>2. CASE edit'[f] = edit[f]
      BY <2>1, <2>2, Zenon
    <2>3. CASE edit'[f] = [edit[f] EXCEPT !.late = TRUE]
      BY <2>1, <2>3, Zenon
    <2> QED BY <2>2, <2>3, Zenon
  <1>3. FleetTypeOK'
    BY <1>1, <1>2, Zenon DEF FleetTypeOK
  <1>4. ASSUME NEW f \in Edits \ {e} PROVE ListIsFresh(f)'
    <2>1. CASE edit'[f] = edit[f]
                 /\ (~edit[f].busy \/ edit[f].user # u \/ ~Live(u)' \/ (Live(u) /\ ugroups'[u] = ugroups[u]))
      <3> SUFFICES ASSUME edit[f].busy
                   PROVE  /\ edit[f].user \in Users /\ user'[edit[f].user].row # "none"
                          /\ ~edit[f].late /\ user'[edit[f].user].row = "live" =>
                               edit[f].nodes = {n \in Nodes : Reaches(ngroups[n], ugroups'[edit[f].user])}
        BY <2>1 DEF ListIsFresh, Live, user_node_ids, Reaches
      <3>1. edit[f].user \in Users /\ user[edit[f].user].row # "none"
            /\ (~edit[f].late /\ user[edit[f].user].row = "live" =>
                   edit[f].nodes = {n \in Nodes : Reaches(ngroups[n], ugroups[edit[f].user])})
        BY Zenon DEF FleetInv, ListIsFresh, Live, user_node_ids
      <3>2. CASE edit[f].user # u
        BY <3>1, <3>2, Zenon
      <3>3. CASE edit[f].user = u
        BY <2>1, <3>1, <3>3, Zenon DEF Live
      <3> QED BY <3>2, <3>3, Zenon
    <2>2. CASE edit'[f] = [edit[f] EXCEPT !.late = TRUE] /\ edit[f].busy
      <3>1. edit'[f].late /\ edit'[f].user = edit[f].user
        BY <2>2, Zenon DEF FleetInv, FleetTypeOK
      <3>2. edit[f].user \in Users /\ user[edit[f].user].row # "none"
        BY <2>2, Zenon DEF FleetInv, ListIsFresh
      <3>3. user'[edit[f].user].row # "none"
        BY <3>2, Zenon
      <3> QED BY <3>1, <3>2, <3>3, Zenon DEF ListIsFresh
    <2> QED BY <2>1, <2>2, Zenon
  <1>5. ListIsFresh(e)'
    BY <1>1, Zenon DEF ListIsFresh
  <1> QED BY <1>3, <1>4, <1>5, Zenon DEF FleetInv

\* Every handler and the reconcile loop keep it.
LEMMA FleetInvStep == FleetInv /\ [FleetNext]_fleetVars => FleetInv'
  <1> SUFFICES ASSUME FleetInv, [FleetNext]_fleetVars PROVE FleetInv'
    BY Zenon
  <1>t. /\ DOMAIN user = Users /\ DOMAIN ugroups = Users /\ DOMAIN edit = Edits /\ DOMAIN owed = Nodes
        /\ \A u \in Users : user[u] \in [row : {"none", "live", "gone"}, active : BOOLEAN]
        /\ \A f \in Edits : DOMAIN edit[f] = {"busy", "user", "nodes", "late"}
    BY Zenon DEF FleetInv, FleetTypeOK
  <1>o. \A n, m \in Nodes : n # m => OwnNode(m)[n] # "forgotten"
    BY Zenon DEF OwnNode
  <1>l. \A n \in Nodes : Always("late")[n] # "forgotten"
    BY Zenon DEF Always
  <1>h. \A i \in Inbounds : Home[i] \in Nodes
    BY FleetAssumption, Zenon
  <1>1. ASSUME NEW n \in Nodes, update_node(n) PROVE FleetInv'
    BY <1>1, <1>t, <1>o, RowEdit, Zenon DEF update_node
  <1>2. ASSUME NEW n \in Nodes, NEW gs \in SUBSET groups, set_node_groups(n, gs) PROVE FleetInv'
    BY <1>2, <1>t, <1>o, RowEdit, Zenon DEF set_node_groups
  <1>3. ASSUME NEW i \in Inbounds, edit_inbound(i) PROVE FleetInv'
    <2>1. Stale /\ UNCHANGED <<user, ugroups>> /\ Owe({Home[i]}, OwnNode(Home[i]))
      BY <1>3, Zenon DEF edit_inbound
    <2>2. DOMAIN ugroups' = Users /\ \A n \in Nodes \ {Home[i]} : OwnNode(Home[i])[n] # "forgotten"
      BY <2>1, <1>t, <1>o, <1>h, Zenon
    <2> QED BY <2>1, <2>2, RowEdit, Zenon
  <1>4. ASSUME NEW i \in Inbounds, delete_inbound(i) PROVE FleetInv'
    <2>1. Stale /\ UNCHANGED <<user, ugroups>> /\ Owe({Home[i]}, OwnNode(Home[i]))
      BY <1>4, Zenon DEF delete_inbound
    <2>2. DOMAIN ugroups' = Users /\ \A n \in Nodes \ {Home[i]} : OwnNode(Home[i])[n] # "forgotten"
      BY <2>1, <1>t, <1>o, <1>h, Zenon
    <2> QED BY <2>1, <2>2, RowEdit, Zenon
  <1>5. ASSUME set_upstream PROVE FleetInv'
    <2>1. Stale /\ UNCHANGED <<user, ugroups>> /\ Owe({Home[Entry]}, OwnNode(Home[Entry]))
      BY <1>5, Zenon DEF set_upstream
    <2>2. Home[Entry] \in Nodes
      BY <1>h, FleetAssumption, Zenon
    <2> QED BY <2>1, <2>2, <1>t, <1>o, RowEdit
  <1>6. ASSUME NEW g \in Groups, delete_group(g) PROVE FleetInv'
    <2>1. Stale /\ UNCHANGED user /\ DOMAIN ugroups' = Users /\ Owe({}, Always("late"))
      BY <1>6, Zenon DEF delete_group
    <2> QED BY <2>1, <1>l, RowEdit, Zenon
  <1>0. ASSUME UNCHANGED <<ngroups, ugroups, user, edit, owed>> PROVE FleetInv'
    BY <1>0, Zenon DEF FleetInv, FleetTypeOK, ListIsFresh, Live, user_node_ids, Reaches, NothingForgotten
  <1>7. ASSUME NEW g \in Groups, create_group(g) PROVE FleetInv'
    BY <1>0, <1>7, Zenon DEF create_group
  <1>8. ASSUME NEW n \in Nodes, reconcile_push(n) PROVE FleetInv'
    BY <1>8, Zenon DEF reconcile_push, fleetRows, FleetInv, FleetTypeOK, ListIsFresh, Live, user_node_ids,
               Reaches, NothingForgotten
  <1>9. ASSUME NEW e \in Edits, NEW u \in Users, EditRead(e, u) PROVE FleetInv'
    <2>1. /\ edit' = [edit EXCEPT ![e] = [busy |-> TRUE, user |-> u,
                                          nodes |-> user_node_ids(u), late |-> FALSE]]
          /\ Live(u) /\ UNCHANGED <<ngroups, ugroups, user, owed>>
      BY <1>9, Zenon DEF EditRead, fleetRows
    <2>2. /\ DOMAIN edit' = Edits /\ \A f \in Edits \ {e} : edit'[f] = edit[f]
          /\ edit'[e] = [busy |-> TRUE, user |-> u, nodes |-> user_node_ids(u), late |-> FALSE]
      BY <2>1, <1>t, Zenon
    <2>3. /\ DOMAIN edit'[e] = {"busy", "user", "nodes", "late"} /\ edit'[e].busy \in BOOLEAN
          /\ edit'[e].late \in BOOLEAN /\ edit'[e].user = u /\ edit'[e].nodes = user_node_ids(u)
      BY <2>2
    <2>4. FleetTypeOK'
      BY <2>1, <2>2, <2>3, Zenon DEF FleetInv, FleetTypeOK
    <2>5. \A v \in Users : user_node_ids(v)' = user_node_ids(v) /\ (Live(v)' <=> Live(v))
      BY <2>1, Zenon DEF user_node_ids, Reaches, Live
    <2>6. ListIsFresh(e)'
      <3>1. user'[edit'[e].user].row # "none" /\ edit'[e].user \in Users
        BY <2>1, <2>3, Zenon DEF Live
      <3>2. edit'[e].nodes = {n \in Nodes : Reaches(ngroups'[n], ugroups'[edit'[e].user])}
        BY <2>1, <2>3, Zenon DEF user_node_ids
      <3> QED BY <3>1, <3>2, Zenon DEF ListIsFresh, user_node_ids, Reaches
    <2>7. \A f \in Edits \ {e} : ListIsFresh(f)'
      BY <2>1, <2>2, Zenon DEF FleetInv, ListIsFresh, Live, user_node_ids, Reaches
    <2> QED BY <2>1, <2>4, <2>6, <2>7, Zenon DEF FleetInv, NothingForgotten
  <1>e. \A e \in Edits : edit[e].busy =>
          /\ edit[e].user \in Users
          /\ ~edit[e].late /\ Live(edit[e].user) => edit[e].nodes = user_node_ids(edit[e].user)
    BY Zenon DEF FleetInv, ListIsFresh
  <1>10. ASSUME NEW e \in Edits, update_user(e) PROVE FleetInv'
    <2>0. PICK u \in Users : u = edit[e].user
      BY <1>10, <1>e, Zenon DEF update_user
    <2>1. /\ edit[e].busy /\ Live(u) /\ u \in Users
          /\ UNCHANGED <<serving, ngroups, ugroups, on, chained>>
          /\ Owe(edit[e].nodes, Missed(e)) /\ edit' = [edit EXCEPT ![e] = Ended(e)]
      BY <1>10, <2>0, Zenon DEF update_user
    <2>2. PICK a \in BOOLEAN : user' = [user EXCEPT ![u].active = a]
      BY <1>10, <2>0, Zenon DEF update_user
    <2>3. /\ DOMAIN user' = Users /\ \A v \in Users \ {u} : user'[v] = user[v]
          /\ user'[u] \in [row : {"none", "live", "gone"}, active : BOOLEAN]
          /\ user'[u].row = user[u].row
      BY <2>1, <2>2, <1>t, Zenon
    <2>4. DOMAIN edit' = Edits /\ edit'[e] = Ended(e) /\ \A f \in Edits \ {e} : edit'[f] = edit[f]
      BY <2>1, <1>t, Zenon
    <2>5. ASSUME NEW n \in Nodes \ edit[e].nodes
          PROVE  Missed(e)[n] # "forgotten" \/ build_node_spec(n)' = build_node_spec(n)
      <3>1. CASE edit[e].late
        BY <3>1, Zenon DEF Missed, Always
      <3>2. CASE ~edit[e].late
        <4>1. n \notin user_node_ids(u)
          BY <1>e, <2>0, <2>1, <3>2, Zenon
        <4>2. n \notin NodesAfter(u)
          BY <2>1, <4>1, Zenon DEF NodesAfter, user_node_ids, Reaches
        <4> QED BY <2>1, <2>3, <4>1, <4>2, UserEditReach, Zenon
      <3> QED BY <3>1, <3>2, Zenon
    <2>6. NothingForgotten' /\ DOMAIN owed' = Nodes
      BY <2>1, <2>5, OweForgetsNothing, Zenon DEF FleetInv
    <2>7. user[u].row # "none" /\ user'[u].row # "none"
      BY <2>1, <2>3, Zenon DEF Live
    <2> QED BY <2>1, <2>3, <2>4, <2>6, <2>7, <1>t, UserEditLists
  <1>11. ASSUME NEW e \in Edits, delete_user(e) PROVE FleetInv'
    <2>0. PICK u \in Users : u = edit[e].user
      BY <1>11, <1>e, Zenon DEF delete_user
    <2>1. /\ edit[e].busy /\ Live(u) /\ u \in Users
          /\ user' = [user EXCEPT ![u] = NoRow("gone")]
          /\ ugroups' = [ugroups EXCEPT ![u] = {}]
          /\ UNCHANGED <<serving, ngroups, on, chained>>
          /\ Owe(edit[e].nodes, Missed(e)) /\ edit' = [edit EXCEPT ![e] = Ended(e)]
      BY <1>11, <2>0, Zenon DEF delete_user
    <2>3. /\ DOMAIN user' = Users /\ DOMAIN ugroups' = Users
          /\ \A v \in Users \ {u} : user'[v] = user[v] /\ ugroups'[v] = ugroups[v]
          /\ user'[u] \in [row : {"none", "live", "gone"}, active : BOOLEAN]
          /\ user'[u].row = "gone"
      BY <2>1, <1>t, Zenon DEF NoRow
    <2>4. DOMAIN edit' = Edits /\ edit'[e] = Ended(e) /\ \A f \in Edits \ {e} : edit'[f] = edit[f]
      BY <2>1, <1>t, Zenon
    <2>5. ASSUME NEW n \in Nodes \ edit[e].nodes
          PROVE  Missed(e)[n] # "forgotten" \/ build_node_spec(n)' = build_node_spec(n)
      <3>1. CASE edit[e].late
        BY <3>1, Zenon DEF Missed, Always
      <3>2. CASE ~edit[e].late
        <4>1. n \notin user_node_ids(u) /\ ~Live(u)'
          BY <1>e, <2>0, <2>1, <2>3, <3>2, Zenon DEF Live
        <4> QED BY <2>1, <2>3, <4>1, UserEditReach, ZenonT(60)
      <3> QED BY <3>1, <3>2, Zenon
    <2>6. NothingForgotten' /\ DOMAIN owed' = Nodes
      BY <2>1, <2>5, OweForgetsNothing, Zenon DEF FleetInv
    <2>7. user[u].row # "none" /\ user'[u].row # "none" /\ ~Live(u)'
      BY <2>1, <2>3, Zenon DEF Live
    <2>8. \A v \in Users : user'[v] \in [row : {"none", "live", "gone"}, active : BOOLEAN]
      BY <2>3, <1>t, Zenon
    <2>9. \A f \in Edits \ {e} :
            \/ edit'[f] = edit[f]
               /\ (~edit[f].busy \/ edit[f].user # u \/ ~Live(u)' \/ (Live(u) /\ ugroups'[u] = ugroups[u]))
            \/ edit'[f] = [edit[f] EXCEPT !.late = TRUE] /\ edit[f].busy
      BY <2>4, <2>7, Zenon
    <2> QED BY <2>1, <2>3, <2>4, <2>6, <2>7, <2>8, <2>9, UserEditLists
  <1>12. ASSUME NEW e \in Edits, edit_not_found(e) PROVE FleetInv'
    <2>1. edit' = [edit EXCEPT ![e] = Ended(e)] /\ edit[e].busy
          /\ UNCHANGED <<ngroups, ugroups, user, owed>>
      BY <1>12, Zenon DEF edit_not_found, fleetRows
    <2>2. DOMAIN edit' = Edits /\ edit'[e] = Ended(e) /\ \A f \in Edits \ {e} : edit'[f] = edit[f]
      BY <2>1, <1>t, Zenon
    <2>3. DOMAIN Ended(e) = {"busy", "user", "nodes", "late"} /\ Ended(e).busy \in BOOLEAN
          /\ Ended(e).late \in BOOLEAN /\ ~Ended(e).busy
      BY <1>t, Zenon DEF Ended
    <2>4. FleetTypeOK'
      BY <2>1, <2>2, <2>3, Zenon DEF FleetInv, FleetTypeOK
    <2>5. ASSUME NEW f \in Edits PROVE ListIsFresh(f)'
      <3>1. CASE f = e
        BY <2>2, <2>3, <3>1, Zenon DEF ListIsFresh
      <3>2. CASE f # e
        <4>1. edit'[f] = edit[f] /\ ListIsFresh(f)
          BY <2>2, <3>2, Zenon DEF FleetInv
        <4> QED BY <2>1, <4>1, Zenon DEF ListIsFresh, Live, user_node_ids, Reaches
      <3> QED BY <3>1, <3>2, Zenon
    <2> QED BY <2>1, <2>4, <2>5, Zenon DEF FleetInv, NothingForgotten
  <1>13. ASSUME NEW e \in Edits, NEW u \in Users, NEW gs \in SUBSET groups, set_user_groups(e, u, gs)
         PROVE  FleetInv'
    <2>1. /\ edit[e].busy /\ Live(u) /\ u = edit[e].user
          /\ ugroups' = [ugroups EXCEPT ![u] = gs]
          /\ UNCHANGED <<serving, ngroups, on, chained, user>>
          /\ Owe(GroupTargets(e, u), Missed(e))
          /\ edit' = [f \in Edits |->
                IF f = e THEN Ended(e)
                ELSE IF edit[f].busy /\ edit[f].user = u
                     THEN [edit[f] EXCEPT !.late = TRUE] ELSE edit[f]]
      BY <1>13, Zenon DEF set_user_groups
    <2>3. /\ DOMAIN ugroups' = Users
          /\ \A v \in Users \ {u} : user'[v] = user[v] /\ ugroups'[v] = ugroups[v]
      BY <2>1, <1>t, Zenon
    <2>4. /\ DOMAIN edit' = Edits /\ edit'[e] = Ended(e)
          /\ \A f \in Edits \ {e} :
                IF edit[f].busy /\ edit[f].user = u
                THEN edit'[f] = [edit[f] EXCEPT !.late = TRUE] ELSE edit'[f] = edit[f]
      BY <2>1, <1>t, Zenon
    <2>5. ASSUME NEW n \in Nodes \ GroupTargets(e, u)
          PROVE  Missed(e)[n] # "forgotten" \/ build_node_spec(n)' = build_node_spec(n)
      <3>1. CASE edit[e].late
        BY <3>1, Zenon DEF Missed, Always
      <3>2. CASE ~edit[e].late
        <4>1. n \notin user_node_ids(u) /\ n \notin NodesAfter(u)
          BY <1>e, <2>1, <3>2, Zenon DEF GroupTargets
        <4> QED BY <2>1, <2>3, <4>1, UserEditReach
      <3> QED BY <3>1, <3>2, Zenon
    <2>6. NothingForgotten' /\ DOMAIN owed' = Nodes
      BY <2>1, <2>5, OweForgetsNothing, Zenon DEF FleetInv
    <2>7. user[u].row # "none" /\ user'[u].row # "none"
      BY <2>1, Zenon DEF Live
    <2>8. DOMAIN user' = Users
          /\ \A v \in Users : user'[v] \in [row : {"none", "live", "gone"}, active : BOOLEAN]
      BY <2>1, <1>t, Zenon
    <2>9. \A f \in Edits \ {e} :
            \/ edit'[f] = edit[f]
               /\ (~edit[f].busy \/ edit[f].user # u \/ ~Live(u)' \/ (Live(u) /\ ugroups'[u] = ugroups[u]))
            \/ edit'[f] = [edit[f] EXCEPT !.late = TRUE] /\ edit[f].busy
      <3> SUFFICES ASSUME NEW f \in Edits \ {e}
                   PROVE  \/ edit'[f] = edit[f]
                             /\ (~edit[f].busy \/ edit[f].user # u)
                          \/ edit'[f] = [edit[f] EXCEPT !.late = TRUE] /\ edit[f].busy
        BY Zenon
      <3>1. CASE edit[f].busy /\ edit[f].user = u
        BY <2>4, <3>1, Zenon
      <3>2. CASE ~(edit[f].busy /\ edit[f].user = u)
        BY <2>4, <3>2, Zenon
      <3> QED BY <3>1, <3>2, Zenon
    <2> QED BY <2>1, <2>3, <2>4, <2>6, <2>7, <2>8, <2>9, UserEditLists, Zenon
  <1>14. ASSUME NEW u \in Users, create_user(u) PROVE FleetInv'
    <2>1. /\ user[u].row = "none"
          /\ user' = [user EXCEPT ![u] = [row |-> "live", active |-> TRUE]]
          /\ ugroups' = [ugroups EXCEPT ![u] = {DefaultGroup}]
          /\ UNCHANGED <<serving, ngroups, on, chained, edit>>
          /\ Owe(NodesAfter(u), Always("forgotten"))
      BY <1>14, Zenon DEF create_user
    <2>3. /\ DOMAIN user' = Users /\ DOMAIN ugroups' = Users
          /\ \A v \in Users \ {u} : user'[v] = user[v] /\ ugroups'[v] = ugroups[v]
          /\ user'[u] \in [row : {"none", "live", "gone"}, active : BOOLEAN]
          /\ ~Live(u)
      BY <2>1, <1>t, Zenon DEF Live
    <2>5. \A n \in Nodes \ NodesAfter(u) : build_node_spec(n)' = build_node_spec(n)
      BY <2>1, <2>3, UserEditReach, Zenon
    <2>6. NothingForgotten' /\ DOMAIN owed' = Nodes
      BY <2>1, <2>5, OweForgetsNothing, Zenon DEF FleetInv
    <2>7. FleetTypeOK'
      BY <2>1, <2>3, <2>6, <1>t, Zenon DEF FleetInv, FleetTypeOK
    <2>8. \A f \in Edits : edit[f].busy => edit[f].user \in Users \ {u}
      BY <2>1, Zenon DEF FleetInv, ListIsFresh
    <2>9. \A f \in Edits : ListIsFresh(f)'
      BY <2>1, <2>3, <2>8, Zenon DEF FleetInv, ListIsFresh, Live, user_node_ids, Reaches
    <2> QED BY <2>6, <2>7, <2>9, Zenon DEF FleetInv
  <1>15. CASE UNCHANGED fleetVars
    BY <1>0, <1>15, Zenon DEF fleetVars
  <1> QED BY <1>1, <1>2, <1>3, <1>4, <1>5, <1>6, <1>7, <1>8, <1>9, <1>10, <1>11, <1>12, <1>13, Zenon,
             <1>14, <1>15, Zenon DEF FleetNext

\* No handler is at work and nothing is owed at the start.
LEMMA FleetInvInit == FleetInit => FleetInv
  <1> SUFFICES ASSUME FleetInit PROVE FleetInv
    BY Zenon
  <1>1. PICK w : edit = [e \in Edits |-> [busy |-> FALSE, user |-> w, nodes |-> {}, late |-> FALSE]]
    BY Zenon DEF FleetInit
  <1>2. /\ DOMAIN edit = Edits
        /\ \A e \in Edits : /\ DOMAIN edit[e] = {"busy", "user", "nodes", "late"} /\ ~edit[e].busy
                             /\ edit[e].busy \in BOOLEAN /\ edit[e].late \in BOOLEAN
    BY <1>1, Zenon
  <1>3. FleetTypeOK
    BY <1>2, Zenon DEF FleetInit, FleetTypeOK, NoRow
  <1> QED BY <1>2, <1>3, Zenon DEF FleetInit, FleetInv, ListIsFresh, NothingForgotten

\* No edit forgets a node but through the gaps NothingForgotten names, for any
\* number of nodes, groups, users and handlers at work at once.
THEOREM NoEditForgetsANode == FleetSpec => []NothingForgotten
  <1>1. FleetInv => NothingForgotten
    BY Zenon DEF FleetInv
  <1> QED BY <1>1, FleetInvInit, FleetInvStep, PTL DEF FleetSpec

\* The queries over the group tables agree with each other in every state of
\* the tables: an inbound that exists is at its node, so what a subscription
\* offers is what its node accepts, and a hop has both its ends.
THEOREM OfferedAlwaysServed == FleetSpec => []OfferedIsServed
  <1> DEFINE OnTypeOK == on \subseteq Inbounds
  <1>1. FleetInit => OnTypeOK
    BY Zenon DEF FleetInit
  <1>2. OnTypeOK /\ [FleetNext]_fleetVars => OnTypeOK'
    <2> SUFFICES ASSUME OnTypeOK, [FleetNext]_fleetVars PROVE on' \subseteq Inbounds
      BY Zenon
    <2>1. ASSUME NEW i \in Inbounds, edit_inbound(i) \/ delete_inbound(i) PROVE on' \subseteq Inbounds
      BY <2>1, Zenon DEF edit_inbound, delete_inbound
    <2>2. \/ UNCHANGED on
          \/ \E i \in Inbounds : edit_inbound(i) \/ delete_inbound(i)
      BY Zenon DEF FleetNext, fleetVars, fleetRows, update_node, reconcile_push, set_node_groups, set_upstream,
             create_group, delete_group, create_user, EditRead, update_user, delete_user,
             edit_not_found, set_user_groups
    <2> QED BY <2>1, <2>2, Zenon
  <1>3. OnTypeOK => OfferedIsServed
    <2> SUFFICES ASSUME on \subseteq Inbounds PROVE OfferedIsServed
      BY Zenon
    <2>1. \A n \in Nodes : DOMAIN build_node_spec(n) = {j \in on : Home[j] = n}
      BY Zenon DEF build_node_spec
    <2>2. \A n \in Nodes : \A i \in {j \in on : Home[j] = n} :
            /\ build_node_spec(n)[i].users = ActiveUsers(n)
            /\ build_node_spec(n)[i].hop = chain_users_for_exit(i)
            /\ build_node_spec(n)[i].out = build_chain_outbound(i)
      BY Zenon DEF build_node_spec
    <2>3. ASSUME NEW u \in Users, Live(u)
          PROVE  /\ user[u].active => \A i \in subscription_endpoints(u) :
                      u \in build_node_spec(Home[i])[i].users
                 /\ ~user[u].active => \A n \in Nodes : \A i \in DOMAIN build_node_spec(n) :
                      u \notin build_node_spec(n)[i].users
      <3>1. ASSUME user[u].active, NEW i \in subscription_endpoints(u)
            PROVE  u \in build_node_spec(Home[i])[i].users
        <4>1. i \in on /\ Home[i] \in Nodes /\ Reaches(ngroups[Home[i]], ugroups[u])
          BY <3>1, FleetAssumption, Zenon DEF subscription_endpoints
        <4>2. u \in ActiveUsers(Home[i])
          BY <2>3, <3>1, <4>1, Zenon DEF ActiveUsers, users_with_node_access
        <4> QED BY <2>2, <4>1, <4>2, Zenon
      <3>2. ASSUME ~user[u].active, NEW n \in Nodes, NEW i \in DOMAIN build_node_spec(n)
            PROVE  u \notin build_node_spec(n)[i].users
        <4>1. u \notin ActiveUsers(n)
          BY <3>2, Zenon DEF ActiveUsers
        <4> QED BY <2>1, <2>2, <4>1, Zenon
      <3> QED BY <3>1, <3>2, Zenon
    <2>4. ASSUME NEW n \in Nodes, NEW i \in DOMAIN build_node_spec(n), build_node_spec(n)[i].out
          PROVE  Exit \in on /\ build_node_spec(Home[Exit])[Exit].hop
      <3>1. i \in on /\ Home[i] = n
        BY <2>1, Zenon
      <3>2. build_chain_outbound(i)
        BY <2>2, <2>4, <3>1, Zenon
      <3>3. i = Entry /\ chained /\ Exit \in on
        BY <3>2, Zenon DEF build_chain_outbound, endpoint_for_inbound
      <3>4. chain_users_for_exit(Exit)
        BY <3>1, <3>3, Zenon DEF chain_users_for_exit
      <3>5. Home[Exit] \in Nodes
        BY FleetAssumption, Zenon
      <3>6. build_node_spec(Home[Exit])[Exit].hop = chain_users_for_exit(Exit)
        BY <2>2, <3>3, <3>5, Zenon
      <3> QED BY <3>3, <3>4, <3>6, Zenon
    <2> QED BY <2>3, <2>4, Zenon DEF OfferedIsServed
  <1> QED BY <1>1, <1>2, <1>3, PTL DEF FleetSpec
=============================================================================

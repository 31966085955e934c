------------------------------- MODULE HaLease -------------------------------
(***************************************************************************)
(* Leader election between master instances: master/src/ha.rs and the      *)
(* ha_* statements of master/src/db/repo.rs.                               *)
(*                                                                         *)
(* Every instance runs one election loop.  A turn of the loop waits for    *)
(* its ticker, asks the database for the lease, sets the process-wide      *)
(* is_leader flag from the answer, writes its heartbeat row and, on every  *)
(* PruneEvery-th turn of a leader, deletes silent instances.  The other    *)
(* background loops of the process read the flag at the start of a turn.   *)
(*                                                                         *)
(* Time is counted in whole units and kept as what is LEFT of a deadline,  *)
(* so no clock grows without bound: a lease with left < 0 is one whose     *)
(* expires_at is before now().  Every await of the loop (a statement on    *)
(* its way to the database, its answer, the ticker's wake-up) may last up  *)
(* to MaxDelay units; the code itself sets no such limit.                  *)
(***************************************************************************)
EXTENDS Integers, FiniteSets

CONSTANTS
    Instances,    \* instance ids; a restarted process draws a fresh one
    None,         \* no row in ha_leader yet
    Ttl,          \* the ttl passed to ha::run
    MaxDelay,     \* longest time one await of the election loop may take
    PruneEvery    \* 10 in the code: the leader's turns between two prunes

ASSUME InstancesAssumption == None \notin Instances
ASSUME TimingAssumption ==
    /\ Ttl \in Nat /\ MaxDelay \in Nat
    /\ PruneEvery \in Nat \ {0}

VARIABLES
    lease,        \* the single row of ha_leader: its holder and what is left of it
    pc,           \* where each instance's election loop stands
    due,          \* time until the instance's ticker fires again
    age,          \* how long the loop's present await has been outstanding
    answer,       \* what ha_try_acquire returned, until the loop has seen it
    isLeader,     \* the IS_LEADER flag of each process
    ticks,        \* turns of the loop, modulo PruneEvery
    acting        \* a gated background loop of the process is inside a turn

vars == <<lease, pc, due, age, answer, isLeader, ticks, acting>>
loopVars == <<pc, due, age, answer, isLeader, ticks>>

\* ttl.as_secs().max(3), and a third of it between renewals.
ttl_secs == IF Ttl < 3 THEN 3 ELSE Ttl
renew == ttl_secs \div 3

InCall == {"acquire", "reply", "heartbeat", "prune"}
Up(i) == pc[i] \notin {"new", "dead"}
Ready(i) == pc[i] \in InCall \/ (pc[i] = "sleep" /\ due[i] = 0)

TypeOK ==
    /\ lease \in [holder: Instances \cup {None}, left: -1 .. ttl_secs]
    /\ pc \in [Instances -> {"new", "sleep", "dead"} \cup InCall]
    /\ due \in [Instances -> 0 .. renew]
    /\ age \in [Instances -> 0 .. MaxDelay]
    /\ answer \in [Instances -> BOOLEAN]
    /\ isLeader \in [Instances -> BOOLEAN]
    /\ ticks \in [Instances -> 0 .. PruneEvery - 1]
    /\ acting \in [Instances -> BOOLEAN]

Init ==
    /\ lease = [holder |-> None, left |-> -1]
    /\ pc = [i \in Instances |-> "new"]
    /\ due = [i \in Instances |-> 0]
    /\ age = [i \in Instances |-> 0]
    /\ answer = [i \in Instances |-> FALSE]
    /\ isLeader = [i \in Instances |-> FALSE]
    /\ ticks = [i \in Instances |-> 0]
    /\ acting = [i \in Instances |-> FALSE]

-----------------------------------------------------------------------------
(* The election loop of instance i.                                        *)

Goto(i, from, to) ==
    /\ pc[i] = from
    /\ pc' = [pc EXCEPT ![i] = to]
    /\ age' = [age EXCEPT ![i] = 0]

\* The process comes up; tokio's first interval tick is immediate.
Start(i) ==
    /\ Goto(i, "new", "sleep")
    /\ UNCHANGED <<lease, due, answer, isLeader, ticks, acting>>

\* ticker.tick() returns and the statement is sent.  MissedTickBehavior::Delay
\* puts the next tick one period after this one, however late this one is.
Wake(i) ==
    /\ due[i] = 0
    /\ Goto(i, "sleep", "acquire")
    /\ due' = [due EXCEPT ![i] = renew]
    /\ UNCHANGED <<lease, answer, isLeader, ticks, acting>>

\* Mutants of the WHERE: a lease counts as expired when its renewal is due; an
\* expired lease is not taken over.
MayTakeEarly(i) == lease.holder \in {None, i} \/ lease.left < renew
MayTakeOwnOnly(i) == lease.holder \in {None, i}

\* The upsert's WHERE: there is no row yet, or it is ours, or it has expired.
MayTake(i) == lease.holder \in {None, i} \/ lease.left < 0

\* The statement commits in the database.
TryAcquire(i) ==
    /\ Goto(i, "acquire", "reply")
    /\ answer' = [answer EXCEPT ![i] = MayTake(i)]
    /\ lease' = IF MayTake(i) THEN [holder |-> i, left |-> ttl_secs] ELSE lease
    /\ UNCHANGED <<due, isLeader, ticks, acting>>

\* Ok(held): the flag follows the answer.
SetLeader(i) ==
    /\ Goto(i, "reply", "heartbeat")
    /\ isLeader' = [isLeader EXCEPT ![i] = answer[i]]
    /\ answer' = [answer EXCEPT ![i] = FALSE]
    /\ UNCHANGED <<lease, due, ticks, acting>>

\* Err(_): the statement never ran, or it ran and its answer was lost.
StepDown(i) ==
    /\ \/ Goto(i, "acquire", "heartbeat")
       \/ Goto(i, "reply", "heartbeat")
    /\ isLeader' = [isLeader EXCEPT ![i] = FALSE]
    /\ answer' = [answer EXCEPT ![i] = FALSE]
    /\ UNCHANGED <<lease, due, ticks, acting>>

\* ha_heartbeat returns, whether it wrote its ha_instances row or not (the error
\* is only logged); then the turn is counted and the leader's every
\* PruneEvery-th turn goes on to prune.  The rows feed only the panel's roster.
Heartbeat(i) ==
    /\ LET next == (ticks[i] + 1) % PruneEvery
       IN  /\ ticks' = [ticks EXCEPT ![i] = next]
           /\ Goto(i, "heartbeat",
                   IF isLeader[i] /\ next = 0 THEN "prune" ELSE "sleep")
    /\ UNCHANGED <<lease, due, answer, isLeader, acting>>

\* ha_prune_instances returns; its error is only logged too.
Prune(i) ==
    /\ Goto(i, "prune", "sleep")
    /\ UNCHANGED <<lease, due, answer, isLeader, ticks, acting>>

\* The process dies; a statement already sent may still have committed.
Crash(i) ==
    /\ Up(i)
    /\ pc' = [pc EXCEPT ![i] = "dead"]
    /\ due' = [due EXCEPT ![i] = 0]
    /\ age' = [age EXCEPT ![i] = 0]
    /\ answer' = [answer EXCEPT ![i] = FALSE]
    /\ isLeader' = [isLeader EXCEPT ![i] = FALSE]
    /\ ticks' = [ticks EXCEPT ![i] = 0]
    /\ acting' = [acting EXCEPT ![i] = FALSE]
    /\ UNCHANGED lease

-----------------------------------------------------------------------------
(* The loops the flag gates, and time.                                     *)

\* reconcile, stats, quota, schedule, the monitors...: the flag is read once,
\* at the start of a turn, and not again until the turn is over.
BeginTurn(i) ==
    /\ Up(i) /\ isLeader[i] /\ ~acting[i]
    /\ acting' = [acting EXCEPT ![i] = TRUE]
    /\ UNCHANGED <<lease, loopVars>>

EndTurn(i) ==
    /\ acting[i]
    /\ acting' = [acting EXCEPT ![i] = FALSE]
    /\ UNCHANGED <<lease, loopVars>>

\* One unit of time passes, unless that would exceed MaxDelay for some await.
Tick ==
    /\ \A i \in Instances : Ready(i) => age[i] < MaxDelay
    /\ lease' = [lease EXCEPT !.left = IF @ < 0 THEN @ ELSE @ - 1]
    /\ age' = [i \in Instances |-> IF Ready(i) THEN age[i] + 1 ELSE age[i]]
    /\ due' = [i \in Instances |-> IF due[i] = 0 THEN 0 ELSE due[i] - 1]
    /\ UNCHANGED <<pc, answer, isLeader, ticks, acting>>

Step(i) ==
    \/ Start(i) \/ Wake(i) \/ TryAcquire(i) \/ SetLeader(i) \/ StepDown(i)
    \/ Heartbeat(i) \/ Prune(i) \/ Crash(i) \/ BeginTurn(i) \/ EndTurn(i)

Next == Tick \/ \E i \in Instances : Step(i)

Spec == Init /\ [][Next]_vars

\* A process that is up keeps running its loop, time passes, and the database
\* does not stay unreachable for ever: a statement tried again and again is in
\* the end executed, and its answer, granted leases included, gets back.
Fairness ==
    /\ WF_vars(Tick)
    /\ \A i \in Instances :
        /\ WF_vars(Wake(i)) /\ WF_vars(Heartbeat(i)) /\ WF_vars(Prune(i))
        /\ WF_vars(SetLeader(i) \/ StepDown(i))
        /\ SF_vars(TryAcquire(i)) /\ SF_vars(answer[i] /\ SetLeader(i))

FairSpec == Spec /\ Fairness

-----------------------------------------------------------------------------
(* Properties.                                                             *)

\* Every await is short against the lease: the longest way from one renewal to
\* the next (the answer, the heartbeat and the prune, or the ticker's period,
\* then the wake-up and the statement) fits into it.
ShortAwaits == renew + 2 * MaxDelay <= ttl_secs /\ 5 * MaxDelay <= ttl_secs

\* At most one process believes it is the leader.  The flag is only as good as
\* the last answer, so this holds under ShortAwaits and not without it.
OneLeader ==
    \A i, j \in Instances : isLeader[i] /\ isLeader[j] => i = j

\* A leader's flag is backed by an unexpired lease in its own name, so what it
\* does while the flag is up is covered by the database's view too.
LeaderHoldsLease ==
    \A i \in Instances : isLeader[i] => lease.holder = i /\ lease.left >= 0

Leaders == {i \in Instances : isLeader[i]}
Lock == INSTANCE LeaderLock WITH Members <- Instances, leaders <- Leaders

\* The election implements the lock the background loops rely on: whoever's
\* flag goes up goes up after all others are down (ha.rs, IS_LEADER).
LeadershipIsALock == Lock!LockSpec

\* "the singleton background loops ... must run on exactly one instance"
\* (ha.rs): no two instances are inside a gated turn together.
ExclusiveLoops ==
    \A i, j \in Instances : acting[i] /\ acting[j] => i = j

\* A crashed or partitioned leader is replaced: as long as some instance stays
\* up, there is again and again a leader.
EventualLeader ==
    \A i \in Instances :
        <>[]Up(i) => []<>(\E j \in Instances : isLeader[j])

=============================================================================

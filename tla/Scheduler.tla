------------------------------ MODULE Scheduler ------------------------------
(***************************************************************************)
(* Deferred operations: an operator schedules an action on a user for a    *)
(* later time, or cancels it; the leader's scheduler loop reads the due    *)
(* pending rows, executes them one after the other and records each        *)
(* outcome.                                                                *)
(*                                                                         *)
(* Reading, executing and recording are separate database calls, so the    *)
(* API, another instance still finishing its turn, a failing call or a     *)
(* crash can come between any two of them.                                 *)
(*                                                                         *)
(* An operation is named by the slot of its run_at: operation o is due     *)
(* once the clock has reached o.  All operations are on one user; enable,  *)
(* disable and push of nodes and inbounds follow the same shape.           *)
(***************************************************************************)
EXTENDS Integers, Sequences, FiniteSets, SequencesExt

CONSTANTS
    MaxOps,      \* bound: operations, one per time slot
    Action,      \* what each operation does
    Masters,     \* instances whose scheduler loop runs
    Batch,       \* LIMIT of due_scheduled_ops (50)
    Grace,       \* slots a run_at may lie in the past when it is created
    MaxFaults,   \* bound: failing database calls
    MaxTurnCrashes,  \* bound: crashes of an instance
    MaxEdits     \* bound: edits of the user through the API

Ops == 1..MaxOps

ASSUME SchedulerAssumption ==
    /\ MaxOps \in Nat /\ Batch \in Nat \ {0} /\ Grace \in Nat
    /\ MaxFaults \in Nat /\ MaxTurnCrashes \in Nat /\ MaxEdits \in Nat
    /\ Action \in [Ops -> {"enable", "disable", "rotate-sub"}]

VARIABLES
    clock,     \* time slots that have begun
    status,    \* scheduled_operations.status
    user,      \* the row of the user
    loop,      \* where each instance is in its turn
    applied,   \* history: operations whose effect reached the database
    dropped,   \* history: operations canceled while no turn held their row
    edited,    \* history: the user's enabled flag was last set through the API
    faults, turnCrashes, edits

schedVars == <<clock, status, user, loop, applied, dropped, edited, faults, turnCrashes, edits>>
schedBounds == <<faults, turnCrashes, edits>>

Asleep == [pc |-> "asleep", todo |-> <<>>, outcome |-> "none"]

\* Every variable stays in its set.
SchedulerTypeOK ==
    /\ clock \in 0..MaxOps
    /\ status \in [Ops -> {"none", "pending", "done", "failed", "canceled"}]
    /\ user \in [there : BOOLEAN, enabled : BOOLEAN, token : Nat]
    /\ loop \in [Masters -> [pc : {"asleep", "execute", "mark"}, todo : Seq(Ops),
                             outcome : {"none", "done", "failed"}]]
    /\ \A m \in Masters : loop[m].pc # "asleep" <=> loop[m].todo # <<>>
    /\ applied \in [Ops -> Nat]
    /\ dropped \subseteq Ops
    /\ edited \in BOOLEAN
    /\ faults \in Nat /\ turnCrashes \in Nat /\ edits \in Nat

SchedInit ==
    /\ clock = 0
    /\ status = [o \in Ops |-> "none"]
    /\ user = [there |-> TRUE, enabled |-> TRUE, token |-> 0]
    /\ loop = [m \in Masters |-> Asleep]
    /\ applied = [o \in Ops |-> 0]
    /\ dropped = {}
    /\ edited = TRUE
    /\ faults = 0 /\ turnCrashes = 0 /\ edits = 0

------------------------------------------------------------------------------
(* The API                                                                   *)

SchedTick ==
    /\ clock < MaxOps
    /\ clock' = clock + 1
    /\ UNCHANGED <<status, user, loop, applied, dropped, edited, schedBounds>>

create_scheduled_op(o) ==
    /\ status[o] = "none"
    /\ o + Grace > clock
    /\ status' = [status EXCEPT ![o] = "pending"]
    /\ UNCHANGED <<clock, user, loop, applied, dropped, edited, schedBounds>>

cancel_scheduled_op(o) ==
    /\ status[o] = "pending"
    /\ status' = [status EXCEPT ![o] = "canceled"]
    /\ dropped' = IF \E m \in Masters : o \in Range(loop[m].todo)
                  THEN dropped ELSE dropped \cup {o}
    /\ UNCHANGED <<clock, user, loop, applied, edited, schedBounds>>

\* The operator sets the flag, or deletes the user.
EditUser(on) ==
    /\ user.there
    /\ edits < MaxEdits
    /\ edits' = edits + 1
    /\ user' = [user EXCEPT !.enabled = on]
    /\ edited' = TRUE
    /\ UNCHANGED <<clock, status, loop, applied, dropped, faults, turnCrashes>>

DeleteUser ==
    /\ user.there
    /\ edits < MaxEdits
    /\ edits' = edits + 1
    /\ user' = [user EXCEPT !.there = FALSE]
    /\ UNCHANGED <<clock, status, loop, applied, dropped, edited, faults, turnCrashes>>

------------------------------------------------------------------------------
(* The scheduler loop                                                        *)

\* Mutant: rows are read newest first.
due_scheduled_ops_latest ==
    LET due == {o \in Ops : status[o] = "pending" /\ o <= clock}
        s == SetToSortSeq(due, >)
    IN  SubSeq(s, 1, IF Len(s) < Batch THEN Len(s) ELSE Batch)

\* SELECT the pending rows whose time has come, ORDER BY run_at LIMIT Batch.
due_scheduled_ops ==
    LET due == {o \in Ops : status[o] = "pending" /\ o <= clock}
        s == SetToSortSeq(due, <)
    IN  SubSeq(s, 1, IF Len(s) < Batch THEN Len(s) ELSE Batch)

\* A turn of the loop begins; a turn that finds nothing, or whose scan fails,
\* ends at once.
Scan(m) ==
    /\ loop[m].pc = "asleep"
    /\ due_scheduled_ops # <<>>
    /\ loop' = [loop EXCEPT ![m] = [pc |-> "execute", todo |-> due_scheduled_ops,
                                    outcome |-> "none"]]
    /\ UNCHANGED <<clock, status, user, applied, dropped, edited, schedBounds>>

Effect(action) ==
    CASE action = "enable"     -> [user EXCEPT !.enabled = TRUE]
      [] action = "disable"    -> [user EXCEPT !.enabled = FALSE]
      [] action = "rotate-sub" -> [user EXCEPT !.token = @ + 1]

Outcome(m, result) ==
    loop' = [loop EXCEPT ![m].pc = "mark", ![m].outcome = result]

\* execute: the action itself, then the push of the user's nodes.  It fails
\* without effect when the user is gone or the update fails, and with its
\* effect when the nodes to push cannot be listed (rotate-sub pushes nothing).
execute(m) ==
    LET o == Head(loop[m].todo)
    IN  /\ loop[m].pc = "execute"
        /\ \/ /\ user.there
              /\ user' = Effect(Action[o])
              /\ applied' = [applied EXCEPT ![o] = @ + 1]
              /\ edited' = (edited /\ Action[o] = "rotate-sub")
              /\ \/ Outcome(m, "done") /\ faults' = faults
                 \/ /\ Action[o] # "rotate-sub"
                    /\ faults < MaxFaults
                    /\ Outcome(m, "failed") /\ faults' = faults + 1
           \/ /\ Outcome(m, "failed")
              /\ UNCHANGED <<user, applied, edited>>
              /\ \/ ~user.there /\ faults' = faults
                 \/ faults < MaxFaults /\ faults' = faults + 1
        /\ UNCHANGED <<clock, status, dropped, turnCrashes, edits>>

\* The next row of the batch, or the wait for the next tick.
Advance(m) ==
    LET rest == Tail(loop[m].todo)
    IN  IF rest = <<>> THEN Asleep
        ELSE [pc |-> "execute", todo |-> rest, outcome |-> "none"]

\* Mutant: only a success is recorded.
mark_done_only(m) ==
    LET o == Head(loop[m].todo)
    IN  /\ loop[m].pc = "mark"
        /\ status' = IF loop[m].outcome = "done"
                     THEN [status EXCEPT ![o] = "done"] ELSE status
        /\ loop' = [loop EXCEPT ![m] = Advance(m)]
        /\ UNCHANGED <<clock, user, applied, dropped, edited, schedBounds>>

\* The outcome is written whatever the row says by now; when the update fails
\* that is only logged and the row stays pending.
mark_scheduled_op(m) ==
    LET o == Head(loop[m].todo)
    IN  /\ loop[m].pc = "mark"
        /\ \/ /\ status' = [status EXCEPT ![o] = loop[m].outcome]
              /\ faults' = faults
           \/ /\ faults < MaxFaults
              /\ faults' = faults + 1
              /\ status' = status
        /\ loop' = [loop EXCEPT ![m] = Advance(m)]
        /\ UNCHANGED <<clock, user, applied, dropped, edited, turnCrashes, edits>>

CrashTurn(m) ==
    /\ loop[m].pc # "asleep"
    /\ turnCrashes < MaxTurnCrashes
    /\ turnCrashes' = turnCrashes + 1
    /\ loop' = [loop EXCEPT ![m] = Asleep]
    /\ UNCHANGED <<clock, status, user, applied, dropped, edited, faults, edits>>

------------------------------------------------------------------------------
Api ==
    \/ SchedTick \/ DeleteUser
    \/ \E o \in Ops : create_scheduled_op(o) \/ cancel_scheduled_op(o)
    \/ \E on \in BOOLEAN : EditUser(on)

Turn(m) == Scan(m) \/ execute(m) \/ mark_scheduled_op(m)

\* Everything scheduled has come due and been settled.
Finished ==
    /\ clock = MaxOps
    /\ \A m \in Masters : loop[m] = Asleep
    /\ \A o \in Ops : status[o] # "pending"
    /\ UNCHANGED schedVars

SchedNext ==
    \/ Api
    \/ \E m \in Masters : Turn(m) \/ CrashTurn(m)
    \/ Finished

SchedSpec == SchedInit /\ [][SchedNext]_schedVars

\* The loop's ticker fires for ever and each database call returns.
SchedFairness ==
    /\ WF_schedVars(SchedTick)
    /\ \A m \in Masters : WF_schedVars(Turn(m))

SchedFairSpec == SchedSpec /\ SchedFairness

------------------------------------------------------------------------------
(* Properties                                                                *)

Settled == \A m \in Masters : loop[m].pc = "asleep"

Switches == {o \in Ops : Action[o] # "rotate-sub"}

\* Between turns the user's flag is what the latest of the executed operations
\* says, in the order of their run_at, unless the API has set it since: batches,
\* their limit, crashes in the middle of a batch and cancels do not change the
\* order in which operations take effect.
LatestWins ==
    (Settled /\ ~edited) =>
        \E o \in Switches :
            /\ applied[o] > 0
            /\ user.enabled = (Action[o] = "enable")
            /\ \A p \in Switches : status[p] = "done" => p <= o

\* A cancel that comes before the turn has read the row holds for good: the
\* operation stays canceled and never takes effect.
CancelBeforeTurnHolds ==
    [][\A o \in dropped : status'[o] = "canceled" /\ applied'[o] = applied[o]]_schedVars

\* Every operation whose time has come is settled: it leaves the pending rows,
\* whatever crashes, and however small a batch is.
DueIsSettled ==
    \A o \in Ops :
        (status[o] = "pending" /\ o <= clock) ~> (status[o] # "pending")
==============================================================================

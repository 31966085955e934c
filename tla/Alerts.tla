------------------------------- MODULE Alerts -------------------------------
(***************************************************************************)
(* Operational alerts about one condition (one dedupe key) that persists:  *)
(* several tasks, of one or two masters, keep reporting it (notify.rs      *)
(* alert), a transaction under an advisory lock decides whether the report *)
(* is new (repo.rs record_system_notification), and a new one is sent to   *)
(* the channels.  When the database cannot answer, an in-memory limiter of *)
(* the process decides instead.  Time is kept as ages, capped where the    *)
(* code no longer tells them apart.                                        *)
(***************************************************************************)
EXTENDS Naturals

CONSTANTS
    Tasks,        \* tasks that report the condition
    Host,         \* Host[t]: the master process of the task
    COOLDOWN,     \* 30 minutes, in ticks
    MaxWait,      \* bound on the ticks a transaction is open
    MaxOutages,   \* bound on the failures of the database
    MaxCrashes    \* bound on the crashes of a master

Hosts == {Host[t] : t \in Tasks}
Forever == COOLDOWN + MaxWait
Nobody == "nobody"

ASSUME AlertsAssumption == COOLDOWN \in Nat /\ MaxWait \in Nat /\ Nobody \notin Tasks

VARIABLES
    task,       \* task -> [pc, open]: open is the age of its transaction
    lock,       \* the task that holds the advisory lock of the key
    newest,     \* age of the key's newest row by created_at, or Forever
    seen,       \* process -> age of its last fallback dispatch, or Forever
    sent,       \* a dispatch happened since the last tick
    tooSoon,    \* a row was inserted inside the cooldown of another
    outages, crashes

alertVars == <<task, lock, newest, seen, sent, tooSoon, outages, crashes>>

Resting == [pc |-> "rest", open |-> 0]
Ended == [pc |-> "ended", open |-> 0]

AlertInit ==
    /\ task = [t \in Tasks |-> Resting]
    /\ lock = Nobody
    /\ newest = Forever
    /\ seen = [h \in Hosts |-> Forever]
    /\ sent = FALSE
    /\ tooSoon = FALSE
    /\ outages = 0
    /\ crashes = 0

\* alert: the transaction begins; now() is its start for all its statements.
alert(t) ==
    /\ task[t].pc = "rest"
    /\ task' = [task EXCEPT ![t] = [pc |-> "lock", open |-> 0]]
    /\ UNCHANGED <<lock, newest, seen, sent, tooSoon, outages, crashes>>

\* Mutant: the check and the insert without the lock.
TakeLock_none(t) ==
    /\ task[t].pc = "lock"
    /\ task' = [task EXCEPT ![t].pc = "check"]
    /\ UNCHANGED <<lock, newest, seen, sent, tooSoon, outages, crashes>>

TakeLock(t) ==
    /\ task[t].pc = "lock" /\ lock = Nobody
    /\ lock' = t
    /\ task' = [task EXCEPT ![t].pc = "check"]
    /\ UNCHANGED <<newest, seen, sent, tooSoon, outages, crashes>>

\* created_at > now() - interval '30 minutes'
Recent(t) == newest < COOLDOWN + task[t].open

CheckRecent(t) ==
    /\ task[t].pc = "check"
    /\ task' = [task EXCEPT ![t].pc = IF Recent(t) THEN "update" ELSE "insert"]
    /\ UNCHANGED <<lock, newest, seen, sent, tooSoon, outages, crashes>>

Unlock(t) == lock' = IF lock = t THEN Nobody ELSE lock

\* Mutant: a repeated report starts the cooldown again.
CountOccurrence_restarts(t) ==
    /\ task[t].pc = "update"
    /\ Unlock(t)
    /\ task' = [task EXCEPT ![t] = Ended]
    /\ newest' = 0
    /\ UNCHANGED <<seen, sent, tooSoon, outages, crashes>>

\* The row of the cooldown counts one more occurrence; created_at stays.
CountOccurrence(t) ==
    /\ task[t].pc = "update"
    /\ Unlock(t)
    /\ task' = [task EXCEPT ![t] = Ended]
    /\ UNCHANGED <<newest, seen, sent, tooSoon, outages, crashes>>

\* The row goes in with the start of its transaction as created_at.
AddRow(t) ==
    /\ newest' = task[t].open
    /\ tooSoon' = (tooSoon \/ newest < COOLDOWN + task[t].open)

InsertRow(t) ==
    /\ task[t].pc = "insert"
    /\ Unlock(t)
    /\ AddRow(t)
    /\ task' = [task EXCEPT ![t].pc = "send"]
    /\ UNCHANGED <<seen, sent, outages, crashes>>

\* The transaction ends with an error, before or at its COMMIT; the commit may
\* have taken effect all the same.
DbFails(t) ==
    /\ task[t].pc \in {"lock", "check", "update", "insert"}
    /\ outages < MaxOutages
    /\ outages' = outages + 1
    /\ Unlock(t)
    /\ \/ task[t].pc = "insert" /\ AddRow(t)
       \/ UNCHANGED <<newest, tooSoon>>
    /\ task' = [task EXCEPT ![t].pc = "fallback"]
    /\ UNCHANGED <<seen, sent, crashes>>

\* The limiter of the process, asked only when the database gave no answer.
should_send_fallback(t) ==
    /\ task[t].pc = "fallback"
    /\ IF seen[Host[t]] < COOLDOWN
       THEN task' = [task EXCEPT ![t] = Ended] /\ UNCHANGED seen
       ELSE /\ task' = [task EXCEPT ![t].pc = "send"]
            /\ seen' = [seen EXCEPT ![Host[t]] = 0]
    /\ UNCHANGED <<lock, newest, sent, tooSoon, outages, crashes>>

\* dispatch: the channels are looked up, each send is a task of its own.
dispatch(t) ==
    /\ task[t].pc = "send"
    /\ sent' = TRUE
    /\ task' = [task EXCEPT ![t] = Ended]
    /\ UNCHANGED <<lock, newest, seen, tooSoon, outages, crashes>>

LookupFails(t) ==
    /\ task[t].pc = "send"
    /\ outages < MaxOutages
    /\ outages' = outages + 1
    /\ task' = [task EXCEPT ![t] = Ended]
    /\ UNCHANGED <<lock, newest, seen, sent, tooSoon, crashes>>

\* A master dies: its transactions roll back, its limiter is forgotten.
MasterRestarts(h) ==
    LET mine == {t \in Tasks : Host[t] = h}
    IN /\ crashes < MaxCrashes
       /\ crashes' = crashes + 1
       /\ task' = [t \in Tasks |-> IF t \in mine THEN Ended ELSE task[t]]
       /\ lock' = IF lock \in mine THEN Nobody ELSE lock
       /\ seen' = [seen EXCEPT ![h] = Forever]
       /\ UNCHANGED <<newest, sent, tooSoon, outages>>

Older(age) == IF age = Forever THEN Forever ELSE age + 1

\* Time passes; a loop that ended its turn comes round again.
AlertTick ==
    /\ \A t \in Tasks : task[t].pc # "rest" /\ task[t].open < MaxWait
    /\ task' = [t \in Tasks |->
                  IF task[t].pc = "ended" THEN Resting ELSE [task[t] EXCEPT !.open = @ + 1]]
    /\ newest' = Older(newest)
    /\ seen' = [h \in Hosts |-> Older(seen[h])]
    /\ sent' = FALSE
    /\ UNCHANGED <<lock, tooSoon, outages, crashes>>

AlertStep(t) ==
    \/ alert(t) \/ TakeLock(t) \/ CheckRecent(t) \/ CountOccurrence(t) \/ InsertRow(t)
    \/ should_send_fallback(t) \/ dispatch(t)

AlertNext ==
    \/ \E t \in Tasks : AlertStep(t) \/ DbFails(t) \/ LookupFails(t)
    \/ \E h \in Hosts : MasterRestarts(h)
    \/ AlertTick

\* Every task goes on, and so does time.
AlertFairness ==
    /\ \A t \in Tasks : WF_alertVars(AlertStep(t))
    /\ WF_alertVars(AlertTick)

AlertSpec == AlertInit /\ [][AlertNext]_alertVars /\ AlertFairness

\* A condition that persists does not spam: two rows of the key are never
\* less than the cooldown apart, although the check and the insert are two
\* statements of several tasks on several masters.
NoSpam == ~tooSoon

\* A condition that persists is reported again and again: no interleaving of
\* the reports, no number of repeated occurrences and no bounded number of
\* failures of the database or of the masters silences it for good.
ReportedAgain == (\E t \in Tasks : task[t].pc # "rest") ~> sent
=============================================================================

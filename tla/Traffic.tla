------------------------------- MODULE Traffic -------------------------------
(***************************************************************************)
(* Per-user traffic accounting, from the bytes a core carries to the row   *)
(* the quota is judged by.                                                 *)
(*                                                                         *)
(* On the node the agent keeps one cumulative counter per user for         *)
(* sing-box, saved to disk now and then and restored at start; native      *)
(* Hysteria's counts are collected into a second counter, which is only in *)
(* memory; Xray counts by itself, from zero in every new process.  A Stats *)
(* stream sends the current values, tagged with the epoch of the agent's   *)
(* saved file.  The master records each sample as a difference from the    *)
(* last one, inside a transaction that locks the user's row, and raises a  *)
(* push when a user crosses the limit.  A reset deletes the user's rows in *)
(* a transaction of its own.                                               *)
(*                                                                         *)
(* One node, one direction: up and down bytes go through the same          *)
(* arithmetic side by side.                                                *)
(***************************************************************************)
EXTENDS Integers, Sequences

CONSTANTS
    Users,       \* users of the node
    Collectors,  \* master instances with a Stats stream to the node
    Active,      \* the cores the node runs, of those the collector asks for
    Hysteria,    \* BOOLEAN: the node also serves native Hysteria
    Limit,       \* traffic_limit_bytes of every user; 0 is unlimited
    NoFile,      \* no saved counter file yet
    Free,        \* nobody holds the lock on the user's row
    MaxBytes,    \* bound: bytes counted per user, for each core
    MaxQueue,    \* bound: samples in flight on one stream
    MaxDrops,    \* bound: streams that broke or were given up
    MaxRestarts, \* bound: restarts of the agent
    MaxResets    \* bound: traffic resets

\* CORES of the collector; Hysteria's bytes travel in the sing-box sample.
Cores == {"singbox", "xray"}

Streams == Collectors \X Active

ASSUME ConstantsAssumption ==
    /\ Active \subseteq Cores
    /\ Hysteria \in BOOLEAN
    /\ Limit \in Nat /\ MaxBytes \in [Cores -> Nat] /\ MaxQueue \in Nat
    /\ MaxDrops \in Nat /\ MaxRestarts \in Nat /\ MaxResets \in Nat
    /\ Free \notin Streams /\ NoFile \notin Nat

VARIABLES
    acc,       \* userUp/userDown: the agent's cumulative counter for sing-box
    known,     \* users that have an entry in it
    disk,      \* honey-stats.json
    epoch,     \* statsEpoch
    polled,    \* sing-box has been polled since the agent started
    hy,        \* the Hysteria manager's counter
    xr,        \* Xray's counter
    stream,    \* the Stats streams and the loops that read them
    lock,      \* who holds the lock on a user's row
    row,       \* node_user_traffic
    used,      \* users.used_traffic_bytes
    hourly,    \* traffic_usage_hourly, summed over the buckets
    reset,     \* a reset_user_traffic in progress, per user
    offSpec,   \* users the last built specification left out
    counted,   \* history: bytes that entered a counter, never reset
    drops, restarts, resets

counters == <<acc, known, disk, epoch, polled, hy, xr>>
database == <<row, used, hourly, offSpec>>
bounds == <<drops, restarts, resets>>
vars == <<counters, counted, stream, lock, database, reset, bounds>>

\* "at" is a history field: the value of counted when the sample was taken.
Sample == [epoch : Nat, users : SUBSET Users,
           val : [Users -> Nat], at : [Users -> Nat]]
Row == [there : BOOLEAN, n : Nat, last : Nat, epoch : Nat, at : Nat]
StreamRec == [pc : {"closed", "wait", "record"}, up : BOOLEAN,
              queue : Seq(Sample), sample : Sample,
              todo : SUBSET Users, crossed : BOOLEAN]
Saved == [epoch : Nat \cup {NoFile}, acc : [Users -> Nat], known : SUBSET Users]

Zero == [u \in Users |-> 0]
NoRow == [there |-> FALSE, n |-> 0, last |-> 0, epoch |-> 0, at |-> 0]
NoSample == [epoch |-> 0, users |-> {}, val |-> Zero, at |-> Zero]
Closed == [pc |-> "closed", up |-> FALSE, queue |-> <<>>, sample |-> NoSample,
           todo |-> {}, crossed |-> FALSE]

\* Every variable stays in its set: in particular a stored counter is always a
\* natural number (traffic_delta never subtracts below zero).
TypeOK ==
    /\ known \subseteq Users /\ offSpec \subseteq Users
    /\ acc \in [Users -> Nat] /\ hy \in [Users -> Nat] /\ xr \in [Users -> Nat]
    /\ disk \in Saved
    /\ epoch \in Nat /\ polled \in BOOLEAN
    /\ stream \in [Streams -> StreamRec]
    /\ lock \in [Users -> Streams \cup {Free}]
    /\ row \in [Users -> [Cores -> Row]]
    /\ used \in [Users -> Nat]
    /\ hourly \in [Users -> [Cores -> Nat]]
    /\ reset \in [Users -> [pc : {"idle", "deleted", "push"}, rows : SUBSET Cores]]
    /\ counted \in [Users -> [Cores -> Nat]]
    /\ drops \in Nat /\ restarts \in Nat /\ resets \in Nat

Init ==
    /\ acc = Zero /\ known = {} /\ hy = Zero /\ xr = Zero
    /\ disk = [epoch |-> NoFile, acc |-> Zero, known |-> {}]
    /\ epoch = 1 /\ polled = FALSE
    /\ stream = [k \in Streams |-> Closed]
    /\ lock = [u \in Users |-> Free]
    /\ row = [u \in Users |-> [c \in Cores |-> NoRow]]
    /\ used = Zero
    /\ hourly = [u \in Users |-> [c \in Cores |-> 0]]
    /\ reset = [u \in Users |-> [pc |-> "idle", rows |-> {}]]
    /\ offSpec = {}
    /\ counted = [u \in Users |-> [c \in Cores |-> 0]]
    /\ drops = 0 /\ restarts = 0 /\ resets = 0

------------------------------------------------------------------------------
(* The node: counters, the saved file and restarts                           *)

Count(u, c, n) ==
    /\ counted[u][c] + n <= MaxBytes[c]
    /\ counted' = [counted EXCEPT ![u][c] = @ + n]

\* store.Save writes a whole new file and renames it, or fails.
Save(bytes, entries) ==
    \/ disk' = [epoch |-> epoch, acc |-> bytes, known |-> entries]
    \/ disk' = disk

\* hy.Poll collects a byte of u from native Hysteria.
PollHysteria(u) ==
    /\ Hysteria
    /\ Count(u, "singbox", 1)
    /\ hy' = [hy EXCEPT ![u] = @ + 1]
    /\ UNCHANGED <<acc, known, disk, epoch, polled, xr, stream, lock, database,
                   reset, bounds>>

\* sb.Poll finds n new bytes on the connections of u; the turn of
\* accountingLoop then hands the counters to the store and saves it, on the
\* turns a save is due.  When the Clash API does not answer, nothing of this
\* happens.
PollSingbox(u, n) ==
    /\ "singbox" \in Active
    /\ Count(u, "singbox", n)
    /\ acc' = [acc EXCEPT ![u] = @ + n]
    /\ known' = known \cup {u}
    /\ polled' = TRUE
    /\ Save(acc', known')
    /\ UNCHANGED <<epoch, hy, xr, stream, lock, database, reset, bounds>>

\* The same with no connection open.
PollIdle ==
    /\ "singbox" \in Active
    /\ polled' = TRUE
    /\ Save(acc, known)
    /\ UNCHANGED <<acc, known, epoch, hy, xr, counted, stream, lock, database,
                   reset, bounds>>

CountXray(u) ==
    /\ "xray" \in Active
    /\ Count(u, "xray", 1)
    /\ xr' = [xr EXCEPT ![u] = @ + 1]
    /\ UNCHANGED <<acc, known, disk, epoch, polled, hy, stream, lock, database,
                   reset, bounds>>

Hung(k) == [stream[k] EXCEPT !.up = FALSE]

\* The agent stops, after a last Save or without one, and starts again from the
\* saved file; a file that was never written leaves a new epoch.  The cores die
\* and start with it.  Hysteria's counter is not part of the file.
AgentRestart(graceful) ==
    /\ restarts < MaxRestarts
    /\ IF graceful THEN Save(acc, known) ELSE disk' = disk
    /\ acc' = disk'.acc /\ known' = disk'.known
    /\ epoch' = IF disk'.epoch = NoFile THEN epoch + 1 ELSE disk'.epoch
    /\ polled' = FALSE
    /\ hy' = Zero /\ xr' = Zero
    /\ stream' = [k \in Streams |-> Hung(k)]
    /\ restarts' = restarts + 1
    /\ UNCHANGED <<counted, lock, database, reset, drops, resets>>

\* Xray restarts alone, on a push: its counters start from zero and the stream
\* that was reading them ends.
XrayRestart ==
    /\ "xray" \in Active
    /\ xr' = Zero
    /\ stream' = [k \in Streams |-> IF k[2] = "xray" THEN Hung(k) ELSE stream[k]]
    /\ UNCHANGED <<acc, known, disk, epoch, polled, hy, counted, lock, database,
                   reset, bounds>>

------------------------------------------------------------------------------
(* The Stats streams and the collector                                       *)

\* The sing-box manager's cached sample is empty until its first poll; the
\* native counters are merged into it whatever it holds.
Value(u, c) ==
    IF c = "xray" THEN xr[u]
    ELSE (IF polled /\ u \in known THEN acc[u] ELSE 0) + hy[u]

Listed(c) ==
    IF c = "xray" THEN {u \in Users : xr[u] > 0}
    ELSE (IF polled THEN known ELSE {}) \cup {u \in Users : hy[u] > 0}

Subscribe(k) ==
    /\ stream[k].pc = "closed"
    /\ stream' = [stream EXCEPT ![k] = [Closed EXCEPT !.pc = "wait", !.up = TRUE]]
    /\ UNCHANGED <<counters, lock, database, counted, reset, bounds>>

Send(k) ==
    LET s == [epoch |-> epoch, users |-> Listed(k[2]),
              val |-> [u \in Users |-> Value(u, k[2])],
              at |-> [u \in Users |-> counted[u][k[2]]]]
    IN  /\ stream[k].up
        /\ Len(stream[k].queue) < MaxQueue
        /\ stream' = [stream EXCEPT ![k].queue = Append(@, s)]
        /\ UNCHANGED <<counters, lock, database, counted, reset, bounds>>

\* The connection breaks: samples already delivered are still read, or lost
\* with it.
Break(k) ==
    /\ stream[k].up
    /\ drops < MaxDrops
    /\ drops' = drops + 1
    /\ \E q \in {stream[k].queue, <<>>} :
          stream' = [stream EXCEPT ![k].up = FALSE, ![k].queue = q]
    /\ UNCHANGED <<counters, lock, database, counted, reset, restarts,
                   resets>>

Receive(k) ==
    /\ stream[k].pc = "wait"
    /\ IF stream[k].queue # <<>>
       THEN stream' = [stream EXCEPT ![k].pc = "record",
                                     ![k].sample = Head(stream[k].queue),
                                     ![k].todo = Head(stream[k].queue).users,
                                     ![k].crossed = FALSE,
                                     ![k].queue = Tail(@)]
       ELSE ~stream[k].up /\ stream' = [stream EXCEPT ![k] = Closed]
    /\ UNCHANGED <<counters, lock, database, counted, reset, bounds>>

Holds(k) == {u \in Users : lock[u] = k}

\* record_traffic begins: SELECT ... FROM users ... FOR UPDATE.
LockUser(k, u) ==
    /\ stream[k].pc = "record" /\ u \in stream[k].todo
    /\ Holds(k) = {}
    /\ lock[u] = Free
    /\ lock' = [lock EXCEPT ![u] = k]
    /\ UNCHANGED <<counters, stream, database, counted, reset, bounds>>

\* Mutant: a counter that went down is taken for one that started from zero.
traffic_delta_from_zero(r, e, cur) ==
    IF ~r.there \/ r.epoch # e THEN 0
    ELSE IF cur >= r.last THEN cur - r.last ELSE cur

\* Mutant: the difference is not filtered to be non-negative.
traffic_delta_signed(r, e, cur) ==
    IF ~r.there \/ r.epoch # e THEN 0 ELSE cur - r.last

traffic_delta(r, e, cur) ==
    IF r.there /\ r.epoch = e /\ cur >= r.last THEN cur - r.last ELSE 0

Total(rows) == rows["singbox"].n + rows["xray"].n

\* Mutant: the crossing is tested with a strict comparison.
crosses_beyond(before, after) ==
    Limit > 0 /\ before <= Limit /\ after > Limit

crosses(before, after) ==
    Limit > 0 /\ before < Limit /\ after >= Limit

\* The rest of record_traffic, to its commit: the row becomes the new baseline
\* whatever the difference, the hourly bucket grows by it, and the user's total
\* is recomputed from the rows.  It waits while a reset is deleting the row.
record_traffic(k) ==
    \E u \in Holds(k) :
        LET c == k[2]
            s == stream[k].sample
            delta == traffic_delta(row[u][c], s.epoch, s.val[u])
            new == [there |-> TRUE, n |-> row[u][c].n + delta, last |-> s.val[u],
                    epoch |-> s.epoch, at |-> s.at[u]]
            rows == [row[u] EXCEPT ![c] = new]
        IN  /\ c \notin reset[u].rows
            /\ row' = [row EXCEPT ![u] = rows]
            /\ hourly' = [hourly EXCEPT ![u][c] = @ + delta]
            /\ used' = [used EXCEPT ![u] = Total(rows)]
            /\ lock' = [lock EXCEPT ![u] = Free]
            /\ stream' = [stream EXCEPT
                  ![k].todo = @ \ {u},
                  ![k].crossed = @ \/ crosses(used[u], Total(rows))]
            /\ UNCHANGED <<counters, offSpec, counted, reset, bounds>>

\* User::is_active, as far as traffic decides it.
Over == {u \in Users : Limit > 0 /\ used[u] >= Limit}

\* All users of the sample are recorded: push when one crossed the limit.  A
\* push that fails ends the stream.
FinishSample(k) ==
    /\ stream[k].pc = "record" /\ stream[k].todo = {}
    /\ \/ /\ offSpec' = IF stream[k].crossed THEN Over ELSE offSpec
          /\ stream' = [stream EXCEPT ![k].pc = "wait", ![k].sample = NoSample,
                                       ![k].crossed = FALSE]
          /\ drops' = drops
       \/ /\ stream[k].crossed /\ drops < MaxDrops
          /\ stream' = [stream EXCEPT ![k] = Closed]
          /\ drops' = drops + 1
          /\ offSpec' = offSpec
    /\ UNCHANGED <<counters, lock, row, used, hourly, counted, reset,
                   restarts, resets>>

\* The error path of subscribe: the loop is left at once, rolling back the
\* transaction it was in.
Abandon(k) ==
    /\ stream' = [stream EXCEPT ![k] = Closed]
    /\ lock' = [u \in Users |-> IF lock[u] = k THEN Free ELSE lock[u]]

\* A query of the loop fails while users of the sample are still to be recorded.
RecordFails(k) ==
    /\ stream[k].pc = "record" /\ stream[k].todo # {}
    /\ drops < MaxDrops
    /\ drops' = drops + 1
    /\ Abandon(k)
    /\ UNCHANGED <<counters, database, counted, reset, restarts, resets>>

------------------------------------------------------------------------------
(* Resets and the reconcile loop                                             *)

\* reset_user_traffic: DELETE locks the rows there are ...
ResetDelete(u) ==
    /\ reset[u].pc = "idle"
    /\ resets < MaxResets
    /\ resets' = resets + 1
    /\ reset' = [reset EXCEPT ![u] = [pc |-> "deleted",
                                      rows |-> {c \in Cores : row[u][c].there}]]
    /\ UNCHANGED <<counters, stream, lock, database, counted, drops,
                   restarts>>

\* Mutant: the reset deletes the rows and leaves the user's total.
ResetCommitRowsOnly(u) ==
    /\ reset[u].pc = "deleted"
    /\ lock[u] = Free
    /\ row' = [row EXCEPT ![u] = [c \in Cores |->
                  IF c \in reset[u].rows THEN NoRow ELSE row[u][c]]]
    /\ used' = used
    /\ reset' = [reset EXCEPT ![u] = [pc |-> "push", rows |-> {}]]
    /\ UNCHANGED <<counters, stream, lock, hourly, offSpec, counted,
                   bounds>>

\* ... and the UPDATE of the user's row waits for its lock, then both commit.
ResetCommit(u) ==
    /\ reset[u].pc = "deleted"
    /\ lock[u] = Free
    /\ row' = [row EXCEPT ![u] = [c \in Cores |->
                  IF c \in reset[u].rows THEN NoRow ELSE row[u][c]]]
    /\ used' = [used EXCEPT ![u] = 0]
    /\ reset' = [reset EXCEPT ![u] = [pc |-> "push", rows |-> {}]]
    /\ UNCHANGED <<counters, stream, lock, hourly, offSpec, counted,
                   bounds>>

\* record_traffic holds the user's row and wants a row the reset has deleted;
\* the reset wants the user's row.  PostgreSQL aborts one of the two.
DeadlockAborted(u) ==
    /\ \E k \in Streams : lock[u] = k /\ k[2] \in reset[u].rows
    /\ \/ /\ drops < MaxDrops /\ drops' = drops + 1
          /\ Abandon(lock[u])
          /\ reset' = reset
       \/ /\ reset' = [reset EXCEPT ![u] = [pc |-> "idle", rows |-> {}]]
          /\ UNCHANGED <<stream, lock, drops>>
    /\ UNCHANGED <<counters, database, counted, restarts, resets>>

\* Every caller of reset_user_traffic pushes the user's nodes afterwards.
ResetPush(u) ==
    /\ reset[u].pc = "push"
    /\ offSpec' = Over
    /\ reset' = [reset EXCEPT ![u] = [pc |-> "idle", rows |-> {}]]
    /\ UNCHANGED <<counters, stream, lock, row, used, hourly, counted,
                   bounds>>

\* The reconcile loop pushes when the built specification differs.
Reconcile ==
    /\ offSpec # Over
    /\ offSpec' = Over
    /\ UNCHANGED <<counters, stream, lock, row, used, hourly, counted, reset, bounds>>

------------------------------------------------------------------------------
Node ==
    \/ \E u \in Users :
          \/ CountXray(u) \/ PollHysteria(u)
          \/ \E n \in 0..1 : PollSingbox(u, n)
    \/ PollIdle
    \/ \E graceful \in BOOLEAN : AgentRestart(graceful)
    \/ XrayRestart

Collect(k) ==
    \/ Subscribe(k) \/ Send(k) \/ Break(k) \/ Receive(k)
    \/ \E u \in Users : LockUser(k, u)
    \/ record_traffic(k) \/ FinishSample(k) \/ RecordFails(k)

Reset(u) == ResetDelete(u) \/ ResetCommit(u) \/ DeadlockAborted(u) \/ ResetPush(u)

Next ==
    \/ Node
    \/ \E k \in Streams : Collect(k)
    \/ \E u \in Users : Reset(u)
    \/ Reconcile

Spec == Init /\ [][Next]_vars

------------------------------------------------------------------------------
(* Properties                                                                *)

\* No byte is billed twice: what record_traffic has ever added for a user and a
\* core, over restarts of the agent and of the core, broken and reopened
\* streams and resets, is at most what the node's cores measured for that user.
NeverOverbills ==
    \A u \in Users, c \in Cores : hourly[u][c] <= counted[u][c]

\* The user's total never exceeds the rows it is computed from, so a reset that
\* races with samples cannot leave a user over a quota they have not used.
TotalHasRows ==
    \A u \in Users : used[u] <= Total(row[u])

\* A user at or over the limit is off the pushed specification, or a push that
\* will take them off is under way: the crossing is seen by exactly the
\* record_traffic that causes it, even when both cores' streams and a reset
\* work on the user at once.  A stream that broke or a push that failed leaves
\* it to the reconcile loop.
CrossingIsPushed ==
    drops = 0 => \A u \in Over \ offSpec :
        \/ \E k \in DOMAIN stream : stream[k].crossed
        \/ reset[u].pc = "push"
==============================================================================

--------------------------- MODULE TrafficProofs ----------------------------
(***************************************************************************)
(* Type correctness of Traffic, and its billing: with one collector and    *)
(* without native Hysteria no byte is ever billed twice, whatever the      *)
(* users, the limit and the bounds are. A user's total is never more than  *)
(* the rows hold, and a sample that crosses the limit leads to a push.     *)
(*                                                                         *)
(* A counter is not monotone: the saved file may be older than the last    *)
(* sample and Xray starts from zero. What is monotone is the history       *)
(* variable counted, and along the path a value takes (the present, the    *)
(* samples in flight, the sample being recorded, the row) a later value    *)
(* exceeds an earlier one by at most what was counted in between.          *)
(***************************************************************************)
EXTENDS Traffic, TLAPS, SequenceTheorems

(* Type correctness. *)

\* The empty values have their types.
LEMMA NothingTyped ==
    /\ Zero \in [Users -> Nat] /\ NoSample \in Sample /\ Closed \in StreamRec
    /\ NoRow \in Row
<1>1. Zero \in [Users -> Nat]  BY Zenon DEF Zero
<1>2. NoSample \in Sample  BY <1>1, Zenon DEF NoSample, Sample
<1>3. <<>> \in Seq(Sample)  OBVIOUS
<1>4. Closed \in StreamRec  BY <1>2, <1>3, Zenon DEF Closed, StreamRec
<1> QED  BY <1>1, <1>2, <1>4, Zenon DEF NoRow, Row

\* The initial state is typed.
LEMMA InitTyped == Init => TypeOK
<1> SUFFICES ASSUME Init PROVE TypeOK  BY Zenon
<1> USE NothingTyped DEF Init
<1>1. stream \in [Streams -> StreamRec]  BY Zenon
<1>2. disk \in Saved  BY Zenon DEF Saved
<1>3. row \in [Users -> [Cores -> Row]]  BY Zenon
<1> QED  BY <1>1, <1>2, <1>3, Zenon DEF TypeOK

\* A stream an agent restart or a broken connection hangs up stays a stream.
LEMMA StreamTyped ==
    ASSUME TypeOK, NEW k \in Streams
    PROVE  /\ stream \in [Streams -> StreamRec]
           /\ stream[k] \in StreamRec
           /\ Hung(k) \in StreamRec
           /\ [stream EXCEPT ![k] = Closed] \in [Streams -> StreamRec]
<1>1. stream \in [Streams -> StreamRec]  BY Zenon DEF TypeOK
<1>2. stream[k] \in StreamRec  BY <1>1, Zenon
<1>3. Hung(k) \in StreamRec  BY <1>2, Zenon DEF Hung, StreamRec
<1> QED  BY <1>1, <1>2, <1>3, NothingTyped, Zenon

\* Counting bytes keeps the measured amounts natural.
LEMMA CountTyped ==
    ASSUME TypeOK, NEW u \in Users, NEW c \in Cores, NEW n \in Nat, Count(u, c, n)
    PROVE  counted' \in [Users -> [Cores -> Nat]]
BY DEF Count, TypeOK

\* Giving up a stream releases its lock and closes it.
LEMMA AbandonTyped ==
    ASSUME TypeOK, NEW k \in Streams, Abandon(k)
    PROVE  /\ stream' \in [Streams -> StreamRec]
           /\ lock' \in [Users -> Streams \cup {Free}]
BY StreamTyped, Zenon DEF Abandon, TypeOK

\* A sample the agent sends is well typed.
LEMMA SendTyped ==
    ASSUME TypeOK, NEW k \in Streams, Send(k)
    PROVE  stream' \in [Streams -> StreamRec]
<1> DEFINE s == [epoch |-> epoch, users |-> Listed(k[2]),
                 val |-> [u \in Users |-> Value(u, k[2])],
                 at |-> [u \in Users |-> counted[u][k[2]]]]
<1>1. k[2] \in Cores  BY ConstantsAssumption, Zenon DEF Streams
<1>2. Listed(k[2]) \subseteq Users  BY Zenon DEF Listed, TypeOK
<1>3. \A u \in Users : Value(u, k[2]) \in Nat  BY DEF Value, TypeOK
<1>4. s \in Sample  BY <1>1, <1>2, <1>3 DEF Sample, TypeOK
<1>5. stream[k] \in StreamRec /\ stream \in [Streams -> StreamRec]  BY Zenon DEF TypeOK
<1>6. Append(stream[k].queue, s) \in Seq(Sample)  BY <1>4, <1>5 DEF StreamRec
<1>7. [stream[k] EXCEPT !.queue = Append(stream[k].queue, s)] \in StreamRec
  BY <1>5, <1>6, Zenon DEF StreamRec
<1>8. stream' = [stream EXCEPT ![k] =
                    [stream[k] EXCEPT !.queue = Append(stream[k].queue, s)]]
  BY <1>5, Zenon DEF Send
<1> QED  BY <1>5, <1>7, <1>8, Zenon

\* Taking the next sample off a stream keeps its type.
LEMMA ReceiveTyped ==
    ASSUME TypeOK, NEW k \in Streams, Receive(k)
    PROVE  stream' \in [Streams -> StreamRec]
<1>1. stream[k] \in StreamRec /\ stream \in [Streams -> StreamRec]  BY Zenon DEF TypeOK
<1>2. CASE stream[k].queue # <<>>
  <2> DEFINE q == stream[k].queue
             r == [stream[k] EXCEPT !.pc = "record", !.sample = Head(q),
                                    !.todo = Head(q).users, !.crossed = FALSE,
                                    !.queue = Tail(q)]
  <2>1. q \in Seq(Sample)  BY <1>1, Zenon DEF StreamRec
  <2>2. Head(q) \in Sample /\ Tail(q) \in Seq(Sample)  BY <2>1, <1>2
  <2>3. Head(q).users \subseteq Users  BY <2>2, Zenon DEF Sample
  <2>4. r \in StreamRec  BY <1>1, <2>2, <2>3, Zenon DEF StreamRec
  <2>5. stream' = [stream EXCEPT ![k] = r]  BY <1>1, <1>2, Zenon DEF Receive
  <2> QED  BY <1>1, <2>4, <2>5, Zenon
<1>3. CASE stream[k].queue = <<>>
  BY <1>1, <1>3, NothingTyped, Zenon DEF Receive
<1> QED  BY <1>2, <1>3, Zenon

\* Finishing a sample keeps the type of its stream.
LEMMA FinishTyped ==
    ASSUME TypeOK, NEW k \in Streams, FinishSample(k)
    PROVE  stream' \in [Streams -> StreamRec]
<1> DEFINE r == [stream[k] EXCEPT !.pc = "wait", !.sample = NoSample,
                                  !.crossed = FALSE]
<1>1. stream[k] \in StreamRec /\ stream \in [Streams -> StreamRec]  BY Zenon DEF TypeOK
<1>2. r \in StreamRec  BY <1>1, NothingTyped, Zenon DEF StreamRec
<1>3. stream' = [stream EXCEPT ![k] = r] \/ stream' = [stream EXCEPT ![k] = Closed]
  BY <1>1, Zenon DEF FinishSample
<1> QED  BY <1>1, <1>2, <1>3, NothingTyped, Zenon

\* traffic_delta is never negative.
LEMMA DeltaTyped ==
    ASSUME NEW r \in Row, NEW e \in Nat, NEW cur \in Nat
    PROVE  traffic_delta(r, e, cur) \in Nat
BY DEF traffic_delta, Row

\* record_traffic writes well-typed rows and totals.
LEMMA RecordTyped ==
    ASSUME TypeOK, NEW k \in Streams, record_traffic(k)
    PROVE  TypeOK'
<1> DEFINE c == k[2]
           s == stream[k].sample
           delta(u) == traffic_delta(row[u][c], s.epoch, s.val[u])
           new(u) == [there |-> TRUE, n |-> row[u][c].n + delta(u),
                      last |-> s.val[u], epoch |-> s.epoch, at |-> s.at[u]]
           rows(u) == [row[u] EXCEPT ![c] = new(u)]
<1>1. PICK u \in Users :
        /\ row' = [row EXCEPT ![u] = rows(u)]
        /\ hourly' = [hourly EXCEPT ![u][c] = @ + delta(u)]
        /\ used' = [used EXCEPT ![u] = Total(rows(u))]
        /\ lock' = [lock EXCEPT ![u] = Free]
        /\ stream' = [stream EXCEPT ![k].todo = @ \ {u},
                         ![k].crossed = @ \/ crosses(used[u], Total(rows(u)))]
        /\ UNCHANGED <<counters, offSpec, counted, reset, bounds>>
  BY Zenon DEF record_traffic, Holds
<1>2. c \in Cores  BY ConstantsAssumption, Zenon DEF Streams
<1>3. stream[k] \in StreamRec /\ stream \in [Streams -> StreamRec]  BY Zenon DEF TypeOK
<1>4. s.epoch \in Nat /\ s.val[u] \in Nat /\ s.at[u] \in Nat
  BY <1>3, Zenon DEF StreamRec, Sample
<1>5. row[u] \in [Cores -> Row]  BY Zenon DEF TypeOK
<1>6. delta(u) \in Nat  BY <1>2, <1>4, <1>5, DeltaTyped, Zenon
<1>7. new(u) \in Row  BY <1>2, <1>4, <1>5, <1>6 DEF Row
<1>8. rows(u) \in [Cores -> Row]  BY <1>2, <1>5, <1>7, Zenon
<1>9. Total(rows(u)) \in Nat  BY <1>8 DEF Total, Cores, Row
<1>10. (stream[k].crossed \/ crosses(used[u], Total(rows(u)))) \in BOOLEAN
  BY Zenon
<1>11. stream' \in [Streams -> StreamRec]
  <2> DEFINE r == [stream[k] EXCEPT !.todo = stream[k].todo \ {u},
                     !.crossed = stream[k].crossed
                                 \/ crosses(used[u], Total(rows(u)))]
  <2>1. r \in StreamRec  BY <1>3, <1>10, Zenon DEF StreamRec
  <2>2. stream' = [stream EXCEPT ![k] = r]  BY <1>1, <1>3, Zenon
  <2> QED  BY <1>3, <2>1, <2>2, Zenon
<1>12. row' \in [Users -> [Cores -> Row]]  BY <1>1, <1>8, Zenon DEF TypeOK
<1>13. hourly' \in [Users -> [Cores -> Nat]]  BY <1>1, <1>2, <1>6, SMTT(40) DEF TypeOK
<1>14. used' \in [Users -> Nat]  BY <1>1, <1>9, Zenon DEF TypeOK
<1>15. lock' \in [Users -> Streams \cup {Free}]  BY <1>1, Zenon DEF TypeOK
<1> QED  BY <1>1, <1>11, <1>12, <1>13, <1>14, <1>15, Zenon DEF TypeOK, counters, bounds

\* Every action keeps every variable in its set.
LEMMA TypeStep == TypeOK /\ [Next]_vars => TypeOK'
<1> SUFFICES ASSUME TypeOK, [Next]_vars PROVE TypeOK'  BY Zenon
<1> USE ConstantsAssumption
<1>t. stream \in [Streams -> StreamRec]  BY Zenon DEF TypeOK
<1>1. CASE UNCHANGED vars
  BY <1>1, Zenon DEF TypeOK, vars, counters, database, bounds
<1>2. ASSUME NEW u \in Users, PollHysteria(u) PROVE TypeOK'
  <2>1. counted' \in [Users -> [Cores -> Nat]]
    BY <1>2, CountTyped, Zenon DEF PollHysteria, Cores
  <2>2. hy' \in [Users -> Nat]  BY <1>2 DEF PollHysteria, TypeOK
  <2> QED  BY <1>2, <2>1, <2>2, Zenon DEF PollHysteria, TypeOK, database, bounds
<1>3. ASSUME NEW u \in Users, NEW n \in 0..1, PollSingbox(u, n) PROVE TypeOK'
  <2>1. counted' \in [Users -> [Cores -> Nat]]
    BY <1>3, CountTyped DEF PollSingbox, Cores
  <2>2. acc' \in [Users -> Nat] /\ known' \subseteq Users
    BY <1>3 DEF PollSingbox, TypeOK
  <2>3. disk' \in Saved
    BY <1>3, <2>2 DEF PollSingbox, Save, TypeOK, Saved
  <2>4. polled' \in BOOLEAN  BY <1>3, Zenon DEF PollSingbox
  <2> QED  BY <1>3, <2>1, <2>2, <2>3, <2>4, Zenon DEF PollSingbox, TypeOK, database, bounds
<1>4. ASSUME PollIdle PROVE TypeOK'
  <2>1. disk' \in Saved  BY <1>4 DEF PollIdle, Save, TypeOK, Saved
  <2>2. polled' \in BOOLEAN  BY <1>4, Zenon DEF PollIdle
  <2> QED  BY <1>4, <2>1, <2>2, Zenon DEF PollIdle, TypeOK, database, bounds
<1>5. ASSUME NEW u \in Users, CountXray(u) PROVE TypeOK'
  <2>1. counted' \in [Users -> [Cores -> Nat]]
    BY <1>5, CountTyped, Zenon DEF CountXray, Cores
  <2>2. xr' \in [Users -> Nat]  BY <1>5 DEF CountXray, TypeOK
  <2> QED  BY <1>5, <2>1, <2>2, Zenon DEF CountXray, TypeOK, database, bounds
<1>6. ASSUME NEW graceful \in BOOLEAN, AgentRestart(graceful) PROVE TypeOK'
  <2>1. disk' \in Saved  BY <1>6 DEF AgentRestart, Save, TypeOK, Saved
  <2>2. acc' \in [Users -> Nat] /\ known' \subseteq Users
    BY <1>6, <2>1, Zenon DEF AgentRestart, Saved
  <2>3. epoch' \in Nat  BY <1>6, <2>1 DEF AgentRestart, Saved, TypeOK
  <2>4. polled' \in BOOLEAN  BY <1>6, Zenon DEF AgentRestart
  <2>5. stream' \in [Streams -> StreamRec]
    BY <1>6, StreamTyped, Zenon DEF AgentRestart
  <2>6. hy' \in [Users -> Nat] /\ xr' \in [Users -> Nat]
    BY <1>6, NothingTyped, Zenon DEF AgentRestart
  <2> QED  BY <1>6, <2>1, <2>2, <2>3, <2>4, <2>5, <2>6
           DEF AgentRestart, TypeOK, database
<1>7. ASSUME XrayRestart PROVE TypeOK'
  <2>1. stream' \in [Streams -> StreamRec]
    BY <1>7, <1>t, StreamTyped, Zenon DEF XrayRestart
  <2> QED  BY <1>7, <2>1, NothingTyped, Zenon DEF XrayRestart, TypeOK, database, bounds
<1>8. ASSUME NEW k \in Streams, Subscribe(k) PROVE TypeOK'
  <2>1. [Closed EXCEPT !.pc = "wait", !.up = TRUE] \in StreamRec
    BY NothingTyped, Zenon DEF StreamRec
  <2>2. stream' \in [Streams -> StreamRec]  BY <1>8, <1>t, <2>1, Zenon DEF Subscribe
  <2> QED  BY <1>8, <2>2, Zenon DEF Subscribe, TypeOK, counters, database, bounds
<1>9. ASSUME NEW k \in Streams, Send(k) PROVE TypeOK'
  <2>1. stream' \in [Streams -> StreamRec]  BY <1>9, SendTyped, Zenon
  <2> QED  BY <1>9, <2>1, Zenon DEF Send, TypeOK, counters, database, bounds
<1>10. ASSUME NEW k \in Streams, Break(k) PROVE TypeOK'
  <2>1. PICK q \in {stream[k].queue, <<>>} :
           stream' = [stream EXCEPT ![k].up = FALSE, ![k].queue = q]
    BY <1>10, Zenon DEF Break
  <2>2. stream[k] \in StreamRec  BY <1>t, Zenon
  <2>3. q \in Seq(Sample)
    <3>1. stream[k].queue \in Seq(Sample)  BY <2>2, Zenon DEF StreamRec
    <3>2. <<>> \in Seq(Sample)  OBVIOUS
    <3> QED  BY <3>1, <3>2, Zenon
  <2>4. [stream[k] EXCEPT !.up = FALSE, !.queue = q] \in StreamRec
    BY <2>2, <2>3, Zenon DEF StreamRec
  <2>5. stream' = [stream EXCEPT ![k] = [stream[k] EXCEPT !.up = FALSE, !.queue = q]]
    BY <2>1, <1>t, Zenon
  <2>6. stream' \in [Streams -> StreamRec]  BY <1>t, <2>4, <2>5, Zenon
  <2> QED  BY <1>10, <2>6 DEF Break, TypeOK, counters, database
<1>11. ASSUME NEW k \in Streams, Receive(k) PROVE TypeOK'
  <2>1. stream' \in [Streams -> StreamRec]  BY <1>11, ReceiveTyped, Zenon
  <2> QED  BY <1>11, <2>1, Zenon DEF Receive, TypeOK, counters, database, bounds
<1>12. ASSUME NEW k \in Streams, NEW u \in Users, LockUser(k, u) PROVE TypeOK'
  BY <1>12, Zenon DEF LockUser, TypeOK, counters, database, bounds
<1>13. ASSUME NEW k \in Streams, record_traffic(k) PROVE TypeOK'
  BY <1>13, RecordTyped, Zenon
<1>14. ASSUME NEW k \in Streams, FinishSample(k) PROVE TypeOK'
  <2>1. stream' \in [Streams -> StreamRec]  BY <1>14, FinishTyped, Zenon
  <2>2. offSpec' \subseteq Users  BY <1>14, Zenon DEF FinishSample, Over, TypeOK
  <2>3. drops' \in Nat  BY <1>14 DEF FinishSample, TypeOK
  <2> QED  BY <1>14, <2>1, <2>2, <2>3, Zenon DEF FinishSample, TypeOK, counters
<1>15. ASSUME NEW k \in Streams, RecordFails(k) PROVE TypeOK'
  BY <1>15, AbandonTyped DEF RecordFails, TypeOK, counters, database
<1>16. ASSUME NEW u \in Users, ResetDelete(u) PROVE TypeOK'
  BY <1>16 DEF ResetDelete, TypeOK, counters, database
<1>17. ASSUME NEW u \in Users, ResetCommit(u) PROVE TypeOK'
  <2>1. row' \in [Users -> [Cores -> Row]]
    BY <1>17, NothingTyped, Zenon DEF ResetCommit, TypeOK
  <2> QED  BY <1>17, <2>1, Zenon DEF ResetCommit, TypeOK, counters, bounds
<1>18. ASSUME NEW u \in Users, DeadlockAborted(u) PROVE TypeOK'
  <2>1. PICK k \in Streams : lock[u] = k  BY <1>18, Zenon DEF DeadlockAborted
  <2>2. CASE Abandon(lock[u]) /\ reset' = reset /\ drops' = drops + 1
    <3>1. Abandon(k)  BY <2>1, <2>2, Zenon
    <3> QED  BY <1>18, <2>2, <3>1, AbandonTyped DEF DeadlockAborted, TypeOK, counters, database, bounds
  <2>3. CASE /\ reset' = [reset EXCEPT ![u] = [pc |-> "idle", rows |-> {}]]
             /\ UNCHANGED <<stream, lock, drops>>
    BY <1>18, <2>3, Zenon DEF DeadlockAborted, TypeOK, counters, database, bounds
  <2> QED  BY <1>18, <2>2, <2>3, Zenon DEF DeadlockAborted
<1>19. ASSUME NEW u \in Users, ResetPush(u) PROVE TypeOK'
  BY <1>19, Zenon DEF ResetPush, Over, TypeOK, counters, bounds
<1>20. ASSUME Reconcile PROVE TypeOK'
  BY <1>20, Zenon DEF Reconcile, Over, TypeOK, counters, bounds
<1> QED
  BY <1>1, <1>2, <1>3, <1>4, <1>5, <1>6, <1>7, <1>8, <1>9, <1>10, <1>11, <1>12, Zenon,
     <1>13, <1>14, <1>15, <1>16, <1>17, <1>18, <1>19, <1>20
     DEF Next, Node, Collect, Reset

\* All variables of the accounting always have their types.
THEOREM TypeCorrect == Spec => []TypeOK
BY InitTyped, TypeStep, PTL DEF Spec

-----------------------------------------------------------------------------
(* The path of a value. *)

------------------------------------------------------------------------------
(* The path of a value, as a constant-level predicate: s is a stream, r the  *)
(* row it feeds, h what was billed, v and a the counter and counted now.     *)

\* Value v2 was taken after v1, and grew by at most what was counted between.
After(v1, a1, v2, a2) == a1 <= a2 /\ v2 - v1 <= a2 - a1

Recording(s, u) == s.pc = "record" /\ u \in s.todo

QueuePath(q, h, v, a, u) ==
    \A i \in 1..Len(q) : u \in q[i].users =>
        /\ h <= q[i].at[u]
        /\ After(q[i].val[u], q[i].at[u], v, a)
        /\ \A j \in 1..Len(q) : (i < j /\ u \in q[j].users) =>
              After(q[i].val[u], q[i].at[u], q[j].val[u], q[j].at[u])

\* A point of the path before the queue: the sample being recorded, or the row.
FrontPath(v1, a1, q, h, v, a, u) ==
    /\ h <= a1
    /\ After(v1, a1, v, a)
    /\ \A i \in 1..Len(q) : u \in q[i].users =>
          After(v1, a1, q[i].val[u], q[i].at[u])

PathOK(s, r, h, v, a, u) ==
    /\ QueuePath(s.queue, h, v, a, u)
    /\ Recording(s, u) =>
          FrontPath(s.sample.val[u], s.sample.at[u], s.queue, h, v, a, u)
    /\ r.there => FrontPath(r.last, r.at, s.queue, h, v, a, u)
    /\ (r.there /\ Recording(s, u)) =>
          After(r.last, r.at, s.sample.val[u], s.sample.at[u])

\* Bytes are counted, or a counter falls back: the path stays.
LEMMA PresentMoves ==
    ASSUME NEW s \in StreamRec, NEW r \in Row, NEW h \in Nat, NEW u \in Users,
           NEW v \in Nat, NEW a \in Nat, NEW w \in Nat, NEW b \in Nat,
           PathOK(s, r, h, v, a, u), a <= b, w - v <= b - a
    PROVE  PathOK(s, r, h, w, b, u)
<1>1. s.queue \in Seq(Sample) /\ s.sample \in Sample  BY Zenon DEF StreamRec
<1>2. \A x \in Nat, y \in Nat : After(x, y, v, a) => After(x, y, w, b)
  BY DEF After
<1>3. \A i \in 1..Len(s.queue) : s.queue[i] \in Sample  BY <1>1
<1>4. \A i \in 1..Len(s.queue) : s.queue[i].val[u] \in Nat /\ s.queue[i].at[u] \in Nat
  BY <1>3, Zenon DEF Sample
<1>5. s.sample.val[u] \in Nat /\ s.sample.at[u] \in Nat  BY <1>1, Zenon DEF Sample
<1>6. r.last \in Nat /\ r.at \in Nat  BY Zenon DEF Row
<1>7. QueuePath(s.queue, h, w, b, u)  BY <1>2, <1>4, Zenon DEF PathOK, QueuePath
<1>8. Recording(s, u) =>
        FrontPath(s.sample.val[u], s.sample.at[u], s.queue, h, w, b, u)
  BY <1>2, <1>5, Zenon DEF PathOK, FrontPath
<1>9. r.there => FrontPath(r.last, r.at, s.queue, h, w, b, u)
  BY <1>2, <1>6, Zenon DEF PathOK, FrontPath
<1> QED  BY <1>7, <1>8, <1>9, Zenon DEF PathOK

\* A stream that differs in nothing the path depends on.
LEMMA SamePath ==
    ASSUME NEW s \in StreamRec, NEW t \in StreamRec, NEW r, NEW h, NEW v, NEW a,
           NEW u, PathOK(s, r, h, v, a, u),
           t.queue = s.queue, t.sample = s.sample, t.pc = s.pc, t.todo = s.todo
    PROVE  PathOK(t, r, h, v, a, u)
BY Zenon DEF PathOK, Recording

\* A stream with nothing in flight and nothing being recorded.
LEMMA EmptyPath ==
    ASSUME NEW s \in StreamRec, NEW t \in StreamRec, NEW r, NEW h, NEW v, NEW a,
           NEW u, PathOK(s, r, h, v, a, u), t.queue = <<>>, ~Recording(t, u)
    PROVE  PathOK(t, r, h, v, a, u)
<1>1. Len(t.queue) = 0  OBVIOUS
<1> QED  BY <1>1, SMTT(40) DEF PathOK, QueuePath, FrontPath

\* The queue is lost, the rest stays.
LEMMA LostQueuePath ==
    ASSUME NEW s \in StreamRec, NEW t \in StreamRec, NEW r, NEW h, NEW v, NEW a,
           NEW u, PathOK(s, r, h, v, a, u),
           t.queue = <<>>, t.sample = s.sample, t.pc = s.pc, t.todo = s.todo
    PROVE  PathOK(t, r, h, v, a, u)
<1>1. Len(t.queue) = 0  OBVIOUS
<1> QED  BY <1>1, SMTT(40) DEF PathOK, QueuePath, FrontPath, Recording

\* Nothing is being recorded for u any more.
LEMMA DonePath ==
    ASSUME NEW s \in StreamRec, NEW t \in StreamRec, NEW r, NEW h, NEW v, NEW a,
           NEW u, PathOK(s, r, h, v, a, u), t.queue = s.queue, ~Recording(t, u)
    PROVE  PathOK(t, r, h, v, a, u)
BY Zenon DEF PathOK

\* A reset deletes the row.
LEMMA NoRowPath ==
    ASSUME NEW s, NEW r, NEW h, NEW v, NEW a, NEW u, PathOK(s, r, h, v, a, u)
    PROVE  PathOK(s, NoRow, h, v, a, u)
BY Zenon DEF PathOK, NoRow

\* The agent sends the present values.
LEMMA SentPath ==
    ASSUME NEW s \in StreamRec, NEW t \in StreamRec, NEW r \in Row, NEW h \in Nat,
           NEW v \in Nat, NEW a \in Nat, NEW u \in Users, NEW x \in Sample,
           PathOK(s, r, h, v, a, u), h <= a,
           t.queue = Append(s.queue, x), t.sample = s.sample, t.pc = s.pc,
           t.todo = s.todo,
           u \in x.users => x.val[u] = v /\ x.at[u] = a
    PROVE  PathOK(t, r, h, v, a, u)
<1> DEFINE q == s.queue
           n == Len(s.queue)
<1>1. q \in Seq(Sample) /\ n \in Nat  BY DEF StreamRec
<1>2. /\ Len(t.queue) = n + 1
      /\ \A i \in 1..n : t.queue[i] = q[i]
      /\ t.queue[n + 1] = x
  BY <1>1
<1>3. \A i \in 1..(n + 1) : i \in 1..n \/ i = n + 1  BY <1>1
<1>4. After(v, a, v, a)  BY DEF After
<1>5. ASSUME NEW i \in 1..Len(t.queue), u \in t.queue[i].users
      PROVE  /\ h <= t.queue[i].at[u]
             /\ After(t.queue[i].val[u], t.queue[i].at[u], v, a)
             /\ \A j \in 1..Len(t.queue) : (i < j /\ u \in t.queue[j].users) =>
                   After(t.queue[i].val[u], t.queue[i].at[u],
                         t.queue[j].val[u], t.queue[j].at[u])
  <2>1. CASE i \in 1..n
    <3>1. t.queue[i] = q[i]  BY <1>2, <2>1, Zenon
    <3>2. /\ h <= q[i].at[u]
          /\ After(q[i].val[u], q[i].at[u], v, a)
          /\ \A j \in 1..n : (i < j /\ u \in q[j].users) =>
                After(q[i].val[u], q[i].at[u], q[j].val[u], q[j].at[u])
      BY <1>5, <2>1, <3>1, Zenon DEF PathOK, QueuePath
    <3>3. ASSUME NEW j \in 1..(n + 1), i < j, u \in t.queue[j].users
          PROVE  After(q[i].val[u], q[i].at[u], t.queue[j].val[u], t.queue[j].at[u])
      <4>1. CASE j \in 1..n  BY <1>2, <3>2, <3>3, <4>1, Zenon
      <4>2. CASE j = n + 1  BY <1>2, <3>2, <3>3, <4>2, Zenon
      <4> QED  BY <1>3, <4>1, <4>2, Zenon
    <3> QED  BY <1>2, <3>1, <3>2, <3>3, Zenon
  <2>2. CASE i = n + 1
    <3>1. t.queue[i] = x  BY <1>2, <2>2, Zenon
    <3>2. \A j \in 1..Len(t.queue) : ~(i < j)  BY <1>1, <1>2, <2>2
    <3> QED  BY <1>4, <1>5, <3>1, <3>2, Zenon
  <2> QED  BY <1>2, <1>3, <1>5, <2>1, <2>2, Zenon
<1>6. QueuePath(t.queue, h, v, a, u)  BY <1>5, Zenon DEF QueuePath
<1>7. ASSUME NEW v1, NEW a1, FrontPath(v1, a1, q, h, v, a, u)
      PROVE  FrontPath(v1, a1, t.queue, h, v, a, u)
  <2>1. ASSUME NEW i \in 1..Len(t.queue), u \in t.queue[i].users
        PROVE  After(v1, a1, t.queue[i].val[u], t.queue[i].at[u])
    <3>1. CASE i \in 1..n  BY <1>2, <1>7, <2>1, <3>1, Zenon DEF FrontPath
    <3>2. CASE i = n + 1  BY <1>2, <1>7, <2>1, <3>2, Zenon DEF FrontPath
    <3> QED  BY <1>2, <1>3, <2>1, <3>1, <3>2, Zenon
  <2> QED  BY <1>7, <2>1, Zenon DEF FrontPath
<1> QED  BY <1>6, <1>7, Zenon DEF PathOK, Recording

\* The collector takes the next sample off the stream.
LEMMA ReceivedPath ==
    ASSUME NEW s \in StreamRec, NEW t \in StreamRec, NEW r, NEW h,
           NEW v, NEW a, NEW u \in Users,
           PathOK(s, r, h, v, a, u), s.queue # <<>>,
           t.queue = Tail(s.queue), t.sample = Head(s.queue),
           t.todo = Head(s.queue).users
    PROVE  PathOK(t, r, h, v, a, u)
<1> DEFINE q == s.queue
           n == Len(s.queue)
<1>1. q \in Seq(Sample) /\ n \in Nat /\ n >= 1
  BY DEF StreamRec
<1>2. /\ Len(t.queue) = n - 1
      /\ \A i \in 1..(n - 1) : t.queue[i] = q[i + 1] /\ i + 1 \in 1..n
      /\ t.sample = q[1] /\ 1 \in 1..n
  BY <1>1
<1>3. QueuePath(q, h, v, a, u)  BY Zenon DEF PathOK
<1>4. QueuePath(t.queue, h, v, a, u)
  <2> SUFFICES ASSUME NEW i \in 1..(n - 1), u \in q[i + 1].users
               PROVE  /\ h <= q[i + 1].at[u]
                      /\ After(q[i + 1].val[u], q[i + 1].at[u], v, a)
                      /\ \A j \in 1..(n - 1) : (i < j /\ u \in q[j + 1].users) =>
                            After(q[i + 1].val[u], q[i + 1].at[u],
                                  q[j + 1].val[u], q[j + 1].at[u])
    BY <1>2 DEF QueuePath
  <2>1. i + 1 \in 1..n  BY <1>2, Zenon
  <2>2. \A j \in 1..(n - 1) : i < j => j + 1 \in 1..n /\ i + 1 < j + 1  BY <1>1
  <2> QED  BY <1>3, <2>1, <2>2, Zenon DEF QueuePath
<1>5. Recording(t, u) =>
        FrontPath(t.sample.val[u], t.sample.at[u], t.queue, h, v, a, u)
  <2> SUFFICES ASSUME u \in q[1].users
               PROVE  FrontPath(q[1].val[u], q[1].at[u], t.queue, h, v, a, u)
    BY <1>2, Zenon DEF Recording
  <2>1. \A i \in 1..(n - 1) : 1 < i + 1  BY <1>1
  <2> QED  BY <1>2, <1>3, <2>1, Zenon DEF QueuePath, FrontPath
<1>6. r.there => FrontPath(r.last, r.at, t.queue, h, v, a, u)
  BY <1>2, Zenon DEF PathOK, FrontPath
<1>7. (r.there /\ Recording(t, u)) =>
        After(r.last, r.at, t.sample.val[u], t.sample.at[u])
  BY <1>2 DEF PathOK, FrontPath, Recording
<1> QED  BY <1>4, <1>5, <1>6, <1>7, Zenon DEF PathOK

\* record_traffic: the difference is at most what was counted between the old
\* baseline and the new one.
LEMMA RecordedPath ==
    ASSUME NEW s \in StreamRec, NEW t \in StreamRec, NEW r \in Row, NEW x \in Row,
           NEW h \in Nat, NEW v \in Nat, NEW a \in Nat, NEW u \in Users,
           PathOK(s, r, h, v, a, u), Recording(s, u),
           t.queue = s.queue, ~Recording(t, u),
           x.last = s.sample.val[u], x.at = s.sample.at[u]
    PROVE  LET d == traffic_delta(r, s.sample.epoch, s.sample.val[u])
           IN  PathOK(t, x, h + d, v, a, u) /\ h + d <= a
<1> DEFINE d == traffic_delta(r, s.sample.epoch, s.sample.val[u])
           q == s.queue
           y == s.sample.at[u]
<1>1. q \in Seq(Sample) /\ s.sample \in Sample  BY Zenon DEF StreamRec
<1>2. s.sample.val[u] \in Nat /\ y \in Nat  BY <1>1, Zenon DEF Sample
<1>3. r.last \in Nat /\ r.at \in Nat  BY Zenon DEF Row
<1>4. FrontPath(s.sample.val[u], y, q, h, v, a, u)  BY Zenon DEF PathOK
<1>5. d \in Nat /\ h + d <= y
  <2>1. CASE r.there
    <3>1. h <= r.at /\ After(r.last, r.at, s.sample.val[u], y)
      BY <2>1, Zenon DEF PathOK, FrontPath
    <3>2. h <= y  BY <1>4, Zenon DEF FrontPath
    <3> QED  BY <1>2, <1>3, <3>1, <3>2 DEF traffic_delta, After
  <2>2. CASE ~r.there
    <3>1. d = 0  BY <2>2, Zenon DEF traffic_delta
    <3> QED  BY <1>2, <1>4, <3>1 DEF FrontPath
  <2> QED  BY <2>1, <2>2, Zenon
<1>6. y <= a  BY <1>4, Zenon DEF FrontPath, After
<1>7. FrontPath(s.sample.val[u], y, q, h + d, v, a, u)
  BY <1>4, <1>5, Zenon DEF FrontPath
<1>8. QueuePath(q, h + d, v, a, u)
  <2>1. ASSUME NEW i \in 1..Len(q), u \in q[i].users PROVE h + d <= q[i].at[u]
    <3>1. y <= q[i].at[u]  BY <1>4, <2>1, Zenon DEF FrontPath, After
    <3>2. q[i] \in Sample  BY <1>1
    <3>3. q[i].at[u] \in Nat  BY <3>2, Zenon DEF Sample
    <3> QED  BY <1>2, <1>5, <3>1, <3>3
  <2> QED  BY <2>1, Zenon DEF PathOK, QueuePath
<1>9. h + d <= a  BY <1>2, <1>5, <1>6
<1>10. PathOK(t, x, h + d, v, a, u)
  BY <1>7, <1>8, Zenon DEF PathOK
<1> QED  BY <1>9, <1>10, Zenon

------------------------------------------------------------------------------
(* The invariant                                                             *)

\* One collector: two streams never read the same core.
OneReader == \A k1, k2 \in Streams : k1[2] = k2[2] => k1 = k2

Cur(u, c) == IF c = "xray" THEN xr[u] ELSE acc[u]

PathAt(k, u) == PathOK(stream[k], row[u][k[2]], hourly[u][k[2]], Cur(u, k[2]),
                       counted[u][k[2]], u)

\* A stream with nothing in it stands on no path of its own.
LEMMA NoPath ==
    ASSUME NEW k \in Streams, stream[k] \in StreamRec, NEW t \in StreamRec, t.queue = <<>>,
           \A u \in Users : PathAt(k, u) /\ ~Recording(t, u)
    PROVE  \A u \in Users : PathOK(t, row[u][k[2]], hourly[u][k[2]], Cur(u, k[2]),
                                   counted[u][k[2]], u)
<1> TAKE u \in Users
<1>1. PathOK(stream[k], row[u][k[2]], hourly[u][k[2]], Cur(u, k[2]), counted[u][k[2]], u)
  BY Zenon DEF PathAt
<1>2. ~Recording(t, u)  BY Zenon
<1> QED  BY <1>1, <1>2, EmptyPath

IInv ==
    /\ TypeOK
    /\ hy = Zero
    /\ \A u \in Users : disk.acc[u] <= acc[u]
    /\ \A u \in Users, k \in Streams : lock[u] = k => Recording(stream[k], u)
    /\ \A k \in Streams, u \in Users : PathAt(k, u)
    /\ NeverOverbills

\* Nothing counted and no row: the initial states satisfy the invariant.
LEMMA InitInv == Init => IInv
<1> SUFFICES ASSUME Init PROVE IInv  BY Zenon
<1>1. TypeOK  BY InitTyped, Zenon
<1>2. ASSUME NEW k \in Streams, NEW u \in Users PROVE PathAt(k, u)
  <2>1. k[2] \in Cores  BY ConstantsAssumption, Zenon DEF Streams
  <2>2. stream[k] = Closed /\ row[u][k[2]] = NoRow  BY <2>1, Zenon DEF Init
  <2>3. Len(Closed.queue) = 0 /\ ~Recording(Closed, u) /\ ~NoRow.there
    BY Zenon DEF Closed, Recording, NoRow
  <2> QED  BY <2>2, <2>3 DEF PathAt, PathOK, QueuePath
<1>3. \A u \in Users, k \in Streams : lock[u] # k
  BY ConstantsAssumption, Zenon DEF Init
<1>4. NeverOverbills  BY DEF Init, NeverOverbills
<1>5. disk.acc = Zero /\ acc = Zero  BY Zenon DEF Init
<1>6. \A u \in Users : disk.acc[u] <= acc[u]
  <2>1. \A u \in Users : Zero[u] \in Nat /\ Zero[u] <= Zero[u]  BY DEF Zero
  <2> QED  BY <1>5, <2>1, Zenon
<1> QED  BY <1>1, <1>2, <1>3, <1>4, <1>6, Zenon DEF IInv, Init

\* The counter a stream of core c reports is a natural number.
LEMMA CurTyped ==
    ASSUME TypeOK, NEW u \in Users, NEW c
    PROVE  Cur(u, c) \in Nat
BY Zenon DEF Cur, TypeOK

\* What the database and the measure hold for one user on one core.
LEMMA CellsTyped ==
    ASSUME TypeOK, NEW u \in Users, NEW c \in Cores
    PROVE  row[u][c] \in Row /\ hourly[u][c] \in Nat /\ counted[u][c] \in Nat
<1>1. /\ row \in [Users -> [Cores -> Row]] /\ hourly \in [Users -> [Cores -> Nat]]
      /\ counted \in [Users -> [Cores -> Nat]]
  BY Zenon DEF TypeOK
<1> QED  BY <1>1, Zenon

\* Steps of the node: counters move, the streams keep what they hold.
LEMMA NodeKeeps ==
    ASSUME IInv, TypeOK',
           UNCHANGED <<row, hourly, lock>>,
           hy' = Zero, \A u \in Users : disk'.acc[u] <= acc'[u],
           \A u \in Users, c \in Cores :
              /\ counted[u][c] <= counted'[u][c]
              /\ Cur(u, c)' - Cur(u, c) <= counted'[u][c] - counted[u][c],
           \A k \in Streams :
              /\ stream'[k].queue = stream[k].queue
              /\ stream'[k].sample = stream[k].sample
              /\ stream'[k].pc = stream[k].pc
              /\ stream'[k].todo = stream[k].todo
    PROVE  IInv'
<1>1. ASSUME NEW k \in Streams, NEW u \in Users PROVE PathAt(k, u)'
  <2> DEFINE c == k[2]
  <2>1. c \in Cores  BY ConstantsAssumption, Zenon DEF Streams
  <2>2. stream[k] \in StreamRec /\ stream'[k] \in StreamRec
    BY Zenon DEF IInv, TypeOK
  <2>3. row[u][c] \in Row /\ hourly[u][c] \in Nat /\ counted[u][c] \in Nat
    BY <2>1, CellsTyped, Zenon DEF IInv
  <2>4. counted'[u][c] \in Nat  BY <2>1, Zenon DEF TypeOK
  <2>5. Cur(u, c) \in Nat  BY CurTyped, Zenon DEF IInv
  <2>6. Cur(u, c)' \in Nat  BY Zenon DEF TypeOK, Cur
  <2>7. PathOK(stream[k], row[u][c], hourly[u][c], Cur(u, c), counted[u][c], u)
    BY Zenon DEF IInv, PathAt
  <2>8. PathOK(stream[k], row[u][c], hourly[u][c], Cur(u, c)', counted'[u][c], u)
    BY <2>1, <2>2, <2>3, <2>4, <2>5, <2>6, <2>7, PresentMoves, Zenon
  <2>9. PathOK(stream'[k], row[u][c], hourly[u][c], Cur(u, c)', counted'[u][c], u)
    BY <2>2, <2>8, SamePath, Zenon
  <2> QED  BY <2>9, Zenon DEF PathAt
<1>2. ASSUME NEW u \in Users, NEW k \in Streams, lock'[u] = k
      PROVE  Recording(stream[k], u)'
  BY <1>2, Zenon DEF IInv, Recording
<1>3. NeverOverbills'
  <2> SUFFICES ASSUME NEW u \in Users, NEW c \in Cores
               PROVE  hourly'[u][c] <= counted'[u][c]
    BY Zenon DEF NeverOverbills
  <2>1. hourly[u][c] \in Nat /\ counted[u][c] \in Nat
    BY CellsTyped, Zenon DEF IInv
  <2>2. counted'[u][c] \in Nat  BY Zenon DEF TypeOK
  <2>3. hourly[u][c] <= counted[u][c]  BY Zenon DEF IInv, NeverOverbills
  <2>4. counted[u][c] <= counted'[u][c] /\ hourly'[u][c] = hourly[u][c]  BY Zenon
  <2> HIDE DEF IInv, TypeOK
  <2> QED  BY <2>1, <2>2, <2>3, <2>4
<1> QED  BY <1>1, <1>2, <1>3, Zenon DEF IInv

\* Steps of one stream, with the counters and the database as they were.
LEMMA StreamKeeps ==
    ASSUME IInv, TypeOK', NEW k \in Streams, NEW t \in StreamRec,
           UNCHANGED <<counters, counted, row, hourly>>,
           stream' = [stream EXCEPT ![k] = t],
           \A u \in Users :
              PathOK(t, row[u][k[2]], hourly[u][k[2]], Cur(u, k[2]),
                     counted[u][k[2]], u),
           \A u \in Users : lock'[u] = k => Recording(t, u),
           \A u \in Users, j \in Streams \ {k} : lock'[u] = j => lock[u] = j
    PROVE  IInv'
<1>0. stream \in [Streams -> StreamRec]  BY Zenon DEF IInv, TypeOK
<1>1. ASSUME NEW j \in Streams, NEW u \in Users PROVE PathAt(j, u)'
  <2>1. CASE j = k
    BY <1>0, <2>1, Zenon DEF PathAt, Cur, counters
  <2>2. CASE j # k
    <3>1. stream'[j] = stream[j]  BY <1>0, <2>2, Zenon
    <3>2. PathAt(j, u)  BY Zenon DEF IInv
    <3> QED  BY <3>1, <3>2, Zenon DEF PathAt, Cur, counters
  <2> QED  BY <2>1, <2>2, Zenon
<1>2. ASSUME NEW u \in Users, NEW j \in Streams, lock'[u] = j
      PROVE  Recording(stream'[j], u)
  <2>1. CASE j = k  BY <1>0, <1>2, <2>1, Zenon
  <2>2. CASE j # k
    <3>1. stream'[j] = stream[j]  BY <1>0, <2>2, Zenon
    <3> QED  BY <1>2, <2>2, <3>1, Zenon DEF IInv
  <2> QED  BY <2>1, <2>2, Zenon
<1>3. \A u \in Users, j \in Streams : lock'[u] = j => Recording(stream[j], u)'
  BY <1>2, Zenon DEF Recording
<1>4. hy' = Zero /\ \A u \in Users : disk'.acc[u] <= acc'[u]
  BY Zenon DEF IInv, counters
<1>5. NeverOverbills'  BY Zenon DEF IInv, NeverOverbills
<1> QED  BY <1>1, <1>3, <1>4, <1>5, Zenon DEF IInv

\* The transaction of record_traffic, when no other stream feeds its row.
LEMMA RecordKeeps ==
    ASSUME IInv, OneReader, TypeOK', NEW k \in Streams, record_traffic(k)
    PROVE  IInv'
<1> DEFINE c == k[2]
           s == stream[k].sample
           delta(u) == traffic_delta(row[u][c], s.epoch, s.val[u])
           new(u) == [there |-> TRUE, n |-> row[u][c].n + delta(u),
                      last |-> s.val[u], epoch |-> s.epoch, at |-> s.at[u]]
           t(u, b) == [stream[k] EXCEPT !.todo = stream[k].todo \ {u}, !.crossed = b]
<1>1. PICK u \in Users :
        /\ lock[u] = k
        /\ row' = [row EXCEPT ![u] = [row[u] EXCEPT ![c] = new(u)]]
        /\ hourly' = [hourly EXCEPT ![u][c] = @ + delta(u)]
        /\ lock' = [lock EXCEPT ![u] = Free]
        /\ \E b \in BOOLEAN : stream' = [stream EXCEPT ![k] = t(u, b)]
        /\ UNCHANGED <<counters, counted>>
  <2>1. PICK u \in Holds(k) :
          /\ row' = [row EXCEPT ![u] = [row[u] EXCEPT ![c] = new(u)]]
          /\ hourly' = [hourly EXCEPT ![u][c] = @ + delta(u)]
          /\ lock' = [lock EXCEPT ![u] = Free]
          /\ stream' = [stream EXCEPT ![k].todo = @ \ {u},
                ![k].crossed = @ \/ crosses(used[u],
                                 Total([row[u] EXCEPT ![c] = new(u)]))]
          /\ UNCHANGED <<counters, counted>>
    BY Zenon DEF record_traffic
  <2>2. u \in Users /\ lock[u] = k  BY Zenon DEF Holds
  <2> DEFINE b == stream[k].crossed
                  \/ crosses(used[u], Total([row[u] EXCEPT ![c] = new(u)]))
  <2>3. b \in BOOLEAN  BY Zenon
  <2>4. stream \in [Streams -> StreamRec]  BY Zenon DEF IInv, TypeOK
  <2>5. stream' = [stream EXCEPT ![k] = t(u, b)]  BY <2>1, <2>4, Zenon
  <2> QED  BY <2>1, <2>2, <2>3, <2>5, Zenon
<1>2. PICK b \in BOOLEAN : stream' = [stream EXCEPT ![k] = t(u, b)]  BY <1>1, Zenon
<1>3. c \in Cores  BY ConstantsAssumption, Zenon DEF Streams
<1>4. stream \in [Streams -> StreamRec] /\ stream[k] \in StreamRec
  BY Zenon DEF IInv, TypeOK
<1>5. t(u, b) \in StreamRec  BY <1>4, Zenon DEF StreamRec
<1>6. stream'[k] = t(u, b) /\ \A j \in Streams \ {k} : stream'[j] = stream[j]
  BY <1>2, <1>4, Zenon
<1>7. /\ t(u, b).queue = stream[k].queue /\ t(u, b).sample = stream[k].sample
      /\ t(u, b).pc = stream[k].pc /\ t(u, b).todo = stream[k].todo \ {u}
  BY <1>4, Zenon DEF StreamRec
<1>8. Recording(stream[k], u) /\ ~Recording(t(u, b), u)
  BY <1>1, <1>7, Zenon DEF IInv, Recording
<1>9. /\ row[u][c] \in Row /\ hourly[u][c] \in Nat
      /\ counted[u][c] \in Nat /\ Cur(u, c) \in Nat
  BY <1>3, CurTyped, CellsTyped, Zenon DEF IInv
<1>10. row'[u][c] = new(u) /\ hourly'[u][c] = hourly[u][c] + delta(u)
  <2>1. row \in [Users -> [Cores -> Row]] /\ hourly \in [Users -> [Cores -> Nat]]
    BY Zenon DEF IInv, TypeOK
  <2> HIDE DEF new, delta
  <2>2. row'[u][c] = new(u)  BY <1>1, <1>3, <2>1, Zenon
  <2>3. hourly'[u][c] = hourly[u][c] + delta(u)  BY <1>1, <1>3, <2>1, Zenon
  <2> QED  BY <2>2, <2>3, Zenon
<1>11. \A w \in Users, d \in Cores : (w # u \/ d # c) =>
          row'[w][d] = row[w][d] /\ hourly'[w][d] = hourly[w][d]
  <2> SUFFICES ASSUME NEW w \in Users, NEW d \in Cores, w # u \/ d # c
               PROVE  row'[w][d] = row[w][d] /\ hourly'[w][d] = hourly[w][d]
    BY Zenon
  <2>1. row \in [Users -> [Cores -> Row]] /\ hourly \in [Users -> [Cores -> Nat]]
    BY Zenon DEF IInv, TypeOK
  <2> HIDE DEF new, delta
  <2>2. CASE w # u
    <3>1. row'[w] = row[w]  BY <1>1, <2>1, <2>2, Zenon
    <3>2. hourly'[w] = hourly[w]  BY <1>1, <2>1, <2>2, Zenon
    <3> QED  BY <3>1, <3>2, Zenon
  <2>3. CASE w = u /\ d # c
    <3>1. row'[u] = [row[u] EXCEPT ![c] = new(u)]  BY <1>1, <2>1, Zenon
    <3>2. hourly'[u] = [hourly[u] EXCEPT ![c] = @ + delta(u)]  BY <1>1, <2>1, Zenon
    <3>3. row[u] \in [Cores -> Row] /\ hourly[u] \in [Cores -> Nat]  BY <2>1, Zenon
    <3>4. row'[u][d] = row[u][d]  BY <2>3, <3>1, <3>3, Zenon
    <3>5. hourly'[u][d] = hourly[u][d]  BY <2>3, <3>2, <3>3, Zenon
    <3> QED  BY <2>3, <3>4, <3>5, Zenon
  <2> QED  BY <2>2, <2>3, Zenon
<1>12. new(u) \in Row
  <2>1. row' \in [Users -> [Cores -> Row]]  BY Zenon DEF TypeOK
  <2> HIDE DEF new
  <2> QED  BY <1>3, <1>10, <2>1
<1>13. /\ PathOK(t(u, b), new(u), hourly[u][c] + delta(u), Cur(u, c), counted[u][c], u)
       /\ hourly[u][c] + delta(u) <= counted[u][c]
  <2>1. PathOK(stream[k], row[u][c], hourly[u][c], Cur(u, c), counted[u][c], u)
    BY Zenon DEF IInv, PathAt
  <2>2. new(u).last = stream[k].sample.val[u] /\ new(u).at = stream[k].sample.at[u]
    BY Zenon
  <2>3. t(u, b).queue = stream[k].queue  BY <1>7, Zenon
  <2> HIDE DEF t, new
  <2> QED  BY <1>4, <1>5, <1>8, <1>9, <1>12, <2>1, <2>2, <2>3, RecordedPath, Zenon
<1>14. ASSUME NEW j \in Streams, NEW w \in Users PROVE PathAt(j, w)'
  <2>1. j[2] \in Cores  BY ConstantsAssumption, Zenon DEF Streams
  <2>2. PathAt(j, w)  BY Zenon DEF IInv
  <2>3. Cur(w, j[2])' = Cur(w, j[2]) /\ counted' = counted
    BY <1>1, Zenon DEF Cur, counters
  <2>4. CASE j = k /\ w = u
    BY <1>6, <1>10, <1>13, <2>3, <2>4, Zenon DEF PathAt
  <2>5. CASE j = k /\ w # u
    <3>1. Recording(t(u, b), w) <=> Recording(stream[k], w)
      BY <1>7, <2>5, Zenon DEF Recording
    <3>2. PathOK(t(u, b), row[w][c], hourly[w][c], Cur(w, c), counted[w][c], w)
      BY <1>7, <2>2, <2>5, <3>1, Zenon DEF PathAt, PathOK
    <3> QED  BY <1>6, <1>11, <2>1, <2>3, <2>5, <3>2, Zenon DEF PathAt
  <2>6. CASE j # k
    <3>1. j[2] # c  BY <2>6, Zenon DEF OneReader
    <3> QED  BY <1>6, <1>11, <2>1, <2>2, <2>3, <2>6, <3>1, ZenonT(60) DEF PathAt
  <2> QED  BY <2>4, <2>5, <2>6, Zenon
<1>15. ASSUME NEW w \in Users, NEW j \in Streams, lock'[w] = j
       PROVE  Recording(stream'[j], w)
  <2>0. lock \in [Users -> Streams \cup {Free}] /\ Free \notin Streams
    BY ConstantsAssumption, Zenon DEF IInv, TypeOK
  <2>1. w # u /\ lock[w] = j
    <3>1. lock' = [lock EXCEPT ![u] = Free]  BY <1>1, Zenon
    <3> QED  BY <1>15, <2>0, <3>1, Zenon
  <2>2. Recording(stream[j], w)  BY <2>1, Zenon DEF IInv
  <2>3. CASE j = k  BY <1>6, <1>7, <2>1, <2>2, <2>3, Zenon DEF Recording
  <2>4. CASE j # k  BY <1>6, <2>2, <2>4, Zenon
  <2> QED  BY <2>3, <2>4, Zenon
<1>16. \A w \in Users, j \in Streams : lock'[w] = j => Recording(stream[j], w)'
  BY <1>15, Zenon DEF Recording
<1>17. NeverOverbills'
  <2> SUFFICES ASSUME NEW w \in Users, NEW d \in Cores
               PROVE  hourly'[w][d] <= counted'[w][d]
    BY Zenon DEF NeverOverbills
  <2>1. CASE w = u /\ d = c  BY <1>1, <1>10, <1>13, <2>1, Zenon
  <2>2. CASE w # u \/ d # c  BY <1>1, <1>11, <2>2, Zenon DEF IInv, NeverOverbills
  <2> QED  BY <2>1, <2>2, Zenon
<1>18. hy' = Zero /\ \A w \in Users : disk'.acc[w] <= acc'[w]
  BY <1>1, Zenon DEF IInv, counters
<1> QED  BY <1>14, <1>16, <1>17, <1>18, Zenon DEF IInv

\* The error path of a stream, whatever else changes outside the path.
LEMMA AbandonKeeps ==
    ASSUME IInv, TypeOK', NEW k \in Streams, Abandon(k),
           UNCHANGED <<counters, counted, row, hourly>>
    PROVE  IInv'
<1>1. stream \in [Streams -> StreamRec] /\ Closed \in StreamRec
  BY NothingTyped, Zenon DEF IInv, TypeOK
<1>2. Closed.queue = <<>> /\ \A u \in Users : ~Recording(Closed, u)
  BY Zenon DEF Closed, Recording
<1>3. \A u \in Users : PathOK(Closed, row[u][k[2]], hourly[u][k[2]], Cur(u, k[2]),
                             counted[u][k[2]], u)
  BY <1>1, <1>2, NoPath, Zenon DEF IInv
<1>4. \A u \in Users : lock'[u] # k
  BY ConstantsAssumption, Zenon DEF Abandon
<1>5. \A u \in Users, j \in Streams \ {k} : lock'[u] = j => lock[u] = j
  BY ConstantsAssumption, Zenon DEF Abandon
<1>6. stream' = [stream EXCEPT ![k] = Closed]  BY Zenon DEF Abandon
<1> QED  BY <1>1, <1>3, <1>4, <1>5, <1>6, StreamKeeps, Zenon

\* Count adds n to one measured amount and leaves the others alone.
LEMMA CountMoves ==
    ASSUME TypeOK, NEW u \in Users, NEW c \in Cores, NEW n \in Nat, Count(u, c, n)
    PROVE  /\ counted'[u][c] = counted[u][c] + n
           /\ \A w \in Users, d \in Cores : (w # u \/ d # c) =>
                 counted'[w][d] = counted[w][d]
           /\ \A w \in Users, d \in Cores : counted[w][d] \in Nat
BY Zenon DEF Count, TypeOK

(* No byte is billed twice. *)

\* Every step keeps the invariant.
LEMMA InvStep ==
    ASSUME OneReader, ~Hysteria, IInv, [Next]_vars
    PROVE  IInv'
<1>0. TypeOK /\ TypeOK'  BY TypeStep, Zenon DEF IInv
<1>s. stream \in [Streams -> StreamRec]  BY <1>0, Zenon DEF TypeOK
<1>a. \A u \in Users, c \in Cores : counted[u][c] \in Nat /\ Cur(u, c) \in Nat
  BY <1>0, CurTyped DEF TypeOK
<1>d. \A u \in Users : disk.acc[u] \in Nat /\ acc[u] \in Nat
  BY <1>0, Zenon DEF TypeOK, Saved
<1>k. ASSUME NEW k \in Streams, NEW u \in Users
      PROVE  PathOK(stream[k], row[u][k[2]], hourly[u][k[2]], Cur(u, k[2]),
                    counted[u][k[2]], u)
  BY Zenon DEF IInv, PathAt
<1>1. CASE UNCHANGED <<counters, counted, stream, lock, row, hourly>>
  <2>1. \A u \in Users, c \in Cores :
          /\ counted[u][c] <= counted'[u][c]
          /\ Cur(u, c)' - Cur(u, c) <= counted'[u][c] - counted[u][c]
    BY <1>1, <1>a DEF Cur, counters
  <2>2. hy' = Zero /\ \A u \in Users : disk'.acc[u] <= acc'[u]
    BY <1>1, Zenon DEF IInv, counters
  <2> QED  BY <1>0, <1>1, <2>1, <2>2, NodeKeeps, Zenon
<1>2. ASSUME NEW u \in Users, PollHysteria(u) PROVE IInv'
  BY <1>2, Zenon DEF PollHysteria
<1>3. ASSUME NEW u \in Users, NEW n \in 0..1, PollSingbox(u, n) PROVE IInv'
  <2>1. n \in Nat /\ Count(u, "singbox", n) /\ "singbox" \in Cores
    BY <1>3 DEF PollSingbox, Cores
  <2>2. acc' = [acc EXCEPT ![u] = @ + n] /\ xr' = xr /\ hy' = hy
    BY <1>3, Zenon DEF PollSingbox
  <2>3. \A w \in Users, c \in Cores :
          /\ counted[w][c] <= counted'[w][c]
          /\ Cur(w, c)' - Cur(w, c) <= counted'[w][c] - counted[w][c]
    <3> SUFFICES ASSUME NEW w \in Users, NEW c \in Cores
                 PROVE  /\ counted[w][c] <= counted'[w][c]
                        /\ Cur(w, c)' - Cur(w, c) <= counted'[w][c] - counted[w][c]
      BY Zenon
    <3>1. CASE w = u /\ c = "singbox"
      <4>1. Cur(w, c)' = Cur(w, c) + n  BY <1>0, <2>2, <3>1, Zenon DEF Cur, TypeOK
      <4>2. counted'[w][c] = counted[w][c] + n  BY <1>0, <2>1, <3>1, CountMoves, Zenon
      <4> QED  BY <1>a, <2>1, <4>1, <4>2
    <3>2. CASE w # u \/ c # "singbox"
      <4>1. Cur(w, c)' = Cur(w, c)
        BY <1>0, <2>2, <3>2, Zenon DEF Cur, TypeOK, Cores
      <4>2. counted'[w][c] = counted[w][c]  BY <1>0, <2>1, <3>2, CountMoves
      <4> QED  BY <1>a, <4>1, <4>2
    <3> QED  BY <3>1, <3>2, Zenon
  <2>4. \A w \in Users : disk'.acc[w] <= acc'[w]
    <3>1. \A w \in Users : acc[w] <= acc'[w] /\ acc'[w] \in Nat
      BY <1>0, <1>d, <2>1, <2>2 DEF TypeOK
    <3>2. disk'.acc = acc' \/ disk' = disk
      <4>1. Save(acc', known')  BY <1>3, Zenon DEF PollSingbox
      <4>2. disk' = [epoch |-> epoch, acc |-> acc', known |-> known'] \/ disk' = disk
        BY <4>1, Zenon DEF Save
      <4> QED  BY <4>2
    <3>3. CASE disk'.acc = acc'
      <4>1. \A w \in Users : acc'[w] <= acc'[w]  BY <3>1
      <4> QED  BY <3>3, <4>1, Zenon
    <3>4. CASE disk' = disk  BY <1>d, <3>1, <3>4 DEF IInv
    <3> QED  BY <3>2, <3>3, <3>4, Zenon
  <2>5. UNCHANGED <<row, hourly, lock, stream>> /\ hy' = Zero
    BY <1>3, Zenon DEF PollSingbox, IInv, database
  <2> QED  BY <1>0, <2>3, <2>4, <2>5, NodeKeeps, Zenon
<1>4. ASSUME PollIdle PROVE IInv'
  <2>1. UNCHANGED <<row, hourly, lock, stream, acc, xr, counted, hy>>
    BY <1>4, Zenon DEF PollIdle, database
  <2>2. \A u \in Users, c \in Cores :
          /\ counted[u][c] <= counted'[u][c]
          /\ Cur(u, c)' - Cur(u, c) <= counted'[u][c] - counted[u][c]
    BY <1>a, <2>1 DEF Cur
  <2>3. \A u \in Users : disk'.acc[u] <= acc'[u]
    <3>1. disk'.acc = acc \/ disk' = disk  BY <1>4 DEF PollIdle, Save
    <3>2. CASE disk'.acc = acc  BY <1>d, <2>1, <3>2
    <3>3. CASE disk' = disk  BY <2>1, <3>3, Zenon DEF IInv
    <3> QED  BY <3>1, <3>2, <3>3, Zenon
  <2>4. hy' = Zero  BY <2>1, Zenon DEF IInv
  <2> QED  BY <1>0, <2>1, <2>2, <2>3, <2>4, NodeKeeps, Zenon
<1>5. ASSUME NEW u \in Users, CountXray(u) PROVE IInv'
  <2>1. 1 \in Nat /\ Count(u, "xray", 1) /\ "xray" \in Cores
    BY <1>5, Zenon DEF CountXray, Cores
  <2>2. xr' = [xr EXCEPT ![u] = @ + 1] /\ acc' = acc /\ hy' = hy /\ disk' = disk
    BY <1>5, Zenon DEF CountXray
  <2>3. \A w \in Users, c \in Cores :
          /\ counted[w][c] <= counted'[w][c]
          /\ Cur(w, c)' - Cur(w, c) <= counted'[w][c] - counted[w][c]
    <3> SUFFICES ASSUME NEW w \in Users, NEW c \in Cores
                 PROVE  /\ counted[w][c] <= counted'[w][c]
                        /\ Cur(w, c)' - Cur(w, c) <= counted'[w][c] - counted[w][c]
      BY Zenon
    <3>1. CASE w = u /\ c = "xray"
      <4>1. Cur(w, c)' = Cur(w, c) + 1  BY <1>0, <2>2, <3>1, Zenon DEF Cur, TypeOK
      <4>2. counted'[w][c] = counted[w][c] + 1  BY <1>0, <2>1, <3>1, CountMoves, Zenon
      <4> QED  BY <1>a, <4>1, <4>2
    <3>2. CASE w # u \/ c # "xray"
      <4>1. Cur(w, c)' = Cur(w, c)  BY <1>0, <2>2, <3>2, Zenon DEF Cur, TypeOK
      <4>2. counted'[w][c] = counted[w][c]  BY <1>0, <2>1, <3>2, CountMoves
      <4> QED  BY <1>a, <4>1, <4>2
    <3> QED  BY <3>1, <3>2, Zenon
  <2>4. \A w \in Users : disk'.acc[w] <= acc'[w]  BY <2>2, Zenon DEF IInv
  <2>5. UNCHANGED <<row, hourly, lock, stream>> /\ hy' = Zero
    BY <1>5, Zenon DEF CountXray, IInv, database
  <2> QED  BY <1>0, <2>3, <2>4, <2>5, NodeKeeps, Zenon
<1>h. \A k \in Streams :
        /\ Hung(k).queue = stream[k].queue /\ Hung(k).sample = stream[k].sample
        /\ Hung(k).pc = stream[k].pc /\ Hung(k).todo = stream[k].todo
  BY <1>s, Zenon DEF Hung, StreamRec
<1>6. ASSUME NEW graceful \in BOOLEAN, AgentRestart(graceful) PROVE IInv'
  <2>1. disk'.acc = acc \/ disk' = disk  BY <1>6, SMTT(40) DEF AgentRestart, Save
  <2>2. acc' = disk'.acc /\ xr' = Zero /\ hy' = Zero /\ counted' = counted
    BY <1>6, Zenon DEF AgentRestart
  <2>3. \A u \in Users : acc'[u] \in Nat /\ acc'[u] <= acc[u]
    <3>1. CASE disk'.acc = acc  BY <1>d, <2>2, <3>1
    <3>2. CASE disk' = disk  BY <1>d, <2>2, <3>2, Zenon DEF IInv
    <3> QED  BY <2>1, <3>1, <3>2, Zenon
  <2>4. \A u \in Users : xr'[u] = 0 /\ xr[u] \in Nat
    BY <1>0, <2>2, Zenon DEF Zero, TypeOK
  <2>5. \A u \in Users, c \in Cores :
          /\ counted[u][c] <= counted'[u][c]
          /\ Cur(u, c)' - Cur(u, c) <= counted'[u][c] - counted[u][c]
    BY <1>a, <1>d, <2>2, <2>3, <2>4 DEF Cur
  <2>6. \A u \in Users : disk'.acc[u] <= acc'[u]  BY <2>2, <2>3
  <2>7. UNCHANGED <<row, hourly, lock>>  BY <1>6, Zenon DEF AgentRestart, database
  <2>8. \A k \in Streams : stream'[k] = Hung(k)  BY <1>6, Zenon DEF AgentRestart
  <2> QED  BY <1>0, <1>h, <2>2, <2>5, <2>6, <2>7, <2>8, NodeKeeps, Zenon
<1>7. ASSUME XrayRestart PROVE IInv'
  <2>1. xr' = Zero /\ UNCHANGED <<acc, hy, disk, counted, row, hourly, lock>>
    BY <1>7, Zenon DEF XrayRestart, database
  <2>2. \A u \in Users : xr'[u] = 0 /\ xr[u] \in Nat
    BY <1>0, <2>1, Zenon DEF Zero, TypeOK
  <2>3. \A u \in Users, c \in Cores :
          /\ counted[u][c] <= counted'[u][c]
          /\ Cur(u, c)' - Cur(u, c) <= counted'[u][c] - counted[u][c]
    BY <1>a, <1>d, <2>1, <2>2 DEF Cur
  <2>4. \A k \in Streams : stream'[k] = Hung(k) \/ stream'[k] = stream[k]
    BY <1>7, Zenon DEF XrayRestart
  <2>5. hy' = Zero /\ \A u \in Users : disk'.acc[u] <= acc'[u]
    BY <2>1, Zenon DEF IInv
  <2>6. \A k \in Streams :
          /\ stream'[k].queue = stream[k].queue /\ stream'[k].sample = stream[k].sample
          /\ stream'[k].pc = stream[k].pc /\ stream'[k].todo = stream[k].todo
    BY <1>h, <2>4, Zenon
  <2> QED  BY <1>0, <2>1, <2>3, <2>5, <2>6, NodeKeeps, Zenon
<1>8. ASSUME NEW k \in Streams, Subscribe(k) PROVE IInv'
  <2> DEFINE t == [Closed EXCEPT !.pc = "wait", !.up = TRUE]
  <2>1. t \in StreamRec  BY NothingTyped, Zenon DEF StreamRec
  <2>2. t.queue = <<>> /\ \A u \in Users : ~Recording(t, u)
    BY Zenon DEF Closed, Recording
  <2>3. \A u \in Users : lock[u] # k
    BY <1>8, Zenon DEF Subscribe, IInv, Recording
  <2>4. stream' = [stream EXCEPT ![k] = t]
    BY <1>8, Zenon DEF Subscribe
  <2>5. UNCHANGED <<counters, counted, row, hourly, lock>>
    BY <1>8, Zenon DEF Subscribe, database
  <2> HIDE DEF t
  <2>6. \A u \in Users : PathOK(t, row[u][k[2]], hourly[u][k[2]], Cur(u, k[2]),
                               counted[u][k[2]], u)
    BY <1>s, <2>1, <2>2, NoPath, Zenon DEF IInv
  <2> QED  BY <1>0, <2>1, <2>3, <2>4, <2>5, <2>6, StreamKeeps, Zenon
<1>9. ASSUME NEW k \in Streams, Send(k) PROVE IInv'
  <2> DEFINE x == [epoch |-> epoch, users |-> Listed(k[2]),
                   val |-> [u \in Users |-> Value(u, k[2])],
                   at |-> [u \in Users |-> counted[u][k[2]]]]
             t == [stream[k] EXCEPT !.queue = Append(stream[k].queue, x)]
  <2>0. k[2] \in Cores  BY ConstantsAssumption, Zenon DEF Streams
  <2>1. x \in Sample
    <3>1. Listed(k[2]) \subseteq Users  BY <1>0, Zenon DEF Listed, TypeOK
    <3>2. \A u \in Users : Value(u, k[2]) \in Nat  BY <1>0 DEF Value, TypeOK
    <3> QED  BY <1>0, <2>0, <3>1, <3>2 DEF Sample, TypeOK
  <2>2. stream' = [stream EXCEPT ![k] = t]  BY <1>9, <1>s, Zenon DEF Send
  <2>3. t = stream'[k]  BY <1>s, <2>2, Zenon
  <2>4. t \in StreamRec
    <3>1. stream'[k] \in StreamRec  BY <1>0, Zenon DEF TypeOK
    <3> QED  BY <2>3, <3>1, Zenon
  <2>5. /\ t.queue = Append(stream[k].queue, x) /\ t.sample = stream[k].sample
        /\ t.pc = stream[k].pc /\ t.todo = stream[k].todo
    BY <1>s, Zenon DEF StreamRec
  <2>6. ASSUME NEW u \in Users, u \in x.users
        PROVE  x.val[u] = Cur(u, k[2]) /\ x.at[u] = counted[u][k[2]]
    <3>1. hy[u] = 0  BY Zenon DEF IInv, Zero
    <3>2. acc[u] \in Nat /\ xr[u] \in Nat  BY <1>0, Zenon DEF TypeOK
    <3>3. Value(u, k[2]) = Cur(u, k[2])
      <4>1. u \in Listed(k[2])  BY <2>6, Zenon
      <4>2. CASE k[2] = "xray"  BY <4>2, Zenon DEF Value, Cur
      <4>3. CASE k[2] # "xray"
        <5>1. ~(hy[u] > 0) /\ acc[u] + 0 = acc[u]  BY <3>1, <3>2
        <5>2. polled /\ u \in known  BY <4>1, <4>3, <5>1, Zenon DEF Listed
        <5> QED  BY <3>1, <4>3, <5>1, <5>2, Zenon DEF Value, Cur
      <4> QED  BY <4>2, <4>3, Zenon
    <3> QED  BY <3>3, Zenon
  <2>7. UNCHANGED <<counters, counted, row, hourly, lock>>
    BY <1>9, Zenon DEF Send, database
  <2>8. \A u \in Users : /\ row[u][k[2]] \in Row /\ hourly[u][k[2]] \in Nat
                         /\ hourly[u][k[2]] <= counted[u][k[2]]
    BY <1>0, <2>0, SMTT(40) DEF TypeOK, IInv, NeverOverbills
  <2> HIDE DEF t, x
  <2>9. ASSUME NEW u \in Users
        PROVE  PathOK(t, row[u][k[2]], hourly[u][k[2]], Cur(u, k[2]),
                      counted[u][k[2]], u)
    <3>1. /\ stream[k] \in StreamRec /\ Cur(u, k[2]) \in Nat /\ counted[u][k[2]] \in Nat
          /\ row[u][k[2]] \in Row /\ hourly[u][k[2]] \in Nat
          /\ hourly[u][k[2]] <= counted[u][k[2]]
      BY <1>s, <1>a, <2>0, <2>8, Zenon
    <3>2. PathOK(stream[k], row[u][k[2]], hourly[u][k[2]], Cur(u, k[2]), counted[u][k[2]], u)
      BY <1>k, Zenon
    <3> QED  BY <2>1, <2>4, <2>5, <2>6, <3>1, <3>2, SentPath, Zenon
  <2>10. \A u \in Users : lock'[u] = k => Recording(t, u)
    BY <2>5, <2>7, Zenon DEF IInv, Recording
  <2> QED  BY <1>0, <2>2, <2>4, <2>7, <2>9, <2>10, StreamKeeps, Zenon
<1>10. ASSUME NEW k \in Streams, Break(k) PROVE IInv'
  <2>1. PICK q \in {stream[k].queue, <<>>} :
           stream' = [stream EXCEPT ![k].up = FALSE, ![k].queue = q]
    BY <1>10, Zenon DEF Break
  <2> DEFINE t == [stream[k] EXCEPT !.up = FALSE, !.queue = q]
  <2>2. stream' = [stream EXCEPT ![k] = t]  BY <2>1, <1>s, Zenon
  <2>3. t = stream'[k]  BY <1>s, <2>2, Zenon
  <2>4. t \in StreamRec  BY <1>0, <2>3 DEF TypeOK
  <2>5. /\ t.queue = q /\ t.sample = stream[k].sample
        /\ t.pc = stream[k].pc /\ t.todo = stream[k].todo
    BY <1>s, Zenon DEF StreamRec
  <2>6. UNCHANGED <<counters, counted, row, hourly, lock>>
    BY <1>10, Zenon DEF Break, database
  <2> HIDE DEF t
  <2>7. ASSUME NEW u \in Users
        PROVE  PathOK(t, row[u][k[2]], hourly[u][k[2]], Cur(u, k[2]),
                      counted[u][k[2]], u)
    <3>1. CASE q = stream[k].queue  BY <1>s, <1>k, <2>4, <2>5, <3>1, SamePath, Zenon
    <3>2. CASE q = <<>>  BY <1>s, <1>k, <2>4, <2>5, <3>2, LostQueuePath, Zenon
    <3> QED  BY <3>1, <3>2, Zenon
  <2>8. \A u \in Users : lock'[u] = k => Recording(t, u)
    BY <2>5, <2>6, Zenon DEF IInv, Recording
  <2> QED  BY <1>0, <2>2, <2>4, <2>6, <2>7, <2>8, StreamKeeps, Zenon
<1>11. ASSUME NEW k \in Streams, Receive(k) PROVE IInv'
  <2>1. UNCHANGED <<counters, counted, row, hourly, lock>>
    BY <1>11, Zenon DEF Receive, database
  <2>2. \A u \in Users : lock[u] # k  BY <1>11, Zenon DEF Receive, IInv, Recording
  <2>3. CASE stream[k].queue # <<>>
    <3> DEFINE q == stream[k].queue
               t == [stream[k] EXCEPT !.pc = "record", !.sample = Head(q),
                                      !.todo = Head(q).users, !.crossed = FALSE,
                                      !.queue = Tail(q)]
    <3>1. stream' = [stream EXCEPT ![k] = t]  BY <1>11, <1>s, <2>3, Zenon DEF Receive
    <3>2. t = stream'[k]  BY <1>s, <3>1, Zenon
    <3>3. t \in StreamRec  BY <1>0, <3>2 DEF TypeOK
    <3>4. t.queue = Tail(q) /\ t.sample = Head(q) /\ t.todo = Head(q).users
      BY <1>s, Zenon DEF StreamRec
    <3> HIDE DEF t
    <3>5. \A u \in Users : PathOK(t, row[u][k[2]], hourly[u][k[2]], Cur(u, k[2]),
                                 counted[u][k[2]], u)
      BY <1>s, <1>k, <2>3, <3>3, <3>4, ReceivedPath, Zenon
    <3> QED  BY <1>0, <2>1, <2>2, <3>1, <3>3, <3>5, StreamKeeps, Zenon
  <2>4. CASE stream[k].queue = <<>>
    <3>1. stream' = [stream EXCEPT ![k] = Closed]  BY <1>11, <2>4, Zenon DEF Receive
    <3>2. Closed.queue = <<>> /\ \A u \in Users : ~Recording(Closed, u)
      BY Zenon DEF Closed, Recording
    <3>3. \A u \in Users : PathOK(Closed, row[u][k[2]], hourly[u][k[2]],
                                 Cur(u, k[2]), counted[u][k[2]], u)
      BY <1>s, <3>2, NothingTyped, NoPath, Zenon DEF IInv
    <3> QED  BY <1>0, <2>1, <2>2, <3>1, <3>3, NothingTyped, StreamKeeps, Zenon
  <2> QED  BY <2>3, <2>4, Zenon
<1>12. ASSUME NEW k \in Streams, NEW u \in Users, LockUser(k, u) PROVE IInv'
  <2>1. stream' = [stream EXCEPT ![k] = stream[k]]  BY <1>12, <1>s, Zenon DEF LockUser
  <2>2. UNCHANGED <<counters, counted, row, hourly>>
    BY <1>12, Zenon DEF LockUser, database
  <2>3. \A w \in Users : lock'[w] = k => Recording(stream[k], w)
    BY <1>0, <1>12, Zenon DEF LockUser, IInv, TypeOK, Recording
  <2>4. \A w \in Users, j \in Streams \ {k} : lock'[w] = j => lock[w] = j
    BY <1>0, <1>12, Zenon DEF LockUser, TypeOK
  <2> QED  BY <1>0, <1>s, <1>k, <2>1, <2>2, <2>3, <2>4, StreamKeeps, Zenon
<1>13. ASSUME NEW k \in Streams, record_traffic(k) PROVE IInv'
  BY <1>0, <1>13, RecordKeeps, Zenon
<1>14. ASSUME NEW k \in Streams, FinishSample(k) PROVE IInv'
  <2> DEFINE r == [stream[k] EXCEPT !.pc = "wait", !.sample = NoSample,
                                    !.crossed = FALSE]
  <2>1. UNCHANGED <<counters, counted, row, hourly, lock>>
    BY <1>14, Zenon DEF FinishSample
  <2>2. \A u \in Users : lock[u] # k  BY <1>14, Zenon DEF FinishSample, IInv, Recording
  <2>3. stream' = [stream EXCEPT ![k] = r] \/ stream' = [stream EXCEPT ![k] = Closed]
    BY <1>14, <1>s, Zenon DEF FinishSample
  <2>4. CASE stream' = [stream EXCEPT ![k] = r]
    <3>1. r = stream'[k]  BY <1>s, <2>4, Zenon
    <3>2. r \in StreamRec  BY <1>0, <3>1 DEF TypeOK
    <3>3. r.queue = stream[k].queue /\ r.pc = "wait"  BY <1>s, Zenon DEF StreamRec
    <3> HIDE DEF r
    <3>4. \A u \in Users : ~Recording(r, u)  BY <3>3, Zenon DEF Recording
    <3>5. \A u \in Users : PathOK(r, row[u][k[2]], hourly[u][k[2]], Cur(u, k[2]),
                                 counted[u][k[2]], u)
      BY <1>s, <1>k, <3>2, <3>3, <3>4, DonePath, Zenon
    <3> QED  BY <1>0, <2>1, <2>2, <2>4, <3>2, <3>5, StreamKeeps, Zenon
  <2>5. CASE stream' = [stream EXCEPT ![k] = Closed]
    <3>1. Closed.queue = <<>> /\ \A u \in Users : ~Recording(Closed, u)
      BY Zenon DEF Closed, Recording
    <3>2. \A u \in Users : PathOK(Closed, row[u][k[2]], hourly[u][k[2]],
                                 Cur(u, k[2]), counted[u][k[2]], u)
      BY <1>s, <3>1, NothingTyped, NoPath, Zenon DEF IInv
    <3> QED  BY <1>0, <2>1, <2>2, <2>5, <3>2, NothingTyped, StreamKeeps, Zenon
  <2> QED  BY <2>3, <2>4, <2>5, Zenon
<1>15. ASSUME NEW k \in Streams, RecordFails(k) PROVE IInv'
  BY <1>0, <1>15, AbandonKeeps, Zenon DEF RecordFails, database
<1>16. ASSUME NEW u \in Users, ResetDelete(u) PROVE IInv'
  BY <1>1, <1>16, Zenon DEF ResetDelete, database
<1>17. ASSUME NEW u \in Users, ResetCommit(u) PROVE IInv'
  <2>1. UNCHANGED <<counters, counted, stream, lock, hourly>>
    BY <1>17, Zenon DEF ResetCommit
  <2>2. \A w \in Users, c \in Cores : row'[w][c] = row[w][c] \/ row'[w][c] = NoRow
    BY <1>0, <1>17, Zenon DEF ResetCommit, TypeOK
  <2>3. ASSUME NEW k \in Streams, NEW w \in Users PROVE PathAt(k, w)'
    <3>1. k[2] \in Cores  BY ConstantsAssumption, Zenon DEF Streams
    <3>2. PathOK(stream[k], row'[w][k[2]], hourly[w][k[2]], Cur(w, k[2]),
                 counted[w][k[2]], w)
      BY <1>k, <2>2, <3>1, NoRowPath, Zenon
    <3> QED  BY <2>1, <3>2, Zenon DEF PathAt, Cur, counters
  <2>4. \A w \in Users, k \in Streams : lock'[w] = k => Recording(stream[k], w)'
    BY <2>1, Zenon DEF IInv, Recording
  <2>5. NeverOverbills'  BY <2>1, Zenon DEF IInv, NeverOverbills
  <2>6. hy' = Zero /\ \A w \in Users : disk'.acc[w] <= acc'[w]
    BY <2>1, Zenon DEF IInv, counters
  <2> QED  BY <1>0, <2>3, <2>4, <2>5, <2>6, Zenon DEF IInv
<1>18. ASSUME NEW u \in Users, DeadlockAborted(u) PROVE IInv'
  <2>1. PICK k \in Streams : lock[u] = k  BY <1>18, Zenon DEF DeadlockAborted
  <2>2. CASE Abandon(lock[u])
    <3>1. Abandon(k)  BY <2>1, <2>2, Zenon
    <3> QED  BY <1>0, <1>18, <3>1, AbandonKeeps, Zenon DEF DeadlockAborted, database
  <2>3. CASE UNCHANGED <<stream, lock>>
    BY <1>1, <1>18, <2>3, Zenon DEF DeadlockAborted, database
  <2> QED  BY <1>18, <2>2, <2>3, Zenon DEF DeadlockAborted
<1>19. ASSUME NEW u \in Users, ResetPush(u) PROVE IInv'
  BY <1>1, <1>19, Zenon DEF ResetPush
<1>20. ASSUME Reconcile PROVE IInv'
  BY <1>1, <1>20, Zenon DEF Reconcile
<1>21. CASE UNCHANGED vars
  BY <1>1, <1>21, Zenon DEF vars, database
<1> QED
  BY <1>2, <1>3, <1>4, <1>5, <1>6, <1>7, <1>8, <1>9, <1>10, <1>11, <1>12, <1>13, Zenon,
     <1>14, <1>15, <1>16, <1>17, <1>18, <1>19, <1>20, <1>21
     DEF Next, Node, Collect, Reset

\* With one collector and no native Hysteria, no byte is billed twice: what
\* record_traffic adds up never exceeds what the node's cores measured, through
\* any restarts of the agent and of Xray, broken streams and resets.
THEOREM BilledOnce ==
    ASSUME OneReader, ~Hysteria
    PROVE  Spec => []NeverOverbills
<1>1. Init => IInv  BY InitInv, Zenon
<1>2. IInv /\ [Next]_vars => IInv'  BY InvStep, Zenon
<1>3. IInv => NeverOverbills  BY Zenon DEF IInv
<1> QED  BY <1>1, <1>2, <1>3, PTL DEF Spec

-----------------------------------------------------------------------------
(* The total, and the push of a crossing. *)

\* The row lock of a user is only held by a stream that records them; a stream
\* remembers a crossing only while it records; a reset has rows deleted only
\* before it commits.
CrossInv ==
    /\ \A u \in Users, k \in Streams : lock[u] = k => stream[k].pc = "record" /\ u \in stream[k].todo
    /\ \A k \in Streams : stream[k].crossed => stream[k].pc = "record"
    /\ \A u \in Users : reset[u].rows # {} => reset[u].pc = "deleted"

\* What record_traffic does to the user whose row it has locked.
LEMMA Recorded ==
    ASSUME TypeOK, NEW k \in Streams, record_traffic(k)
    PROVE  \E u \in Users : \E rows \in [Cores -> Row] :
             /\ lock[u] = k
             /\ row' = [row EXCEPT ![u] = rows]
             /\ used' = [used EXCEPT ![u] = Total(rows)]
             /\ Total(rows) \in Nat
             /\ lock' = [lock EXCEPT ![u] = Free]
             /\ stream'[k].pc = stream[k].pc /\ stream'[k].todo = stream[k].todo \ {u}
             /\ (stream'[k].crossed <=> (stream[k].crossed \/ crosses(used[u], Total(rows))))
             /\ \A j \in Streams : j # k => stream'[j] = stream[j]
             /\ UNCHANGED <<offSpec, reset, drops>>
<1> DEFINE c == k[2]
           s == stream[k].sample
           delta(u) == traffic_delta(row[u][c], s.epoch, s.val[u])
           new(u) == [there |-> TRUE, n |-> row[u][c].n + delta(u),
                      last |-> s.val[u], epoch |-> s.epoch, at |-> s.at[u]]
           rows(u) == [row[u] EXCEPT ![c] = new(u)]
<1>1. PICK u \in Users :
        /\ lock[u] = k
        /\ row' = [row EXCEPT ![u] = rows(u)]
        /\ used' = [used EXCEPT ![u] = Total(rows(u))]
        /\ lock' = [lock EXCEPT ![u] = Free]
        /\ stream' = [stream EXCEPT ![k].todo = @ \ {u},
                         ![k].crossed = @ \/ crosses(used[u], Total(rows(u)))]
        /\ UNCHANGED <<offSpec, reset, drops>>
  BY Zenon DEF record_traffic, Holds, bounds
<1>2. c \in Cores  BY ConstantsAssumption, Zenon DEF Streams
<1>3. stream[k] \in StreamRec /\ stream \in [Streams -> StreamRec]  BY Zenon DEF TypeOK
<1>4. s.epoch \in Nat /\ s.val[u] \in Nat /\ s.at[u] \in Nat
  BY <1>3, Zenon DEF StreamRec, Sample
<1>5. row[u] \in [Cores -> Row]  BY Zenon DEF TypeOK
<1>6. delta(u) \in Nat  BY <1>2, <1>4, <1>5, DeltaTyped, Zenon
<1>7. new(u) \in Row  BY <1>2, <1>4, <1>5, <1>6 DEF Row
<1>8. rows(u) \in [Cores -> Row]  BY <1>2, <1>5, <1>7, Zenon
<1>9. Total(rows(u)) \in Nat  BY <1>8 DEF Total, Cores, Row
<1> HIDE DEF rows
<1> DEFINE X == stream[k].crossed \/ crosses(used[u], Total(rows(u)))
           r == [stream[k] EXCEPT !.todo = stream[k].todo \ {u}, !.crossed = X]
<1>10. stream' = [stream EXCEPT ![k] = r]  BY <1>1, <1>3, Zenon
<1> HIDE DEF X
<1>11. r.pc = stream[k].pc /\ r.todo = stream[k].todo \ {u} /\ r.crossed = X
  BY <1>3, Zenon DEF StreamRec
<1> HIDE DEF r
<1>12. stream'[k] = r /\ \A j \in Streams : j # k => stream'[j] = stream[j]
  BY <1>3, <1>10, Zenon
<1>13. stream'[k].crossed <=> stream[k].crossed \/ crosses(used[u], Total(rows(u)))
  BY <1>11, <1>12, Zenon DEF X
<1> QED  BY <1>1, <1>8, <1>9, <1>11, <1>12, <1>13, Zenon

\* The rows' sums never fall behind the total when they do not change.
LEMMA SameTotals ==
    ASSUME TotalHasRows, UNCHANGED <<used, row>>
    PROVE  TotalHasRows'
BY Zenon DEF TotalHasRows

\* Every step keeps the total within the rows.
LEMMA TotalStep == TypeOK /\ TotalHasRows /\ [Next]_vars => TotalHasRows'
<1> SUFFICES ASSUME TypeOK, TotalHasRows, [Next]_vars PROVE TotalHasRows'  BY Zenon
<1>1. ASSUME NEW k \in Streams, record_traffic(k) PROVE TotalHasRows'
  <2>1. PICK u \in Users, rows \in [Cores -> Row] :
          /\ row' = [row EXCEPT ![u] = rows] /\ used' = [used EXCEPT ![u] = Total(rows)]
          /\ Total(rows) \in Nat
    BY <1>1, Recorded, Zenon
  <2> SUFFICES ASSUME NEW w \in Users PROVE used'[w] <= Total(row'[w])
    BY Zenon DEF TotalHasRows
  <2>2. CASE w = u
    BY <2>1, <2>2 DEF TypeOK
  <2>3. CASE w # u
    BY <2>1, <2>3, Zenon DEF TypeOK, TotalHasRows
  <2> QED  BY <2>2, <2>3, Zenon
<1>2. ASSUME NEW u \in Users, ResetCommit(u) PROVE TotalHasRows'
  <2> DEFINE rows == [c \in Cores |-> IF c \in reset[u].rows THEN NoRow ELSE row[u][c]]
  <2>1. row' = [row EXCEPT ![u] = rows] /\ used' = [used EXCEPT ![u] = 0]
    BY <1>2, Zenon DEF ResetCommit
  <2>2. rows \in [Cores -> Row]
    BY NothingTyped DEF TypeOK
  <2>3. 0 <= Total(rows)
    BY <2>2 DEF Total, Cores, Row
  <2> HIDE DEF rows
  <2> SUFFICES ASSUME NEW w \in Users PROVE used'[w] <= Total(row'[w])
    BY Zenon DEF TotalHasRows
  <2>4. CASE w = u
    BY <2>1, <2>3, <2>4, Zenon DEF TypeOK
  <2>5. CASE w # u
    BY <2>1, <2>5, Zenon DEF TypeOK, TotalHasRows
  <2> QED  BY <2>4, <2>5, Zenon
<1>3. CASE UNCHANGED vars \/ Reconcile \/ Node
  BY <1>3, SameTotals, Zenon DEF vars, database, Reconcile, Node, CountXray, PollHysteria,
       PollSingbox, PollIdle, AgentRestart, XrayRestart
<1>4. ASSUME NEW k \in Streams,
             \/ Subscribe(k) \/ Send(k) \/ Break(k) \/ Receive(k)
             \/ (\E u \in Users : LockUser(k, u)) \/ FinishSample(k) \/ RecordFails(k)
      PROVE  TotalHasRows'
  BY <1>4, SameTotals, Zenon DEF database, Subscribe, Send, Break, Receive, LockUser,
       FinishSample, RecordFails
<1>5. ASSUME NEW u \in Users, ResetDelete(u) \/ DeadlockAborted(u) \/ ResetPush(u)
      PROVE  TotalHasRows'
  BY <1>5, SameTotals, Zenon DEF database, ResetDelete, DeadlockAborted, ResetPush
<1> QED  BY <1>1, <1>2, <1>3, <1>4, <1>5, Zenon DEF Next, Collect, Reset

\* A user's total never exceeds the rows it is computed from, however samples
\* and resets of the user interleave.
THEOREM TotalNeverExceedsRows == Spec => []TotalHasRows
<1>1. Init => TotalHasRows
  <2> SUFFICES ASSUME Init, NEW u \in Users PROVE used[u] <= Total(row[u])
    BY Zenon DEF TotalHasRows
  <2>1. used[u] = 0 /\ row[u] = [c \in Cores |-> NoRow]
    BY Zenon DEF Init, Zero
  <2> QED  BY <2>1 DEF Total, Cores, NoRow
<1>2. Spec => []TypeOK  BY TypeCorrect, Zenon
<1> QED  BY <1>1, <1>2, TotalStep, PTL DEF Spec

\* Steps after which every stream records what it recorded, and remembers what
\* it remembered.
SameRecording == \A k \in Streams :
    /\ stream'[k].pc = stream[k].pc /\ stream'[k].todo = stream[k].todo
    /\ stream'[k].crossed = stream[k].crossed

\* Of the streams only k changes.
OnlyStream(k) == \A j \in Streams : j # k => stream'[j] = stream[j]

\* Polls, restarts, sends and breaks leave the recording alone.
LEMMA NodeRecording ==
    ASSUME TypeOK, Node \/ \E k \in Streams : Send(k) \/ Break(k)
    PROVE  SameRecording /\ UNCHANGED <<lock, reset, used, offSpec>> /\ (drops' = 0 => drops = 0)
<1>s. stream \in [Streams -> StreamRec] /\ drops \in Nat  BY Zenon DEF TypeOK
<1>h. ASSUME NEW k \in Streams
      PROVE  /\ Hung(k).pc = stream[k].pc /\ Hung(k).todo = stream[k].todo
             /\ Hung(k).crossed = stream[k].crossed
  BY <1>s, Zenon DEF Hung, StreamRec
<1>1. CASE (\E u \in Users : CountXray(u) \/ PollHysteria(u) \/ \E n \in 0..1 : PollSingbox(u, n))
           \/ PollIdle
  BY <1>1, Zenon DEF SameRecording, CountXray, PollHysteria, PollSingbox, PollIdle, database, bounds
<1>2. CASE (\E graceful \in BOOLEAN : AgentRestart(graceful)) \/ XrayRestart
  <2>1. \A k \in Streams : stream'[k] = Hung(k) \/ stream'[k] = stream[k]
    BY <1>2, Zenon DEF AgentRestart, XrayRestart
  <2> QED  BY <1>2, <2>1, <1>h, Zenon DEF SameRecording, AgentRestart, XrayRestart, database, bounds
<1>3. ASSUME NEW k \in Streams, Send(k) \/ Break(k)
      PROVE  SameRecording /\ UNCHANGED <<lock, reset, used, offSpec>> /\ (drops' = 0 => drops = 0)
  <2>1. UNCHANGED <<lock, reset, used, offSpec>>
    BY <1>3, Zenon DEF Send, Break, database
  <2>2. drops' = 0 => drops = 0
    BY <1>3, <1>s DEF Send, Break, bounds
  <2>3. \E q, up : stream' = [stream EXCEPT ![k].queue = q, ![k].up = up]
    <3>1. CASE Send(k)
      <4>1. PICK q : stream' = [stream EXCEPT ![k].queue = q]
        BY <3>1, Zenon DEF Send
      <4>2. stream' = [stream EXCEPT ![k].queue = q, ![k].up = stream[k].up]
        BY <4>1, <1>s, Zenon DEF StreamRec
      <4> QED  BY <4>2, Zenon
    <3>2. CASE Break(k)
      <4>1. PICK q : stream' = [stream EXCEPT ![k].up = FALSE, ![k].queue = q]
        BY <3>2, Zenon DEF Break
      <4>2. stream' = [stream EXCEPT ![k].queue = q, ![k].up = FALSE]
        BY <4>1, <1>s, Zenon DEF StreamRec
      <4> QED  BY <4>2, Zenon
    <3> QED  BY <1>3, <3>1, <3>2, Zenon
  <2>4. PICK q, up : stream' = [stream EXCEPT ![k].queue = q, ![k].up = up]
    BY <2>3, Zenon
  <2> DEFINE r == [stream[k] EXCEPT !.queue = q, !.up = up]
  <2>5. stream' = [stream EXCEPT ![k] = r]
    BY <2>4, <1>s, Zenon
  <2>6. r.pc = stream[k].pc /\ r.todo = stream[k].todo /\ r.crossed = stream[k].crossed
    BY <1>s, Zenon DEF StreamRec
  <2> HIDE DEF r
  <2>7. \A j \in Streams : stream'[j] = IF j = k THEN r ELSE stream[j]
    BY <2>5, <1>s, Zenon
  <2> QED  BY <2>1, <2>2, <2>6, <2>7, Zenon DEF SameRecording
<1> QED  BY <1>1, <1>2, <1>3, Zenon DEF Node

\* What the steps of one stream do to its record.
LEMMA StreamMoves ==
    ASSUME TypeOK, NEW k \in Streams
    PROVE  /\ Subscribe(k) => /\ stream[k].pc = "closed" /\ stream'[k].pc = "wait"
                              /\ stream'[k].crossed = FALSE /\ OnlyStream(k)
           /\ Receive(k) => /\ stream[k].pc = "wait" /\ stream'[k].crossed = FALSE
                            /\ OnlyStream(k)
           /\ FinishSample(k) => /\ stream[k].pc = "record" /\ stream[k].todo = {}
                                 /\ stream'[k].crossed = FALSE /\ OnlyStream(k)
           /\ Abandon(k) => stream'[k].crossed = FALSE /\ OnlyStream(k)
<1>s. stream \in [Streams -> StreamRec] /\ stream[k] \in StreamRec  BY Zenon DEF TypeOK
<1>c. Closed.crossed = FALSE  BY Zenon DEF Closed
<1>e. ASSUME NEW r, stream' = [stream EXCEPT ![k] = r]
      PROVE  stream'[k] = r /\ OnlyStream(k)
  BY <1>e, <1>s, Zenon DEF OnlyStream
<1>1. ASSUME Subscribe(k)
      PROVE  /\ stream[k].pc = "closed" /\ stream'[k].pc = "wait"
             /\ stream'[k].crossed = FALSE /\ OnlyStream(k)
  <2> DEFINE r == [Closed EXCEPT !.pc = "wait", !.up = TRUE]
  <2>1. stream' = [stream EXCEPT ![k] = r] /\ stream[k].pc = "closed"
    BY <1>1, Zenon DEF Subscribe
  <2>2. r.pc = "wait" /\ r.crossed = FALSE  BY Zenon DEF Closed
  <2> HIDE DEF r
  <2> QED  BY <1>e, <2>1, <2>2, Zenon
<1>2. ASSUME Receive(k)
      PROVE  stream[k].pc = "wait" /\ stream'[k].crossed = FALSE /\ OnlyStream(k)
  <2>1. stream[k].pc = "wait"  BY <1>2, Zenon DEF Receive
  <2>2. CASE stream[k].queue # <<>>
    <3> DEFINE q == stream[k].queue
               r == [stream[k] EXCEPT !.pc = "record", !.sample = Head(q),
                        !.todo = Head(q).users, !.crossed = FALSE, !.queue = Tail(q)]
    <3>1. stream' = [stream EXCEPT ![k] = r]
      BY <1>2, <2>2, <1>s, Zenon DEF Receive
    <3>2. r.crossed = FALSE  BY <1>s, Zenon DEF StreamRec
    <3> HIDE DEF r
    <3> QED  BY <1>e, <2>1, <3>1, <3>2, Zenon
  <2>3. CASE stream[k].queue = <<>>
    <3>1. stream' = [stream EXCEPT ![k] = Closed]
      BY <1>2, <2>3, Zenon DEF Receive
    <3> QED  BY <1>c, <1>e, <2>1, <3>1, Zenon
  <2> QED  BY <2>2, <2>3, Zenon
<1>3. ASSUME FinishSample(k)
      PROVE  /\ stream[k].pc = "record" /\ stream[k].todo = {}
             /\ stream'[k].crossed = FALSE /\ OnlyStream(k)
  <2> DEFINE r == [stream[k] EXCEPT !.pc = "wait", !.sample = NoSample, !.crossed = FALSE]
  <2>1. stream[k].pc = "record" /\ stream[k].todo = {}  BY <1>3, Zenon DEF FinishSample
  <2>2. stream' = [stream EXCEPT ![k] = r] \/ stream' = [stream EXCEPT ![k] = Closed]
    BY <1>3, <1>s, Zenon DEF FinishSample
  <2>3. r.crossed = FALSE  BY <1>s, Zenon DEF StreamRec
  <2> HIDE DEF r
  <2> QED  BY <1>c, <1>e, <2>1, <2>2, <2>3, Zenon
<1>4. ASSUME Abandon(k) PROVE stream'[k].crossed = FALSE /\ OnlyStream(k)
  BY <1>4, <1>c, <1>e, Zenon DEF Abandon
<1> QED  BY <1>1, <1>2, <1>3, <1>4, Zenon

\* Every step keeps the locks, crossings and resets in order.
LEMMA CrossInvStep == TypeOK /\ CrossInv /\ [Next]_vars => CrossInv'
<1> SUFFICES ASSUME TypeOK, CrossInv, [Next]_vars PROVE CrossInv'  BY Zenon
<1>l. lock \in [Users -> Streams \cup {Free}] /\ Free \notin Streams
  BY ConstantsAssumption, Zenon DEF TypeOK
<1>r. reset \in [Users -> [pc : {"idle", "deleted", "push"}, rows : SUBSET Cores]]
  BY Zenon DEF TypeOK
<1>0. ASSUME SameRecording, UNCHANGED <<lock, reset>> PROVE CrossInv'
  BY <1>0, Zenon DEF CrossInv, SameRecording
<1>1. CASE UNCHANGED vars \/ Reconcile
  BY <1>0, <1>1, Zenon DEF SameRecording, vars, Reconcile
<1>2. CASE Node \/ \E k \in Streams : Send(k) \/ Break(k)
  BY <1>0, <1>2, NodeRecording, Zenon
<1>3. ASSUME NEW k \in Streams, Subscribe(k) \/ Receive(k) \/ FinishSample(k) PROVE CrossInv'
  <2>1. stream'[k].crossed = FALSE /\ OnlyStream(k)
    BY <1>3, StreamMoves, Zenon
  <2>2. UNCHANGED <<lock, reset>>
    BY <1>3, Zenon DEF Subscribe, Receive, FinishSample
  <2>3. \A u \in Users : lock[u] # k
    BY <1>3, StreamMoves, Zenon DEF CrossInv
  <2> QED  BY <2>1, <2>2, <2>3, Zenon DEF CrossInv, OnlyStream
<1>4. ASSUME NEW k \in Streams, NEW u \in Users, LockUser(k, u) PROVE CrossInv'
  <2>1. stream[k].pc = "record" /\ u \in stream[k].todo /\ lock' = [lock EXCEPT ![u] = k]
        /\ UNCHANGED <<stream, reset>>
    BY <1>4, Zenon DEF LockUser
  <2>2. \A w \in Users : lock'[w] = IF w = u THEN k ELSE lock[w]
    BY <2>1, <1>l, Zenon
  <2> QED  BY <2>1, <2>2 DEF CrossInv
<1>5. ASSUME NEW k \in Streams, record_traffic(k) PROVE CrossInv'
  <2>1. PICK u \in Users :
          /\ lock[u] = k /\ lock' = [lock EXCEPT ![u] = Free]
          /\ stream'[k].pc = stream[k].pc /\ stream'[k].todo = stream[k].todo \ {u}
          /\ \A j \in Streams : j # k => stream'[j] = stream[j]
          /\ UNCHANGED reset
    BY <1>5, Recorded, Zenon
  <2>2. \A w \in Users : lock'[w] = IF w = u THEN Free ELSE lock[w]
    BY <2>1, <1>l, Zenon
  <2>3. stream[k].pc = "record"
    BY <2>1, Zenon DEF CrossInv
  <2> QED  BY <1>l, <2>1, <2>2, <2>3 DEF CrossInv
<1>6. ASSUME NEW k \in Streams, Abandon(k), UNCHANGED reset PROVE CrossInv'
  <2>1. stream'[k].crossed = FALSE /\ OnlyStream(k)
    BY <1>6, StreamMoves, Zenon
  <2>2. \A w \in Users : lock'[w] = IF lock[w] = k THEN Free ELSE lock[w]
    BY <1>6, Zenon DEF Abandon
  <2> QED  BY <1>l, <1>6, <2>1, <2>2 DEF CrossInv, OnlyStream
<1>7. ASSUME NEW k \in Streams, RecordFails(k) PROVE CrossInv'
  BY <1>6, <1>7, Zenon DEF RecordFails
<1>8. ASSUME NEW u \in Users, Reset(u), UNCHANGED <<stream, lock>> PROVE CrossInv'
  <2>1. \E r : /\ reset' = [reset EXCEPT ![u] = r]
               /\ r.rows # {} => r.pc = "deleted"
    <3> DEFINE gone == [pc |-> "idle", rows |-> {}]
               due == [pc |-> "push", rows |-> {}]
               deleted == [pc |-> "deleted", rows |-> {c \in Cores : row[u][c].there}]
    <3>1. /\ (gone.rows # {} => gone.pc = "deleted") /\ (due.rows # {} => due.pc = "deleted")
          /\ (deleted.rows # {} => deleted.pc = "deleted")
      BY Zenon
    <3>2. \/ reset' = [reset EXCEPT ![u] = gone] \/ reset' = [reset EXCEPT ![u] = due]
          \/ reset' = [reset EXCEPT ![u] = deleted] \/ reset' = reset
      BY <1>8, Zenon DEF Reset, ResetDelete, ResetCommit, DeadlockAborted, ResetPush
    <3>3. reset' = reset => reset' = [reset EXCEPT ![u] = reset[u]]
      BY <1>r, Zenon
    <3>4. reset[u].rows # {} => reset[u].pc = "deleted"
      BY Zenon DEF CrossInv
    <3> HIDE DEF gone, due, deleted
    <3> QED  BY <3>1, <3>2, <3>3, <3>4, Zenon
  <2>2. PICK r : reset' = [reset EXCEPT ![u] = r] /\ (r.rows # {} => r.pc = "deleted")
    BY <2>1, Zenon
  <2>3. \A w \in Users : reset'[w] = IF w = u THEN r ELSE reset[w]
    BY <2>2, <1>r, Zenon
  <2> QED  BY <1>8, <2>2, <2>3, Zenon DEF CrossInv
<1>9. ASSUME NEW u \in Users, Reset(u) PROVE CrossInv'
  <2>1. CASE UNCHANGED <<stream, lock>>
    BY <1>8, <1>9, <2>1, Zenon
  <2>2. CASE ~UNCHANGED <<stream, lock>>
    <3>1. DeadlockAborted(u) /\ Abandon(lock[u]) /\ reset' = reset
      BY <1>9, <2>2, Zenon DEF Reset, ResetDelete, ResetCommit, DeadlockAborted, ResetPush
    <3>2. PICK k \in Streams : lock[u] = k
      BY <3>1, Zenon DEF DeadlockAborted
    <3> QED  BY <1>6, <3>1, <3>2, Zenon
  <2> QED  BY <2>1, <2>2, Zenon
<1> QED  BY <1>1, <1>2, <1>3, <1>4, <1>5, <1>7, <1>9, Zenon DEF Next, Collect

\* Steps that add no user to Over and forget no crossing, push or pushed
\* specification keep the property.
LEMMA CrossingKept ==
    ASSUME TypeOK, TypeOK', CrossingIsPushed, drops' = 0 => drops = 0,
           Over' \subseteq Over, offSpec' = offSpec,
           \A k \in Streams : stream[k].crossed => stream'[k].crossed,
           \A u \in Over' : reset[u].pc = "push" => reset'[u].pc = "push"
    PROVE  CrossingIsPushed'
<1>1. DOMAIN stream = Streams /\ DOMAIN stream' = Streams
  BY Zenon DEF TypeOK
<1> QED  BY <1>1, Zenon DEF CrossingIsPushed

\* Every step keeps it: record_traffic remembers the crossing it causes, and
\* what a stream or a reset remembers is forgotten with the push only.
LEMMA CrossingStep == TypeOK /\ CrossInv /\ CrossingIsPushed /\ [Next]_vars => CrossingIsPushed'
<1> SUFFICES ASSUME TypeOK, CrossInv, CrossingIsPushed, [Next]_vars PROVE CrossingIsPushed'
  BY Zenon
<1>t. TypeOK'  BY TypeStep, Zenon
<1>r. reset \in [Users -> [pc : {"idle", "deleted", "push"}, rows : SUBSET Cores]]
      /\ used \in [Users -> Nat] /\ Limit \in Nat /\ drops \in Nat
      /\ DOMAIN stream = Streams /\ DOMAIN stream' = Streams
  BY <1>t, ConstantsAssumption, Zenon DEF TypeOK
<1>o. ASSUME offSpec' = Over, UNCHANGED used PROVE CrossingIsPushed'
  BY <1>o, Zenon DEF CrossingIsPushed, Over
<1>d. ASSUME drops' = drops + 1 PROVE CrossingIsPushed'
  BY <1>d, <1>r DEF CrossingIsPushed
<1>1. CASE UNCHANGED vars
  BY <1>1, Zenon DEF CrossingIsPushed, Over, vars, database, bounds
<1>2. CASE Reconcile \/ \E u \in Users : ResetPush(u)
  BY <1>o, <1>2, Zenon DEF Reconcile, ResetPush
<1>3. CASE Node \/ \E k \in Streams : Send(k) \/ Break(k)
  <2>1. SameRecording /\ UNCHANGED <<reset, used, offSpec>> /\ (drops' = 0 => drops = 0)
    BY <1>3, NodeRecording, Zenon
  <2>2. Over' = Over  BY <2>1, Zenon DEF Over
  <2> QED  BY <1>t, <2>1, <2>2, CrossingKept, Zenon DEF SameRecording
<1>4. ASSUME NEW k \in Streams, Subscribe(k) \/ Receive(k) PROVE CrossingIsPushed'
  <2>1. UNCHANGED <<reset, used, offSpec, drops>>
    BY <1>4, Zenon DEF Subscribe, Receive, database, bounds
  <2>2. Over' = Over  BY <2>1, Zenon DEF Over
  <2>3. \A j \in Streams : stream[j].crossed => stream'[j].crossed
    <3>1. ~stream[k].crossed /\ OnlyStream(k)
      BY <1>4, StreamMoves, Zenon DEF CrossInv
    <3> QED  BY <3>1, Zenon DEF OnlyStream
  <2> QED  BY <1>t, <2>1, <2>2, <2>3, CrossingKept, Zenon
<1>5. ASSUME NEW k \in Streams, FinishSample(k) PROVE CrossingIsPushed'
  <2>1. CASE drops' = drops + 1
    BY <1>d, <2>1, Zenon
  <2>2. CASE stream[k].crossed /\ drops' # drops + 1
    BY <1>5, <1>o, <2>2, <1>r, Zenon DEF FinishSample
  <2>3. CASE ~stream[k].crossed
    <3>1. UNCHANGED <<reset, used, offSpec, drops>>
      BY <1>5, <2>3, Zenon DEF FinishSample
    <3>2. Over' = Over  BY <3>1, Zenon DEF Over
    <3>3. \A j \in Streams : stream[j].crossed => stream'[j].crossed
      BY <1>5, <2>3, StreamMoves, Zenon DEF OnlyStream
    <3> QED  BY <1>t, <3>1, <3>2, <3>3, CrossingKept, Zenon
  <2> QED  BY <2>1, <2>2, <2>3, Zenon
<1>6. ASSUME NEW k \in Streams, NEW u \in Users, LockUser(k, u) PROVE CrossingIsPushed'
  <2>1. UNCHANGED <<stream, reset, used, offSpec, drops>>
    BY <1>6, Zenon DEF LockUser, database, bounds
  <2> QED  BY <2>1, Zenon DEF CrossingIsPushed, Over
<1>7. ASSUME NEW k \in Streams, RecordFails(k) PROVE CrossingIsPushed'
  BY <1>d, <1>7, Zenon DEF RecordFails
<1>8. ASSUME NEW k \in Streams, record_traffic(k) PROVE CrossingIsPushed'
  <2>1. PICK u \in Users, rows \in [Cores -> Row] :
          /\ used' = [used EXCEPT ![u] = Total(rows)]
          /\ Total(rows) \in Nat
          /\ (stream'[k].crossed <=> (stream[k].crossed \/ crosses(used[u], Total(rows))))
          /\ \A j \in Streams : j # k => stream'[j] = stream[j]
          /\ UNCHANGED <<offSpec, reset, drops>>
    BY <1>8, Recorded, Zenon
  <2>2. \A w \in Users : used'[w] = IF w = u THEN Total(rows) ELSE used[w]
    BY <2>1, <1>r, Zenon
  <2>3. CASE crosses(used[u], Total(rows))
    <3>1. stream'[k].crossed
      BY <2>1, <2>3, Zenon
    <3> QED  BY <3>1, <1>r, Zenon DEF CrossingIsPushed
  <2>4. CASE ~crosses(used[u], Total(rows))
    <3>1. Over' \subseteq Over
      BY <2>1, <2>2, <2>4, <1>r, SMTT(40) DEF Over, crosses
    <3>2. \A j \in Streams : stream[j].crossed => stream'[j].crossed
      BY <2>1, Zenon
    <3> QED  BY <1>t, <2>1, <3>1, <3>2, CrossingKept, Zenon
  <2> QED  BY <2>3, <2>4, Zenon
<1>9. ASSUME NEW u \in Users, ResetDelete(u) PROVE CrossingIsPushed'
  <2>1. UNCHANGED <<stream, used, offSpec, drops>> /\ reset[u].pc = "idle"
        /\ \A w \in Users : w # u => reset'[w] = reset[w]
    BY <1>9, <1>r, Zenon DEF ResetDelete, database
  <2>2. Over' = Over /\ Over \subseteq Users  BY <2>1, Zenon DEF Over
  <2> QED  BY <1>t, <2>1, <2>2, CrossingKept, Zenon
<1>10. ASSUME NEW u \in Users, ResetCommit(u) PROVE CrossingIsPushed'
  <2>1. UNCHANGED <<stream, offSpec, drops>> /\ used' = [used EXCEPT ![u] = 0]
        /\ \A w \in Users : w # u => reset'[w] = reset[w]
    BY <1>10, <1>r, Zenon DEF ResetCommit, bounds
  <2>2. Over' \subseteq Over /\ Over' \subseteq Users /\ u \notin Over'
    BY <2>1, <1>r DEF Over
  <2> QED  BY <1>t, <2>1, <2>2, CrossingKept, Zenon
<1>11. ASSUME NEW u \in Users, DeadlockAborted(u) PROVE CrossingIsPushed'
  <2>1. CASE drops' = drops + 1
    BY <1>d, <2>1, Zenon
  <2>2. CASE drops' # drops + 1
    <3>1. /\ UNCHANGED <<stream, used, offSpec, drops>> /\ reset[u].rows # {}
          /\ \A w \in Users : w # u => reset'[w] = reset[w]
      BY <1>11, <2>2, <1>r, Zenon DEF DeadlockAborted, database
    <3>2. reset[u].pc = "deleted"
      BY <3>1, Zenon DEF CrossInv
    <3>3. Over' = Over /\ Over \subseteq Users  BY <3>1, Zenon DEF Over
    <3> QED  BY <1>t, <3>1, <3>2, <3>3, CrossingKept, Zenon
  <2> QED  BY <2>1, <2>2, Zenon
<1> QED
  BY <1>1, <1>2, <1>3, <1>4, <1>5, <1>6, <1>7, <1>8, <1>9, <1>10, <1>11, Zenon DEF Next, Collect, Reset

\* A user at or over the limit is off the pushed specification or a push that
\* takes them off is under way, for any users, streams and limit, as long as no
\* stream or transaction of the collector was given up.
THEOREM CrossingAlwaysPushed == Spec => []CrossingIsPushed
<1>1. Init => CrossInv /\ CrossingIsPushed
  <2> SUFFICES ASSUME Init PROVE CrossInv /\ CrossingIsPushed  BY Zenon
  <2>1. \A k \in Streams : stream[k].crossed = FALSE
    BY Zenon DEF Init, Closed
  <2>2. \A u \in Users : lock[u] \notin Streams /\ reset[u].rows = {}
    BY ConstantsAssumption, Zenon DEF Init
  <2>3. Over = {}
    BY ConstantsAssumption DEF Init, Over, Zero
  <2> QED  BY <2>1, <2>2, <2>3, Zenon DEF CrossInv, CrossingIsPushed
<1>2. Spec => []TypeOK  BY TypeCorrect, Zenon
<1> QED  BY <1>1, <1>2, CrossInvStep, CrossingStep, PTL DEF Spec
=============================================================================

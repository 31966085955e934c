------------------------- MODULE AgentRequestProofs -------------------------
(***************************************************************************)
(* The remaining steps of a request, the children, the reaper and the host *)
(* keep CoresInv, so that with one handler at a time StoppedStaysOff,      *)
(* SurvivesOneFault and RebootResumes hold.                                *)
(***************************************************************************)
EXTENDS AgentProofs

(* Undo, Start and the second marking. *)

\* A core that a failed request had stopped is started again.
LEMMA UndoKeeps ==
    ASSUME OneHandler, CoresInv, IInv', NEW a \in Handlers, NEW k \in Cores, Undo(a, k)
    PROVE  CoresInv'
<1>0. /\ IInv /\ Types /\ Shape(a) /\ ProcessAt(a, k) /\ OffAt(a, k) /\ MarkAt(a, k) /\ ServedAt(a, k)
  BY Parts, Zenon
<1>1. /\ h[a].pc = "next" /\ Current(a, k) /\ h[a].phase = "undo" /\ DoneWith(a, k)
      /\ UNCHANGED <<marker, booting, off>>
  BY AtCurrent, Zenon DEF Undo
<1>2. /\ h[a].rq = "apply" /\ ~h[a].ok /\ k \in h[a].todo /\ k \in h[a].stopped
      /\ k \notin Wanted(h[a].want) /\ faults # 0 /\ state[k] # "running" /\ k \notin off
  BY <1>0, <1>1, Zenon DEF Shape, Current, Least, ProcessAt, OffAt
<1>3. PICK ok \in BOOLEAN : Start(k, file[k], ok)
  BY Zenon DEF Undo
<1>4. file[k] \in Content
  BY <1>0, Zenon DEF Types, Content
<1>5. /\ \A j \in Cores : j # k => SameAt(j)
      /\ file' \in [Cores -> Content] /\ DOMAIN marker' = Cores /\ marker'[k] = marker[k]
      /\ faults \in Nat /\ faults' \in Nat /\ faults <= faults'
      /\ ok => /\ file'[k] = file[k] /\ Accepts(k, file[k])
               /\ k \in Serving' /\ \E c \in alive' : c.core = k
               /\ \A c \in alive' : c.core = k => c.cfg = file[k]
      /\ ~ok => /\ state'[k] # "running" /\ \A c \in alive' : c.core # k
                /\ file'[k] = file[k]
                /\ faults' = faults + 1 \/ (faults' = faults /\ ~Accepts(k, file[k]))
  BY <1>0, <1>1, <1>2, <1>3, <1>4, StartEffect
<1>6. /\ DOMAIN h' = Handlers /\ DOMAIN h'[a] = HandlerFields /\ Asked(a) /\ h'[a].pc = "next"
      /\ h'[a].phase = h[a].phase /\ h'[a].todo = h[a].todo \ {k} /\ h'[a].old = h[a].old
      /\ h'[a].stopped = h[a].stopped /\ h'[a].ok = h[a].ok
  BY <1>0, <1>1, DoneFields, Zenon
<1>e. h'[a].ok <=> h[a].ok
  BY <1>6, Zenon
<1>7. faults' # 0 /\ (faults' <= 1 => faults <= 1 /\ faults' # faults + 1)
  BY <1>2, <1>5
<1>8. Types'
  <2>1. h'[a].ok \in BOOLEAN
    BY <1>0, <1>6, Zenon DEF Types
  <2> QED BY <1>0, <1>5, <1>6, <2>1, StillTypes, Zenon DEF Types, Asked, Content
<1>9. Shape(a)'
  BY <1>0, <1>1, <1>6, <1>e, <1>7, Zenon DEF Shape, Asked
<1>10. ProcessAt(a, k)'
  BY <1>5, <1>6, Zenon DEF ProcessAt
<1>11. OffAt(a, k)'
  BY <1>1, <1>2, <1>6, <1>e, Zenon DEF OffAt, Asked
<1>12. MarkAt(a, k)'
  BY <1>1, <1>6, <1>7, Zenon DEF MarkAt
<1>13. ServedAt(a, k)'
  <2>1. k \in h[a].before /\ faults' <= 1 => k \in Serving' /\ Accepts(k, file'[k])
    <3>1. k \in h[a].before /\ faults <= 1 => Accepts(k, file[k])
      BY <1>0, <1>2, Zenon DEF ServedAt
    <3> QED BY <1>5, <1>7, <3>1, Zenon
  <2> QED BY <1>1, <1>2, <1>6, <2>1, Zenon DEF ServedAt, Asked
<1>14. CoreAt(a, k)'
  BY <1>10, <1>11, <1>12, <1>13, Zenon DEF CoreAt
<1> QED BY <1>1, <1>5, <1>6, <1>e, <1>8, <1>9, <1>14, StepAt, Zenon

\* Process.Start of the Start RPC.
LEMMA WriteKeeps ==
    ASSUME OneHandler, CoresInv, IInv', NEW a \in Handlers, NEW k \in Cores, Write(a, k)
    PROVE  CoresInv'
<1>0. /\ IInv /\ Types /\ Shape(a) /\ ProcessAt(a, k) /\ OffAt(a, k) /\ MarkAt(a, k) /\ ServedAt(a, k)
  BY Parts, Zenon
<1>1. /\ h[a].pc = "write" /\ Current(a, k) /\ UNCHANGED <<marker, booting, off>>
  BY AtCurrent, Zenon DEF Write
<1>2. /\ h[a].phase = "start" /\ h[a].rq = "start" /\ k \in h[a].todo /\ k \in Wanted(h[a].want)
      /\ k \notin off
  BY <1>0, <1>1, Zenon DEF Shape, Current, Least, OffAt
<1>3. PICK ok \in BOOLEAN : /\ Start(k, h[a].want[k], ok)
                            /\ IF ok THEN Goto(a, "hash") ELSE Return(a, FALSE)
  BY Zenon DEF Write
<1>4. h[a].want[k] \in Content /\ h[a].want[k] # NoCfg
  BY <1>0, <1>2, Zenon DEF Types, Content, Wanted
<1>5. /\ \A j \in Cores : j # k => SameAt(j)
      /\ file' \in [Cores -> Content] /\ DOMAIN marker' = Cores
      /\ faults \in Nat /\ faults' \in Nat /\ faults <= faults'
      /\ state'[k] = "running" => \E c \in alive' \cup exited' : c.core = k
      /\ \A c \in alive' : c.core = k => c.cfg = file'[k] /\ Accepts(k, file'[k])
      /\ faults' = 0 /\ state'[k] = "running" => file'[k] # NoCfg
      /\ ~ok => state'[k] # "running"
  <2>1. CASE state[k] = "running"
    <3>1. ok /\ UNCHANGED <<file, marker, state, alive, exited, faults>>
      BY <1>1, <1>3, <2>1, Zenon DEF Start, process, NoFault
    <3> QED BY <1>0, <2>1, <3>1 DEF SameAt, Types, Content, ProcessAt, MarkAt
  <2>2. CASE state[k] # "running"
    BY <1>0, <1>1, <1>3, <1>4, <2>2, StartEffect
  <2> QED BY <2>1, <2>2, Zenon
<1>6. /\ DOMAIN h' = Handlers /\ DOMAIN h'[a] = HandlerFields /\ Asked(a)
      /\ h'[a].phase = h[a].phase /\ h'[a].todo = h[a].todo /\ h'[a].old = h[a].old
      /\ h'[a].stopped = h[a].stopped
      /\ \/ ok /\ h'[a].pc = "hash" /\ h'[a].ok = h[a].ok
         \/ ~ok /\ h'[a].pc = "reply" /\ h'[a].ok = FALSE
  <2>1. CASE ok
    BY <1>0, <1>3, <2>1, GotoFields, Zenon
  <2>2. CASE ~ok
    BY <1>0, <1>3, <2>2, ReturnFields, Zenon
  <2> QED BY <2>1, <2>2, Zenon
<1>e. h'[a].ok \in BOOLEAN /\ (h'[a].ok => h[a].ok)
  <2>1. h[a].ok \in BOOLEAN
    BY <1>0, Zenon DEF Types
  <2>2. CASE h'[a].ok = h[a].ok
    BY <2>1, <2>2, Zenon
  <2>3. CASE h'[a].ok = FALSE
    BY <2>3, Zenon
  <2> QED BY <1>6, <2>2, <2>3, Zenon
<1>7. Types'
  BY <1>0, <1>5, <1>6, <1>e, StillTypes, Zenon DEF Types, Asked, Content
<1>8. Shape(a)'
  BY <1>0, <1>1, <1>2, <1>6, Zenon DEF Shape, Asked
<1>9. ProcessAt(a, k)'
  BY <1>2, <1>5, <1>6, Zenon DEF ProcessAt
<1>10. OffAt(a, k)'
  BY <1>1, <1>2, <1>6, Zenon DEF OffAt, Asked
<1>11. MarkAt(a, k)'
  BY <1>1, <1>2, <1>5, <1>6, Zenon DEF MarkAt, Lags, Current
<1>12. ServedAt(a, k)'
  BY <1>2, <1>6, Zenon DEF ServedAt, Asked
<1>13. CoreAt(a, k)'
  BY <1>9, <1>10, <1>11, <1>12, Zenon DEF CoreAt
<1> QED BY <1>1, <1>2, <1>5, <1>6, <1>e, <1>7, <1>8, <1>13, StepAt, Zenon

\* An unwanted core that runs is marked active again.
LEMMA RemarkKeeps ==
    ASSUME OneHandler, CoresInv, NEW a \in Handlers, NEW k \in Cores, Remark(a, k)
    PROVE  CoresInv'
<1>0. /\ IInv /\ Types /\ Shape(a) /\ ProcessAt(a, k) /\ OffAt(a, k) /\ MarkAt(a, k) /\ ServedAt(a, k)
  BY Parts, Zenon
<1>1. /\ h[a].pc = "next" /\ Current(a, k) /\ h[a].phase = "remark" /\ h[a].rq = "apply"
      /\ k \notin Wanted(h[a].want) /\ UNCHANGED <<disk, process, booting, off, faults>>
  BY <1>0, AtCurrent, Zenon DEF Remark, NoFault, Shape, Current, Least
<1>2. /\ IInv' /\ Serving' = Serving /\ (\A j \in Cores : SameAt(j))
      /\ UNCHANGED <<file, marker, state, alive, exited, booting, off, faults>>
  BY <1>1, StillWorld, Zenon
<1>3. CASE k \notin Running
  <2>1. DoneWith(a, k) /\ state[k] # "running"
    BY <1>3, Zenon DEF Remark, Running
  <2> QED BY <1>1, <1>2, <2>1, DoneKeeps, Zenon
<1>4. CASE k \in Running
  <2>1. Goto(a, "hash") /\ state[k] = "running"
    BY <1>4, Zenon DEF Remark, Running
  <2>2. /\ DOMAIN h' = Handlers /\ DOMAIN h'[a] = HandlerFields /\ Asked(a) /\ h'[a].pc = "hash"
        /\ h'[a].phase = h[a].phase /\ h'[a].todo = h[a].todo /\ h'[a].old = h[a].old
        /\ h'[a].stopped = h[a].stopped /\ h'[a].ok = h[a].ok
    BY <1>0, <2>1, GotoFields, Zenon
  <2>e. h'[a].ok <=> h[a].ok
    BY <2>2, Zenon
  <2>3. ~h[a].ok /\ k \notin off
    BY <1>0, <1>1, <2>1, Zenon DEF OffAt, Down
  <2>4. Types'
    <3>1. h'[a].ok \in BOOLEAN
      BY <1>0, <2>2, Zenon DEF Types
    <3> QED BY <1>0, <1>2, <2>2, <3>1, StillTypes, Zenon DEF Types, Asked
  <2>5. Shape(a)'
    BY <1>0, <1>1, <1>2, <2>2, <2>e, <2>3, Zenon DEF Shape, Asked
  <2>6. ProcessAt(a, k)'
    BY <1>0, <1>1, <1>2, <2>2, Zenon DEF ProcessAt
  <2>7. OffAt(a, k)'
    BY <1>0, <1>1, <1>2, <2>2, <2>e, <2>3, Zenon DEF OffAt, Down, Asked
  <2>8. MarkAt(a, k)'
    BY <1>0, <1>1, <1>2, <2>2, Zenon DEF MarkAt, Lags, Current
  <2>9. ServedAt(a, k)'
    BY <1>0, <1>1, <1>2, <2>2, <2>e, Zenon DEF ServedAt, Asked
  <2>10. CoreAt(a, k)'
    BY <2>6, <2>7, <2>8, <2>9, Zenon DEF CoreAt
  <2>11. faults <= faults' /\ \A j \in Cores : SameAt(j)
    BY <1>0, <1>2, FaultsStep, Zenon DEF Types
  <2> QED BY <1>1, <1>2, <2>2, <2>e, <2>4, <2>5, <2>10, <2>11, StepAt, Zenon
<1> QED BY <1>3, <1>4, Zenon

-----------------------------------------------------------------------------
(* MarkActive and the end of a loop. *)

\* MarkActive failed.
LEMMA MarkFailedKeeps ==
    ASSUME OneHandler, CoresInv, NEW a \in Handlers, NEW k \in Cores, Current(a, k),
           h[a].pc \in {"hash", "mark"}, MarkFailed(a, k),
           UNCHANGED <<disk, process, booting, off>>, faults' \in {faults, faults + 1},
           faults' = faults => h[a].pc = "hash" /\ file[k] = NoCfg
    PROVE  CoresInv'
<1>0. Types /\ Shape(a) /\ MarkAt(a, k) /\ k \in h[a].todo
  BY Parts, Zenon DEF Current, Least
<1>1. faults' = 0 => state[k] # "running"
  BY <1>0 DEF MarkAt, Types
<1>2. h[a].phase \in {"apply", "remark", "start"} /\ (h[a].phase = "remark" => ~h[a].ok)
  BY <1>0, Zenon DEF Shape
<1>3. h[a].rq = "apply" => h[a].phase \in {"apply", "remark"}
  BY <1>0, <1>2, Zenon DEF Shape
<1>4. h[a].phase = "apply" => h[a].ok /\ faults' = faults + 1
  <2>1. h[a].phase = "apply" => h[a].ok /\ k \in Wanted(h[a].want)
    BY <1>0, Zenon DEF Shape
  <2>2. h[a].phase = "apply" /\ h[a].pc = "hash" => file[k] = h[a].want[k]
    BY <1>0, Zenon DEF MarkAt
  <2> QED BY <2>1, <2>2, Zenon DEF Wanted
<1>5. CASE h[a].ok
  BY <1>1, <1>2, <1>3, <1>4, <1>5, ReturnKeeps, Zenon DEF MarkFailed
<1>6. CASE ~h[a].ok
  BY <1>1, <1>2, <1>4, <1>6, DoneKeeps, Zenon DEF MarkFailed
<1> QED BY <1>5, <1>6, Zenon

\* MarkActive reads the file.
LEMMA HashKeeps ==
    ASSUME OneHandler, CoresInv, NEW a \in Handlers, NEW k \in Cores, Hash(a, k)
    PROVE  CoresInv'
<1>0. /\ IInv /\ Types /\ Shape(a) /\ ProcessAt(a, k) /\ OffAt(a, k) /\ MarkAt(a, k) /\ ServedAt(a, k)
  BY Parts, Zenon
<1>1. /\ h[a].pc = "hash" /\ Current(a, k) /\ UNCHANGED <<disk, process, booting, off>>
  BY AtCurrent, Zenon DEF Hash
<1>2. /\ IInv' /\ Serving' = Serving /\ (\A j \in Cores : SameAt(j))
      /\ UNCHANGED <<file, marker, state, alive, exited, booting, off>>
  BY <1>1, StillWorld, Zenon
<1>3. CASE file[k] = NoCfg /\ MarkFailed(a, k) /\ NoFault
  BY <1>1, <1>3, MarkFailedKeeps, Zenon DEF NoFault
<1>4. CASE Fault /\ MarkFailed(a, k)
  <2>1. faults' = faults + 1 /\ faults' # faults
    BY <1>0, <1>4 DEF Fault, Types
  <2> QED BY <1>1, <1>4, <2>1, MarkFailedKeeps, Zenon
<1>5. CASE h' = [h EXCEPT ![a].pc = "mark", ![a].sum = file[k]] /\ NoFault
  <2> DEFINE r == [h[a] EXCEPT !.pc = "mark", !.sum = file[k]]
  <2>1. h' = [h EXCEPT ![a] = r] /\ faults' = faults
    BY <1>0, <1>5, Zenon DEF Types, NoFault
  <2>2. h'[a] = r /\ DOMAIN h' = Handlers
    BY <2>1, <1>0, Zenon DEF Types
  <2>3. /\ DOMAIN h'[a] = HandlerFields /\ Asked(a) /\ h'[a].pc = "mark" /\ h'[a].sum = file[k]
        /\ h'[a].phase = h[a].phase /\ h'[a].todo = h[a].todo /\ h'[a].old = h[a].old
        /\ h'[a].stopped = h[a].stopped /\ h'[a].ok = h[a].ok
    BY <2>2, <1>0, Zenon DEF Types, Asked, HandlerFields
  <2>4. h'[a].ok <=> h[a].ok
    BY <2>3, Zenon
  <2>5. Types'
    <3>1. h'[a].ok \in BOOLEAN
      BY <1>0, <2>3, Zenon DEF Types
    <3> QED BY <1>0, <1>2, <2>1, <2>2, <2>3, <3>1, StillTypes, ZenonT(60) DEF Types, Asked
  <2>6. Shape(a)'
    BY <1>0, <1>1, <1>2, <2>1, <2>3, <2>4, Zenon DEF Shape, Asked
  <2>7. Current(a, k)'
    BY <1>1, <2>3, Zenon DEF Current
  <2>8. ProcessAt(a, k)'
    BY <1>0, <1>1, <1>2, <2>3, Zenon DEF ProcessAt
  <2>9. OffAt(a, k)'
    BY <1>0, <1>1, <1>2, <2>3, <2>4, <2>7, Zenon DEF OffAt, Down, Asked
  <2>10. MarkAt(a, k)'
    BY <1>0, <1>1, <1>2, <2>1, <2>3, <2>7, Zenon DEF MarkAt, Lags
  <2>11. ServedAt(a, k)'
    BY <1>0, <1>1, <1>2, <2>1, <2>3, <2>4, <2>7, Zenon DEF ServedAt, Asked, InTheAir
  <2>12. CoreAt(a, k)'
    BY <2>8, <2>9, <2>10, <2>11, Zenon DEF CoreAt
  <2>13. faults <= faults'
    BY <1>0, <2>1, FaultsStep, Zenon DEF Types
  <2> QED BY <1>1, <1>2, <2>1, <2>3, <2>4, <2>5, <2>6, <2>12, <2>13, StepAt, Zenon
<1> QED BY <1>3, <1>4, <1>5, Zenon DEF Hash

\* MarkActive replaces the marker.
LEMMA MarkKeeps ==
    ASSUME OneHandler, CoresInv, IInv', NEW a \in Handlers, NEW k \in Cores, Mark(a, k)
    PROVE  CoresInv'
<1>0. /\ IInv /\ Types /\ Shape(a) /\ ProcessAt(a, k) /\ OffAt(a, k) /\ MarkAt(a, k) /\ ServedAt(a, k)
  BY Parts, Zenon
<1>1. /\ h[a].pc = "mark" /\ Current(a, k) /\ k \in h[a].todo
      /\ UNCHANGED <<file, process, booting, off>>
  BY AtCurrent, Zenon DEF Mark, Current, Least
<1>2. CASE Fault /\ MarkFailed(a, k) /\ UNCHANGED marker
  <2>1. faults' = faults + 1 /\ faults' # faults /\ UNCHANGED disk
    BY <1>0, <1>1, <1>2 DEF Fault, Types, disk
  <2> QED BY <1>1, <1>2, <2>1, MarkFailedKeeps, Zenon
<1>3. CASE marker' = [marker EXCEPT ![k] = h[a].sum] /\ DoneWith(a, k) /\ NoFault
  <2>1. /\ DOMAIN h' = Handlers /\ DOMAIN h'[a] = HandlerFields /\ Asked(a) /\ h'[a].pc = "next"
        /\ h'[a].phase = h[a].phase /\ h'[a].todo = h[a].todo \ {k} /\ h'[a].old = h[a].old
        /\ h'[a].stopped = h[a].stopped /\ h'[a].ok = h[a].ok
    BY <1>0, <1>3, DoneFields, Zenon
  <2>e. h'[a].ok <=> h[a].ok
    BY <2>1, Zenon
  <2>2. /\ UNCHANGED <<file, state, alive, exited, booting, off, faults>> /\ Serving' = Serving
        /\ DOMAIN marker' = Cores /\ marker'[k] = file[k]
        /\ \A j \in Cores : j # k => SameAt(j)
    BY <1>0, <1>1, <1>3, Zenon DEF process, NoFault, Serving, Types, SameAt, MarkAt
  <2>3. /\ h[a].phase \in {"apply", "remark", "start"} /\ (h[a].phase = "remark" => ~h[a].ok)
        /\ h[a].phase \in {"apply", "start"} => k \in Wanted(h[a].want)
        /\ h[a].phase \in {"apply", "remark"} => h[a].rq = "apply"
        /\ h[a].phase = "start" => h[a].rq = "start"
    BY <1>0, <1>1, Zenon DEF Shape
  <2>4. k \notin off
    BY <1>0, <1>1, <2>3, Zenon DEF OffAt
  <2>5. Types'
    <3>1. h'[a].ok \in BOOLEAN
      BY <1>0, <2>1, Zenon DEF Types
    <3> QED BY <1>0, <2>1, <2>2, <3>1, StillTypes, Zenon DEF Types, Asked
  <2>6. Shape(a)'
    BY <1>0, <1>1, <2>1, <2>e, <2>2, Zenon DEF Shape, Asked
  <2>7. ProcessAt(a, k)'
    BY <1>0, <2>1, <2>2, Zenon DEF ProcessAt
  <2>8. OffAt(a, k)'
    BY <2>1, <2>e, <2>2, <2>3, <2>4, Zenon DEF OffAt, Asked
  <2>9. MarkAt(a, k)'
    BY <1>0, <2>1, <2>2, Zenon DEF MarkAt
  <2>10. ServedAt(a, k)'
    BY <1>0, <1>1, <2>1, <2>e, <2>2, <2>3, Zenon DEF ServedAt, Asked, InTheAir
  <2>11. CoreAt(a, k)'
    BY <2>7, <2>8, <2>9, <2>10, Zenon DEF CoreAt
  <2>12. faults <= faults'
    BY <1>0, <2>2, FaultsStep, Zenon DEF Types
  <2> QED BY <1>1, <2>1, <2>e, <2>2, <2>5, <2>6, <2>11, <2>12, StepAt, Zenon
<1> QED BY <1>2, <1>3, Zenon DEF Mark

\* Where the loops of a request lead.
LEMMA PhaseEndFields ==
    ASSUME Types, NEW a \in Handlers, PhaseEnd(a)
    PROVE  /\ DOMAIN h' = Handlers /\ DOMAIN h'[a] = HandlerFields /\ Asked(a)
           /\ h'[a].old = h[a].old /\ h'[a].stopped = h[a].stopped /\ h'[a].ok = h[a].ok
           /\ \/ /\ h[a].phase = "obsolete" /\ h[a].rq = "apply"
                 /\ h'[a].phase = "apply" /\ h'[a].todo = Wanted(h[a].want) /\ h'[a].pc = "next"
              \/ /\ h[a].phase \in {"apply", "undo"} /\ h'[a].pc = "next"
                 /\ h'[a].phase = "remark" /\ h'[a].todo = Cores \ Wanted(h[a].want)
              \/ /\ ~(h[a].phase = "obsolete" /\ h[a].rq = "apply")
                 /\ h[a].phase \notin {"apply", "undo"}
                 /\ h'[a].phase = h[a].phase /\ h'[a].todo = {} /\ h'[a].pc = "reply"
<1>0. h[a].pc = "next" /\ h[a].todo = {}
  BY Zenon DEF PhaseEnd
<1>1. CASE h[a].phase = "obsolete" /\ h[a].rq = "apply"
  <2> DEFINE r == [h[a] EXCEPT !.phase = "apply", !.todo = Wanted(h[a].want)]
  <2>1. h' = [h EXCEPT ![a].phase = "apply", ![a].todo = Wanted(h[a].want)]
    BY <1>1, Zenon DEF PhaseEnd
  <2>2. h' = [h EXCEPT ![a] = r]
    BY <2>1, Zenon DEF Types
  <2>3. h'[a] = r /\ DOMAIN h' = Handlers
    BY <2>2, Zenon DEF Types
  <2> QED BY <1>0, <1>1, <2>3, Zenon DEF Types, Asked, HandlerFields
<1>2. CASE h[a].phase \in {"apply", "undo"}
  <2> DEFINE r == [h[a] EXCEPT !.phase = "remark", !.todo = Cores \ Wanted(h[a].want)]
  <2>1. h' = [h EXCEPT ![a].phase = "remark", ![a].todo = Cores \ Wanted(h[a].want)]
    BY <1>2, Zenon DEF PhaseEnd
  <2>2. h' = [h EXCEPT ![a] = r]
    BY <2>1, Zenon DEF Types
  <2>3. h'[a] = r /\ DOMAIN h' = Handlers
    BY <2>2, Zenon DEF Types
  <2> QED BY <1>0, <1>2, <2>3, Zenon DEF Types, Asked, HandlerFields
<1>3. CASE /\ ~(h[a].phase = "obsolete" /\ h[a].rq = "apply")
           /\ h[a].phase \notin {"apply", "undo"}
  <2>1. Return(a, h[a].ok)
    BY <1>3, Zenon DEF PhaseEnd
  <2> QED BY <1>0, <1>3, <2>1, ReturnFields, Zenon
<1> QED BY <1>1, <1>2, <1>3, Zenon

\* A loop of the request is over.
LEMMA PhaseEndKeeps ==
    ASSUME OneHandler, CoresInv, NEW a \in Handlers, PhaseEnd(a)
    PROVE  CoresInv'
<1>0. IInv /\ Types /\ Shape(a)
  BY Zenon DEF CoresInv
<1>1. h[a].pc = "next" /\ h[a].todo = {} /\ UNCHANGED <<disk, process, booting, off, faults>>
  BY Zenon DEF PhaseEnd, NoFault
<1>2. /\ IInv' /\ Serving' = Serving
      /\ UNCHANGED <<file, marker, state, alive, exited, booting, off, faults>>
  BY <1>1, StillWorld, Zenon
<1>3. /\ DOMAIN h' = Handlers /\ DOMAIN h'[a] = HandlerFields /\ Asked(a)
      /\ h'[a].old = h[a].old /\ h'[a].stopped = h[a].stopped /\ h'[a].ok = h[a].ok
      /\ \/ /\ h[a].phase = "obsolete" /\ h[a].rq = "apply"
            /\ h'[a].phase = "apply" /\ h'[a].todo = Wanted(h[a].want) /\ h'[a].pc = "next"
         \/ /\ h[a].phase \in {"apply", "undo"} /\ h'[a].pc = "next"
            /\ h'[a].phase = "remark" /\ h'[a].todo = Cores \ Wanted(h[a].want)
         \/ /\ ~(h[a].phase = "obsolete" /\ h[a].rq = "apply")
            /\ h[a].phase \notin {"apply", "undo"}
            /\ h'[a].phase = h[a].phase /\ h'[a].todo = {} /\ h'[a].pc = "reply"
  BY <1>0, PhaseEndFields, Zenon
<1>e. h'[a].ok <=> h[a].ok
  BY <1>3, Zenon
<1>4. Types'
  <2>1. h'[a].ok \in BOOLEAN
    BY <1>0, <1>3, Zenon DEF Types
  <2>2. h'[a].todo \subseteq Cores
    BY <1>3, Zenon DEF Wanted
  <2> QED BY <1>0, <1>2, <1>3, <2>1, <2>2, StillTypes, Zenon DEF Types, Asked
<1>5. Shape(a)'
  <2>1. CASE h[a].phase = "obsolete" /\ h[a].rq = "apply"
    BY <1>0, <1>1, <1>2, <1>3, <1>e, <2>1, Zenon DEF Shape, Asked
  <2>2. CASE h[a].phase \in {"apply", "undo"}
    BY <1>0, <1>1, <1>2, <1>3, <1>e, <2>2, Zenon DEF Shape, Asked
  <2>3. CASE /\ ~(h[a].phase = "obsolete" /\ h[a].rq = "apply")
             /\ h[a].phase \notin {"apply", "undo"}
    BY <1>0, <1>1, <1>2, <1>3, <1>e, <2>3, Zenon DEF Shape, Asked
  <2> QED BY <2>1, <2>2, <2>3, Zenon
<1>6. ASSUME NEW k \in Cores PROVE CoreAt(a, k)'
  <2>0. /\ ProcessAt(a, k) /\ OffAt(a, k) /\ MarkAt(a, k) /\ ServedAt(a, k) /\ ~Current(a, k)
    BY <1>1, Parts, Zenon DEF Current, Least
  <2>1. ProcessAt(a, k)'
    BY <1>1, <1>2, <1>3, <2>0, Zenon DEF ProcessAt
  <2>2. OffAt(a, k)'
    BY <1>0, <1>1, <1>2, <1>3, <1>e, <2>0, Zenon DEF OffAt, Down, Asked, Shape
  <2>3. MarkAt(a, k)'
    BY <1>1, <1>2, <1>3, <2>0, Zenon DEF MarkAt, Lags
  <2>4. ServedAt(a, k)'
    <3>1. h[a].phase \in {"obsolete", "apply"} /\ h[a].rq = "apply" => h[a].ok
      BY <1>0, <1>1, Zenon DEF Shape
    <3>2. h[a].phase = "remark" => h'[a].phase = "remark"
      BY <1>3, Zenon
    <3> QED BY <1>1, <1>2, <1>3, <1>e, <2>0, <3>1, <3>2, Zenon DEF ServedAt, Asked, InTheAir
  <2> QED BY <2>1, <2>2, <2>3, <2>4, Zenon DEF CoreAt
<1> QED BY <1>2, <1>4, <1>5, <1>6, Zenon DEF CoresInv, OneHandler

-----------------------------------------------------------------------------
(* The answer and the arrival of a request. *)

\* A handler with nothing to do asks nothing of a core but that what is off is
\* down and what runs is what a reboot would start.
LEMMA IdleKeeps ==
    ASSUME OneHandler, IInv', Types', NEW a \in Handlers, h'[a] = Idle,
           \A k \in Cores :
             /\ state'[k] = "running" => \E c \in alive' \cup exited' : c.core = k
             /\ \A c \in alive' : c.core = k => c.cfg = file'[k] /\ Accepts(k, file'[k])
             /\ k \in off' => marker'[k] = Off /\ state'[k] # "running"
             /\ faults' = 0 /\ state'[k] = "running" => file'[k] # NoCfg /\ marker'[k] = file'[k]
    PROVE  CoresInv'
<1>1. /\ h'[a].pc = "idle" /\ h'[a].rq = "none" /\ h'[a].phase = "none" /\ h'[a].todo = {}
      /\ h'[a].stopped = {}
  BY DEF Idle
<1>2. Shape(a)'
  BY <1>1, Zenon DEF Shape
<1>3. ASSUME NEW k \in Cores PROVE CoreAt(a, k)'
  <2>1. ProcessAt(a, k)'
    BY <1>1, Zenon DEF ProcessAt
  <2>2. OffAt(a, k)'
    BY <1>1, Zenon DEF OffAt, Down
  <2>3. MarkAt(a, k)'
    BY <1>1, Zenon DEF MarkAt
  <2>4. ServedAt(a, k)'
    BY <1>1, Zenon DEF ServedAt
  <2> QED BY <2>1, <2>2, <2>3, <2>4, Zenon DEF CoreAt
<1> QED BY <1>2, <1>3 DEF CoresInv, OneHandler

\* The types of a handler that is idle.
LEMMA IdleTypes ==
    ASSUME Types, NEW a \in Handlers, Handlers = {a}, h' = [h EXCEPT ![a] = Idle] \/ h' = [b \in Handlers |-> Idle],
           file' \in [Cores -> Content], DOMAIN marker' = Cores, faults' \in Nat
    PROVE  Types' /\ h'[a] = Idle
<1>1. h'[a] = Idle /\ DOMAIN h' = Handlers
  BY Zenon DEF Types
<1>2. /\ DOMAIN Idle = HandlerFields /\ Idle.todo \subseteq Cores /\ Idle.stopped \subseteq Cores
      /\ Idle.before \subseteq Cores /\ Idle.ok \in BOOLEAN
      /\ Idle.want \in [Cores -> Configs \cup {NoCfg}] /\ Idle.old \in Configs \cup {NoCfg, Torn}
  BY Zenon DEF Idle, HandlerFields
<1> QED BY <1>1, <1>2, Zenon DEF Types, Content

\* The answer of a request: what it reports as stopped is down.
LEMMA ReplyKeeps ==
    ASSUME OneHandler, CoresInv, NEW a \in Handlers, Reply(a)
    PROVE  CoresInv'
<1>0. IInv /\ Types /\ Shape(a) /\ Handlers = {a}
  BY Zenon DEF CoresInv, OneHandler
<1>1. h[a].pc = "reply" /\ UNCHANGED <<disk, process, booting, faults>> /\ h' = [h EXCEPT ![a] = Idle]
  BY Zenon DEF Reply, NoFault
<1>2. IInv' /\ UNCHANGED <<file, marker, state, alive, exited, faults>>
  BY <1>1, StillWorld, Zenon
<1>3. Types' /\ h'[a] = Idle
  BY <1>0, <1>1, <1>2, IdleTypes, Zenon DEF Types, Content
<1>4. ASSUME NEW k \in Cores, k \in off' PROVE Down(k)
  <2>0. OffAt(a, k)
    BY Parts, Zenon
  <2>1. CASE h[a].rq = "apply" /\ h[a].ok
    <3>1. k \in off \/ k \notin Wanted(h[a].want)
      BY <1>4, <2>1, Zenon DEF Reply
    <3>2. h[a].phase # "obsolete"
      BY <1>0, <1>1, <2>1, Zenon DEF Shape
    <3> QED BY <2>0, <2>1, <3>1, <3>2, Zenon DEF OffAt
  <2>2. CASE h[a].rq = "stop" /\ h[a].ok
    <3>1. k \in off \/ k \in h[a].stopped
      BY <1>4, <2>2, Zenon DEF Reply
    <3>2. h[a].todo = {}
      BY <1>0, <1>1, <2>2, Zenon DEF Shape
    <3> QED BY <2>0, <2>2, <3>1, <3>2, Zenon DEF OffAt
  <2>3. CASE ~(h[a].rq = "apply" /\ h[a].ok) /\ ~(h[a].rq = "stop" /\ h[a].ok)
    <3>1. k \in off
      BY <1>4, <2>3, Zenon DEF Reply
    <3> QED BY <2>0, <3>1, Zenon DEF OffAt
  <2> QED BY <2>1, <2>2, <2>3, Zenon
<1>5. ASSUME NEW k \in Cores
      PROVE  /\ state'[k] = "running" => \E c \in alive' \cup exited' : c.core = k
             /\ \A c \in alive' : c.core = k => c.cfg = file'[k] /\ Accepts(k, file'[k])
             /\ k \in off' => marker'[k] = Off /\ state'[k] # "running"
             /\ faults' = 0 /\ state'[k] = "running" => file'[k] # NoCfg /\ marker'[k] = file'[k]
  <2>0. ProcessAt(a, k) /\ MarkAt(a, k)
    BY Parts, Zenon
  <2>1. ~Lags(a, k)
    BY <1>1, Zenon DEF Lags
  <2> QED BY <1>2, <1>4, <2>0, <2>1, Zenon DEF ProcessAt, MarkAt, Down
<1> QED BY <1>2, <1>3, <1>5, IdleKeeps, Zenon

\* What an arriving request finds: no request is under way.
LEMMA Arrival ==
    ASSUME OneHandler, CoresInv, NEW a \in Handlers, NEW r, Accept(a, r)
    PROVE  /\ IInv' /\ Serving' = Serving /\ booting = {} /\ booting' = {} /\ h'[a] = r
           /\ DOMAIN h' = Handlers /\ Handlers = {a}
           /\ UNCHANGED <<file, marker, state, alive, exited, faults>>
           /\ Serving \subseteq Cores
           /\ \A k \in Cores :
                /\ state[k] = "running" => \E c \in alive \cup exited : c.core = k
                /\ \A c \in alive : c.core = k => c.cfg = file[k] /\ Accepts(k, file[k])
                /\ k \in off => Down(k)
                /\ faults = 0 /\ state[k] = "running" => file[k] # NoCfg /\ marker[k] = file[k]
                /\ k \in Serving => state[k] = "running" /\ Accepts(k, file[k])
<1>0. IInv /\ Types /\ Handlers = {a}
  BY Zenon DEF CoresInv, OneHandler
<1>1. /\ booting = {} /\ h[a].pc = "idle" /\ h' = [h EXCEPT ![a] = r]
      /\ UNCHANGED <<disk, process, booting, faults>>
  BY Zenon DEF Accept, NoFault
<1>2. h'[a] = r /\ DOMAIN h' = Handlers
  BY <1>0, <1>1, Zenon DEF Types
<1>3. Serving \subseteq Cores
  BY <1>0, Zenon DEF Serving, IInv, Typing
<1>4. ASSUME NEW k \in Cores
      PROVE  /\ state[k] = "running" => \E c \in alive \cup exited : c.core = k
             /\ \A c \in alive : c.core = k => c.cfg = file[k] /\ Accepts(k, file[k])
             /\ k \in off => Down(k)
             /\ faults = 0 /\ state[k] = "running" => file[k] # NoCfg /\ marker[k] = file[k]
             /\ k \in Serving => state[k] = "running" /\ Accepts(k, file[k])
  <2>0. ProcessAt(a, k) /\ OffAt(a, k) /\ MarkAt(a, k) /\ ~Lags(a, k)
    BY <1>1, Parts, Zenon DEF Lags
  <2> QED BY <1>0, <2>0, Zenon DEF ProcessAt, OffAt, MarkAt, Serving, IInv, OneChild
<1> QED BY <1>0, <1>1, <1>2, <1>3, <1>4, StillWorld, Zenon

\* An arriving request keeps the types.
LEMMA ArrivalTypes ==
    ASSUME Types, NEW a \in Handlers, Handlers = {a}, DOMAIN h' = Handlers,
           DOMAIN h'[a] = HandlerFields, h'[a].todo \subseteq Cores, h'[a].stopped = {},
           h'[a].before \subseteq Cores, h'[a].ok = TRUE,
           h'[a].want \in [Cores -> Configs \cup {NoCfg}], h'[a].old = NoCfg,
           UNCHANGED <<file, marker, faults>>
    PROVE  Types' /\ h'[a].ok
BY Zenon DEF Types

\* Server.Apply arrives.
LEMMA ApplyRpcKeeps ==
    ASSUME OneHandler, CoresInv, NEW a \in Handlers, ApplyRpc(a)
    PROVE  CoresInv'
<1>1. PICK w \in [Cores -> Configs \cup {NoCfg}] :
        /\ \A k \in Wanted(w) : Accepts(k, w[k])
        /\ Accept(a, [Idle EXCEPT !.pc = "next", !.rq = "apply", !.phase = "obsolete",
                                  !.todo = Cores \ Wanted(w), !.want = w, !.before = Serving])
        /\ off' = off \ Wanted(w)
  BY Zenon DEF ApplyRpc
<1> DEFINE r == [Idle EXCEPT !.pc = "next", !.rq = "apply", !.phase = "obsolete",
                             !.todo = Cores \ Wanted(w), !.want = w, !.before = Serving]
<1>2. /\ DOMAIN r = HandlerFields /\ r.pc = "next" /\ r.rq = "apply" /\ r.phase = "obsolete"
      /\ r.todo = Cores \ Wanted(w) /\ r.want = w /\ r.before = Serving /\ r.old = NoCfg
      /\ r.stopped = {} /\ r.ok = TRUE
  BY Zenon DEF Idle, HandlerFields
<1>3. Accept(a, r)
  BY <1>1, Zenon
<1> HIDE DEF r
<1>4. /\ IInv' /\ Serving' = Serving /\ booting = {} /\ booting' = {} /\ h'[a] = r
      /\ DOMAIN h' = Handlers /\ Handlers = {a}
      /\ UNCHANGED <<file, marker, state, alive, exited, faults>>
      /\ Serving \subseteq Cores
      /\ \A k \in Cores :
           /\ state[k] = "running" => \E c \in alive \cup exited : c.core = k
           /\ \A c \in alive : c.core = k => c.cfg = file[k] /\ Accepts(k, file[k])
           /\ k \in off => Down(k)
           /\ faults = 0 /\ state[k] = "running" => file[k] # NoCfg /\ marker[k] = file[k]
           /\ k \in Serving => state[k] = "running" /\ Accepts(k, file[k])
  BY <1>3, Arrival, Zenon
<1>5. Types' /\ h'[a].ok
  BY <1>2, <1>4, ArrivalTypes, Zenon DEF CoresInv
<1>6. Shape(a)'
  BY <1>1, <1>2, <1>4, <1>5, Zenon DEF Shape
<1>7. ASSUME NEW k \in Cores PROVE CoreAt(a, k)'
  <2>1. ProcessAt(a, k)'
    BY <1>2, <1>4 DEF ProcessAt
  <2>2. OffAt(a, k)'
    BY <1>1, <1>2, <1>4, Zenon DEF OffAt, Down
  <2>3. MarkAt(a, k)'
    BY <1>2, <1>4, Zenon DEF MarkAt
  <2>4. ServedAt(a, k)'
    BY <1>2, <1>4, Zenon DEF ServedAt
  <2> QED BY <2>1, <2>2, <2>3, <2>4, Zenon DEF CoreAt
<1>8. Handlers = {a} /\ IInv'
  BY <1>4, Zenon
<1> QED BY <1>5, <1>6, <1>7, <1>8, Zenon DEF CoresInv

\* The other requests: nothing is stopped yet, and a core to start is asked for.
LEMMA OtherRpcKeeps ==
    ASSUME OneHandler, CoresInv, NEW a \in Handlers, NEW r, Accept(a, r),
           DOMAIN r = HandlerFields, r.rq # "apply", r.todo \subseteq Cores,
           r.want \in [Cores -> Configs \cup {NoCfg}], r.before \subseteq Cores, r.old = NoCfg,
           r.stopped = {}, r.ok = TRUE,
           \/ r.rq = "stop" /\ r.phase = "obsolete" /\ r.pc = "next"
           \/ r.rq = "reload" /\ r.phase = "reload" /\ r.pc = "next"
           \/ r.rq = "start" /\ r.phase = "start" /\ r.pc = "write" /\ r.todo \subseteq Wanted(r.want),
           off' = off \ (IF r.rq = "start" THEN Wanted(r.want) ELSE {})
    PROVE  CoresInv'
<1>4. /\ IInv' /\ Serving' = Serving /\ booting = {} /\ booting' = {} /\ h'[a] = r
      /\ DOMAIN h' = Handlers /\ Handlers = {a}
      /\ UNCHANGED <<file, marker, state, alive, exited, faults>>
      /\ Serving \subseteq Cores
      /\ \A k \in Cores :
           /\ state[k] = "running" => \E c \in alive \cup exited : c.core = k
           /\ \A c \in alive : c.core = k => c.cfg = file[k] /\ Accepts(k, file[k])
           /\ k \in off => Down(k)
           /\ faults = 0 /\ state[k] = "running" => file[k] # NoCfg /\ marker[k] = file[k]
           /\ k \in Serving => state[k] = "running" /\ Accepts(k, file[k])
  BY Arrival, Zenon
<1>5. Types' /\ h'[a].ok
  BY <1>4, ArrivalTypes, Zenon DEF CoresInv
<1>6. Shape(a)'
  BY <1>4, <1>5, Zenon DEF Shape
<1>7. ASSUME NEW k \in Cores PROVE CoreAt(a, k)'
  <2>1. ProcessAt(a, k)'
    BY <1>4 DEF ProcessAt
  <2>2. OffAt(a, k)'
    BY <1>4, Zenon DEF OffAt, Down
  <2>3. MarkAt(a, k)'
    BY <1>4, Zenon DEF MarkAt
  <2>4. ServedAt(a, k)'
    BY <1>4, Zenon DEF ServedAt
  <2> QED BY <2>1, <2>2, <2>3, <2>4, Zenon DEF CoreAt
<1>8. Handlers = {a} /\ IInv'
  BY <1>4, Zenon
<1> QED BY <1>5, <1>6, <1>7, <1>8, Zenon DEF CoresInv

-----------------------------------------------------------------------------
(* Requests, children, boot and the theorems. *)

\* A request arrives.
LEMMA RequestKeeps ==
    ASSUME OneHandler, CoresInv, NEW a \in Handlers, Request(a)
    PROVE  CoresInv'
<1>0. Serving \subseteq Cores
  BY Zenon DEF CoresInv, IInv, Typing, Serving
<1>1. CASE ApplyRpc(a)
  BY <1>1, ApplyRpcKeeps, Zenon
<1>2. CASE StartRpc(a)
  <2>1. PICK k \in Cores, c \in Configs :
          /\ Accept(a, [Idle EXCEPT !.pc = "write", !.rq = "start", !.phase = "start",
                                    !.todo = {k}, !.want = [Idle.want EXCEPT ![k] = c],
                                    !.before = Serving])
          /\ off' = off \ {k}
    BY <1>2, Zenon DEF StartRpc
  <2> DEFINE w == [Idle.want EXCEPT ![k] = c]
             r == [Idle EXCEPT !.pc = "write", !.rq = "start", !.phase = "start",
                               !.todo = {k}, !.want = w, !.before = Serving]
  <2>2. Idle.want = [j \in Cores |-> NoCfg]
    BY Zenon DEF Idle
  <2>3. w \in [Cores -> Configs \cup {NoCfg}] /\ Wanted(w) = {k}
    BY <2>2, ConfigsAssumption, Zenon DEF Wanted
  <2>4. Accept(a, r)
    BY <2>1, Zenon
  <2> HIDE DEF w
  <2>5. /\ DOMAIN r = HandlerFields /\ r.pc = "write" /\ r.rq = "start" /\ r.phase = "start"
        /\ r.todo = {k} /\ r.want = w /\ r.before = Serving /\ r.old = NoCfg
        /\ r.stopped = {} /\ r.ok = TRUE
    BY Zenon DEF Idle, HandlerFields
  <2> HIDE DEF r
  <2> QED BY <1>0, <2>1, <2>3, <2>4, <2>5, OtherRpcKeeps, Zenon
<1>3. CASE StopRpc(a)
  <2>1. PICK k \in Cores :
          /\ Accept(a, [Idle EXCEPT !.pc = "next", !.rq = "stop", !.phase = "obsolete",
                                    !.todo = {k}, !.before = Serving \ {k}])
          /\ off' = off
    BY <1>3, Zenon DEF StopRpc
  <2> DEFINE r == [Idle EXCEPT !.pc = "next", !.rq = "stop", !.phase = "obsolete",
                               !.todo = {k}, !.before = Serving \ {k}]
  <2>2. Accept(a, r)
    BY <2>1, Zenon
  <2>3. /\ DOMAIN r = HandlerFields /\ r.pc = "next" /\ r.rq = "stop" /\ r.phase = "obsolete"
        /\ r.todo = {k} /\ r.want \in [Cores -> Configs \cup {NoCfg}] /\ r.before = Serving \ {k}
        /\ r.old = NoCfg /\ r.stopped = {} /\ r.ok = TRUE
    BY Zenon DEF Idle, HandlerFields
  <2> HIDE DEF r
  <2>4. off' = off \ (IF r.rq = "start" THEN Wanted(r.want) ELSE {})
    BY <2>1, <2>3, Zenon
  <2> QED BY <1>0, <2>2, <2>3, <2>4, OtherRpcKeeps, Zenon
<1>4. CASE Reload(a)
  <2> DEFINE r == [Idle EXCEPT !.pc = "next", !.rq = "reload", !.phase = "reload",
                               !.todo = Reloadable, !.before = Serving]
  <2>1. Accept(a, r) /\ off' = off
    BY <1>4, Zenon DEF Reload
  <2>2. /\ DOMAIN r = HandlerFields /\ r.pc = "next" /\ r.rq = "reload" /\ r.phase = "reload"
        /\ r.todo = Reloadable /\ r.want \in [Cores -> Configs \cup {NoCfg}] /\ r.before = Serving
        /\ r.old = NoCfg /\ r.stopped = {} /\ r.ok = TRUE
    BY Zenon DEF Idle, HandlerFields
  <2> HIDE DEF r
  <2>3. off' = off \ (IF r.rq = "start" THEN Wanted(r.want) ELSE {})
    BY <2>1, <2>2, Zenon
  <2> QED BY <1>0, <2>1, <2>2, <2>3, CoresAssumption, OtherRpcKeeps, Zenon
<1> QED BY <1>1, <1>2, <1>3, <1>4, Zenon DEF Request

\* A child exits: it was signalled, or no request is held to account for it.
LEMMA ExitKeeps ==
    ASSUME OneHandler, CoresInv, IInv', NEW c \in alive, Terminate(c) \/ Die(c)
    PROVE  CoresInv'
<1>0. PICK a \in Handlers : Handlers = {a}
  BY Zenon DEF OneHandler
<1>1. /\ IInv /\ Types /\ Shape(a) /\ c.core \in Cores /\ faults \in Nat
  BY Zenon DEF CoresInv, IInv, Typing, Types
<1>2. /\ UNCHANGED <<file, marker, state, booting, off>>
      /\ alive' = alive \ {c} /\ alive' \cup exited' = alive \cup exited
  BY Zenon DEF Terminate, Die, disk
<1>3. /\ DOMAIN h' = Handlers /\ DOMAIN h'[a] = HandlerFields /\ h'[a].before \subseteq h[a].before
      /\ h'[a].pc = h[a].pc /\ h'[a].rq = h[a].rq /\ h'[a].want = h[a].want /\ h'[a].sum = h[a].sum
      /\ h'[a].phase = h[a].phase /\ h'[a].todo = h[a].todo /\ h'[a].old = h[a].old
      /\ h'[a].stopped = h[a].stopped /\ h'[a].ok = h[a].ok /\ h'[a].target = h[a].target
      /\ \/ c.core \notin h'[a].before /\ faults' = faults + 1
         \/ At(a, "stopping", c.core) /\ faults' = faults
  <2>1. CASE Terminate(c)
    BY <1>0, <1>1, <2>1, Zenon DEF Terminate, Signalled, NoFault, Types
  <2>2. CASE Die(c)
    <3> DEFINE r == [h[a] EXCEPT !.before = h[a].before \ {c.core}]
    <3>1. h'[a] = r /\ DOMAIN h' = Handlers /\ faults' = faults + 1
      BY <2>2, Zenon DEF Die, Fault
    <3>2. DOMAIN h[a] = HandlerFields
      BY <1>1, Zenon DEF Types
    <3> QED BY <3>1, <3>2, Zenon DEF HandlerFields
  <2> QED BY <2>1, <2>2, Zenon
<1>e. h'[a].ok <=> h[a].ok
  BY <1>3, Zenon
<1>4. faults' \in Nat /\ faults <= faults' /\ (faults' = 0 => faults = 0) /\ (faults' <= 1 => faults <= 1)
  BY <1>1, <1>3
<1>5. Types'
  <2>1. h'[a].ok \in BOOLEAN
    BY <1>1, <1>3, Zenon DEF Types
  <2> QED BY <1>0, <1>1, <1>2, <1>3, <1>4, <2>1, Zenon DEF Types
<1>6. Shape(a)'
  BY <1>1, <1>2, <1>3, <1>e, <1>4, Zenon DEF Shape
<1>7. ASSUME NEW k \in Cores PROVE CoreAt(a, k)'
  <2>0. ProcessAt(a, k) /\ OffAt(a, k) /\ MarkAt(a, k) /\ ServedAt(a, k)
    BY Parts, Zenon
  <2>1. Current(a, k)' <=> Current(a, k)
    BY <1>3, Zenon DEF Current
  <2>2. ProcessAt(a, k)'
    <3>1. \A d \in alive' \cup exited' : d \in alive \cup exited
      BY <1>2, Zenon
    <3> QED BY <1>2, <1>3, <2>0, <2>1, <3>1, Zenon DEF ProcessAt
  <2>3. OffAt(a, k)'
    BY <1>2, <1>3, <1>e, <2>0, <2>1, Zenon DEF OffAt, Down
  <2>4. MarkAt(a, k)'
    BY <1>2, <1>3, <1>4, <2>0, <2>1, Zenon DEF MarkAt, Lags
  <2>5. k \in Serving /\ k # c.core => k \in Serving'
    BY <1>2, Zenon DEF Serving
  <2>6. k = c.core /\ k \in h'[a].before => Current(a, k) /\ h[a].pc = "stopping"
    BY <1>3, AtCurrent, Zenon
  <2>7. ServedAt(a, k)'
    <3>1. CASE k # c.core
      BY <1>2, <1>3, <1>e, <1>4, <2>0, <2>1, <2>5, <3>1, Zenon DEF ServedAt
    <3>2. CASE k = c.core /\ k \in h'[a].before
      <4>1. h[a].pc = "stopping" /\ Current(a, k)
        BY <2>6, <3>2, Zenon
      <4>2. h[a].phase \in {"obsolete", "apply", "reload"}
        BY <1>1, <4>1, Zenon DEF Shape
      <4> QED BY <1>2, <1>3, <1>e, <1>4, <2>0, <2>1, <3>2, <4>1, <4>2, Zenon DEF ServedAt, InTheAir
    <3>3. CASE k \notin h'[a].before
      BY <3>3, Zenon DEF ServedAt
    <3> QED BY <3>1, <3>2, <3>3, Zenon
  <2> QED BY <2>2, <2>3, <2>4, <2>7, Zenon DEF CoreAt
<1> QED BY <1>0, <1>5, <1>6, <1>7, Zenon DEF CoresInv

\* An exited child is reaped.
LEMMA ReapKeeps ==
    ASSUME OneHandler, CoresInv, IInv', NEW c \in exited, Reap(c)
    PROVE  CoresInv'
<1>0. PICK a \in Handlers : Handlers = {a}
  BY Zenon DEF OneHandler
<1>1. /\ IInv /\ Types /\ Shape(a) /\ c.core \in Cores /\ cmd[c.core] = c.id
  BY Zenon DEF CoresInv, IInv, Typing, OneChild
<1>2. /\ UNCHANGED <<file, marker, alive, booting, off, h, faults>> /\ exited' = exited \ {c}
      /\ Serving' = Serving
  BY Zenon DEF Reap, disk, NoFault, Serving
<1>3. PICK s \in {"stopped", "errored"} : state' = [state EXCEPT ![c.core] = s]
  BY <1>1, Zenon DEF Reap
<1>4. state'[c.core] # "running" /\ \A k \in Cores : k # c.core => state'[k] = state[k]
  BY <1>1, <1>3, Zenon DEF IInv, Typing
<1>5. Types' /\ Shape(a)'
  BY <1>1, <1>2, Zenon DEF Types, Shape
<1>6. ASSUME NEW k \in Cores PROVE CoreAt(a, k)'
  <2>0. /\ ProcessAt(a, k) /\ OffAt(a, k) /\ MarkAt(a, k) /\ ServedAt(a, k)
        /\ (Current(a, k)' <=> Current(a, k)) /\ (state'[k] = "running" => state[k] = "running")
    BY <1>2, <1>4, Parts, Zenon DEF Current
  <2>1. ProcessAt(a, k)'
    <3>1. state'[k] = "running" => \E d \in alive' \cup exited' : d.core = k
      BY <1>2, <1>4, <2>0, Zenon DEF ProcessAt
    <3>2. \A d \in alive' \cup exited' : d \in alive \cup exited
      BY <1>2, Zenon
    <3> QED BY <1>2, <2>0, <3>1, <3>2, Zenon DEF ProcessAt
  <2>2. OffAt(a, k)'
    BY <1>2, <2>0, Zenon DEF OffAt, Down
  <2>3. MarkAt(a, k)'
    BY <1>2, <2>0, Zenon DEF MarkAt, Lags
  <2>4. ServedAt(a, k)'
    BY <1>2, <2>0, Zenon DEF ServedAt
  <2> QED BY <2>1, <2>2, <2>3, <2>4, Zenon DEF CoreAt
<1> QED BY <1>0, <1>5, <1>6, Zenon DEF CoresInv

\* recoverCore starts a core whose marker is active.
LEMMA RecoverKeeps ==
    ASSUME OneHandler, CoresInv, IInv', NEW k \in Cores, RecoverCore(k)
    PROVE  CoresInv'
<1>0. PICK a \in Handlers : Handlers = {a}
  BY Zenon DEF OneHandler
<1>1. /\ IInv /\ Types /\ Shape(a) /\ h[a].pc = "idle" /\ h[a].rq = "none" /\ h[a].phase = "none"
      /\ UNCHANGED <<marker, h, off>>
  BY Zenon DEF CoresInv, RecoverCore, Shape
<1>2. /\ \A j \in Cores : j # k => SameAt(j)
      /\ file' \in [Cores -> Content] /\ faults' \in Nat /\ (faults' = 0 => faults = 0)
      /\ state'[k] = "running" => \E c \in alive' \cup exited' : c.core = k
      /\ \A c \in alive' : c.core = k => c.cfg = file'[k] /\ Accepts(k, file'[k])
      /\ k \in off => Down(k)'
      /\ faults' = 0 /\ state'[k] = "running" => file'[k] # NoCfg /\ marker'[k] = file'[k]
  <2>0. ProcessAt(a, k) /\ OffAt(a, k) /\ MarkAt(a, k) /\ ~Lags(a, k) /\ file[k] \in Content
    BY <1>1, Parts, Zenon DEF Lags, Types, Content
  <2>1. CASE UNCHANGED <<process, file, faults>>
    <3>1. UNCHANGED <<file, marker, state, alive, exited, faults, off>>
      BY <1>1, <2>1, Zenon DEF process
    <3> QED BY <1>1, <2>0, <3>1, Zenon DEF SameAt, Types, Content, ProcessAt, OffAt, MarkAt, Down
  <2>2. CASE ShouldRecover(k) /\ ~(UNCHANGED <<process, file, faults>>)
    <3>1. PICK ok \in BOOLEAN : Start(k, file[k], ok)
      BY <2>2, Zenon DEF RecoverCore
    <3>2. state[k] # "running"
      BY <2>2, <3>1, Zenon DEF Start, NoFault
    <3>3. marker[k] = file[k] /\ marker[k] # NoCfg /\ k \notin off
      BY <2>0, <2>2, Zenon DEF ShouldRecover, OffAt, Down
    <3>4. /\ \A j \in Cores : j # k => SameAt(j)
          /\ file' \in [Cores -> Content] /\ marker'[k] = marker[k]
          /\ faults \in Nat /\ faults' \in Nat /\ faults <= faults'
          /\ ok => /\ file'[k] = file[k] /\ Accepts(k, file[k]) /\ \E c \in alive' : c.core = k
                   /\ \A c \in alive' : c.core = k => c.cfg = file[k]
          /\ ~ok => state'[k] # "running" /\ \A c \in alive' : c.core # k
      BY <1>1, <2>0, <3>1, <3>2, StartEffect
    <3>5. CASE ok
      BY <3>3, <3>4, <3>5
    <3>6. CASE ~ok
      BY <3>3, <3>4, <3>6
    <3> QED BY <3>5, <3>6, Zenon
  <2> QED BY <2>1, <2>2, Zenon DEF RecoverCore, NoFault
<1>3. Types'
  BY <1>1, <1>2, Zenon DEF Types, Content
<1>4. Shape(a)'
  BY <1>1, Zenon DEF Shape
<1>5. ASSUME NEW j \in Cores PROVE CoreAt(a, j)'
  <2>0. /\ ProcessAt(a, j) /\ OffAt(a, j) /\ MarkAt(a, j) /\ ~Lags(a, j)
    BY <1>1, Parts, Zenon DEF Lags
  <2>1. ProcessAt(a, j)'
    BY <1>1, <1>2, <2>0, Zenon DEF ProcessAt, SameAt
  <2>2. OffAt(a, j)'
    BY <1>1, <1>2, <2>0, Zenon DEF OffAt, SameAt, Down
  <2>3. MarkAt(a, j)'
    BY <1>1, <1>2, <2>0, Zenon DEF MarkAt, SameAt
  <2>4. ServedAt(a, j)'
    BY <1>1, Zenon DEF ServedAt
  <2> QED BY <2>1, <2>2, <2>3, <2>4, Zenon DEF CoreAt
<1> QED BY <1>0, <1>3, <1>4, <1>5, Zenon DEF CoresInv

\* The agent dies with its children.
LEMMA CrashKeeps ==
    ASSUME OneHandler, CoresInv, IInv', Crash
    PROVE  CoresInv'
<1>0. PICK a \in Handlers : Handlers = {a}
  BY Zenon DEF OneHandler
<1>1. /\ file' \in [Cores -> Content] /\ state' = [k \in Cores |-> "stopped"] /\ alive' = {}
      /\ h' = [b \in Handlers |-> Idle] /\ UNCHANGED <<marker, off, faults>>
  BY Zenon DEF Crash, NoFault, Content
<1>2. Types /\ faults' \in Nat /\ DOMAIN marker' = Cores
  BY <1>1, Zenon DEF CoresInv, Types
<1>3. Types' /\ h'[a] = Idle
  BY <1>0, <1>1, <1>2, IdleTypes, Zenon
<1>4. \A k \in Cores : k \in off => marker[k] = Off
  BY Parts, Zenon DEF OffAt, Down
<1> QED BY <1>1, <1>3, <1>4, IdleKeeps, Zenon

\* Every step of a handler keeps the invariant.
LEMMA HandlerStepKeeps ==
    ASSUME OneHandler, CoresInv, IInv', NEW a \in Handlers, HandlerStep(a)
    PROVE  CoresInv'
<1>1. CASE PhaseEnd(a)
  BY <1>1, PhaseEndKeeps, Zenon
<1>2. CASE Reply(a)
  BY <1>2, ReplyKeeps, Zenon
<1>3. ASSUME NEW k \in Cores,
             \/ MarkInactive(a, k) \/ Stop(a, k) \/ StopReturns(a, k)
             \/ BeginApply(a, k) \/ BeginReload(a, k) \/ Rename(a, k) \/ Launch(a, k)
             \/ Restore(a, k) \/ Relaunch(a, k) \/ Undo(a, k) \/ Write(a, k)
             \/ Remark(a, k) \/ Hash(a, k) \/ Mark(a, k)
      PROVE  CoresInv'
  BY <1>3, MarkInactiveKeeps, StopKeeps, StopReturnsKeeps, BeginApplyKeeps, BeginReloadKeeps,
     RenameKeeps, LaunchKeeps, RestoreKeeps, RelaunchKeeps, UndoKeeps, WriteKeeps, RemarkKeeps,
     HashKeeps, MarkKeeps, Zenon
<1> QED BY <1>1, <1>2, <1>3, Zenon DEF HandlerStep

\* Init establishes the invariant and every step keeps it.
LEMMA CoresInvHolds ==
    ASSUME OneHandler
    PROVE  (Init => CoresInv) /\ (CoresInv /\ [Next]_vars => CoresInv')
<1>1. ASSUME Init PROVE CoresInv
  <2>1. PICK a \in Handlers : Handlers = {a}
    BY Zenon DEF OneHandler
  <2>2. h[a] = Idle /\ DOMAIN h = Handlers
    BY <1>1, Zenon DEF Init
  <2>3. /\ DOMAIN Idle = HandlerFields /\ Idle.todo = {} /\ Idle.stopped = {} /\ Idle.before = {}
        /\ Idle.ok = TRUE /\ Idle.want \in [Cores -> Configs \cup {NoCfg}] /\ Idle.old = NoCfg
        /\ Idle.pc = "idle" /\ Idle.rq = "none" /\ Idle.phase = "none"
    BY Zenon DEF Idle, HandlerFields
  <2>4. IInv
    BY <1>1, Zenon DEF Init, IInv, Typing, OneChild
  <2>5. Types
    BY <1>1, <2>1, <2>2, <2>3, Zenon DEF Init, Types
  <2>6. Shape(a)
    BY <2>2, <2>3, Zenon DEF Shape
  <2>7. ASSUME NEW k \in Cores PROVE CoreAt(a, k)
    BY <1>1, <2>2, <2>3, Zenon DEF Init, CoreAt, ProcessAt, OffAt, MarkAt, ServedAt
  <2> QED BY <2>1, <2>4, <2>5, <2>6, <2>7, Zenon DEF CoresInv
<1>2. ASSUME CoresInv, [Next]_vars PROVE CoresInv'
  <2>0. IInv'
    BY <1>2, ChildStep, Zenon DEF CoresInv
  <2>1. CASE UNCHANGED vars
    <3>1. UNCHANGED <<file, marker, state, alive, exited, booting, h, off, faults>>
      BY <2>1, Zenon DEF vars, disk, process
    <3>2. Types'
      BY <1>2, <3>1, Zenon DEF CoresInv, Types
    <3>3. ASSUME NEW a \in Handlers PROVE Shape(a)'
      BY <1>2, <3>1, Zenon DEF CoresInv, Shape
    <3>4. ASSUME NEW a \in Handlers, NEW k \in Cores PROVE CoreAt(a, k)'
      <4>0. /\ ProcessAt(a, k) /\ OffAt(a, k) /\ MarkAt(a, k) /\ ServedAt(a, k)
            /\ (Current(a, k)' <=> Current(a, k)) /\ Serving' = Serving
        BY <1>2, <3>1, Parts, Zenon DEF Current, Serving
      <4>1. ProcessAt(a, k)'
        BY <3>1, <4>0, Zenon DEF ProcessAt
      <4>2. OffAt(a, k)'
        BY <3>1, <4>0, Zenon DEF OffAt, Down
      <4>3. MarkAt(a, k)'
        BY <3>1, <4>0, Zenon DEF MarkAt, Lags
      <4>4. ServedAt(a, k)'
        BY <3>1, <4>0, Zenon DEF ServedAt
      <4> QED BY <4>1, <4>2, <4>3, <4>4, Zenon DEF CoreAt
    <3> QED BY <2>0, <3>2, <3>3, <3>4, Zenon DEF CoresInv
  <2>2. CASE \E a \in Handlers : Request(a) \/ HandlerStep(a)
    BY <1>2, <2>0, <2>2, RequestKeeps, HandlerStepKeeps, Zenon
  <2>3. CASE \E c \in alive : Terminate(c) \/ Die(c)
    BY <1>2, <2>0, <2>3, ExitKeeps, Zenon
  <2>4. CASE \E c \in exited : Reap(c)
    BY <1>2, <2>0, <2>4, ReapKeeps, Zenon
  <2>5. CASE \E k \in Cores : RecoverCore(k)
    BY <1>2, <2>0, <2>5, RecoverKeeps, Zenon
  <2>6. CASE Crash
    BY <1>2, <2>0, <2>6, CrashKeeps, Zenon
  <2> QED BY <1>2, <2>1, <2>2, <2>3, <2>4, <2>5, <2>6, Zenon DEF Next, AllQuiet
<1> QED BY <1>1, <1>2, Zenon

\* What the invariant says of the three properties.
LEMMA CoresInvSays ==
    ASSUME OneHandler, CoresInv
    PROVE  StoppedStaysOff /\ SurvivesOneFault /\ RebootResumes
<1>0. PICK a \in Handlers : Handlers = {a}
  BY Zenon DEF OneHandler
<1>1. IInv /\ Types
  BY Zenon DEF CoresInv
<1>2. StoppedStaysOff
  <2>1. ASSUME NEW c \in alive, c.core \in off PROVE FALSE
    BY <1>1, <2>1, Parts, Zenon DEF IInv, Typing, OneChild, OffAt, Down
  <2> QED BY <2>1, Zenon DEF StoppedStaysOff
<1>3. SurvivesOneFault
  <2>1. ASSUME h[a].pc = "reply", h[a].rq = "apply", ~h[a].ok, faults <= 1, NEW k \in h[a].before
        PROVE  k \in Wanted(h[a].want) \/ h[a].phase = "remark" => k \in Serving
    <3>1. k \in Cores
      BY <1>1, Zenon DEF Types
    <3>2. ServedAt(a, k)
      BY <3>1, Parts, Zenon
    <3> QED BY <2>1, <3>2, Zenon DEF ServedAt, InTheAir
  <2> QED BY <1>0, <2>1, Zenon DEF SurvivesOneFault
<1>4. RebootResumes
  <2> SUFFICES ASSUME Quiet
               PROVE  /\ \A c \in alive : c.cfg = file[c.core]
                      /\ faults = 0 => \A k \in Running : ShouldRecover(k)
    BY Zenon DEF RebootResumes
  <2>1. ASSUME NEW c \in alive PROVE c.cfg = file[c.core]
    BY <1>1, Parts, Zenon DEF IInv, Typing, ProcessAt
  <2>2. ASSUME faults = 0, NEW k \in Running PROVE ShouldRecover(k)
    <3>1. k \in Cores /\ state[k] = "running"
      BY Zenon DEF Running
    <3>2. MarkAt(a, k) /\ ~Lags(a, k)
      BY <3>1, Parts, Zenon DEF Quiet, Lags
    <3>3. marker[k] = file[k] /\ file[k] # NoCfg
      BY <2>2, <3>1, <3>2, Zenon DEF MarkAt
    <3>4. file[k] # Off
      BY <1>1, <3>1, ConfigsAssumption, Zenon DEF Types
    <3> QED BY <3>3, <3>4, Zenon DEF ShouldRecover
  <2> QED BY <2>1, <2>2, Zenon
<1> QED BY <1>2, <1>3, <1>4, Zenon

\* A core whose stop was reported (Stop RPC, or an Apply that does not want it)
\* stays down until a request asks for it, through crashes and reboots, as long
\* as requests do not overlap.
THEOREM DeliberateStopLasts ==
    ASSUME OneHandler
    PROVE  Spec => []StoppedStaysOff
<1>1. (Init => CoresInv) /\ (CoresInv /\ [Next]_vars => CoresInv')
  BY CoresInvHolds, Zenon
<1>2. CoresInv => StoppedStaysOff
  BY CoresInvSays, Zenon
<1> QED BY <1>1, <1>2, PTL DEF Spec

\* An Apply in which one thing goes wrong loses no wanted core that ran, and no
\* core at all if it is a core's Apply that failed (the rollback of
\* Process.Apply and "restore previous cores" of Server.Apply), as long as
\* requests do not overlap.
THEOREM OneFaultLosesNoCore ==
    ASSUME OneHandler
    PROVE  Spec => []SurvivesOneFault
<1>1. (Init => CoresInv) /\ (CoresInv /\ [Next]_vars => CoresInv')
  BY CoresInvHolds, Zenon
<1>2. CoresInv => SurvivesOneFault
  BY CoresInvSays, Zenon
<1> QED BY <1>1, <1>2, PTL DEF Spec

\* Between requests a reboot brings back what runs: a child runs the config on
\* disk, and as long as nothing failed the marker beside it is active and holds
\* that config's hash, as long as requests do not overlap.
THEOREM RebootBringsBack ==
    ASSUME OneHandler
    PROVE  Spec => []RebootResumes
<1>1. (Init => CoresInv) /\ (CoresInv /\ [Next]_vars => CoresInv')
  BY CoresInvHolds, Zenon
<1>2. CoresInv => RebootResumes
  BY CoresInvSays, Zenon
<1> QED BY <1>1, <1>2, PTL DEF Spec
=============================================================================

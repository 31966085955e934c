---------------------------- MODULE AgentProofs -----------------------------
(***************************************************************************)
(* The cores of one agent, for any set of cores and configs and any number *)
(* of requests, faults and crashes.                                        *)
(*                                                                         *)
(* OneChild holds for any number of handlers. The inductive invariant adds *)
(* to it what Stop and Reap rely on: launch numbers start at 1, so that    *)
(* cmd = 0 (nil) means there is no child, and a child is not both running  *)
(* and exited.                                                             *)
(*                                                                         *)
(* With one handler at a time the recovery marker, the rollback and the    *)
(* deliberate stop hold too. This module has their invariant, CoresInv,    *)
(* and the steps of stopping and applying; AgentRequestProofs has the      *)
(* rest.                                                                   *)
(***************************************************************************)
EXTENDS AgentCores, TLAPS

(* One child per core. *)

Typing ==
    /\ state \in [Cores -> {"stopped", "running", "errored"}]
    /\ cmd \in [Cores -> Nat] /\ launched \in [Cores -> Nat]
    /\ \A c \in alive \cup exited : c.core \in Cores /\ c.id \in Nat \ {0}
    /\ alive \cap exited = {}

IInv == Typing /\ OneChild

\* Process.Start, whatever its outcome, keeps at most one child per core:
\* it launches only when the state is not running, and then there is none.
LEMMA StartKeeps ==
    ASSUME IInv, NEW k \in Cores, NEW f, NEW ok, Start(k, f, ok)
    PROVE  IInv'
<1>1. CASE UNCHANGED process
  BY <1>1 DEF IInv, Typing, OneChild, process
<1>2. CASE /\ state[k] # "running"
           /\ state' = [state EXCEPT ![k] = "running"]
           /\ launched' = [launched EXCEPT ![k] = @ + 1]
           /\ cmd' = [cmd EXCEPT ![k] = launched[k] + 1]
           /\ alive' = alive \cup {[core |-> k, id |-> launched[k] + 1, cfg |-> f]}
           /\ UNCHANGED exited
  <2> DEFINE new == [core |-> k, id |-> launched[k] + 1, cfg |-> f]
  <2>1. \A c \in alive \cup exited : c.core # k
    BY <1>2, Zenon DEF IInv, OneChild
  <2>2. new.core = k /\ new.id = launched[k] + 1 /\ new.id \in Nat \ {0}
    BY DEF IInv, Typing
  <2>3. Typing'
    BY <1>2, <2>1, <2>2, Zenon DEF IInv, Typing
  <2>4. \A c \in alive \cup exited : cmd'[c.core] = c.id /\ state'[c.core] = "running"
    BY <1>2, <2>1, Zenon DEF IInv, Typing, OneChild
  <2>5. cmd'[k] = new.id /\ state'[k] = "running"
    BY <1>2, <2>2, Zenon DEF IInv, Typing
  <2>6. alive' \cup exited' = (alive \cup exited) \cup {new}
    BY <1>2, Zenon
  <2>7. \A c \in alive' \cup exited' : c \in alive \cup exited \/ c = new
    BY <2>6, Zenon
  <2> HIDE DEF new
  <2>8. OneChild'
    BY <2>1, <2>2, <2>4, <2>5, <2>7, Zenon DEF IInv, OneChild
  <2> QED BY <2>3, <2>8, Zenon DEF IInv
<1>3. CASE /\ state[k] # "running"
           /\ state' = [state EXCEPT ![k] = "errored"]
           /\ UNCHANGED <<cmd, stopping, launched, alive, exited>>
  <2>1. \A c \in alive \cup exited : c.core # k
    BY <1>3, Zenon DEF IInv, OneChild
  <2> QED BY <1>3, <2>1 DEF IInv, Typing, OneChild
<1> QED BY <1>1, <1>2, <1>3, Zenon DEF Start

\* The other steps of a handler either leave the Process alone or set its
\* state to stopped when there is no child.
LEMMA HandlerKeeps ==
    ASSUME IInv, NEW a \in Handlers, HandlerStep(a)
    PROVE  IInv'
<1>1. ASSUME UNCHANGED process PROVE IInv'
  BY <1>1 DEF IInv, Typing, OneChild, process
<1>2. CASE PhaseEnd(a) \/ Reply(a)
  BY <1>1, <1>2, Zenon DEF PhaseEnd, Reply
<1>3. ASSUME NEW k \in Cores, Stop(a, k) PROVE IInv'
  <2>1. CASE cmd[k] # 0
    BY <1>3, <2>1 DEF Stop, IInv, Typing, OneChild
  <2>2. CASE cmd[k] = 0
    <3>1. \A c \in alive \cup exited : c.core # k
      BY <2>2, Zenon DEF IInv, Typing, OneChild
    <3> QED BY <1>3, <2>2, <3>1 DEF Stop, IInv, Typing, OneChild
  <2> QED BY <2>1, <2>2, Zenon
<1>4. ASSUME NEW k \in Cores,
             \/ MarkInactive(a, k) \/ StopReturns(a, k) \/ BeginApply(a, k)
             \/ BeginReload(a, k) \/ Rename(a, k) \/ Restore(a, k)
             \/ Remark(a, k) \/ Hash(a, k) \/ Mark(a, k)
      PROVE  IInv'
  BY <1>1, <1>4, Zenon DEF MarkInactive, StopReturns, BeginApply, BeginReload, Rename,
                    Restore, Remark, Hash, Mark
<1>5. ASSUME NEW k \in Cores,
             Launch(a, k) \/ Relaunch(a, k) \/ Undo(a, k) \/ Write(a, k)
      PROVE  IInv'
  <2>1. \E f, ok : Start(k, f, ok)
    BY <1>5, Zenon DEF Launch, Relaunch, Undo, Write
  <2> QED BY <2>1, StartKeeps, Zenon
<1> QED BY <1>2, <1>3, <1>4, <1>5, Zenon DEF HandlerStep

\* Every step keeps it.
LEMMA ChildStep ==
    ASSUME IInv, [Next]_vars
    PROVE  IInv'
<1>1. ASSUME UNCHANGED process PROVE IInv'
  BY <1>1 DEF IInv, Typing, OneChild, process
<1>2. CASE UNCHANGED vars \/ AllQuiet
  BY <1>1, <1>2, Zenon DEF vars, AllQuiet
<1>3. CASE \E a \in Handlers : Request(a)
  BY <1>1, <1>3, Zenon DEF Request, ApplyRpc, StartRpc, StopRpc, Reload, Accept
<1>4. CASE \E a \in Handlers : HandlerStep(a)
  BY <1>4, HandlerKeeps, Zenon
<1>5. CASE \E c \in alive : Terminate(c) \/ Die(c)
  BY <1>5 DEF Terminate, Die, IInv, Typing, OneChild
<1>6. ASSUME NEW c \in exited, Reap(c) PROVE IInv'
  <2>1. cmd[c.core] = c.id /\ c.core \in Cores
    BY Zenon DEF IInv, Typing, OneChild
  <2>2. \A d \in alive' \cup exited' : d \in alive \cup exited /\ d.core # c.core
    BY <1>6, Zenon DEF Reap, IInv, Typing, OneChild
  <2>3. PICK s \in {"stopped", "errored"} : state' = [state EXCEPT ![c.core] = s]
    BY <1>6, <2>1, Zenon DEF Reap
  <2>4. cmd' = [cmd EXCEPT ![c.core] = 0] /\ launched' = launched
    BY <1>6, <2>1, Zenon DEF Reap
  <2>5. alive' = alive /\ exited' = exited \ {c}
    BY <1>6, Zenon DEF Reap
  <2> QED BY <2>1, <2>2, <2>3, <2>4, <2>5 DEF IInv, Typing, OneChild
<1>7. ASSUME NEW k \in Cores, RecoverCore(k) PROVE IInv'
  <2>1. CASE ShouldRecover(k)
    <3>1. \E f, ok : Start(k, f, ok)
      BY <1>7, <2>1, Zenon DEF RecoverCore
    <3> QED BY <3>1, StartKeeps, Zenon
  <2>2. CASE ~ShouldRecover(k)
    BY <1>1, <1>7, <2>2, Zenon DEF RecoverCore
  <2> QED BY <2>1, <2>2, Zenon
<1>8. CASE Crash
  BY <1>8, Zenon DEF Crash, IInv, Typing, OneChild
<1> QED BY <1>2, <1>3, <1>4, <1>5, <1>6, <1>7, <1>8, Zenon DEF Next

\* One core never has two children, and the agent never loses track of one.
THEOREM AtMostOneChild == Spec => []OneChild
<1>1. Init => IInv
  BY DEF Init, IInv, Typing, OneChild
<1>2. IInv /\ [Next]_vars => IInv'
  BY ChildStep, Zenon
<1>3. IInv => OneChild
  BY Zenon DEF IInv
<1> QED BY <1>1, <1>2, <1>3, PTL DEF Spec

-----------------------------------------------------------------------------
(* The invariant of a handler and its cores. *)

\* Requests are served one at a time.
OneHandler == \E a \in Handlers : Handlers = {a}

\* The core a handler works on: the first of its todo.
Least(k, S) == k \in S /\ \A j \in S : Rank[k] <= Rank[j]
Current(a, k) == Least(k, h[a].todo)

HandlerFields == {"pc", "rq", "phase", "todo", "want", "old", "target", "stopped", "sum",
                  "before", "ok"}

\* The types the arguments below need.
Types ==
    /\ DOMAIN h = Handlers
    /\ \A a \in Handlers :
          /\ DOMAIN h[a] = HandlerFields
          /\ h[a].todo \subseteq Cores /\ h[a].stopped \subseteq Cores /\ h[a].before \subseteq Cores
          /\ h[a].ok \in BOOLEAN
          /\ h[a].want \in [Cores -> Configs \cup {NoCfg}]
          /\ h[a].old \in Configs \cup {NoCfg, Torn}
    /\ file \in [Cores -> Configs \cup {NoCfg, Torn}]
    /\ DOMAIN marker = Cores /\ faults \in Nat

\* Which steps each phase of a request has, and when its error is set.
Shape(a) ==
    /\ h[a].pc # "idle" => booting = {}
    /\ h[a].pc = "idle" <=> h[a].phase = "none"
    /\ h[a].pc = "idle" => h[a].rq = "none"
    /\ h[a].phase = "obsolete" =>
          /\ h[a].rq \in {"apply", "stop"}
          /\ h[a].pc \in {"next", "stop", "stopping", "reply"}
          /\ h[a].rq = "apply" => /\ h[a].todo \cap Wanted(h[a].want) = {}
                                  /\ h[a].pc = "reply" <=> ~h[a].ok
          /\ h[a].rq = "stop" /\ h[a].pc = "reply" /\ h[a].ok => h[a].todo = {}
    /\ h[a].phase = "apply" =>
          /\ h[a].rq = "apply" /\ h[a].todo \subseteq Wanted(h[a].want)
          /\ h[a].pc \in {"next", "stop", "stopping", "rename", "launch", "restore", "relaunch",
                          "hash", "mark", "reply"}
          /\ h[a].pc = "reply" <=> ~h[a].ok
    /\ h[a].phase = "undo" =>
          h[a].rq = "apply" /\ h[a].pc = "next" /\ ~h[a].ok /\ h[a].todo \subseteq h[a].stopped
    /\ h[a].phase = "remark" =>
          /\ h[a].rq = "apply" /\ h[a].pc \in {"next", "hash", "mark", "reply"}
          /\ h[a].todo \cap Wanted(h[a].want) = {}
          /\ h[a].ok => h[a].pc \in {"next", "reply"}
    /\ h[a].phase = "reload" =>
          h[a].rq = "reload" /\ h[a].pc \in {"next", "stop", "stopping", "launch", "reply"}
    /\ h[a].phase = "start" =>
          /\ h[a].rq = "start" /\ h[a].pc \in {"write", "hash", "mark", "next", "reply"}
          /\ h[a].todo \subseteq Wanted(h[a].want)
    /\ h[a].phase \in {"none", "obsolete", "apply", "undo", "remark", "reload", "start"}
    /\ h[a].rq = "apply" =>
          /\ h[a].stopped \cap Wanted(h[a].want) = {}
          /\ \A k \in Wanted(h[a].want) : Accepts(k, h[a].want[k])
          /\ ~h[a].ok => faults # 0
    /\ h[a].pc \in {"restore", "relaunch"} => faults # 0

\* A running core has a child, and a child's config is the file it was started
\* from.  A core that is being restarted is down, and a child that is being
\* stopped is the one the handler waits for.
ProcessAt(a, k) ==
    /\ state[k] = "running" => \E c \in alive \cup exited : c.core = k
    /\ \A c \in alive : c.core = k => c.cfg = file[k] /\ Accepts(k, file[k])
    /\ Current(a, k) =>
          /\ h[a].pc \in {"rename", "launch", "restore", "relaunch"} => state[k] # "running"
          /\ h[a].pc = "stopping" => \A c \in alive \cup exited : c.core = k => c.id = h[a].target
    /\ h[a].phase = "undo" /\ k \in h[a].todo => state[k] # "running"

Down(k) == marker[k] = Off /\ state[k] # "running"

\* What was stopped on request is down for good, and what a request stops is
\* down once it moves on.
OffAt(a, k) ==
    /\ k \in off => Down(k)
    /\ h[a].rq \in {"apply", "start"} /\ k \in Wanted(h[a].want) => k \notin off
    /\ k \in h[a].stopped => k \notin off
    /\ Current(a, k) =>
          /\ h[a].phase = "reload" /\ h[a].pc \in {"stop", "stopping", "launch"} => k \notin off
          /\ h[a].phase = "remark" /\ h[a].pc \in {"hash", "mark"} => k \notin off
          /\ h[a].phase = "obsolete" /\ h[a].pc \in {"stop", "stopping"} => marker[k] = Off
    /\ h[a].rq = "apply" /\ h[a].ok /\ k \notin Wanted(h[a].want)
          => Down(k) \/ (h[a].phase = "obsolete" /\ k \in h[a].todo)
    /\ h[a].rq = "stop" /\ k \in h[a].stopped /\ k \notin h[a].todo => Down(k)

\* Where the marker of a running core may lag behind its file.
Lags(a, k) ==
    /\ Current(a, k)
    /\ \/ h[a].pc \in {"hash", "mark"}
       \/ h[a].pc \in {"stop", "stopping"} /\ h[a].phase = "obsolete"

\* What MarkActive records, and what is known as long as nothing failed.
MarkAt(a, k) ==
    /\ Current(a, k) =>
          /\ h[a].pc = "mark" => h[a].sum = file[k]
          /\ h[a].phase = "apply" /\ h[a].pc \in {"launch", "hash"} => file[k] = h[a].want[k]
          /\ faults = 0 /\ h[a].phase = "reload" /\ h[a].pc \in {"stop", "stopping", "launch"}
                => marker[k] = file[k] /\ file[k] # NoCfg
    /\ faults = 0 /\ state[k] = "running" =>
          file[k] # NoCfg /\ (marker[k] = file[k] \/ Lags(a, k))

InTheAir == {"stopping", "rename", "launch", "restore", "relaunch"}

\* A core that ran when an Apply arrived: it runs, or the handler is about to
\* start it again from a config that its check accepts.
ServedAt(a, k) ==
    h[a].rq = "apply" /\ faults <= 1 /\ k \in h[a].before =>
      /\ k \in Wanted(h[a].want) => k \in Serving \/ (Current(a, k) /\ h[a].pc \in InTheAir)
      /\ Current(a, k) /\ h[a].phase = "apply" =>
            /\ h[a].pc \in {"stop", "stopping", "rename"} => h[a].old = file[k]
            /\ h[a].pc \in {"stop", "stopping", "rename", "launch", "restore"} => Accepts(k, h[a].old)
            /\ h[a].pc = "relaunch" => Accepts(k, file[k])
            /\ h[a].pc \in {"stop", "stopping", "rename", "launch"} /\ faults = 0 => h[a].old # NoCfg
      /\ k \notin Wanted(h[a].want) =>
            /\ Accepts(k, file[k])
            /\ h[a].phase = "obsolete" /\ k \in h[a].todo =>
                  k \in Serving \/ (Current(a, k) /\ h[a].pc = "stopping")
            /\ h[a].phase = "obsolete" /\ Current(a, k) /\ h[a].pc \in {"stop", "stopping"}
                  => k \in h[a].stopped
            /\ h[a].phase = "obsolete" /\ k \notin h[a].todo => k \in h[a].stopped
            /\ h[a].phase = "apply" => k \in h[a].stopped
            /\ h[a].phase = "undo" => k \in h[a].todo \/ k \in Serving
            /\ h[a].phase = "remark" /\ ~h[a].ok => k \in Serving

CoreAt(a, k) == ProcessAt(a, k) /\ OffAt(a, k) /\ MarkAt(a, k) /\ ServedAt(a, k)

CoresInv ==
    /\ IInv /\ Types
    /\ \A a \in Handlers : Shape(a) /\ \A k \in Cores : CoreAt(a, k)

-----------------------------------------------------------------------------
\* Two cores never have the same rank, so a handler works on one core.
LEMMA OneCurrent ==
    ASSUME NEW S \in SUBSET Cores, NEW j, NEW k, Least(j, S), Least(k, S)
    PROVE  j = k
<1>1. j \in Cores /\ k \in Cores /\ Rank[j] <= Rank[k] /\ Rank[k] <= Rank[j]
  BY Zenon DEF Least
<1>2. Rank[j] \in Nat /\ Rank[k] \in Nat
  BY <1>1, CoresAssumption, Zenon
<1> QED BY <1>1, <1>2, CoresAssumption

\* A handler at a step works on that step's core.
LEMMA AtCurrent ==
    ASSUME NEW a, NEW pc, NEW k, At(a, pc, k)
    PROVE  h[a].pc = pc /\ Current(a, k)
BY Zenon DEF At, Current, Least

\* What no step of a request changes.
Asked(a) == h'[a].rq = h[a].rq /\ h'[a].want = h[a].want /\ h'[a].before = h[a].before

\* The fields that the moves of a handler leave alone.
LEMMA GotoFields ==
    ASSUME Types, NEW a \in Handlers, NEW pc, Goto(a, pc)
    PROVE  /\ DOMAIN h' = Handlers /\ DOMAIN h'[a] = HandlerFields /\ Asked(a) /\ h'[a].pc = pc
           /\ h'[a].phase = h[a].phase /\ h'[a].todo = h[a].todo /\ h'[a].old = h[a].old
           /\ h'[a].target = h[a].target /\ h'[a].stopped = h[a].stopped
           /\ h'[a].sum = h[a].sum /\ h'[a].ok = h[a].ok
BY Zenon DEF Types, Goto, Asked, HandlerFields

\* ... when it is done with a core,
LEMMA DoneFields ==
    ASSUME Types, NEW a \in Handlers, NEW k, DoneWith(a, k)
    PROVE  /\ DOMAIN h' = Handlers /\ DOMAIN h'[a] = HandlerFields /\ Asked(a) /\ h'[a].pc = "next"
           /\ h'[a].phase = h[a].phase /\ h'[a].todo = h[a].todo \ {k} /\ h'[a].old = h[a].old
           /\ h'[a].target = h[a].target /\ h'[a].stopped = h[a].stopped
           /\ h'[a].sum = h[a].sum /\ h'[a].ok = h[a].ok
<1> DEFINE r == [h[a] EXCEPT !.pc = "next", !.todo = h[a].todo \ {k}]
<1>1. h' = [h EXCEPT ![a] = r]
  BY Zenon DEF Types, DoneWith
<1>2. h'[a] = r /\ DOMAIN h' = Handlers
  BY <1>1, Zenon DEF Types
<1> QED BY <1>2, Zenon DEF Types, Asked, HandlerFields

\* ... when it answers,
LEMMA ReturnFields ==
    ASSUME Types, NEW a \in Handlers, NEW ok, Return(a, ok)
    PROVE  /\ DOMAIN h' = Handlers /\ DOMAIN h'[a] = HandlerFields /\ Asked(a) /\ h'[a].pc = "reply"
           /\ h'[a].phase = h[a].phase /\ h'[a].todo = h[a].todo /\ h'[a].old = h[a].old
           /\ h'[a].target = h[a].target /\ h'[a].stopped = h[a].stopped
           /\ h'[a].sum = h[a].sum /\ h'[a].ok = ok
<1> DEFINE r == [h[a] EXCEPT !.pc = "reply", !.ok = ok]
<1>1. h' = [h EXCEPT ![a] = r]
  BY Zenon DEF Types, Return
<1>2. h'[a] = r /\ DOMAIN h' = Handlers
  BY <1>1, Zenon DEF Types
<1> QED BY <1>2 DEF Types, Asked, HandlerFields

\* ... and when a core's Apply failed.
LEMMA FailedFields ==
    ASSUME Types, NEW a \in Handlers, Failed(a)
    PROVE  /\ DOMAIN h' = Handlers /\ DOMAIN h'[a] = HandlerFields /\ Asked(a) /\ h'[a].pc = "next"
           /\ h'[a].phase = "undo" /\ h'[a].todo = h[a].stopped /\ h'[a].old = h[a].old
           /\ h'[a].target = h[a].target /\ h'[a].stopped = h[a].stopped
           /\ h'[a].sum = h[a].sum /\ h'[a].ok = FALSE
<1> DEFINE r == [h[a] EXCEPT !.pc = "next", !.phase = "undo", !.ok = FALSE, !.todo = h[a].stopped]
<1>1. h' = [h EXCEPT ![a] = r]
  BY Zenon DEF Types, Failed
<1>2. h'[a] = r /\ DOMAIN h' = Handlers
  BY <1>1, Zenon DEF Types
<1> QED BY <1>2 DEF Types, Asked, HandlerFields

\* The step leaves core j and its children as they are.
SameAt(j) ==
    /\ state'[j] = state[j] /\ marker'[j] = marker[j] /\ file'[j] = file[j]
    /\ \A c : c.core = j => (c \in alive' <=> c \in alive) /\ (c \in exited' <=> c \in exited)

\* What a step that counts at most one more fault leaves true.
LEMMA FaultsGrow ==
    ASSUME faults \in Nat, faults' \in Nat, faults <= faults'
    PROVE  /\ faults' = 0 => faults = 0
           /\ faults' <= 1 => faults <= 1
           /\ faults # 0 => faults' # 0
OBVIOUS

LEMMA FaultsStep ==
    ASSUME faults \in Nat, faults' \in {faults, faults + 1}
    PROVE  /\ faults' \in Nat /\ faults <= faults'
           /\ faults' = faults + 1 => faults' # 0 /\ (faults' <= 1 => faults = 0)
OBVIOUS

\* A core stays as it is when the handler works on another one.
LEMMA Untouched ==
    ASSUME NEW a \in Handlers, NEW j \in Cores, CoreAt(a, j), ~Current(a, j), SameAt(j),
           off' = off, Asked(a), h'[a].phase = h[a].phase, faults \in Nat, faults' \in Nat,
           faults <= faults',
           j \in h'[a].todo <=> j \in h[a].todo, j \in h'[a].stopped <=> j \in h[a].stopped,
           Current(a, j)' => h'[a].pc \in {"next", "reply"},
           h'[a].ok => h[a].ok, ~h'[a].ok => ~h[a].ok \/ h[a].phase # "remark"
    PROVE  CoreAt(a, j)'
<1>1. Serving' \cap {j} = Serving \cap {j}
  BY Zenon DEF Serving, SameAt
<1>2. ProcessAt(a, j)'
  BY Zenon DEF CoreAt, ProcessAt, SameAt
<1>3. OffAt(a, j)'
  BY Zenon DEF CoreAt, OffAt, SameAt, Asked, Down
<1>4. MarkAt(a, j)'
  BY DEF CoreAt, MarkAt, SameAt, Lags
<1>5. ServedAt(a, j)'
  BY <1>1, SMTT(40) DEF CoreAt, ServedAt, SameAt, Asked, InTheAir
<1> QED BY <1>2, <1>3, <1>4, <1>5, Zenon DEF CoreAt

-----------------------------------------------------------------------------
(* Stopping a core. *)

\* A step of the handler on its current core has to keep the invariant there.
LEMMA StepAt ==
    ASSUME OneHandler, CoresInv, NEW a \in Handlers, NEW k \in Cores, Current(a, k),
           IInv', Types', Shape(a)', CoreAt(a, k)',
           \A j \in Cores : j # k => SameAt(j),
           off' = off, Asked(a), h'[a].phase = h[a].phase, faults <= faults',
           h'[a].todo = h[a].todo \/ (h'[a].todo = h[a].todo \ {k} /\ h'[a].pc = "next"),
           \A j \in Cores : j # k => (j \in h'[a].stopped <=> j \in h[a].stopped),
           h'[a].ok => h[a].ok, ~h'[a].ok => ~h[a].ok \/ h[a].phase # "remark"
    PROVE  CoresInv'
<1>1. ASSUME NEW j \in Cores PROVE CoreAt(a, j)'
  <2>1. CASE j = k
    BY <2>1, Zenon
  <2>2. CASE j # k
    <3>1. h[a].todo \subseteq Cores /\ faults \in Nat /\ faults' \in Nat
      BY Zenon DEF CoresInv, Types
    <3>2. ~Current(a, j)
      BY <2>2, <3>1, OneCurrent, Zenon DEF Current
    <3>3. Current(a, j)' => h'[a].pc \in {"next", "reply"}
      BY <3>2, Zenon DEF Current
    <3>4. j \in h'[a].todo <=> j \in h[a].todo
      BY <2>2, Zenon
    <3>5. CoreAt(a, j)
      BY Zenon DEF CoresInv
    <3> QED BY <2>2, <3>1, <3>2, <3>3, <3>4, <3>5, Untouched, Zenon
  <2> QED BY <2>1, <2>2, Zenon
<1> QED BY <1>1, Zenon DEF CoresInv, OneHandler

\* The handler's own part of the invariant.
LEMMA Parts ==
    ASSUME CoresInv, NEW a \in Handlers, NEW k \in Cores
    PROVE  /\ IInv /\ Types /\ Shape(a)
           /\ ProcessAt(a, k) /\ OffAt(a, k) /\ MarkAt(a, k) /\ ServedAt(a, k)
BY Zenon DEF CoresInv, CoreAt

\* Steps that leave the disk and the processes alone.
LEMMA StillWorld ==
    ASSUME CoresInv, UNCHANGED <<disk, process>>
    PROVE  /\ IInv' /\ Serving' = Serving /\ \A j \in Cores : SameAt(j)
           /\ UNCHANGED <<file, marker, state, alive, exited>>
<1>1. UNCHANGED <<file, marker, state, cmd, stopping, launched, alive, exited>>
  BY Zenon DEF disk, process
<1>2. IInv'
  BY <1>1 DEF CoresInv, IInv, Typing, OneChild
<1> QED BY <1>1, <1>2, Zenon DEF Serving, SameAt

\* The types of a handler whose record changes as in the lemmas above.
LEMMA StillTypes ==
    ASSUME OneHandler, Types, NEW a \in Handlers, DOMAIN h' = Handlers, DOMAIN h'[a] = HandlerFields,
           h'[a].todo \subseteq Cores, h'[a].stopped \subseteq Cores, h'[a].ok \in BOOLEAN,
           h'[a].want = h[a].want, h'[a].before = h[a].before, h'[a].old \in Configs \cup {NoCfg, Torn},
           file' \in [Cores -> Configs \cup {NoCfg, Torn}], DOMAIN marker' = Cores, faults' \in Nat
    PROVE  Types'
BY Zenon DEF Types, OneHandler

\* A request is answered with an error while its core is not in the air.
LEMMA ReturnKeeps ==
    ASSUME OneHandler, CoresInv, NEW a \in Handlers, NEW k \in Cores, Current(a, k), Return(a, FALSE),
           UNCHANGED <<disk, process, booting, off>>, faults' \in {faults, faults + 1},
           h[a].pc \in {"next", "hash", "mark"}, h[a].phase \in {"obsolete", "apply", "reload", "start"},
           h[a].rq = "apply" => faults' = faults + 1,
           faults' = 0 /\ state[k] = "running" => marker[k] = file[k]
    PROVE  CoresInv'
<1>0. /\ IInv /\ Types /\ Shape(a) /\ ProcessAt(a, k) /\ OffAt(a, k) /\ MarkAt(a, k) /\ ServedAt(a, k)
  BY Parts, Zenon
<1>1. /\ IInv' /\ Serving' = Serving /\ (\A j \in Cores : SameAt(j))
      /\ UNCHANGED <<file, marker, state, alive, exited>>
  BY StillWorld, Zenon
<1>2. faults \in Nat /\ faults' \in Nat /\ faults <= faults' /\ UNCHANGED <<booting, off>>
  BY <1>0, FaultsStep, Zenon DEF Types
<1>f. /\ faults' = 0 => faults = 0
      /\ faults' <= 1 => faults <= 1
      /\ (faults # 0 \/ h[a].rq = "apply") => faults' # 0
  BY <1>2, FaultsGrow, FaultsStep, Zenon
<1>3. /\ DOMAIN h' = Handlers /\ DOMAIN h'[a] = HandlerFields /\ Asked(a) /\ h'[a].pc = "reply"
      /\ h'[a].phase = h[a].phase /\ h'[a].todo = h[a].todo /\ h'[a].old = h[a].old
      /\ h'[a].stopped = h[a].stopped /\ ~h'[a].ok /\ h'[a].ok \in BOOLEAN
  BY <1>0, ReturnFields, Zenon
<1>4. Types'
  BY <1>0, <1>1, <1>2, <1>3, StillTypes, Zenon DEF Types, Asked
<1>5. Shape(a)'
  BY <1>0, <1>2, <1>3, <1>f, Zenon DEF Shape, Asked
<1>6. ProcessAt(a, k)'
  BY <1>0, <1>1, <1>3, Zenon DEF ProcessAt
<1>7. OffAt(a, k)'
  BY <1>0, <1>1, <1>2, <1>3, Zenon DEF OffAt, Down, Asked
<1>8. MarkAt(a, k)'
  BY <1>0, <1>1, <1>3, <1>f, Zenon DEF MarkAt, Lags
<1>9. ServedAt(a, k)'
  BY <1>0, <1>1, <1>3, <1>f, Zenon DEF ServedAt, Asked, InTheAir
<1>10. CoreAt(a, k)'
  BY <1>6, <1>7, <1>8, <1>9, Zenon DEF CoreAt
<1> QED BY <1>1, <1>2, <1>3, <1>4, <1>5, <1>10, StepAt, Zenon

\* A request is done with its core: an obsolete one is down, a wanted one runs
\* or did not run before, and what runs is marked.
LEMMA DoneKeeps ==
    ASSUME OneHandler, CoresInv, NEW a \in Handlers, NEW k \in Cores, Current(a, k), DoneWith(a, k),
           UNCHANGED <<disk, process, booting, off>>, faults' \in {faults, faults + 1},
           h[a].pc # "reply", h[a].pc # "idle", h[a].phase \notin {"apply", "undo"},
           h[a].phase = "obsolete" => Down(k) /\ h[a].pc \in {"stop", "stopping"},
           faults' = 0 /\ state[k] = "running" => marker[k] = file[k]
    PROVE  CoresInv'
<1>0. /\ IInv /\ Types /\ Shape(a) /\ ProcessAt(a, k) /\ OffAt(a, k) /\ MarkAt(a, k) /\ ServedAt(a, k)
  BY Parts, Zenon
<1>1. /\ IInv' /\ Serving' = Serving /\ (\A j \in Cores : SameAt(j))
      /\ UNCHANGED <<file, marker, state, alive, exited>>
  BY StillWorld, Zenon
<1>2. faults \in Nat /\ faults' \in Nat /\ faults <= faults' /\ UNCHANGED <<booting, off>>
  BY <1>0, FaultsStep, Zenon DEF Types
<1>f. /\ faults' = 0 => faults = 0
      /\ faults' <= 1 => faults <= 1
      /\ faults # 0 => faults' # 0
  BY <1>2, FaultsGrow, Zenon
<1>3. /\ DOMAIN h' = Handlers /\ DOMAIN h'[a] = HandlerFields /\ Asked(a) /\ h'[a].pc = "next"
      /\ h'[a].phase = h[a].phase /\ h'[a].todo = h[a].todo \ {k} /\ h'[a].old = h[a].old
      /\ h'[a].stopped = h[a].stopped /\ h'[a].ok = h[a].ok
  BY <1>0, DoneFields, Zenon
<1>e. h'[a].ok <=> h[a].ok
  BY <1>3, Zenon
<1>4. Types'
  <2>1. h'[a].ok \in BOOLEAN
    BY <1>0, <1>3, Zenon DEF Types
  <2> QED BY <1>0, <1>1, <1>2, <1>3, <2>1, StillTypes, Zenon DEF Types, Asked
<1>5. Shape(a)'
  BY <1>0, <1>2, <1>3, <1>e, <1>f, Zenon DEF Shape, Asked
<1>6. ProcessAt(a, k)'
  BY <1>0, <1>1, <1>3, Zenon DEF ProcessAt
<1>7. OffAt(a, k)'
  <2>1. Down(k)' <=> Down(k)
    BY <1>1, Zenon DEF Down
  <2>2. h[a].rq = "stop" => h[a].phase = "obsolete"
    BY <1>0, Zenon DEF Shape
  <2> QED BY <1>0, <1>2, <1>3, <1>e, <2>1, <2>2, Zenon DEF OffAt, Asked
<1>8. MarkAt(a, k)'
  BY <1>0, <1>1, <1>3, <1>f, Zenon DEF MarkAt, Lags
<1>9. ServedAt(a, k)'
  <2>1. h[a].phase = "obsolete" /\ h[a].rq = "apply" => k \notin Wanted(h[a].want)
    BY <1>0, Zenon DEF Shape, Current, Least
  <2>2. h[a].phase # "undo" /\ (h[a].rq = "apply" /\ h[a].pc \in InTheAir => h[a].phase = "obsolete")
    BY <1>0, Zenon DEF Shape, InTheAir
  <2> QED BY <1>0, <1>1, <1>3, <1>e, <1>f, <2>1, <2>2, Zenon DEF ServedAt, Asked, InTheAir
<1>10. CoreAt(a, k)'
  BY <1>6, <1>7, <1>8, <1>9, Zenon DEF CoreAt
<1> QED BY <1>1, <1>2, <1>3, <1>e, <1>4, <1>5, <1>10, StepAt, Zenon

\* MarkInactive: the core to stop is marked before it is stopped.
LEMMA MarkInactiveKeeps ==
    ASSUME OneHandler, CoresInv, NEW a \in Handlers, NEW k \in Cores, MarkInactive(a, k)
    PROVE  CoresInv'
<1>0. /\ IInv /\ Types /\ Shape(a) /\ ProcessAt(a, k) /\ OffAt(a, k) /\ MarkAt(a, k) /\ ServedAt(a, k)
  BY Parts, Zenon
<1>1. /\ h[a].pc = "next" /\ Current(a, k) /\ h[a].phase = "obsolete"
      /\ UNCHANGED <<file, process, booting, off>>
  BY AtCurrent, Zenon DEF MarkInactive
<1>2. CASE Fault /\ Return(a, FALSE) /\ UNCHANGED marker
  <2>1. UNCHANGED <<disk, process, booting, off>> /\ faults' = faults + 1 /\ faults' # 0
    BY <1>0, <1>1, <1>2 DEF disk, Fault, Types
  <2> QED BY <1>1, <1>2, <2>1, ReturnKeeps, Zenon
<1>3. CASE /\ marker' = [marker EXCEPT ![k] = Off]
           /\ h' = [h EXCEPT ![a].pc = "stop", ![a].stopped = @ \cup ({k} \cap Running)]
           /\ NoFault
  <2> DEFINE r == [h[a] EXCEPT !.pc = "stop", !.stopped = h[a].stopped \cup ({k} \cap Running)]
  <2>1. h' = [h EXCEPT ![a] = r]
    BY <1>0, <1>3, Zenon DEF Types
  <2>2. h'[a] = r /\ DOMAIN h' = Handlers
    BY <2>1, <1>0, Zenon DEF Types
  <2>3. /\ DOMAIN h'[a] = HandlerFields /\ Asked(a) /\ h'[a].pc = "stop"
        /\ h'[a].phase = h[a].phase /\ h'[a].todo = h[a].todo /\ h'[a].old = h[a].old
        /\ h'[a].stopped = h[a].stopped \cup ({k} \cap Running) /\ h'[a].ok = h[a].ok
    BY <2>2, <1>0, Zenon DEF Types, Asked, HandlerFields
  <2>4. h'[a].ok <=> h[a].ok
    BY <2>3, Zenon
  <2>5. /\ UNCHANGED <<file, state, cmd, stopping, launched, alive, exited, faults, booting, off>>
        /\ Serving' = Serving /\ marker'[k] = Off
    BY <1>0, <1>1, <1>3, Zenon DEF process, NoFault, Serving, Types
  <2>6. IInv'
    BY <1>0, <2>5, ZenonT(60) DEF IInv, Typing, OneChild
  <2>7. \A j \in Cores : j # k => SameAt(j)
    BY <1>0, <1>3, <2>5, Zenon DEF SameAt, Types
  <2>8. Types'
    <3>1. h'[a].ok \in BOOLEAN /\ h'[a].stopped \subseteq Cores /\ DOMAIN marker' = Cores
      BY <1>0, <1>3, <2>3, Zenon DEF Types
    <3> QED BY <1>0, <2>2, <2>3, <2>5, <3>1, StillTypes, Zenon DEF Types, Asked
  <2>9. Current(a, k)' /\ k \in h[a].todo
    BY <1>1, <2>3, Zenon DEF Current, Least
  <2>10. Shape(a)'
    BY <1>0, <1>1, <2>3, <2>4, <2>5, <2>9, Zenon DEF Shape, Asked
  <2>11. CoreAt(a, k)'
    <3>1. ProcessAt(a, k)'
      BY <1>0, <1>1, <2>3, <2>5, Zenon DEF ProcessAt
    <3>2. OffAt(a, k)'
      BY <1>0, <1>1, <2>3, <2>4, <2>5, <2>9, Zenon DEF OffAt, Down, Asked, Running
    <3>3. MarkAt(a, k)'
      BY <1>0, <1>1, <2>3, <2>5, <2>9, Zenon DEF MarkAt, Lags
    <3>4. ServedAt(a, k)'
      <4>1. k \in Serving => k \in Running
        BY <1>0, Zenon DEF Serving, Running, IInv, OneChild
      <4> QED BY <1>0, <1>1, <2>3, <2>4, <2>5, <2>9, <4>1, Zenon DEF ServedAt, Asked, InTheAir
    <3> QED BY <3>1, <3>2, <3>3, <3>4, Zenon DEF CoreAt
  <2>12. faults <= faults'
    BY <1>0, <2>5, FaultsStep, Zenon DEF Types
  <2> QED BY <1>1, <2>3, <2>4, <2>5, <2>6, <2>7, <2>8, <2>10, <2>11, <2>12, StepAt, Zenon
<1> QED BY <1>2, <1>3, Zenon DEF MarkInactive

\* Process.Stop returns: the core is down.
LEMMA StoppedKeeps ==
    ASSUME OneHandler, CoresInv, IInv', NEW a \in Handlers, NEW k \in Cores, Current(a, k),
           h[a].pc \in {"stop", "stopping"}, Stopped(a, k),
           UNCHANGED <<file, marker, alive, exited, booting, off, faults>>,
           \A j \in Cores : j # k => SameAt(j), state[k] # "running", state'[k] # "running"
    PROVE  CoresInv'
<1>0. /\ IInv /\ Types /\ Shape(a) /\ ProcessAt(a, k) /\ OffAt(a, k) /\ MarkAt(a, k) /\ ServedAt(a, k)
  BY Parts, Zenon
<1>1. h[a].phase \in {"obsolete", "apply", "reload"} /\ k \in h[a].todo /\ Serving' = Serving
  BY <1>0, Zenon DEF Shape, Current, Least, Serving
<1>2. /\ DOMAIN h' = Handlers /\ DOMAIN h'[a] = HandlerFields /\ Asked(a)
      /\ h'[a].phase = h[a].phase /\ h'[a].old = h[a].old
      /\ h'[a].stopped = h[a].stopped /\ h'[a].ok = h[a].ok
      /\ \/ h[a].phase = "obsolete" /\ h'[a].pc = "next" /\ h'[a].todo = h[a].todo \ {k}
         \/ h[a].phase = "apply" /\ h'[a].pc = "rename" /\ h'[a].todo = h[a].todo
         \/ h[a].phase = "reload" /\ h'[a].pc = "launch" /\ h'[a].todo = h[a].todo
  <2>1. CASE h[a].phase = "obsolete"
    BY <1>0, <2>1, DoneFields, Zenon DEF Stopped
  <2>2. CASE h[a].phase = "apply"
    BY <1>0, <2>2, GotoFields, Zenon DEF Stopped
  <2>3. CASE h[a].phase = "reload"
    BY <1>0, <2>3, GotoFields, Zenon DEF Stopped
  <2> QED BY <1>1, <2>1, <2>2, <2>3, Zenon
<1>e. h'[a].ok <=> h[a].ok
  BY <1>2, Zenon
<1>3. Types'
  <2>1. h'[a].ok \in BOOLEAN
    BY <1>0, <1>2, Zenon DEF Types
  <2> QED BY <1>0, <1>2, <2>1, StillTypes, Zenon DEF Types, Asked
<1>4. Shape(a)'
  BY <1>0, <1>1, <1>2, <1>e, Zenon DEF Shape, Asked
<1>5. h[a].phase # "obsolete" => (Current(a, k)' <=> Current(a, k))
  BY <1>2, Zenon DEF Current
<1>6. ProcessAt(a, k)'
  BY <1>0, <1>2, Zenon DEF ProcessAt
<1>7. OffAt(a, k)'
  <2>1. h[a].phase = "obsolete" => Down(k)' /\ Down(k)
    BY <1>0, Zenon DEF OffAt, Down
  <2>2. Down(k) => Down(k)'
    BY Zenon DEF Down
  <2>3. h[a].rq = "stop" => h[a].phase = "obsolete"
    BY <1>0, <1>1, Zenon DEF Shape
  <2> QED BY <1>0, <1>1, <1>2, <1>e, <1>5, <2>1, <2>2, <2>3, Zenon DEF OffAt, Asked
<1>8. MarkAt(a, k)'
  BY <1>0, <1>2, <1>5, Zenon DEF MarkAt
<1>9. ServedAt(a, k)'
  <2>1. h[a].phase = "obsolete" /\ h[a].rq = "apply" => k \notin Wanted(h[a].want)
    BY <1>0, <1>1, Zenon DEF Shape
  <2>2. h[a].phase = "apply" => k \in Wanted(h[a].want)
    BY <1>0, <1>1, Zenon DEF Shape
  <2>3. h[a].phase = "reload" => h[a].rq # "apply"
    BY <1>0, Zenon DEF Shape
  <2> QED BY <1>0, <1>1, <1>2, <1>e, <1>5, <2>1, <2>2, <2>3, Zenon DEF ServedAt, Asked, InTheAir
<1>10. CoreAt(a, k)'
  BY <1>6, <1>7, <1>8, <1>9, Zenon DEF CoreAt
<1>11. faults <= faults'
  BY <1>0, FaultsStep, Zenon DEF Types
<1> QED BY <1>2, <1>e, <1>3, <1>4, <1>10, <1>11, StepAt, Zenon

\* Process.Stop up to its signal.
LEMMA StopKeeps ==
    ASSUME OneHandler, CoresInv, IInv', NEW a \in Handlers, NEW k \in Cores, Stop(a, k)
    PROVE  CoresInv'
<1>0. /\ IInv /\ Types /\ Shape(a) /\ ProcessAt(a, k) /\ OffAt(a, k) /\ MarkAt(a, k) /\ ServedAt(a, k)
  BY Parts, Zenon
<1>1. /\ h[a].pc = "stop" /\ Current(a, k) /\ k \in h[a].todo
      /\ UNCHANGED <<file, marker, alive, exited, booting, off, faults>> /\ Serving' = Serving
  BY AtCurrent, Zenon DEF Stop, NoFault, disk, Current, Least, Serving
<1>2. CASE cmd[k] # 0
  <2> DEFINE r == [h[a] EXCEPT !.pc = "stopping", !.target = cmd[k]]
  <2>1. h' = [h EXCEPT ![a] = r] /\ UNCHANGED state
    BY <1>0, <1>2, Zenon DEF Types, Stop
  <2>2. h'[a] = r /\ DOMAIN h' = Handlers
    BY <2>1, <1>0, Zenon DEF Types
  <2>3. /\ DOMAIN h'[a] = HandlerFields /\ Asked(a) /\ h'[a].pc = "stopping" /\ h'[a].target = cmd[k]
        /\ h'[a].phase = h[a].phase /\ h'[a].todo = h[a].todo /\ h'[a].old = h[a].old
        /\ h'[a].stopped = h[a].stopped /\ h'[a].ok = h[a].ok
    BY <2>2, <1>0, Zenon DEF Types, Asked, HandlerFields
  <2>4. h'[a].ok <=> h[a].ok
    BY <2>3, Zenon
  <2>5. Types'
    <3>1. h'[a].ok \in BOOLEAN
      BY <1>0, <2>3, Zenon DEF Types
    <3> QED BY <1>0, <1>1, <2>2, <2>3, <3>1, StillTypes, Zenon DEF Types, Asked
  <2>6. Shape(a)'
    BY <1>0, <1>1, <2>3, <2>4, Zenon DEF Shape, Asked
  <2>7. Current(a, k)'
    BY <1>1, <2>3, Zenon DEF Current
  <2>8. ProcessAt(a, k)'
    <3>1. \A c \in alive \cup exited : c.core = k => c.id = cmd[k]
      BY <1>0, Zenon DEF IInv, OneChild
    <3> QED BY <1>0, <1>1, <2>1, <2>3, <3>1, Zenon DEF ProcessAt
  <2>9. OffAt(a, k)'
    BY <1>0, <1>1, <2>1, <2>3, <2>4, <2>7, Zenon DEF OffAt, Down, Asked
  <2>10. MarkAt(a, k)'
    BY <1>0, <1>1, <2>1, <2>3, <2>7, Zenon DEF MarkAt, Lags
  <2>11. ServedAt(a, k)'
    BY <1>0, <1>1, <2>1, <2>3, <2>4, <2>7, Zenon DEF ServedAt, Asked, InTheAir
  <2>12. CoreAt(a, k)' /\ \A j \in Cores : SameAt(j)
    BY <1>1, <2>1, <2>8, <2>9, <2>10, <2>11, Zenon DEF CoreAt, SameAt
  <2>13. faults <= faults'
    BY <1>0, <1>1, FaultsStep, Zenon DEF Types
  <2> QED BY <1>1, <2>3, <2>4, <2>5, <2>6, <2>12, <2>13, StepAt, Zenon
<1>3. CASE cmd[k] = 0
  <2>1. state' = [state EXCEPT ![k] = "stopped"] /\ Stopped(a, k)
    BY <1>3, Zenon DEF Stop
  <2>2. state'[k] = "stopped" /\ state[k] # "running" /\ \A j \in Cores : j # k => SameAt(j)
    <3>1. state'[k] = "stopped" /\ \A j \in Cores : j # k => state'[j] = state[j]
      BY <1>0, <2>1, Zenon DEF IInv, Typing
    <3>2. \A c \in alive \cup exited : c.core # k
      BY <1>0, <1>3, Zenon DEF IInv, OneChild, Typing
    <3> QED BY <1>0, <1>1, <3>1, <3>2, Zenon DEF ProcessAt, SameAt
  <2> QED BY <1>0, <1>1, <2>1, <2>2, StoppedKeeps, Zenon
<1> QED BY <1>2, <1>3, Zenon

-----------------------------------------------------------------------------
(* Process.Start, and an Apply that failed. *)

Content == Configs \cup {NoCfg, Torn}

\* What Process.Start does when its core is not running.
LEMMA StartEffect ==
    ASSUME IInv, Types, NEW k \in Cores, NEW f \in Content, NEW ok \in BOOLEAN, Start(k, f, ok),
           state[k] # "running", marker' = marker
    PROVE  /\ \A j \in Cores : j # k => SameAt(j)
           /\ file' \in [Cores -> Content] /\ DOMAIN marker' = Cores /\ marker'[k] = marker[k]
           /\ faults \in Nat /\ faults' \in Nat /\ faults <= faults'
           /\ ok => /\ state'[k] = "running" /\ file'[k] = f /\ Accepts(k, f) /\ faults' = faults
                    /\ k \in Serving' /\ \E c \in alive' : c.core = k
                    /\ \A c \in alive' : c.core = k => c.cfg = f
           /\ ~ok => /\ state'[k] # "running" /\ \A c \in alive' : c.core # k
                     /\ f = file[k] => file'[k] = file[k]
                     /\ faults' = faults + 1 \/ (faults' = faults /\ ~Accepts(k, f))
<1>1. \A c \in alive \cup exited : c.core # k
  BY Zenon DEF IInv, OneChild
<1>2. faults \in Nat
  BY Zenon DEF Types
<1>3. CASE ok
  <2> DEFINE new == [core |-> k, id |-> launched[k] + 1, cfg |-> f]
  <2>1. /\ Accepts(k, f) /\ file' = [file EXCEPT ![k] = f]
        /\ state' = [state EXCEPT ![k] = "running"]
        /\ alive' = alive \cup {new} /\ exited' = exited /\ faults' = faults
    BY <1>3, Zenon DEF Start, NoFault
  <2>2. new.core = k /\ new.cfg = f
    BY Zenon
  <2> HIDE DEF new
  <2>3. file' \in [Cores -> Content] /\ file'[k] = f /\ state'[k] = "running"
    BY <2>1, Zenon DEF Types, IInv, Typing, Content
  <2>4. \A j \in Cores : j # k => SameAt(j)
    BY <2>1, <2>2, Zenon DEF SameAt, Types, IInv, Typing
  <2>5. \A c \in alive' : c.core = k => c.cfg = f
    BY <1>1, <2>1, <2>2, Zenon
  <2>6. new \in alive'
    BY <2>1, Zenon
  <2>7. k \in Serving' /\ \E c \in alive' : c.core = k
    BY <2>6, <2>2, Zenon DEF Serving
  <2> QED BY <1>2, <1>3, <2>1, <2>3, <2>4, <2>5, <2>7 DEF Types
<1>4. CASE ~ok
  <2>1. PICK g \in Content :
          /\ file' = [file EXCEPT ![k] = g]
          /\ f = file[k] => g = file[k]
          /\ faults' = faults + 1 \/ (faults' = faults /\ ~Accepts(k, f))
    <3>1. file[k] \in Content /\ Torn \in Content
      BY Zenon DEF Types, Content
    <3>2. CASE ~Accepts(k, f) /\ file' = [file EXCEPT ![k] = f] /\ NoFault
      BY <3>2, Zenon DEF NoFault
    <3>3. CASE Fault /\ \E g \in {f, file[k]} \cup (IF f = file[k] THEN {} ELSE {Torn}) :
                           file' = [file EXCEPT ![k] = g]
      BY <3>1, <3>3, Zenon DEF Fault
    <3> QED BY <1>4, <3>2, <3>3, Zenon DEF Start
  <2>2. /\ state' = [state EXCEPT ![k] = "errored"] /\ alive' = alive /\ exited' = exited
    BY <1>4, Zenon DEF Start
  <2>3. file' \in [Cores -> Content] /\ file'[k] = g /\ state'[k] = "errored"
    BY <2>1, <2>2, Zenon DEF Types, IInv, Typing, Content
  <2>4. \A j \in Cores : j # k => SameAt(j)
    BY <2>1, <2>2, Zenon DEF SameAt, Types, IInv, Typing
  <2> QED BY <1>1, <1>2, <1>4, <2>1, <2>2, <2>3, <2>4 DEF Types
<1> QED BY <1>3, <1>4, Zenon

\* A core's Apply failed: the cores that the request had stopped are to be
\* started again.
LEMMA FailedKeeps ==
    ASSUME OneHandler, CoresInv, IInv', NEW a \in Handlers, NEW k \in Cores, Current(a, k),
           h[a].phase = "apply", h[a].pc # "reply", Failed(a),
           \A j \in Cores : j # k => SameAt(j), UNCHANGED <<marker, booting, off>>,
           file' \in [Cores -> Content], faults' \in Nat, faults <= faults', faults' # 0,
           state'[k] = "running" => \E c \in alive' \cup exited' : c.core = k,
           \A c \in alive' : c.core = k => c.cfg = file'[k] /\ Accepts(k, file'[k]),
           k \in h[a].before /\ faults' <= 1 => k \in Serving'
    PROVE  CoresInv'
<1>0. IInv /\ Types /\ Shape(a) /\ k \in h[a].todo
  BY Parts, Zenon DEF Current, Least
<1>1. /\ DOMAIN h' = Handlers /\ DOMAIN h'[a] = HandlerFields /\ Asked(a) /\ h'[a].pc = "next"
      /\ h'[a].phase = "undo" /\ h'[a].todo = h[a].stopped /\ h'[a].old = h[a].old
      /\ h'[a].stopped = h[a].stopped /\ ~h'[a].ok /\ h'[a].ok \in BOOLEAN
  BY <1>0, FailedFields, Zenon
<1>2. Types'
  BY <1>0, <1>1, StillTypes, Zenon DEF Types, Asked, Content
<1>3. h[a].rq = "apply" /\ h[a].ok /\ k \in Wanted(h[a].want) /\ h[a].pc # "idle"
  BY <1>0, Zenon DEF Shape
<1>4. Shape(a)'
  BY <1>0, <1>1, <1>3, Zenon DEF Shape, Asked
<1>5. ASSUME NEW j \in Cores PROVE CoreAt(a, j)'
  <2>0. ProcessAt(a, j) /\ OffAt(a, j) /\ ServedAt(a, j)
    BY Parts, Zenon
  <2>1. j # k => ~Current(a, j) /\ SameAt(j)
    BY <1>0, OneCurrent, Zenon DEF Current, Types
  <2>2. k \notin off /\ k \notin h[a].stopped
    BY <1>0, <1>3, Parts, Zenon DEF Shape, OffAt
  <2>3. j \in h[a].stopped => Down(j)
    BY <1>0, <1>3, <2>0, Zenon DEF Shape, OffAt
  <2>4. ProcessAt(a, j)'
    BY <1>1, <2>0, <2>1, <2>2, <2>3, ZenonT(60) DEF ProcessAt, SameAt, Down
  <2>5. OffAt(a, j)'
    BY <1>1, <1>3, <2>0, <2>1, <2>2, Zenon DEF OffAt, SameAt, Down, Asked
  <2>6. MarkAt(a, j)'
    BY <1>1, Zenon DEF MarkAt
  <2>7. j # k => (j \in Serving' <=> j \in Serving)
    BY <2>1, Zenon DEF Serving, SameAt
  <2>8. ServedAt(a, j)'
    <3>1. CASE j = k
      BY <1>1, <1>3, <3>1, Zenon DEF ServedAt, Asked
    <3>2. CASE j # k
      <4>1. faults' <= 1 => faults <= 1
        BY <1>0, FaultsGrow, Zenon DEF Types
      <4> QED BY <1>1, <1>3, <2>0, <2>1, <2>7, <3>2, <4>1, Zenon DEF ServedAt, Asked, SameAt
    <3> QED BY <3>1, <3>2, Zenon
  <2> QED BY <2>4, <2>5, <2>6, <2>8, Zenon DEF CoreAt
<1> QED BY <1>2, <1>4, <1>5, Zenon DEF CoresInv, OneHandler

-----------------------------------------------------------------------------
(* Process.Apply up to the rename. *)

\* Process.Stop returns once the child it signalled is reaped.
LEMMA StopReturnsKeeps ==
    ASSUME OneHandler, CoresInv, NEW a \in Handlers, NEW k \in Cores, StopReturns(a, k)
    PROVE  CoresInv'
<1>0. IInv /\ ProcessAt(a, k)
  BY Parts, Zenon
<1>1. /\ h[a].pc = "stopping" /\ Current(a, k) /\ Stopped(a, k)
      /\ UNCHANGED <<disk, process, booting, off, faults>>
  BY AtCurrent, Zenon DEF StopReturns, NoFault
<1>2. /\ IInv' /\ (\A j \in Cores : SameAt(j)) /\ UNCHANGED <<file, marker, state, alive, exited>>
  BY <1>1, StillWorld, Zenon
<1>3. state[k] # "running"
  BY <1>0, <1>1, Zenon DEF ProcessAt, StopReturns
<1> QED BY <1>1, <1>2, <1>3, StoppedKeeps, Zenon

\* Process.Apply reads the old config before it stops the core.
LEMMA BeginApplyKeeps ==
    ASSUME OneHandler, CoresInv, NEW a \in Handlers, NEW k \in Cores, BeginApply(a, k)
    PROVE  CoresInv'
<1>0. /\ IInv /\ Types /\ Shape(a) /\ ProcessAt(a, k) /\ OffAt(a, k) /\ MarkAt(a, k) /\ ServedAt(a, k)
  BY Parts, Zenon
<1>1. /\ h[a].pc = "next" /\ Current(a, k) /\ h[a].phase = "apply"
      /\ UNCHANGED <<disk, process, booting, off>>
  BY AtCurrent, Zenon DEF BeginApply
<1>2. /\ IInv' /\ Serving' = Serving /\ (\A j \in Cores : SameAt(j))
      /\ UNCHANGED <<file, marker, state, alive, exited, booting, off>>
  BY <1>1, StillWorld, Zenon
<1>3. k \in Wanted(h[a].want) /\ h[a].rq = "apply"
  BY <1>0, <1>1, Zenon DEF Shape, Current, Least
<1>4. k \in Serving => Accepts(k, file[k]) /\ state[k] = "running"
  BY <1>0, Zenon DEF Serving, ProcessAt, IInv, OneChild
<1>5. k \in h[a].before /\ faults <= 1 => k \in Serving
  BY <1>0, <1>1, <1>3, Zenon DEF ServedAt, InTheAir
<1>6. CASE h' = [h EXCEPT ![a].pc = "stop", ![a].old = file[k]] /\ NoFault
  <2> DEFINE r == [h[a] EXCEPT !.pc = "stop", !.old = file[k]]
  <2>1. h' = [h EXCEPT ![a] = r] /\ faults' = faults
    BY <1>0, <1>6, Zenon DEF Types, NoFault
  <2>2. h'[a] = r /\ DOMAIN h' = Handlers
    BY <2>1, <1>0, Zenon DEF Types
  <2>3. /\ DOMAIN h'[a] = HandlerFields /\ Asked(a) /\ h'[a].pc = "stop" /\ h'[a].old = file[k]
        /\ h'[a].phase = h[a].phase /\ h'[a].todo = h[a].todo
        /\ h'[a].stopped = h[a].stopped /\ h'[a].ok = h[a].ok
    BY <2>2, <1>0 DEF Types, Asked, HandlerFields
  <2>4. h'[a].ok <=> h[a].ok
    BY <2>3, Zenon
  <2>5. Types'
    <3>1. h'[a].ok \in BOOLEAN
      BY <1>0, <2>3, Zenon DEF Types
    <3> QED BY <1>0, <1>2, <2>1, <2>2, <2>3, <3>1, StillTypes, SMTT(40) DEF Types, Asked
  <2>6. Shape(a)'
    BY <1>0, <1>1, <1>2, <2>1, <2>3, <2>4, Zenon DEF Shape, Asked
  <2>7. Current(a, k)'
    BY <1>1, <2>3, Zenon DEF Current
  <2>8. ProcessAt(a, k)'
    BY <1>0, <1>1, <1>2, <2>3, Zenon DEF ProcessAt
  <2>9. OffAt(a, k)'
    BY <1>0, <1>1, <1>2, <2>3, <2>4, Zenon DEF OffAt, Down, Asked
  <2>10. MarkAt(a, k)'
    BY <1>0, <1>1, <1>2, <2>1, <2>3, Zenon DEF MarkAt, Lags
  <2>11. ServedAt(a, k)'
    <3>1. k \in Serving /\ faults = 0 => file[k] # NoCfg
      BY <1>0, <1>4, Zenon DEF MarkAt
    <3> QED BY <1>1, <1>2, <1>3, <1>4, <1>5, <2>1, <2>3, <3>1, Zenon DEF ServedAt, Asked
  <2>12. CoreAt(a, k)'
    BY <2>8, <2>9, <2>10, <2>11, Zenon DEF CoreAt
  <2>13. faults <= faults'
    BY <1>0, <2>1, FaultsStep, Zenon DEF Types
  <2> QED BY <1>1, <1>2, <2>1, <2>3, <2>4, <2>5, <2>6, <2>12, <2>13, StepAt, Zenon
<1>7. CASE Fault /\ Failed(a)
  <2>1. faults' = faults + 1 /\ faults' \in Nat /\ faults <= faults' /\ faults' # 0
        /\ (faults' <= 1 => faults <= 1)
    BY <1>0, <1>7 DEF Fault, Types
  <2>2. file' \in [Cores -> Content]
    BY <1>0, <1>2, Zenon DEF Types, Content
  <2>3. k \in h[a].before /\ faults' <= 1 => k \in Serving'
    BY <1>2, <1>5, <2>1, Zenon
  <2> QED BY <1>0, <1>1, <1>2, <1>7, <2>1, <2>2, <2>3, FailedKeeps, Zenon DEF ProcessAt
<1> QED BY <1>6, <1>7, Zenon DEF BeginApply

\* Process.Apply("") of the reload leaves a core alone that does not run.
LEMMA BeginReloadKeeps ==
    ASSUME OneHandler, CoresInv, NEW a \in Handlers, NEW k \in Cores, BeginReload(a, k)
    PROVE  CoresInv'
<1>0. /\ IInv /\ Types /\ Shape(a) /\ ProcessAt(a, k) /\ OffAt(a, k) /\ MarkAt(a, k) /\ ServedAt(a, k)
  BY Parts, Zenon
<1>1. /\ h[a].pc = "next" /\ Current(a, k) /\ h[a].phase = "reload"
      /\ UNCHANGED <<disk, process, booting, off>>
  BY AtCurrent, Zenon DEF BeginReload
<1>2. /\ IInv' /\ Serving' = Serving /\ (\A j \in Cores : SameAt(j))
      /\ UNCHANGED <<file, marker, state, alive, exited, booting, off>>
  BY <1>1, StillWorld, Zenon
<1>3. faults \in Nat /\ h[a].rq = "reload"
  BY <1>0, <1>1, Zenon DEF Types, Shape
<1>4. faults = 0 /\ state[k] = "running" => marker[k] = file[k] /\ file[k] # NoCfg
  BY <1>0, <1>1, Zenon DEF MarkAt, Lags
<1>6. faults' \in {faults, faults + 1}
  BY Zenon DEF BeginReload, Fault, NoFault
<1>5. faults' = 0 => faults = 0
  BY <1>3, <1>6
<1>7. CASE DoneWith(a, k)
  BY <1>1, <1>4, <1>5, <1>6, <1>7, DoneKeeps, Zenon
<1>8. CASE Return(a, FALSE)
  BY <1>1, <1>3, <1>4, <1>5, <1>6, <1>8, ReturnKeeps, Zenon
<1>9. CASE k \in Running /\ Goto(a, "stop") /\ NoFault
  <2>1. /\ DOMAIN h' = Handlers /\ DOMAIN h'[a] = HandlerFields /\ Asked(a) /\ h'[a].pc = "stop"
        /\ h'[a].phase = h[a].phase /\ h'[a].todo = h[a].todo /\ h'[a].old = h[a].old
        /\ h'[a].stopped = h[a].stopped /\ h'[a].ok = h[a].ok /\ faults' = faults
    BY <1>0, <1>9, GotoFields, Zenon DEF NoFault
  <2>2. h'[a].ok <=> h[a].ok
    BY <2>1, Zenon
  <2>3. Types'
    <3>1. h'[a].ok \in BOOLEAN
      BY <1>0, <2>1, Zenon DEF Types
    <3> QED BY <1>0, <1>2, <2>1, <3>1, StillTypes, Zenon DEF Types, Asked
  <2>4. Shape(a)'
    BY <1>0, <1>1, <1>2, <2>1, <2>2, Zenon DEF Shape, Asked
  <2>5. state[k] = "running" /\ Current(a, k)'
    BY <1>1, <1>9, <2>1, Zenon DEF Running, Current
  <2>6. ProcessAt(a, k)'
    BY <1>0, <1>1, <1>2, <2>1, Zenon DEF ProcessAt
  <2>7. OffAt(a, k)'
    BY <1>0, <1>1, <1>2, <1>3, <2>1, <2>5, Zenon DEF OffAt, Down, Asked
  <2>8. MarkAt(a, k)'
    BY <1>1, <1>2, <1>4, <2>1, <2>5, Zenon DEF MarkAt
  <2>9. ServedAt(a, k)'
    BY <1>3, <2>1, Zenon DEF ServedAt, Asked
  <2>10. CoreAt(a, k)'
    BY <2>6, <2>7, <2>8, <2>9, Zenon DEF CoreAt
  <2>11. faults <= faults'
    BY <1>3, <1>6, FaultsStep, Zenon
  <2> QED BY <1>1, <1>2, <2>1, <2>2, <2>3, <2>4, <2>10, <2>11, StepAt, Zenon
<1> QED BY <1>7, <1>8, <1>9, Zenon DEF BeginReload

\* The candidate replaces the config file of the stopped core.
LEMMA RenameKeeps ==
    ASSUME OneHandler, CoresInv, IInv', NEW a \in Handlers, NEW k \in Cores, Rename(a, k)
    PROVE  CoresInv'
<1>0. /\ IInv /\ Types /\ Shape(a) /\ ProcessAt(a, k) /\ OffAt(a, k) /\ MarkAt(a, k) /\ ServedAt(a, k)
  BY Parts, Zenon
<1>1. /\ h[a].pc = "rename" /\ Current(a, k)
      /\ UNCHANGED <<marker, state, alive, exited, booting, off>> /\ Serving' = Serving
  BY AtCurrent, Zenon DEF Rename, process, Serving
<1>2. /\ h[a].phase = "apply" /\ k \in Wanted(h[a].want) /\ h[a].rq = "apply" /\ k \in h[a].todo
  BY <1>0, <1>1, Zenon DEF Shape, Current, Least
<1>3. state[k] # "running" /\ \A c \in alive : c.core # k
  <2>1. state[k] # "running"
    BY <1>0, <1>1, Zenon DEF ProcessAt
  <2> QED BY <1>0, <2>1, Zenon DEF IInv, OneChild
<1>4. PICK pc \in {"launch", "relaunch"} :
        /\ Goto(a, pc) /\ faults' \in {faults, faults + 1}
        /\ pc = "launch" => file' = [file EXCEPT ![k] = h[a].want[k]] /\ faults' = faults
        /\ pc = "relaunch" => file' = file /\ faults' = faults + 1
  BY Zenon DEF Rename, Fault, NoFault
<1>5. /\ DOMAIN h' = Handlers /\ DOMAIN h'[a] = HandlerFields /\ Asked(a) /\ h'[a].pc = pc
      /\ h'[a].phase = h[a].phase /\ h'[a].todo = h[a].todo /\ h'[a].old = h[a].old
      /\ h'[a].stopped = h[a].stopped /\ h'[a].ok = h[a].ok
  BY <1>0, <1>4, GotoFields, Zenon
<1>e. h'[a].ok <=> h[a].ok
  BY <1>5, Zenon
<1>6. faults \in Nat /\ faults' \in Nat /\ faults <= faults' /\ (pc = "relaunch" => faults' # 0)
  BY <1>0, <1>4, FaultsStep, Zenon DEF Types
<1>7. /\ file' \in [Cores -> Configs \cup {NoCfg, Torn}]
      /\ pc = "launch" => file'[k] = h[a].want[k]
      /\ \A j \in Cores : j # k => SameAt(j)
  <2>1. h[a].want[k] \in Configs \cup {NoCfg, Torn}
    BY <1>0, Zenon DEF Types
  <2>2. PICK f \in Configs \cup {NoCfg, Torn} :
          file' = [file EXCEPT ![k] = f] /\ (pc = "launch" => f = h[a].want[k])
    <3>1. CASE pc = "launch"
      BY <1>4, <2>1, <3>1, Zenon
    <3>2. CASE pc = "relaunch"
      <4>1. file' = file /\ file[k] \in Configs \cup {NoCfg, Torn} /\ file = [file EXCEPT ![k] = file[k]]
        BY <1>0, <1>4, <3>2, Zenon DEF Types
      <4> QED BY <3>2, <4>1, Zenon
    <3> QED BY <3>1, <3>2, Zenon
  <2>3. file \in [Cores -> Configs \cup {NoCfg, Torn}]
    BY <1>0, Zenon DEF Types
  <2> QED BY <1>1, <2>2, <2>3, Zenon DEF SameAt
<1>8. Types'
  <2>1. h'[a].ok \in BOOLEAN
    BY <1>0, <1>5, Zenon DEF Types
  <2> QED BY <1>0, <1>1, <1>5, <1>6, <1>7, <2>1, StillTypes, Zenon DEF Types, Asked
<1>9. Shape(a)'
  BY <1>0, <1>1, <1>2, <1>5, <1>e, <1>6, Zenon DEF Shape, Asked
<1>10. Current(a, k)'
  BY <1>1, <1>5, Zenon DEF Current
<1>11. ProcessAt(a, k)'
  BY <1>1, <1>2, <1>3, <1>5, Zenon DEF ProcessAt
<1>12. OffAt(a, k)'
  BY <1>0, <1>1, <1>2, <1>5, <1>e, Zenon DEF OffAt, Down, Asked
<1>13. MarkAt(a, k)'
  BY <1>1, <1>2, <1>3, <1>5, <1>7, Zenon DEF MarkAt, Asked
<1>14. ServedAt(a, k)'
  <2>1. CASE pc = "launch"
    BY <1>0, <1>1, <1>2, <1>4, <1>5, <1>10, <2>1, Zenon DEF ServedAt, Asked, InTheAir
  <2>2. CASE pc = "relaunch"
    <3>1. faults' <= 1 => faults <= 1
      BY <1>6
    <3>2. file' = file
      BY <1>4, <2>2, Zenon
    <3> QED BY <1>0, <1>1, <1>2, <1>5, <1>10, <2>2, <3>1, <3>2, Zenon DEF ServedAt, Asked, InTheAir
  <2> QED BY <2>1, <2>2, Zenon
<1>15. CoreAt(a, k)'
  BY <1>11, <1>12, <1>13, <1>14, Zenon DEF CoreAt
<1> QED BY <1>1, <1>5, <1>e, <1>6, <1>7, <1>8, <1>9, <1>15, StepAt, Zenon

-----------------------------------------------------------------------------
(* The restart and the rollback of Process.Apply. *)

\* The restart in Process.Apply, with the new config or for a reload.
LEMMA LaunchKeeps ==
    ASSUME OneHandler, CoresInv, IInv', NEW a \in Handlers, NEW k \in Cores, Launch(a, k)
    PROVE  CoresInv'
<1>0. /\ IInv /\ Types /\ Shape(a) /\ ProcessAt(a, k) /\ OffAt(a, k) /\ MarkAt(a, k) /\ ServedAt(a, k)
  BY Parts, Zenon
<1>1. /\ h[a].pc = "launch" /\ Current(a, k) /\ UNCHANGED <<marker, booting, off>>
  BY AtCurrent, Zenon DEF Launch
<1>2. /\ h[a].phase \in {"apply", "reload"} /\ k \in h[a].todo /\ state[k] # "running"
      /\ h[a].phase = "apply" => h[a].rq = "apply" /\ k \in Wanted(h[a].want)
      /\ h[a].phase = "reload" => h[a].rq = "reload"
  BY <1>0, <1>1, Zenon DEF Shape, Current, Least, ProcessAt
<1>3. PICK ok \in BOOLEAN :
        /\ Start(k, file[k], ok)
        /\ CASE h[a].phase = "apply" /\ ok -> Goto(a, "hash")
             [] h[a].phase = "apply" /\ ~ok /\ h[a].old = NoCfg -> Failed(a)
             [] h[a].phase = "apply" /\ ~ok /\ h[a].old # NoCfg -> Goto(a, "restore")
             [] h[a].phase = "reload" /\ ok -> DoneWith(a, k)
             [] h[a].phase = "reload" /\ ~ok -> Return(a, FALSE)
  BY Zenon DEF Launch
<1>4. file[k] \in Content
  BY <1>0, Zenon DEF Types, Content
<1>5. /\ \A j \in Cores : j # k => SameAt(j)
      /\ file' \in [Cores -> Content] /\ DOMAIN marker' = Cores /\ marker'[k] = marker[k]
      /\ faults \in Nat /\ faults' \in Nat /\ faults <= faults'
      /\ ok => /\ state'[k] = "running" /\ file'[k] = file[k] /\ Accepts(k, file[k])
               /\ faults' = faults
               /\ k \in Serving' /\ \E c \in alive' : c.core = k
               /\ \A c \in alive' : c.core = k => c.cfg = file[k]
      /\ ~ok => /\ state'[k] # "running" /\ \A c \in alive' : c.core # k
                /\ file'[k] = file[k]
                /\ faults' = faults + 1 \/ (faults' = faults /\ ~Accepts(k, file[k]))
  BY <1>0, <1>1, <1>2, <1>3, <1>4, StartEffect
<1>6. /\ state'[k] = "running" => \E c \in alive' \cup exited' : c.core = k
      /\ \A c \in alive' : c.core = k => c.cfg = file'[k] /\ Accepts(k, file'[k])
  BY <1>5, Zenon
<1>7. h[a].phase = "apply" /\ ~ok => faults' = faults + 1 /\ faults' # 0
  <2>1. h[a].phase = "apply" => file[k] = h[a].want[k] /\ Accepts(k, h[a].want[k])
    BY <1>0, <1>1, <1>2, Zenon DEF MarkAt, Shape
  <2> QED BY <1>5, <2>1, SMTT(40)
<1>8. k \in h[a].before /\ faults' <= 1 /\ h[a].phase = "apply" /\ ~ok
        => h[a].old # NoCfg /\ Accepts(k, h[a].old)
  <2>1. /\ faults' <= 1 => faults <= 1
        /\ h[a].phase = "apply" /\ ~ok /\ faults' <= 1 => faults = 0
    BY <1>5, <1>7, FaultsGrow, FaultsStep, Zenon
  <2> QED BY <1>0, <1>1, <1>2, <2>1, Zenon DEF ServedAt
<1>9. CASE h[a].phase = "apply" /\ ~ok /\ h[a].old = NoCfg
  <2>1. Failed(a)
    BY <1>3, <1>9, Zenon
  <2> QED BY <1>1, <1>5, <1>6, <1>7, <1>8, <1>9, <2>1, FailedKeeps, Zenon
<1>10. CASE ~(h[a].phase = "apply" /\ ~ok /\ h[a].old = NoCfg)
  <2>1. /\ DOMAIN h' = Handlers /\ DOMAIN h'[a] = HandlerFields /\ Asked(a)
        /\ h'[a].phase = h[a].phase /\ h'[a].old = h[a].old /\ h'[a].stopped = h[a].stopped
        /\ h'[a].ok \in BOOLEAN
        /\ h'[a].ok => h[a].ok
        /\ ~h'[a].ok => ~h[a].ok \/ h[a].phase = "reload"
        /\ \/ h[a].phase = "apply" /\ ok /\ h'[a].pc = "hash" /\ h'[a].todo = h[a].todo
           \/ h[a].phase = "apply" /\ ~ok /\ h'[a].pc = "restore" /\ h'[a].todo = h[a].todo
           \/ h[a].phase = "reload" /\ ok /\ h'[a].pc = "next" /\ h'[a].todo = h[a].todo \ {k}
           \/ h[a].phase = "reload" /\ ~ok /\ h'[a].pc = "reply" /\ h'[a].todo = h[a].todo
    <3>0. h[a].ok \in BOOLEAN
      BY <1>0, Zenon DEF Types
    <3>1. ASSUME h'[a].ok = h[a].ok
          PROVE  h'[a].ok \in BOOLEAN /\ (h'[a].ok => h[a].ok) /\ (~h'[a].ok => ~h[a].ok)
      BY <3>0, <3>1, Zenon
    <3>2. CASE h[a].phase = "apply" /\ ok
      <4>1. Goto(a, "hash")
        BY <1>3, <3>2, Zenon
      <4> QED BY <1>0, <3>1, <3>2, <4>1, GotoFields, Zenon
    <3>3. CASE h[a].phase = "apply" /\ ~ok
      <4>1. Goto(a, "restore")
        BY <1>3, <1>10, <3>3, Zenon
      <4> QED BY <1>0, <3>1, <3>3, <4>1, GotoFields, Zenon
    <3>4. CASE h[a].phase = "reload" /\ ok
      <4>1. DoneWith(a, k)
        BY <1>3, <3>4, Zenon
      <4> QED BY <1>0, <3>1, <3>4, <4>1, DoneFields, Zenon
    <3>5. CASE h[a].phase = "reload" /\ ~ok
      <4>1. Return(a, FALSE)
        BY <1>3, <3>5, Zenon
      <4>2. h'[a].ok = FALSE
        BY <1>0, <4>1, ReturnFields, Zenon
      <4>3. h'[a].ok \in BOOLEAN /\ ~h'[a].ok
        BY <4>2, Zenon
      <4> QED BY <1>0, <3>5, <4>1, <4>3, ReturnFields, Zenon
    <3> QED BY <1>2, <3>2, <3>3, <3>4, <3>5, Zenon
  <2>2. Types'
    BY <1>0, <1>5, <2>1, StillTypes, Zenon DEF Types, Asked, Content
  <2>3. Shape(a)'
    BY <1>0, <1>1, <1>2, <1>5, <1>7, <2>1, Zenon DEF Shape, Asked
  <2>4. h[a].phase = "apply" => Current(a, k)'
    BY <1>1, <2>1, Zenon DEF Current
  <2>5. ProcessAt(a, k)'
    BY <1>2, <1>5, <1>6, <2>1, Zenon DEF ProcessAt
  <2>6. OffAt(a, k)'
    <3>1. k \notin off
      BY <1>0, <1>1, <1>2, Zenon DEF OffAt
    <3> QED BY <1>1, <1>2, <2>1, <3>1, Zenon DEF OffAt, Asked
  <2>7. MarkAt(a, k)'
    <3>1. CASE h[a].phase = "apply"
      <4>1. file[k] = h[a].want[k]
        BY <1>0, <1>1, <3>1, Zenon DEF MarkAt
      <4>2. ok => file[k] # NoCfg
        BY <1>2, <3>1, <4>1, Zenon DEF Wanted
      <4> QED BY <1>5, <2>1, <2>4, <3>1, <4>1, <4>2, Zenon DEF MarkAt, Asked, Lags
    <3>2. CASE h[a].phase = "reload"
      <4>1. faults = 0 => marker[k] = file[k] /\ file[k] # NoCfg
        BY <1>0, <1>1, <3>2, Zenon DEF MarkAt
      <4> QED BY <1>5, <2>1, <3>2, <4>1, Zenon DEF MarkAt
    <3> QED BY <1>2, <3>1, <3>2, Zenon
  <2>8. ServedAt(a, k)'
    BY <1>2, <1>5, <1>8, <2>1, <2>4, Zenon DEF ServedAt, Asked, InTheAir
  <2>9. CoreAt(a, k)'
    BY <2>5, <2>6, <2>7, <2>8, Zenon DEF CoreAt
  <2> QED BY <1>1, <1>2, <1>5, <2>1, <2>2, <2>3, <2>9, StepAt, Zenon
<1> QED BY <1>9, <1>10, Zenon

\* The rollback of Process.Apply writes the old config back,
LEMMA RestoreKeeps ==
    ASSUME OneHandler, CoresInv, IInv', NEW a \in Handlers, NEW k \in Cores, Restore(a, k)
    PROVE  CoresInv'
<1>0. /\ IInv /\ Types /\ Shape(a) /\ ProcessAt(a, k) /\ OffAt(a, k) /\ MarkAt(a, k) /\ ServedAt(a, k)
  BY Parts, Zenon
<1>1. /\ h[a].pc = "restore" /\ Current(a, k) /\ faults \in Nat /\ faults # 0
      /\ UNCHANGED <<marker, state, alive, exited, booting, off>> /\ Serving' = Serving
  <2>1. faults \in Nat /\ (h[a].pc = "restore" => faults # 0)
    BY <1>0, Zenon DEF Types, Shape
  <2> QED BY <2>1, AtCurrent, Zenon DEF Restore, process, Serving
<1>2. /\ h[a].phase = "apply" /\ k \in Wanted(h[a].want) /\ h[a].rq = "apply" /\ k \in h[a].todo
  BY <1>0, <1>1, Zenon DEF Shape, Current, Least
<1>3. state[k] # "running" /\ \A c \in alive : c.core # k
  <2>1. state[k] # "running"
    BY <1>0, <1>1, Zenon DEF ProcessAt
  <2> QED BY <1>0, <2>1, Zenon DEF IInv, OneChild
<1>4. PICK f \in Content : file' = [file EXCEPT ![k] = f]
  BY <1>0, Zenon DEF Restore, Types, Content
<1>5. /\ file' \in [Cores -> Content] /\ file'[k] = f /\ \A j \in Cores : j # k => SameAt(j)
  BY <1>0, <1>1, <1>4, Zenon DEF Types, SameAt, Content
<1>6. CASE Fault /\ Failed(a)
  <2>1. faults' \in Nat /\ faults <= faults' /\ faults' # 0 /\ ~(faults' <= 1)
    BY <1>1, <1>6 DEF Fault
  <2> QED BY <1>1, <1>2, <1>3, <1>5, <1>6, <2>1, FailedKeeps, Zenon
<1>7. CASE file' = [file EXCEPT ![k] = h[a].old] /\ Goto(a, "relaunch") /\ NoFault
  <2>1. /\ DOMAIN h' = Handlers /\ DOMAIN h'[a] = HandlerFields /\ Asked(a) /\ h'[a].pc = "relaunch"
        /\ h'[a].phase = h[a].phase /\ h'[a].todo = h[a].todo /\ h'[a].old = h[a].old
        /\ h'[a].stopped = h[a].stopped /\ h'[a].ok = h[a].ok /\ faults' = faults
    BY <1>0, <1>7, GotoFields, Zenon DEF NoFault
  <2>2. h'[a].ok <=> h[a].ok
    BY <2>1, Zenon
  <2>3. Types'
    <3>1. h'[a].ok \in BOOLEAN
      BY <1>0, <2>1, Zenon DEF Types
    <3> QED BY <1>0, <1>1, <1>5, <2>1, <3>1, StillTypes, Zenon DEF Types, Asked, Content
  <2>4. Shape(a)'
    BY <1>0, <1>1, <1>2, <2>1, <2>2, Zenon DEF Shape, Asked
  <2>5. Current(a, k)' /\ file'[k] = h[a].old
    BY <1>0, <1>1, <1>7, <2>1, Zenon DEF Current, Types
  <2>6. ProcessAt(a, k)'
    BY <1>1, <1>2, <1>3, <2>1, Zenon DEF ProcessAt
  <2>7. OffAt(a, k)'
    BY <1>0, <1>1, <1>2, <2>1, <2>2, Zenon DEF OffAt, Down, Asked
  <2>8. MarkAt(a, k)'
    BY <1>1, <1>2, <1>3, <2>1, Zenon DEF MarkAt
  <2>9. ServedAt(a, k)'
    BY <1>0, <1>1, <1>2, <2>1, <2>5, Zenon DEF ServedAt, Asked, InTheAir
  <2>10. CoreAt(a, k)'
    BY <2>6, <2>7, <2>8, <2>9, Zenon DEF CoreAt
  <2>11. faults <= faults'
    BY <1>1, <2>1, FaultsStep, Zenon
  <2> QED BY <1>1, <1>5, <2>1, <2>2, <2>3, <2>4, <2>10, <2>11, StepAt, Zenon
<1> QED BY <1>6, <1>7, Zenon DEF Restore

\* ... and starts it.
LEMMA RelaunchKeeps ==
    ASSUME OneHandler, CoresInv, IInv', NEW a \in Handlers, NEW k \in Cores, Relaunch(a, k)
    PROVE  CoresInv'
<1>0. /\ IInv /\ Types /\ Shape(a) /\ ProcessAt(a, k) /\ OffAt(a, k) /\ MarkAt(a, k) /\ ServedAt(a, k)
  BY Parts, Zenon
<1>1. /\ h[a].pc = "relaunch" /\ Current(a, k) /\ faults # 0 /\ Failed(a)
      /\ UNCHANGED <<marker, booting, off>>
  BY <1>0, AtCurrent, Zenon DEF Relaunch, Shape
<1>2. /\ h[a].phase = "apply" /\ h[a].rq = "apply" /\ state[k] # "running"
  BY <1>0, <1>1, Zenon DEF Shape, ProcessAt
<1>3. PICK ok \in BOOLEAN : Start(k, file[k], ok)
  BY Zenon DEF Relaunch
<1>4. file[k] \in Content
  BY <1>0, Zenon DEF Types, Content
<1>5. /\ \A j \in Cores : j # k => SameAt(j)
      /\ file' \in [Cores -> Content]
      /\ faults \in Nat /\ faults' \in Nat /\ faults <= faults'
      /\ ok => /\ file'[k] = file[k] /\ Accepts(k, file[k])
               /\ k \in Serving' /\ \E c \in alive' : c.core = k
               /\ \A c \in alive' : c.core = k => c.cfg = file[k]
      /\ ~ok => /\ state'[k] # "running" /\ \A c \in alive' : c.core # k
                /\ faults' = faults + 1 \/ (faults' = faults /\ ~Accepts(k, file[k]))
  <2>1. IInv /\ Types /\ marker' = marker /\ state[k] # "running"
    BY <1>0, <1>1, <1>2, Zenon
  <2> QED BY <1>3, <1>4, <2>1, StartEffect
<1>6. k \in h[a].before /\ faults' <= 1 => k \in Serving'
  <2>1. faults' <= 1 => faults <= 1 /\ faults' # faults + 1
    BY <1>1, <1>5, FaultsGrow, FaultsStep, Zenon
  <2>2. k \in h[a].before /\ faults <= 1 => Accepts(k, file[k])
    BY <1>0, <1>1, <1>2, Zenon DEF ServedAt
  <2> QED BY <1>5, <2>1, <2>2, Zenon
<1>7. faults' # 0
  BY <1>1, <1>5
<1>8. /\ state'[k] = "running" => \E c \in alive' \cup exited' : c.core = k
      /\ \A c \in alive' : c.core = k => c.cfg = file'[k] /\ Accepts(k, file'[k])
  BY <1>5, Zenon
<1> QED BY <1>1, <1>2, <1>5, <1>6, <1>7, <1>8, FailedKeeps, Zenon
=============================================================================

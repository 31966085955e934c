----------------------------- MODULE AgentCores -----------------------------
(***************************************************************************)
(* The core processes of one agent: core.Process (process.go), the         *)
(* recovery marker beside each config file (recovery.go), the gRPC         *)
(* handlers Apply, Start and Stop that drive them (server.go), the reload  *)
(* callback of the certificate manager and the resume at boot (main.go).   *)
(*                                                                         *)
(* Handlers run concurrently: nothing but Process.mu, which each           *)
(* Process method holds only for its own critical sections, orders them.   *)
(* Every step below is one critical section or one file operation.         *)
(* A config is an abstract value; the marker holds the value whose hash it *)
(* records.  A WriteFile that a crash or an I/O error cuts short leaves    *)
(* Torn in the file.                                                       *)
(***************************************************************************)
EXTENDS Integers

CONSTANTS
    Cores,        \* the kinds of core ("hysteria", "singbox", "xray")
    Rank,         \* their position in the sorted order Apply walks them in
    Checked,      \* the cores whose Process has checkArgs
    Reloadable,   \* the cores the reload callback restarts
    Handlers,     \* goroutines that serve RPCs and the reload callback
    Serves,       \* the kinds of request each of them runs, one at a time
    Configs,      \* the configs BuildConfig can produce
    Loads,        \* those a core's own check accepts
    NoCfg,        \* no config: the core is not wanted / no file on disk
    Torn,         \* the content of a file whose write was cut short
    Off,          \* a marker that says inactive; NoCfg is a missing marker
    MaxRequests, MaxFaults, MaxCrashes

ASSUME CoresAssumption ==
    /\ Rank \in [Cores -> Nat]
    /\ \A j, k \in Cores : Rank[j] = Rank[k] => j = k
    /\ Checked \subseteq Cores /\ Reloadable \subseteq Cores
    /\ Serves \in [Handlers -> SUBSET {"apply", "start", "stop", "reload"}]
ASSUME ConfigsAssumption ==
    /\ Loads \subseteq Configs
    /\ {NoCfg, Torn, Off} \cap Configs = {} /\ NoCfg # Torn /\ Off \notin {NoCfg, Torn}
ASSUME BoundsAssumption == {MaxRequests, MaxFaults, MaxCrashes} \subseteq Nat

VARIABLES
    file,      \* the config file of each core
    marker,    \* its recovery marker
    state,     \* Process.state
    cmd,       \* Process.cmd: the launch number of its child, 0 for nil
    stopping,  \* Process.stopping
    launched,  \* how many children the Process has launched
    alive,     \* the children that run: [core, id, cfg]
    exited,    \* the children that exited and were not reaped yet
    booting,   \* the cores recoverCore has still to look at
    h,         \* the handlers (before: history, the cores that ran at arrival)
    off,       \* (history) the cores whose stop was reported a success last
    requests, faults, crashes

disk == <<file, marker>>
process == <<state, cmd, stopping, launched, alive, exited>>
bounds == <<requests, crashes>>
vars == <<disk, process, booting, h, off, bounds, faults>>

Idle == [pc |-> "idle", rq |-> "none", phase |-> "none", todo |-> {},
         want |-> [k \in Cores |-> NoCfg], old |-> NoCfg, target |-> 0,
         stopped |-> {}, sum |-> NoCfg, before |-> {}, ok |-> TRUE]

Child == [core : Cores, id : Nat, cfg : Configs \cup {NoCfg, Torn}]

\* Type invariant.
TypeOK ==
    /\ file \in [Cores -> Configs \cup {NoCfg, Torn}]
    /\ marker \in [Cores -> Configs \cup {NoCfg, Torn, Off}]
    /\ state \in [Cores -> {"stopped", "running", "errored"}]
    /\ cmd \in [Cores -> Nat]
    /\ stopping \in [Cores -> BOOLEAN]
    /\ launched \in [Cores -> Nat]
    /\ alive \subseteq Child /\ exited \subseteq Child
    /\ booting \subseteq Cores /\ off \subseteq Cores
    /\ h \in [Handlers ->
         [pc : {"idle", "next", "stop", "stopping", "rename", "launch", "restore",
                "relaunch", "write", "hash", "mark", "reply"},
          rq : {"none", "apply", "start", "stop", "reload"},
          phase : {"none", "obsolete", "apply", "undo", "remark", "reload", "start"},
          todo : SUBSET Cores, want : [Cores -> Configs \cup {NoCfg}],
          old : Configs \cup {NoCfg, Torn}, target : Nat, stopped : SUBSET Cores,
          sum : Configs \cup {NoCfg, Torn}, before : SUBSET Cores, ok : BOOLEAN]]
    /\ requests \in 0..MaxRequests /\ faults \in 0..MaxFaults /\ crashes \in 0..MaxCrashes

Init ==
    /\ file = [k \in Cores |-> NoCfg] /\ marker = [k \in Cores |-> NoCfg]
    /\ state = [k \in Cores |-> "stopped"] /\ cmd = [k \in Cores |-> 0]
    /\ stopping = [k \in Cores |-> FALSE] /\ launched = [k \in Cores |-> 0]
    /\ alive = {} /\ exited = {} /\ booting = {} /\ off = {}
    /\ h = [a \in Handlers |-> Idle]
    /\ requests = 0 /\ faults = 0 /\ crashes = 0

Running == {k \in Cores : state[k] = "running"}
Serving == {c.core : c \in alive}

\* What the check command says of a file; a core without one accepts any.
Accepts(k, f) == k \in Checked => f \in Loads

\* An I/O or exec error, or a child that exits on its own.
Fault == faults < MaxFaults /\ faults' = faults + 1
NoFault == UNCHANGED faults

-----------------------------------------------------------------------------
(* Process.Start, one critical section: f is what the file holds when the  *)
(* check runs, ok the method's success.                                    *)

\* Mutant: Start without its early return for a running core.
StartAnyway(k, f, ok) ==
    \/ /\ ok /\ Accepts(k, f)
       /\ file' = [file EXCEPT ![k] = f]
       /\ state' = [state EXCEPT ![k] = "running"]
       /\ stopping' = [stopping EXCEPT ![k] = FALSE]
       /\ launched' = [launched EXCEPT ![k] = @ + 1]
       /\ cmd' = [cmd EXCEPT ![k] = launched[k] + 1]
       /\ alive' = alive \cup {[core |-> k, id |-> launched[k] + 1, cfg |-> f]}
       /\ NoFault /\ UNCHANGED exited
    \/ /\ ~ok /\ ~Accepts(k, f)
       /\ file' = [file EXCEPT ![k] = f]
       /\ state' = [state EXCEPT ![k] = "errored"]
       /\ NoFault /\ UNCHANGED <<cmd, stopping, launched, alive, exited>>

Start(k, f, ok) ==
    \/ /\ state[k] = "running" /\ ok
       /\ NoFault /\ UNCHANGED <<process, file>>
    \/ /\ state[k] # "running" /\ Accepts(k, f) /\ ok
       /\ file' = [file EXCEPT ![k] = f]
       /\ state' = [state EXCEPT ![k] = "running"]
       /\ stopping' = [stopping EXCEPT ![k] = FALSE]
       /\ launched' = [launched EXCEPT ![k] = @ + 1]
       /\ cmd' = [cmd EXCEPT ![k] = launched[k] + 1]
       /\ alive' = alive \cup {[core |-> k, id |-> launched[k] + 1, cfg |-> f]}
       /\ NoFault /\ UNCHANGED exited
    \/ /\ state[k] # "running" /\ ~ok
       /\ \/ ~Accepts(k, f) /\ file' = [file EXCEPT ![k] = f] /\ NoFault
          \/ Fault /\ \E g \in {f, file[k]} \cup (IF f = file[k] THEN {} ELSE {Torn}) :
                         file' = [file EXCEPT ![k] = g]
       /\ state' = [state EXCEPT ![k] = "errored"]
       /\ UNCHANGED <<cmd, stopping, launched, alive, exited>>

-----------------------------------------------------------------------------
(* Control of a handler: a request walks the cores of a phase (todo) in    *)
(* sorted order.                                                           *)

At(a, pc, k) ==
    /\ h[a].pc = pc /\ k \in h[a].todo
    /\ \A j \in h[a].todo : Rank[k] <= Rank[j]

Goto(a, pc) == h' = [h EXCEPT ![a].pc = pc]
DoneWith(a, k) == h' = [h EXCEPT ![a].pc = "next", ![a].todo = @ \ {k}]
Return(a, ok) == h' = [h EXCEPT ![a].pc = "reply", ![a].ok = ok]

\* Process.Apply returned an error: restart what the request stopped.
Failed(a) ==
    h' = [h EXCEPT ![a].pc = "next", ![a].phase = "undo", ![a].ok = FALSE,
                   ![a].todo = h[a].stopped]

Accept(a, request) ==
    /\ booting = {} /\ h[a].pc = "idle" /\ request.rq \in Serves[a]
    /\ requests < MaxRequests
    /\ requests' = requests + 1
    /\ h' = [h EXCEPT ![a] = request]
    /\ NoFault /\ UNCHANGED <<disk, process, booting, crashes>>

Wanted(w) == {k \in Cores : w[k] # NoCfg}

\* Server.Apply up to the end of validateCandidate: a candidate one core
\* rejects is answered at once and changes nothing.
ApplyRpc(a) ==
    \E w \in [Cores -> Configs \cup {NoCfg}] :
      /\ \A k \in Wanted(w) : Accepts(k, w[k])
      /\ Accept(a, [Idle EXCEPT !.pc = "next", !.rq = "apply", !.phase = "obsolete",
                                !.todo = Cores \ Wanted(w), !.want = w,
                                !.before = Serving])
      /\ off' = off \ Wanted(w)

StartRpc(a) ==
    \E k \in Cores, c \in Configs :
      /\ Accept(a, [Idle EXCEPT !.pc = "write", !.rq = "start", !.phase = "start",
                                !.todo = {k}, !.want = [Idle.want EXCEPT ![k] = c],
                                !.before = Serving])
      /\ off' = off \ {k}

StopRpc(a) ==
    \E k \in Cores :
      /\ Accept(a, [Idle EXCEPT !.pc = "next", !.rq = "stop", !.phase = "obsolete",
                                !.todo = {k}, !.before = Serving \ {k}])
      /\ UNCHANGED off

\* The callback SetReload installs, run after a renewal.
Reload(a) ==
    /\ Accept(a, [Idle EXCEPT !.pc = "next", !.rq = "reload", !.phase = "reload",
                              !.todo = Reloadable, !.before = Serving])
    /\ UNCHANGED off

\* A loop of the request is over.
PhaseEnd(a) ==
    /\ h[a].pc = "next" /\ h[a].todo = {}
    /\ CASE h[a].phase = "obsolete" /\ h[a].rq = "apply" ->
              h' = [h EXCEPT ![a].phase = "apply", ![a].todo = Wanted(h[a].want)]
         [] h[a].phase \in {"apply", "undo"} ->
              h' = [h EXCEPT ![a].phase = "remark",
                             ![a].todo = Cores \ Wanted(h[a].want)]
         [] OTHER -> Return(a, h[a].ok)
    /\ NoFault /\ UNCHANGED <<disk, process, booting, off, bounds>>

-----------------------------------------------------------------------------
(* Stopping a core: markInactive, then Process.Stop.                       *)

\* Mutant: stop an obsolete core and leave its marker active.
MarkInactiveSkipped(a, k) ==
    /\ At(a, "next", k) /\ h[a].phase = "obsolete"
    /\ h' = [h EXCEPT ![a].pc = "stop",
                      ![a].stopped = @ \cup ({k} \cap Running)]
    /\ NoFault /\ UNCHANGED <<disk, process, booting, off, bounds>>

MarkInactive(a, k) ==
    /\ At(a, "next", k) /\ h[a].phase = "obsolete"
    /\ \/ /\ marker' = [marker EXCEPT ![k] = Off]
          /\ h' = [h EXCEPT ![a].pc = "stop",
                            ![a].stopped = @ \cup ({k} \cap Running)]
          /\ NoFault
       \/ Fault /\ Return(a, FALSE) /\ UNCHANGED marker
    /\ UNCHANGED <<file, process, booting, off, bounds>>

\* Where a handler goes when Process.Stop returns.
Stopped(a, k) ==
    CASE h[a].phase = "obsolete" -> DoneWith(a, k)
      [] h[a].phase = "apply" -> Goto(a, "rename")
      [] h[a].phase = "reload" -> Goto(a, "launch")

\* Process.Stop up to its signal to the child.
Stop(a, k) ==
    /\ At(a, "stop", k)
    /\ \/ /\ cmd[k] = 0
          /\ state' = [state EXCEPT ![k] = "stopped"]
          /\ Stopped(a, k) /\ UNCHANGED stopping
       \/ /\ cmd[k] # 0
          /\ stopping' = [stopping EXCEPT ![k] = TRUE]
          /\ h' = [h EXCEPT ![a].pc = "stopping", ![a].target = cmd[k]]
          /\ UNCHANGED state
    /\ NoFault /\ UNCHANGED <<disk, cmd, launched, alive, exited, booting, off, bounds>>

\* waitCh of the child was closed.
StopReturns(a, k) ==
    /\ At(a, "stopping", k)
    /\ \A c \in alive \cup exited : ~(c.core = k /\ c.id = h[a].target)
    /\ Stopped(a, k)
    /\ NoFault /\ UNCHANGED <<disk, process, booting, off, bounds>>

-----------------------------------------------------------------------------
(* Process.Apply, with a config (phase "apply") and without ("reload").    *)

\* Check the candidate and read the old config.
BeginApply(a, k) ==
    /\ At(a, "next", k) /\ h[a].phase = "apply"
    /\ \/ h' = [h EXCEPT ![a].pc = "stop", ![a].old = file[k]] /\ NoFault
       \/ Fault /\ Failed(a)
    /\ UNCHANGED <<disk, process, booting, off, bounds>>

BeginReload(a, k) ==
    /\ At(a, "next", k) /\ h[a].phase = "reload"
    /\ \/ k \notin Running /\ DoneWith(a, k) /\ NoFault
       \/ k \in Running /\ Accepts(k, file[k]) /\ Goto(a, "stop") /\ NoFault
       \/ k \in Running /\ ~Accepts(k, file[k]) /\ Return(a, FALSE) /\ NoFault
       \/ k \in Running /\ Fault /\ Return(a, FALSE)
    /\ UNCHANGED <<disk, process, booting, off, bounds>>

Rename(a, k) ==
    /\ At(a, "rename", k)
    /\ \/ file' = [file EXCEPT ![k] = h[a].want[k]] /\ Goto(a, "launch") /\ NoFault
       \/ Fault /\ Goto(a, "relaunch") /\ UNCHANGED file
    /\ UNCHANGED <<marker, process, booting, off, bounds>>

Launch(a, k) ==
    /\ At(a, "launch", k)
    /\ \E ok \in BOOLEAN :
         /\ Start(k, file[k], ok)
         /\ CASE h[a].phase = "apply" /\ ok -> Goto(a, "hash")
              [] h[a].phase = "apply" /\ ~ok /\ h[a].old = NoCfg -> Failed(a)
              [] h[a].phase = "apply" /\ ~ok /\ h[a].old # NoCfg -> Goto(a, "restore")
              [] h[a].phase = "reload" /\ ok -> DoneWith(a, k)
              [] h[a].phase = "reload" /\ ~ok -> Return(a, FALSE)
    /\ UNCHANGED <<marker, booting, off, bounds>>

Restore(a, k) ==
    /\ At(a, "restore", k)
    /\ \/ file' = [file EXCEPT ![k] = h[a].old] /\ Goto(a, "relaunch") /\ NoFault
       \/ /\ Fault /\ Failed(a)
          /\ \E f \in {file[k], Torn} : file' = [file EXCEPT ![k] = f]
    /\ UNCHANGED <<marker, process, booting, off, bounds>>

\* Mutant: roll the file back and leave the core down.
RelaunchSkipped(a, k) ==
    /\ At(a, "relaunch", k) /\ Failed(a) /\ NoFault
    /\ UNCHANGED <<disk, process, booting, off, bounds>>

\* The best-effort Start("") of the previous config; Apply fails either way.
Relaunch(a, k) ==
    /\ At(a, "relaunch", k)
    /\ \E ok \in BOOLEAN : Start(k, file[k], ok)
    /\ Failed(a)
    /\ UNCHANGED <<marker, booting, off, bounds>>

-----------------------------------------------------------------------------
(* The rest of Server.Apply and Server.Start.                              *)

\* Restart a core the failed request had stopped; its error is only reported.
Undo(a, k) ==
    /\ At(a, "next", k) /\ h[a].phase = "undo"
    /\ \E ok \in BOOLEAN : Start(k, file[k], ok)
    /\ DoneWith(a, k)
    /\ UNCHANGED <<marker, booting, off, bounds>>

\* Process.Start(cfg) of the Start RPC.
Write(a, k) ==
    /\ At(a, "write", k)
    /\ \E ok \in BOOLEAN :
         /\ Start(k, h[a].want[k], ok)
         /\ IF ok THEN Goto(a, "hash") ELSE Return(a, FALSE)
    /\ UNCHANGED <<marker, booting, off, bounds>>

\* An unwanted core that runs nevertheless is marked active again.
Remark(a, k) ==
    /\ At(a, "next", k) /\ h[a].phase = "remark"
    /\ IF k \in Running THEN Goto(a, "hash") ELSE DoneWith(a, k)
    /\ NoFault /\ UNCHANGED <<disk, process, booting, off, bounds>>

\* MarkActive returned an error: ignored while a failed request is undone.
MarkFailed(a, k) == IF h[a].ok THEN Return(a, FALSE) ELSE DoneWith(a, k)

\* MarkActive: read the file, then replace the marker.
Hash(a, k) ==
    /\ At(a, "hash", k)
    /\ \/ /\ file[k] # NoCfg
          /\ h' = [h EXCEPT ![a].pc = "mark", ![a].sum = file[k]] /\ NoFault
       \/ file[k] = NoCfg /\ MarkFailed(a, k) /\ NoFault
       \/ Fault /\ MarkFailed(a, k)
    /\ UNCHANGED <<disk, process, booting, off, bounds>>

\* Mutant: the marker of an applied core is not written.
MarkNothing(a, k) ==
    /\ At(a, "mark", k) /\ DoneWith(a, k) /\ NoFault
    /\ UNCHANGED <<disk, process, booting, off, bounds>>

Mark(a, k) ==
    /\ At(a, "mark", k)
    /\ \/ marker' = [marker EXCEPT ![k] = h[a].sum] /\ DoneWith(a, k) /\ NoFault
       \/ Fault /\ MarkFailed(a, k) /\ UNCHANGED marker
    /\ UNCHANGED <<file, process, booting, off, bounds>>

Reply(a) ==
    /\ h[a].pc = "reply"
    /\ h' = [h EXCEPT ![a] = Idle]
    /\ off' = CASE h[a].rq = "apply" /\ h[a].ok -> off \cup (Cores \ Wanted(h[a].want))
                [] h[a].rq = "stop" /\ h[a].ok -> off \cup h[a].stopped
                [] OTHER -> off
    /\ NoFault /\ UNCHANGED <<disk, process, booting, bounds>>

-----------------------------------------------------------------------------
(* The children, the reaper and the host.                                  *)

Signalled(c) ==
    \E a \in Handlers : At(a, "stopping", c.core) /\ h[a].target = c.id

\* SIGTERM, or SIGKILL after stopGrace, ends the child.
Terminate(c) ==
    /\ c \in alive /\ Signalled(c)
    /\ alive' = alive \ {c} /\ exited' = exited \cup {c}
    /\ NoFault /\ UNCHANGED <<disk, state, cmd, stopping, launched, booting, h, off, bounds>>

\* A child exits unasked; no request is held to account for that core.
Die(c) ==
    /\ c \in alive /\ Fault
    /\ alive' = alive \ {c} /\ exited' = exited \cup {c}
    /\ h' = [a \in Handlers |-> [h[a] EXCEPT !.before = @ \ {c.core}]]
    /\ UNCHANGED <<disk, state, cmd, stopping, launched, booting, off, bounds>>

\* Mutant: waitCh is not closed after a deliberate stop.
ReapNoClose(c) ==
    /\ c \in exited
    /\ exited' = IF stopping[c.core] THEN exited ELSE exited \ {c}
    /\ IF cmd[c.core] = c.id
         THEN /\ state' = [state EXCEPT ![c.core] = "stopped"]
              /\ cmd' = [cmd EXCEPT ![c.core] = 0]
         ELSE UNCHANGED <<state, cmd>>
    /\ NoFault
    /\ UNCHANGED <<disk, stopping, launched, alive, booting, h, off, bounds>>

\* reap: err is what Wait returned.
Reap(c) ==
    /\ c \in exited /\ exited' = exited \ {c}
    /\ IF cmd[c.core] = c.id
         THEN /\ \E err \in BOOLEAN :
                   state' = [state EXCEPT ![c.core] =
                               IF err /\ ~stopping[c.core] THEN "errored" ELSE "stopped"]
              /\ cmd' = [cmd EXCEPT ![c.core] = 0]
         ELSE UNCHANGED <<state, cmd>>
    /\ NoFault
    /\ UNCHANGED <<disk, stopping, launched, alive, booting, h, off, bounds>>

\* What a crash may leave in the file of k: WriteFile is not atomic.
AfterCrash(k) ==
    {file[k]} \cup UNION { {Torn, h[a].old} : a \in {b \in Handlers : At(b, "restore", k)} }
              \cup UNION { IF state[k] = "running" THEN {} ELSE {Torn, h[a].want[k]} :
                             a \in {b \in Handlers : At(b, "write", k)} }

\* The agent and, with its cgroup, its children die; the service restarts.
Crash ==
    /\ crashes < MaxCrashes /\ crashes' = crashes + 1
    /\ file' \in {f \in [Cores -> Configs \cup {NoCfg, Torn}] : \A k \in Cores : f[k] \in AfterCrash(k)}
    /\ state' = [k \in Cores |-> "stopped"] /\ cmd' = [k \in Cores |-> 0]
    /\ stopping' = [k \in Cores |-> FALSE] /\ alive' = {} /\ exited' = {}
    /\ h' = [a \in Handlers |-> Idle] /\ booting' = Cores
    /\ NoFault /\ UNCHANGED <<marker, launched, off, requests>>

ShouldRecover(k) == marker[k] \notin {NoCfg, Off} /\ marker[k] = file[k]

\* recoverCore at boot; RPCs are served once every core was looked at.
RecoverCore(k) ==
    /\ k \in booting /\ booting' = booting \ {k}
    /\ IF ShouldRecover(k)
         THEN \E ok \in BOOLEAN : Start(k, file[k], ok)
         ELSE NoFault /\ UNCHANGED <<process, file>>
    /\ UNCHANGED <<marker, h, off, bounds>>

HandlerStep(a) ==
    \/ PhaseEnd(a) \/ Reply(a)
    \/ \E k \in Cores :
         \/ MarkInactive(a, k) \/ Stop(a, k) \/ StopReturns(a, k)
         \/ BeginApply(a, k) \/ BeginReload(a, k) \/ Rename(a, k) \/ Launch(a, k)
         \/ Restore(a, k) \/ Relaunch(a, k) \/ Undo(a, k) \/ Write(a, k)
         \/ Remark(a, k) \/ Hash(a, k) \/ Mark(a, k)

Request(a) == ApplyRpc(a) \/ StartRpc(a) \/ StopRpc(a) \/ Reload(a)

\* Everything is served and nothing more will be asked.
AllQuiet ==
    /\ requests = MaxRequests /\ booting = {} /\ \A a \in Handlers : h[a].pc = "idle"
    /\ UNCHANGED vars

Next ==
    \/ \E a \in Handlers : Request(a) \/ HandlerStep(a)
    \/ \E c \in alive : Terminate(c) \/ Die(c)
    \/ \E c \in exited : Reap(c)
    \/ \E k \in Cores : RecoverCore(k)
    \/ Crash \/ AllQuiet

Spec == Init /\ [][Next]_vars

\* A goroutine that can run does; a signalled child ends (Kill is the last
\* resort) and is reaped.
Fairness ==
    /\ \A a \in Handlers : WF_vars(HandlerStep(a))
    /\ WF_vars(\E c \in alive : Terminate(c)) /\ WF_vars(\E c \in exited : Reap(c))
    /\ WF_vars(\E k \in Cores : RecoverCore(k))
FairSpec == Spec /\ Fairness

-----------------------------------------------------------------------------
Quiet == booting = {} /\ \A a \in Handlers : h[a].pc = "idle"

\* A core never has two children, and Process.cmd names the one it has, in
\* state running: whatever the interleaving of Start, Stop, Apply, reload and
\* reap, no child is left that the agent lost track of.
OneChild ==
    \A c, d \in alive \cup exited :
        /\ cmd[c.core] = c.id /\ state[c.core] = "running"
        /\ c.core = d.core => c = d

\* A core whose stop was reported (Stop RPC, or an Apply that does not want
\* it) stays down until a request asks for it again, through crashes and
\* reboots (MarkInactive before the deliberate stop).
StoppedStaysOff ==
    Quiet => \A c \in alive : c.core \notin off

\* An Apply answered with an error, when a single thing went wrong, leaves
\* every wanted core running that ran when it arrived (the rollback of
\* Process.Apply); if it is a core's Apply that failed, the cores it had stopped
\* as obsolete run again too ("restore previous cores" in Server.Apply).
SurvivesOneFault ==
    \A a \in Handlers :
        h[a].pc = "reply" /\ h[a].rq = "apply" /\ ~h[a].ok /\ faults <= 1
            => /\ h[a].before \cap Wanted(h[a].want) \subseteq Serving
               /\ h[a].phase = "remark" => h[a].before \subseteq Serving

\* Between requests a reboot would bring back what runs: a core was started from
\* the config now on disk (Apply's "swaps it in and restarts", process.go), and
\* its marker is active and holds the hash of the file, as long as nothing
\* failed (recovery.go).
RebootResumes ==
    Quiet => /\ \A c \in alive : c.cfg = file[c.core]
             /\ faults = 0 => \A k \in Running : ShouldRecover(k)

\* Every request is answered: no handler waits for ever on a child (Stop waits
\* on waitCh) or on another handler.
EveryRequestReturns ==
    \A a \in Handlers : h[a].pc # "idle" ~> h[a].pc = "idle"
=============================================================================

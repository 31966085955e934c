-------------------------------- MODULE Reach --------------------------------
(***************************************************************************)
(* Reachability of one inbound.  Vantage checkers report from the target   *)
(* region; the handler of a report inserts it, computes the consensus over *)
(* the latest recent report of each source, stores it, and rotates the SNI *)
(* when it is "blocked".  The master's monitor probes the port itself when *)
(* there is no recent report, and moves the CDN host.  Each query is a     *)
(* step of its own.                                                        *)
(***************************************************************************)
EXTENDS Naturals, Sequences

CONSTANTS Sources,    \* names of the vantage checkers
          Reporters,  \* concurrent report handlers
          Snis,       \* the SNI pool, a sequence
          Hosts,      \* the CDN pool
          NoHost,
          Latencies,  \* latencies a probe may measure, in ms
          Margin      \* cdn_rotate_margin_pct

Verdicts == {"null", "yes", "no"}
Unmeasured == 1000000      \* a host that does not answer
Measures == [Hosts -> Latencies \union {Unmeasured}]

VARIABLES
  report,     \* the latest recent report of each source
  reachable,  \* the column of the inbound
  sni,        \* server_name
  task,       \* the handlers and the monitor
  host,       \* transport_host
  overtaken   \* the column was last written from an outdated decision

reachVars == <<report, reachable, sni, task, host, overtaken>>

Monitor == "monitor"
Tasks == Reporters \union {Monitor}
IdleTask == [pc |-> "idle", verdict |-> "null", stale |-> FALSE, said |-> "null",
             next |-> Head(Snis)]

Goto(t, pc) == [task EXCEPT ![t].pc = pc]

------------------------------------------------------------------------------
(* report_reachability and record_reachability_report.                     *)

\* The insert outdates every decision taken from the reports before it.
InsertReport(t, s, v) ==
  /\ task[t].pc = "idle"
  /\ report' = [report EXCEPT ![s] = v]
  /\ task' = [u \in Tasks |->
                IF u = t THEN [IdleTask EXCEPT !.pc = "verdict", !.said = v]
                ELSE [task[u] EXCEPT !.stale = (task[u].pc \in {"set", "probe"})]]
  /\ UNCHANGED <<reachable, sni, host, overtaken>>

\* Mutant: the majority of the vantage points decides.
consensus_any ==
  IF \A s \in Sources : report[s] = "null" THEN "null"
  ELSE IF \E s \in Sources : report[s] = "yes" THEN "yes" ELSE "no"

\* "any vantage seeing a block wins"
consensus ==
  IF \A s \in Sources : report[s] = "null" THEN "null"
  ELSE IF \E s \in Sources : report[s] = "no" THEN "no" ELSE "yes"

ReadVerdict(t) ==
  /\ task[t].pc = "verdict"
  /\ task' = [task EXCEPT ![t].pc = "set", ![t].verdict = consensus]
  /\ UNCHANGED <<report, reachable, sni, host, overtaken>>

set_inbound_reachability(t) ==
  /\ task[t].pc = "set"
  /\ reachable' = task[t].verdict
  /\ overtaken' = task[t].stale
  /\ task' = IF t # Monitor /\ task[t].verdict = "no"
             THEN [task EXCEPT ![t].pc = "rotate", ![t].stale = FALSE]
             ELSE [task EXCEPT ![t] = [IdleTask EXCEPT !.pc =
                                         IF t = Monitor THEN "cdn" ELSE "idle"]]
  /\ UNCHANGED <<report, sni, host>>

\* The first entry of the pool that is not the current one.
NextSni ==
  LET others == SelectSeq(Snis, LAMBDA x : x # sni)
  IN  IF others = << >> THEN sni ELSE Head(others)

RotateRead(t) ==
  /\ task[t].pc = "rotate"
  /\ task' = IF NextSni = sni THEN [task EXCEPT ![t] = IdleTask]
             ELSE [task EXCEPT ![t].pc = "rotating", ![t].next = NextSni]
  /\ UNCHANGED <<report, reachable, sni, host, overtaken>>

\* rotate_inbound_sni clears the verdict "so it is re-probed".
rotate_inbound_sni(t) ==
  /\ task[t].pc = "rotating"
  /\ task' = [task EXCEPT ![t] = IdleTask]
  /\ sni' = task[t].next /\ reachable' = "null"
  /\ UNCHANGED <<report, host, overtaken>>

\* The rotate_sni request of an administrator.
rotate_sni ==
  /\ NextSni # sni
  /\ sni' = NextSni /\ reachable' = "null"
  /\ UNCHANGED <<report, task, host, overtaken>>

\* Thirty minutes after it, a report counts no more; the column stays.
ReportExpires(s) ==
  /\ report[s] # "null"
  /\ report' = [report EXCEPT ![s] = "null"]
  /\ UNCHANGED <<reachable, sni, task, host, overtaken>>

------------------------------------------------------------------------------
(* The monitor of the master.                                              *)

has_recent_vantage_report == \E s \in Sources : report[s] # "null"

MonitorChecks ==
  /\ task[Monitor].pc = "idle"
  /\ task' = Goto(Monitor, IF has_recent_vantage_report THEN "cdn" ELSE "probe")
  /\ UNCHANGED <<report, reachable, sni, host, overtaken>>

\* check_one: the port answers or it does not.
MonitorProbes(v) ==
  /\ task[Monitor].pc = "probe"
  /\ task' = [task EXCEPT ![Monitor].pc = "set", ![Monitor].verdict = v]
  /\ UNCHANGED <<report, reachable, sni, host, overtaken>>

\* The probe an administrator asks for overrides the fleet.
probe_inbound(v) ==
  /\ reachable' = v
  /\ overtaken' = has_recent_vantage_report
  /\ UNCHANGED <<report, sni, task, host>>

Fastest(m) == CHOOSE h \in Hosts : \A g \in Hosts : m[h] <= m[g]

\* NoHost: keep the current one.
pick_best_cdn(m) ==
  LET best == Fastest(m)
  IN  IF m[best] = Unmeasured \/ best = host THEN NoHost
      ELSE IF host = NoHost \/ m[host] = Unmeasured THEN best
      ELSE IF m[best] <= (m[host] * (100 - Margin)) \div 100 THEN best ELSE NoHost

\* A host that is picked is written and its node pushed.
cdn_rotate(m) ==
  /\ task[Monitor].pc = "cdn"
  /\ task' = Goto(Monitor, IF pick_best_cdn(m) # NoHost THEN "pushed" ELSE "kept")
  /\ host' = IF pick_best_cdn(m) # NoHost THEN pick_best_cdn(m) ELSE host
  /\ UNCHANGED <<report, reachable, sni, overtaken>>

MonitorSleeps ==
  /\ task[Monitor].pc \in {"pushed", "kept"}
  /\ task' = Goto(Monitor, "idle")
  /\ UNCHANGED <<report, reachable, sni, host, overtaken>>

------------------------------------------------------------------------------
ReachInit ==
  /\ report = [s \in Sources |-> "null"] /\ reachable = "null"
  /\ sni = Head(Snis) /\ task = [t \in Tasks |-> IdleTask]
  /\ host = NoHost /\ overtaken = FALSE

ReachNext ==
  \/ \E t \in Reporters, s \in Sources, v \in {"yes", "no"} : InsertReport(t, s, v)
  \/ \E t \in Reporters : ReadVerdict(t) \/ RotateRead(t) \/ rotate_inbound_sni(t)
  \/ \E t \in Tasks : set_inbound_reachability(t)
  \/ \E s \in Sources : ReportExpires(s)
  \/ \E v \in {"yes", "no"} : MonitorProbes(v) \/ probe_inbound(v)
  \/ MonitorChecks \/ MonitorSleeps \/ rotate_sni
  \/ \E m \in Measures : cdn_rotate(m)

ReachSpec == ReachInit /\ [][ReachNext]_reachVars

------------------------------------------------------------------------------
(* A block that a vantage checker reported keeps the inbound out of the    *)
(* subscriptions: once the handlers are done, the column does not say      *)
(* reachable while a recent report says blocked, unless it was written     *)
(* last from a decision that a report had overtaken, or by a probe that an *)
(* administrator asked for.                                                *)
BlockWins ==
  (\A t \in Tasks : task[t].pc \notin {"verdict", "set"}) /\ ~overtaken
    => ~(reachable = "yes" /\ \E s \in Sources : report[s] = "no")

(* The monitor's own probe writes no verdict over a recent report that it  *)
(* could have seen when it looked.                                         *)
FleetComesFirst ==
  [][task[Monitor].pc = "set" /\ task'[Monitor].pc = "cdn" /\ ~task[Monitor].stale
       => ~\E s \in Sources : report[s] # "null"]_reachVars

(* The margin keeps the CDN host from flapping: a round that measures what *)
(* the round before it measured picks no host and pushes no node.          *)
CdnSettles ==
  [][\A m \in Measures : cdn_rotate(m) => pick_best_cdn(m)' = NoHost]_reachVars

(* report_reachability: "a fresh block auto-rotates the SNI".  A rotation  *)
(* is the answer to a report of a block, never to one that found the       *)
(* inbound reachable.                                                      *)
FreshBlockRotates ==
  [][\A t \in Reporters : task[t].pc = "rotating" /\ task'[t].pc = "idle"
       => task[t].said = "no"]_reachVars
==============================================================================

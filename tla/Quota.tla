-------------------------------- MODULE Quota --------------------------------
(***************************************************************************)
(* A user's traffic limit between two authorities.  The master zeroes the  *)
(* usage of a user with a daily or weekly window when the window is over   *)
(* (quota.rs).  A push tells the agent how many bytes are left, and the    *)
(* agent cuts the user's connections by itself once they are spent, also   *)
(* when the master is away (server.go, localquota.go).                     *)
(*                                                                         *)
(* One user with a limit on one node.  What the master has recorded is any *)
(* number up to the bytes really carried in the window: recording is the   *)
(* subject of module Traffic, which shows that it never exceeds them.      *)
(* Usage at and beyond the limit is all alike.                             *)
(***************************************************************************)
EXTENDS Naturals

CONSTANTS Limit,       \* traffic_limit_bytes
          Length,      \* the length of each interval, in ticks of the clock
          MaxBytes,    \* bound: the agent's counter
          MaxTime      \* bound: the clock

ASSUME LimitAssumption == Limit \in Nat /\ MaxBytes \in Nat

VARIABLES
  now,
  interval, resetAt,   \* users.quota_interval, users.quota_reset_at (0: null)
  used,                \* users.used_traffic_bytes
  loop,                \* the window scheduler: what it is doing, for which interval
  push,                \* a push on its way: the user's part of the specification
  total,               \* UserTotals: the agent's counter
  quota, baseline,     \* quotaBytes, quotaBaseline (quota 0: no entry)
  suppressed,
  online,              \* the user has a connection open
  admitted,            \* the core's config has the user
  carried,             \* history: bytes carried in this window, up to Limit
  old,                 \* history: the agent's quota is from an earlier window
  forgot,              \* history: a restart forgot a quota that was spent
  last, slipped        \* history: the last reset by the loop; since then its date was
                       \* not advanced, or the interval was edited

windowVars == <<interval, resetAt, loop, last, slipped>>
agentVars == <<total, quota, baseline, suppressed, online, admitted, forgot>>
quotaVars == <<now, windowVars, used, push, agentVars, carried, old>>

Intervals == {"none"} \union DOMAIN Length
NoPush == [sent |-> FALSE, active |-> FALSE, left |-> 0, old |-> FALSE]
Waiting == [pc |-> "idle", interval |-> "none"]

------------------------------------------------------------------------------
(* The master.                                                             *)

next_boundary(i) == now + Length[i]

due_quota_resets == interval # "none" /\ resetAt # 0 /\ resetAt <= now

\* Rows and usage go in one transaction; a specification sent before is old.
reset_user_traffic ==
  /\ used' = 0 /\ carried' = 0 /\ old' = TRUE
  /\ push' = [push EXCEPT !.old = push.sent]

ResetByAdmin ==
  /\ reset_user_traffic
  /\ UNCHANGED <<now, windowVars, agentVars>>

set_quota_interval(i) ==
  /\ interval' = i
  /\ resetAt' = IF i = "none" THEN 0 ELSE next_boundary(i)
  /\ slipped' = TRUE
  /\ UNCHANGED <<now, used, loop, last, push, agentVars, carried, old>>

LoopScan ==
  /\ loop.pc = "idle" /\ due_quota_resets
  /\ loop' = [pc |-> "reset", interval |-> interval]
  /\ UNCHANGED <<now, interval, resetAt, last, slipped, used, push, agentVars, carried, old>>

LoopReset ==
  /\ loop.pc = "reset"
  /\ loop' = [loop EXCEPT !.pc = "advance"]
  /\ last' = now /\ slipped' = (interval # loop.interval)
  /\ reset_user_traffic
  /\ UNCHANGED <<now, interval, resetAt, agentVars>>

LoopAdvance ==
  /\ loop.pc = "advance"
  /\ loop' = [loop EXCEPT !.pc = "push"]
  /\ resetAt' = next_boundary(loop.interval)
  /\ UNCHANGED <<now, interval, last, slipped, used, push, agentVars, carried, old>>

\* "quota reset failed" skips the user; the error of the advance is dropped;
\* the process may also stop between the two.
LoopFails ==
  /\ loop.pc \in {"reset", "advance"}
  /\ loop' = Waiting
  /\ slipped' = (slipped \/ loop.pc = "advance")
  /\ UNCHANGED <<now, interval, resetAt, last, used, push, agentVars, carried, old>>

(* build_node_spec for a push of the loop, of the reconcile loop or of an  *)
(* administrator.  The loop pushes connected nodes only, and goes on.      *)
PushBuild ==
  /\ ~push.sent
  /\ push' = [sent |-> TRUE, active |-> used < Limit, left |-> Limit - used, old |-> FALSE]
  /\ loop' = IF loop.pc = "push" THEN Waiting ELSE loop
  /\ UNCHANGED <<now, interval, resetAt, last, slipped, used, agentVars, carried, old>>

LoopSkipsPush ==
  /\ loop.pc = "push"
  /\ loop' = Waiting
  /\ UNCHANGED <<now, interval, resetAt, last, slipped, used, push, agentVars, carried, old>>

PushFails ==
  /\ push.sent /\ push' = NoPush
  /\ UNCHANGED <<now, windowVars, used, agentVars, carried, old>>

\* record_traffic: see module Traffic.
Recorded ==
  /\ used' \in used + 1 .. carried
  /\ UNCHANGED <<now, windowVars, push, agentVars, carried, old>>

Clock ==
  /\ now < MaxTime /\ now' = now + 1
  /\ UNCHANGED <<windowVars, used, push, agentVars, carried, old>>

------------------------------------------------------------------------------
(* The agent.                                                              *)

\* Mutant: the baseline of the previous push stays.
captureQuota_baseline == baseline

captureQuota == total

\* The end of Apply.  A user who is not in the specification is cut by the core.
PushApply ==
  /\ push.sent
  /\ quota' = IF push.active THEN push.left ELSE 0
  /\ baseline' = IF push.active THEN captureQuota ELSE 0
  /\ suppressed' = FALSE
  /\ admitted' = push.active /\ online' = (online /\ push.active)
  /\ forgot' = FALSE
  /\ old' = push.old
  /\ push' = NoPush
  /\ UNCHANGED <<now, windowVars, used, total, carried>>

Connect ==
  /\ admitted /\ ~online /\ online' = TRUE
  /\ UNCHANGED <<now, windowVars, used, push, total, quota, baseline, suppressed,
                 admitted, forgot, carried, old>>

\* A poll of sing-box finds another byte of the user.
Poll ==
  /\ online /\ total < MaxBytes
  /\ total' = total + 1
  /\ carried' = IF carried = Limit THEN Limit ELSE carried + 1
  /\ UNCHANGED <<now, windowVars, used, push, quota, baseline, suppressed, online,
                 admitted, forgot, old>>

Decide == quota # 0 /\ (IF total > baseline THEN total - baseline ELSE 0) >= quota

EnforceQuota ==
  /\ suppressed' = Decide
  /\ online' = (online /\ ~Decide)
  /\ UNCHANGED <<now, windowVars, used, push, total, quota, baseline, admitted,
                 forgot, carried, old>>

\* Connections or CloseConnections fails: the next turn tries again.
EnforceFails ==
  /\ Decide /\ suppressed' = TRUE
  /\ UNCHANGED <<now, windowVars, used, push, total, quota, baseline, online, admitted,
                 forgot, carried, old>>

(* The agent restarts: the core resumes its config and the counter its     *)
(* last saved value; the quota and its baseline are gone.                  *)
AgentForgets ==
  /\ total' \in 0 .. total
  /\ forgot' = (forgot \/ Decide)
  /\ quota' = 0 /\ baseline' = 0 /\ suppressed' = FALSE /\ online' = FALSE
  /\ UNCHANGED <<now, windowVars, used, push, admitted, carried, old>>

------------------------------------------------------------------------------
QuotaInit ==
  /\ now = 1 /\ interval = "none" /\ resetAt = 0 /\ loop = Waiting
  /\ last = 0 /\ slipped = TRUE
  /\ used = 0 /\ push = NoPush /\ carried = 0 /\ old = TRUE
  /\ total = 0 /\ quota = 0 /\ baseline = 0 /\ suppressed = FALSE
  /\ online = FALSE /\ admitted = FALSE /\ forgot = FALSE

QuotaNext ==
  \/ Clock \/ ResetByAdmin \/ Recorded
  \/ \E i \in Intervals : set_quota_interval(i)
  \/ LoopScan \/ LoopReset \/ LoopAdvance \/ LoopFails \/ LoopSkipsPush
  \/ PushBuild \/ PushFails \/ PushApply
  \/ Connect \/ Poll \/ EnforceQuota \/ EnforceFails \/ AgentForgets

\* The accounting loop ticks for ever; sing-box answers it again and again.
QuotaFairness == WF_quotaVars(EnforceQuota)

QuotaSpec == QuotaInit /\ [][QuotaNext]_quotaVars /\ QuotaFairness

------------------------------------------------------------------------------
(* The agent cuts nobody early: a suppressed user has carried the whole    *)
(* limit in this window, however recording, resets and pushes interleave,  *)
(* or the window was reset and no later push has arrived.                  *)
CutMeansSpent == suppressed /\ ~old => carried >= Limit

(* A window is reset once: between two resets by the loop lies the whole   *)
(* interval, unless the date was not advanced in between (an error that is *)
(* dropped, or a crash) or the interval was edited.                        *)
OneResetPerWindow ==
  [][LoopReset /\ ~slipped => now >= last + Length[interval]]_quotaVars

Spent == quota # 0 /\ total >= baseline + quota

(* Between pushes a user who has spent the pushed quota does not stay      *)
(* connected: the agent cuts them, or it restarts and forgets the quota.   *)
SpentIsCut == (online /\ Spent) ~> (~online \/ ~Spent)

(* main.go: "over-quota users are cut even while the master is offline".   *)
(* The same for a quota that the agent had and a restart made it forget.   *)
OfflineCut == (online /\ (Spent \/ forgot)) ~> (~online \/ ~(Spent \/ forgot))
==============================================================================

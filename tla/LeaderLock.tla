----------------------------- MODULE LeaderLock -----------------------------
(***************************************************************************)
(* What the election promises the background loops of the masters          *)
(* (ha.rs: "must run on exactly one instance"): leadership is a lock.  One *)
(* process at a time has it, and nobody gets it from another: it is given  *)
(* up, or lost with the process, before it is taken again.                 *)
(***************************************************************************)
CONSTANT Members

VARIABLE leaders   \* the processes that believe they lead

LockInit == leaders = {}

Take(i) == leaders = {} /\ leaders' = {i}
GiveUp == leaders' = {}

LockNext == GiveUp \/ \E i \in Members : Take(i)

LockSpec == LockInit /\ [][LockNext]_leaders
=============================================================================

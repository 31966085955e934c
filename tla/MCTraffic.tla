------------------------------ MODULE MCTraffic ------------------------------
(***************************************************************************)
(* Two small nodes for TLC.  The first runs sing-box alone and meets a     *)
(* restart of the agent and a broken stream; the second runs sing-box,     *)
(* Xray and Hysteria, and crosses the limit through two streams at once.   *)
(***************************************************************************)
EXTENDS Traffic

CONSTANTS u1, m1

VARIABLE part

ThreeEach == [c \in Cores |-> 3]

\* One byte through sing-box or Hysteria and two through Xray: Xray lists a
\* user only after their first byte, which makes the baseline.
OneAndTwo == [c \in Cores |-> IF c = "xray" THEN 2 ELSE 1]

Both == INSTANCE Traffic WITH
    Active <- {"singbox", "xray"}, Hysteria <- TRUE, MaxBytes <- OneAndTwo,
    MaxQueue <- 1, MaxDrops <- 0, MaxRestarts <- 0

MCInit == \/ part = "restarts" /\ Init
          \/ part = "limits" /\ Both!Init

MCNext == \/ part = "restarts" /\ Next /\ UNCHANGED part
          \/ part = "limits" /\ Both!Next /\ UNCHANGED part

MCSpec == MCInit /\ [][MCNext]_<<vars, part>>
==============================================================================

---------------------------- MODULE MCAgentCores ----------------------------
(* Small agents for TLC: strings name the cores, as in main.go.            *)
EXTENDS AgentCores, TLC

OneCore == {"xray"}
WithHysteria == {"hysteria", "xray"}
RankOf == [k \in Cores |-> CASE k = "hysteria" -> 1 [] k = "singbox" -> 2 [] OTHER -> 3]
Checkable == Cores \ {"hysteria"}
Renewed == Cores \ {"singbox"}

\* One goroutine per RPC in flight, and the renewal goroutine.
RpcAndRenewal == {"rpc", "renewal"}
Anything == [a \in Handlers |-> {"apply", "start", "stop", "reload"}]
ByName == [a \in Handlers |-> IF a = "renewal" THEN {"reload"} ELSE {"apply"}]

Symmetry == Permutations(Handlers) \cup Permutations(Loads)
=============================================================================

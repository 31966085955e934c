----------------------------- MODULE MCRequests -----------------------------
(***************************************************************************)
(* Requests of several steps that meet a fault, a crash or somebody else's *)
(* edit half way, for TLC: one handler of the agent with its cores, the    *)
(* bot's updates, the opening of a subscription link.  The modules share   *)
(* no variable; a behaviour picks one part and runs it.                    *)
(***************************************************************************)
EXTENDS MCAgentCores, Bot, SubLinks

CONSTANT anna

VARIABLE part

\* Commands that create, change, only ask, lack an argument; and no command.
MkOrder(c, gb, days) == [cmd |-> c, gb |-> gb, days |-> days]
MCOrders == {MkOrder("/adduser", 1, NoArg), MkOrder("/setquota", 2, NoArg),
             MkOrder("/setquota", NoArg, NoArg), MkOrder("/disable", NoArg, NoArg),
             MkOrder("read", NoArg, NoArg), MkOrder("none", NoArg, NoArg)}

\* Two aliases that differ in case only.
MCLower == [a \in Aliases |-> anna]

MCInit ==
    /\ Init /\ BotInit /\ SubInit
    /\ part \in {"cores", "bot", "links"}
    /\ part # "bot" => client = NoUser
    /\ part # "links" => Cardinality(created) = 1

MCNext ==
    \/ part = "cores" /\ Next /\ UNCHANGED <<botVars, subVars, part>>
    \/ part = "bot" /\ BotNext /\ UNCHANGED <<vars, subVars, part>>
    \/ part = "links" /\ SubNext /\ UNCHANGED <<vars, botVars, part>>

MCSpec == MCInit /\ [][MCNext]_<<vars, botVars, subVars, part>>

MCSymmetry == Symmetry \cup Permutations(LinkUsers)
=============================================================================

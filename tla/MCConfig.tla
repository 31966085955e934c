------------------------------- MODULE MCConfig -------------------------------
(***************************************************************************)
(* What the administrator configures and a client gets, for TLC: inbounds  *)
(* and what is built from them, the fleet's groups and pushes, chains,     *)
(* configuration documents, reachability.  The modules share no variable;  *)
(* a behaviour picks one part and runs it.                                 *)
(***************************************************************************)
EXTENDS InboundConfig, Fleet, Multihop, ConfigApply, Reach, TLC

CONSTANTS n1, n2, i1, i2, sni1, sni2

VARIABLE part

MCHome == (i1 :> n1) @@ (i2 :> n2)

MCSnis == <<sni1, sni2>>

Entity(n, v, d) == [name |-> n, val |-> v, default |-> d]
Stored(i, n, v, d) == [id |-> i, name |-> n, val |-> v, default |-> d]

\* Documents that add, change, repeat a name or claim the default twice.
MCDocuments ==
    [groups : {<<Entity("x", 1, FALSE)>>},
     profiles : {<<Entity("x", 1, TRUE), Entity("y", 1, FALSE)>>,
                 <<Entity("y", 1, TRUE), Entity("x", 1, TRUE)>>,
                 <<Entity("x", 1, FALSE)>>,
                 <<Entity("x", 1, FALSE), Entity("x", 0, FALSE)>>},
     nodes : {<<Entity("x", 1, FALSE)>>}]
MCStarts ==
    [groups : {{Stored(1, "d", 0, TRUE)},
               {Stored(1, "d", 0, TRUE), Stored(2, "x", 0, FALSE)},
               {Stored(1, "d", 0, TRUE), Stored(2, "x", 1, FALSE), Stored(3, "y", 0, FALSE)}},
     profiles : {{}, {Stored(1, "x", 0, TRUE)}, {Stored(1, "y", 0, TRUE), Stored(2, "x", 0, FALSE)}},
     nodes : {{}, {Stored(1, "x", 0, FALSE), Stored(2, "y", 0, FALSE)}}]

Symmetry == Permutations(Edits)

MCInit ==
    /\ ConfigInit /\ FleetInit /\ HopInit /\ ApplyInit /\ ReachInit
    /\ part \in {"inbound", "fleet", "chains", "document", "reach"}
    \* A part that does not run has one initial state.
    /\ part = "document" \/ rows = CHOOSE r \in Starts : TRUE

MCNext ==
    \/ /\ part = "inbound" /\ ConfigNext
       /\ UNCHANGED <<fleetVars, hopVars, applyVars, reachVars, part>>
    \/ /\ part = "fleet" /\ FleetNext
       /\ UNCHANGED <<row, hopVars, applyVars, reachVars, part>>
    \/ /\ part = "chains" /\ HopNext
       /\ UNCHANGED <<row, fleetVars, applyVars, reachVars, part>>
    \/ /\ part = "document" /\ ApplyNext
       /\ UNCHANGED <<row, fleetVars, hopVars, reachVars, part>>
    \/ /\ part = "reach" /\ ReachNext
       /\ UNCHANGED <<row, fleetVars, hopVars, applyVars, part>>

MCSpec == MCInit /\ [][MCNext]_<<row, fleetVars, hopVars, applyVars, reachVars, part>>
==============================================================================

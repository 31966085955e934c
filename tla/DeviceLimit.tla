---------------------------- MODULE DeviceLimit ----------------------------
(***************************************************************************)
(* The device limit of one user (monitor.rs device_limit_loop).  A device  *)
(* is a source address seen on the live connections of the sing-box cores. *)
(* A pass asks the nodes one after the other, ranks the devices by their   *)
(* earliest connection, and closes the connections of those beyond the     *)
(* limit, node by node, while connections keep opening and closing and the *)
(* user's devices move between nodes.                                      *)
(***************************************************************************)
EXTENDS Naturals, FiniteSets

CONSTANTS
    Nodes,
    Ips,         \* source addresses: the devices
    device_limit,
    MaxConns,    \* bound on the connections opened
    MaxFaults    \* bound on the calls to a node that fail

VARIABLES
    conns,     \* live connections: [id, node, ip, timed]; ids count up in time
    opened,    \* connections opened so far
    pass,      \* [pc, todo, view, close]: the pass of device_tick
    alive,     \* connections that were live at some time of this pass
    missed,    \* a node could not be asked in this pass
    faults

deviceVars == <<conns, opened, pass, alive, missed, faults>>

NoPass == [pc |-> "idle", todo |-> {}, view |-> {}, close |-> {}]
Devices(cs) == {c.ip : c \in cs}

DeviceInit ==
    /\ conns = {}
    /\ opened = 0
    /\ pass = NoPass
    /\ alive = {}
    /\ missed = FALSE
    /\ faults = 0

\* The core may not report when a connection started.
Open(n, ip, timed) ==
    LET c == [id |-> opened + 1, node |-> n, ip |-> ip, timed |-> timed] IN
    /\ opened < MaxConns
    /\ opened' = opened + 1
    /\ conns' = conns \cup {c}
    /\ alive' = IF pass.pc = "idle" THEN {} ELSE alive \cup {c}
    /\ UNCHANGED <<pass, missed, faults>>

Leave(c) ==
    /\ conns' = conns \ {c}
    /\ UNCHANGED <<opened, pass, alive, missed, faults>>

\* The user has a limit and is enabled, enforcement is on, this master leads.
device_tick ==
    /\ pass.pc = "idle" /\ conns # {}
    /\ pass' = [NoPass EXCEPT !.pc = "gather", !.todo = Nodes]
    /\ alive' = conns
    /\ missed' = FALSE
    /\ UNCHANGED <<conns, opened, faults>>

\* One node's snapshot.
Connections(n) ==
    /\ pass.pc = "gather"
    /\ pass' = [pass EXCEPT !.todo = @ \ {n}, !.view = @ \cup {c \in conns : c.node = n}]
    /\ UNCHANGED <<conns, opened, alive, missed, faults>>

\* A node that does not answer is left out of the count.
ConnectionsFail(n) ==
    /\ pass.pc = "gather" /\ faults < MaxFaults
    /\ faults' = faults + 1
    /\ missed' = TRUE
    /\ pass' = [pass EXCEPT !.todo = @ \ {n}]
    /\ UNCHANGED <<conns, opened, alive>>

Started(c) == IF c.timed THEN c.id ELSE MaxConns + 1

\* The earliest start among the device's connections, over all nodes.
ip_first(view, ip) ==
    LET starts == {Started(c) : c \in {d \in view : d.ip = ip}}
    IN CHOOSE s \in starts : \A t \in starts : s <= t

\* Mutant: one device too many is kept.
Kept_one_more(view) ==
    {S \in SUBSET Devices(view) :
        /\ Cardinality(S) = device_limit + 1
        /\ \A k \in S, ip \in Devices(view) \ S : ip_first(view, k) <= ip_first(view, ip)}

\* The ranking keeps the oldest devices; untimed ones come in any order.
Kept(view) ==
    {S \in SUBSET Devices(view) :
        /\ Cardinality(S) = device_limit
        /\ \A k \in S, ip \in Devices(view) \ S : ip_first(view, k) <= ip_first(view, ip)}

Rank ==
    /\ pass.pc = "gather" /\ pass.todo = {}
    /\ IF Cardinality(Devices(pass.view)) <= device_limit
       THEN pass' = NoPass /\ alive' = {}
       ELSE /\ \E S \in Kept(pass.view) :
                 LET cut == {c \in pass.view : c.ip \notin S}
                 IN pass' = [pass EXCEPT !.pc = "close", !.todo = {c.node : c \in cut}, !.close = cut]
            /\ UNCHANGED alive
    /\ UNCHANGED <<conns, opened, missed, faults>>

\* One node closes the connections it is told of; an id that is gone by then
\* is counted out.
CloseConnections(n) ==
    /\ pass.pc = "close"
    /\ conns' = conns \ {c \in pass.close : c.node = n}
    /\ pass' = [pass EXCEPT !.todo = @ \ {n}]
    /\ UNCHANGED <<opened, alive, missed, faults>>

CloseFails(n) ==
    /\ pass.pc = "close" /\ faults < MaxFaults
    /\ faults' = faults + 1
    /\ pass' = [pass EXCEPT !.todo = @ \ {n}]
    /\ UNCHANGED <<conns, opened, alive, missed>>

PassEnds ==
    /\ pass.pc = "close" /\ pass.todo = {}
    /\ pass' = NoPass
    /\ alive' = {}
    /\ UNCHANGED <<conns, opened, missed, faults>>

PassStep ==
    \/ device_tick \/ Rank \/ PassEnds
    \/ \E n \in pass.todo : Connections(n) \/ CloseConnections(n)

DeviceNext ==
    \/ \E n \in Nodes, ip \in Ips, timed \in BOOLEAN : Open(n, ip, timed)
    \/ \E c \in conns : Leave(c)
    \/ \E n \in pass.todo : ConnectionsFail(n) \/ CloseFails(n)
    \/ PassStep

\* The loop runs at every interval on the leading master.
DeviceSpec == DeviceInit /\ [][DeviceNext]_deviceVars /\ WF_deviceVars(PassStep)

\* Once the user opens no more connections, at most device_limit devices stay
\* connected: what a pass missed (a node that did not answer, a close that
\* failed, a device that came in behind the snapshot) a later pass cuts.
LimitIsReached ==
    <>[](Cardinality(Devices(conns)) <= device_limit)

\* A pass that reached every node cuts a device only when as many others as the
\* limit allows were connected before it: of the connections that were live
\* during the pass, the oldest ones of `device_limit` other devices are all
\* older than the oldest one of the device that is cut, on whatever node.
\* Connections without a start are ranked last and are left out here.
CutsTheNewest ==
    [][\A c \in conns :
        /\ ~missed /\ pass.pc = "close" /\ c \notin conns' /\ c \in pass.close
        /\ \A d \in alive : d.timed
        => \E S \in SUBSET (Devices(alive) \ {c.ip}) :
              /\ Cardinality(S) = device_limit
              /\ \A ip \in S : \E d \in alive :
                    d.ip = ip /\ \A e \in pass.close : e.ip = c.ip => d.id < e.id]_deviceVars
=============================================================================

------------------------------ MODULE Services ------------------------------
(***************************************************************************)
(* The managed external services of one node (mtg, caddy).  The master     *)
(* keeps a row per service and pushes the enabled ones with the node's     *)
(* spec; the agent writes a config per service and restarts its daemon,    *)
(* found again through a pid file (agent svc.go).  A daemon that is sent   *)
(* SIGTERM takes its time to exit, and keeps its port until then; one that *)
(* cannot bind exits at once.  Losing, retrying and overlapping pushes are *)
(* the subject of NodePush.                                                *)
(***************************************************************************)
EXTENDS Naturals, Sequences, FiniteSets, SequencesExt

CONSTANTS
    Svcs,         \* service rows (numbers), in the order they are created
    Tags,         \* kind and name, as ifName reduces them
    SvcPorts,
    Settings,     \* what a row says besides
    MaxSvcEdits,  \* bound on the edits of rows
    MaxExecFails, \* bound on the daemons that cannot be started
    MaxAgentStops \* bound on the restarts of the agent

VARIABLES
    svcRow,     \* service -> [is, tag, port, set]; is: "none", "on", "off", "gone"
    svcApplied, \* the spec the node's applied_spec_hash stands for
    svcRun,     \* the Apply in progress: [pc, spec, todo]
    daemon,     \* pid -> [svc, tag, port, set, life]; life: "up", "dying", "down"
    pidfile,    \* tag -> pid, 0 without a file
    lost,       \* history: tags whose pid was never written
    unserved,     \* history: services whose last start failed, or whose daemon
                \* or Apply went down with the agent
    svcEdits, execFails, agentStops

svcCounters == <<svcEdits, execFails, agentStops>>
svcVars == <<svcRow, svcApplied, svcRun, daemon, pidfile, lost, unserved, svcCounters>>
hostVars == <<daemon, pidfile, lost, unserved>>

Resting == [pc |-> "idle", spec |-> <<>>, todo |-> <<>>]

ServicesInit ==
    /\ svcRow = [s \in Svcs |-> [is |-> "none", tag |-> CHOOSE t \in Tags : TRUE,
                                 port |-> CHOOSE p \in SvcPorts : TRUE,
                                 set |-> CHOOSE c \in Settings : TRUE]]
    /\ svcApplied = <<>>
    /\ svcRun = Resting
    /\ daemon = <<>>
    /\ pidfile = [t \in Tags |-> 0]
    /\ lost = {} /\ unserved = {}
    /\ svcEdits = 0 /\ execFails = 0 /\ agentStops = 0

-----------------------------------------------------------------------------
(* The master.                                                             *)

get_node_service(s) == svcRow[s].is \in {"on", "off"}

\* UNIQUE (node_id, listen_port)
PortFree(s, port) == \A o \in Svcs \ {s} : get_node_service(o) => svcRow[o].port # port

create_node_service(s, tag, port) ==
    /\ PortFree(s, port)
    /\ svcRow' = [svcRow EXCEPT ![s].is = "on", ![s].tag = tag, ![s].port = port]

update_node_service(s, r) ==
    /\ PortFree(s, r.port)
    /\ svcRow' = [svcRow EXCEPT ![s] = r]

delete_node_service(s) == svcRow' = [svcRow EXCEPT ![s].is = "gone"]

SvcEdit ==
    /\ svcEdits < MaxSvcEdits /\ svcEdits' = svcEdits + 1
    /\ UNCHANGED <<svcApplied, svcRun, hostVars, execFails, agentStops>>

create_service(s, tag, port) ==
    /\ SvcEdit
    /\ svcRow[s].is = "none" /\ \A o \in Svcs : o < s => svcRow[o].is # "none"
    /\ create_node_service(s, tag, port)

update_service(s, r) ==
    /\ SvcEdit
    /\ get_node_service(s) /\ r # svcRow[s]
    /\ update_node_service(s, r)

delete_service(s) ==
    /\ SvcEdit
    /\ get_node_service(s)
    /\ delete_node_service(s)

enabled_node_services ==
    LET enabled == SetToSortSeq({s \in Svcs : svcRow[s].is = "on"}, <)
    IN [k \in DOMAIN enabled |->
            [svc |-> enabled[k], tag |-> svcRow[enabled[k]].tag,
             port |-> svcRow[enabled[k]].port, set |-> svcRow[enabled[k]].set]]

\* Mutant: two specs with the same services count as the same.
ServicesUnchanged_by_name(spec) ==
    {spec[k].tag : k \in DOMAIN spec} = {svcApplied[k].tag : k \in DOMAIN svcApplied}

\* The hash of the spec against the node's applied_spec_hash.
ServicesUnchanged(spec) == spec = svcApplied

\* A push that has something to do, up to svc.Apply.
PushServices ==
    LET spec == enabled_node_services
    IN /\ svcRun.pc = "idle"
       /\ ~ServicesUnchanged(spec)
       /\ svcRun' = [pc |-> "kill", spec |-> spec, todo |-> spec]
       /\ UNCHANGED <<svcRow, svcApplied, hostVars, svcCounters>>

-----------------------------------------------------------------------------
(* The agent: svc.Apply visits the services of the spec and no others, and *)
(* its errors are logged.                                                  *)

Current == Head(svcRun.todo)
PortHeld(port) == \E p \in DOMAIN daemon : daemon[p].life # "down" /\ daemon[p].port = port
NextService(run) == [run EXCEPT !.pc = "kill", !.todo = Tail(@)]

\* supervise sends SIGTERM to the pid of the file and does not wait.
SuperviseKill ==
    LET pid == pidfile[Current.tag]
    IN /\ svcRun.pc = "kill" /\ svcRun.todo # <<>>
       /\ daemon' = IF pid # 0 /\ daemon[pid].life = "up"
                    THEN [daemon EXCEPT ![pid].life = "dying"] ELSE daemon
       /\ svcRun' = [svcRun EXCEPT !.pc = "start"]
       /\ UNCHANGED <<svcRow, svcApplied, pidfile, lost, unserved, svcCounters>>

\* The daemon with the config that was written for it.
Launched(e) ==
    [svc |-> e.svc, tag |-> e.tag, port |-> e.port, set |-> e.set,
     life |-> IF PortHeld(e.port) THEN "down" ELSE "up"]

SuperviseStart ==
    /\ svcRun.pc = "start"
    /\ daemon' = Append(daemon, Launched(Current))
    /\ unserved' = IF PortHeld(Current.port) THEN unserved \cup {Current.svc} ELSE unserved \ {Current.svc}
    /\ svcRun' = [svcRun EXCEPT !.pc = "pid"]
    /\ UNCHANGED <<svcRow, svcApplied, pidfile, lost, svcCounters>>

\* No binary, no permission: the service is skipped.
StartFails ==
    /\ svcRun.pc = "start"
    /\ execFails < MaxExecFails /\ execFails' = execFails + 1
    /\ unserved' = unserved \cup {Current.svc}
    /\ svcRun' = NextService(svcRun)
    /\ UNCHANGED <<svcRow, svcApplied, daemon, pidfile, lost, svcEdits, agentStops>>

WritePid ==
    /\ svcRun.pc = "pid"
    /\ pidfile' = [pidfile EXCEPT ![Current.tag] = Len(daemon)]
    /\ svcRun' = NextService(svcRun)
    /\ UNCHANGED <<svcRow, svcApplied, daemon, lost, unserved, svcCounters>>

\* The cores took the spec as well; the master records its hash.
ServicesDone ==
    /\ svcRun.pc = "kill" /\ svcRun.todo = <<>>
    /\ svcApplied' = svcRun.spec
    /\ svcRun' = Resting
    /\ UNCHANGED <<svcRow, hostVars, svcCounters>>

DaemonExits(p) ==
    /\ daemon[p].life = "dying"
    /\ daemon' = [daemon EXCEPT ![p].life = "down"]
    /\ UNCHANGED <<svcRow, svcApplied, svcRun, pidfile, lost, unserved, svcCounters>>

\* The agent restarts; under systemd its daemons go with it, and nothing starts
\* them again before the next push that changes the spec.
AgentStops ==
    /\ agentStops < MaxAgentStops /\ agentStops' = agentStops + 1
    /\ svcRun' = Resting
    /\ lost' = IF svcRun.pc = "pid" THEN lost \cup {Current.tag} ELSE lost
    /\ \E all \in BOOLEAN :
         LET down == IF all THEN {p \in DOMAIN daemon : daemon[p].life = "up"} ELSE {}
             cut == {svcRun.spec[k].svc : k \in DOMAIN svcRun.spec}
         IN /\ daemon' = [p \in DOMAIN daemon |->
                            IF all THEN [daemon[p] EXCEPT !.life = "down"] ELSE daemon[p]]
            /\ unserved' = unserved \cup cut \cup {daemon[p].svc : p \in down}
    /\ UNCHANGED <<svcRow, svcApplied, pidfile, svcEdits, execFails>>

ServiceStep ==
    \/ PushServices \/ SuperviseKill \/ SuperviseStart \/ WritePid \/ ServicesDone
    \/ \E p \in DOMAIN daemon : DaemonExits(p)

ServicesNext ==
    \/ \E s \in Svcs, t \in Tags, p \in SvcPorts : create_service(s, t, p)
    \/ \E s \in Svcs, on \in {"on", "off"}, t \in Tags, p \in SvcPorts, c \in Settings :
         update_service(s, [is |-> on, tag |-> t, port |-> p, set |-> c])
    \/ \E s \in Svcs : delete_service(s)
    \/ StartFails \/ AgentStops
    \/ ServiceStep

\* The reconcile loop pushes until the spec is recorded; a signalled daemon exits.
ServicesSpec == ServicesInit /\ [][ServicesNext]_svcVars /\ WF_svcVars(ServiceStep)

-----------------------------------------------------------------------------
Runs(s) ==
    \E p \in DOMAIN daemon :
        /\ daemon[p].life = "up" /\ daemon[p].svc = s
        /\ <<daemon[p].tag, daemon[p].port, daemon[p].set>>
             = <<svcRow[s].tag, svcRow[s].port, svcRow[s].set>>

Alone(s) == \A o \in Svcs \ {s} : svcRow[o].is = "on" => svcRow[o].tag # svcRow[s].tag

\* No two daemons run under one name, however often a service is reconfigured
\* and moved between ports: supervise kills the one of the pid file, unless
\* the agent stopped between the start of a daemon and the write of its pid.
OneDaemonPerTag ==
    \A p, q \in DOMAIN daemon :
        p # q /\ daemon[p].life = "up" /\ daemon[q].life = "up" /\ daemon[p].tag = daemon[q].tag
            => daemon[p].tag \in lost

\* Once the rows stop changing, each enabled service with a name of its own
\* runs with the port and settings of its row, unless its last start failed
\* (its port was still held, by its predecessor or by the daemon of a service
\* that was renamed, disabled or deleted) or the agent took its daemon, or the
\* push that was to restart it, down: svc.Apply is not called again for a
\* spec that is recorded as applied, nor for one the rows have returned to.
\* No daemon of an earlier configuration runs beside it.
ServicesFollowRows ==
    <>[][FALSE]_svcRow =>
        <>[](/\ OneDaemonPerTag
             /\ \A s \in Svcs : svcRow[s].is = "on" /\ Alone(s) => s \in unserved \/ Runs(s))

\* svc.go: supervise tracks "its PID in a file so a re-apply replaces the old
\* process".  Without failures and restarts, a service whose row has settled
\* ends up running with the settings of the row.
ReplacedRuns ==
    <>[][FALSE]_svcRow => <>[](\A s \in Svcs : svcRow[s].is = "on" /\ Alone(s) => Runs(s))
=============================================================================

------------------------------ MODULE NodeLink ------------------------------
(***************************************************************************)
(* The control channel between the master and one agent: who opens it, the *)
(* certificate check, the registry entry, and how a dead channel is found  *)
(* and replaced.  In "serve" mode the master dials the agent               *)
(* (Registry::connect_serve, called by every reconcile tick and by API     *)
(* handlers when the node is not connected); in "dial" mode the agent      *)
(* dials the master (transport.Dial, tunnel::handle); "both" does both.    *)
(* The registry keeps one client per node id.  An operation clones that    *)
(* client, releases the lock, and after an error removes the entry of the  *)
(* NODE, which by then may be another client.                              *)
(***************************************************************************)
EXTENDS Naturals, FiniteSets

CONSTANTS Conns,       \* connections that can exist at once
          Ops,         \* RPCs in flight at once
          Heartbeat,   \* the one of Ops that is the reconcile loop's ping
          Certs,       \* certificates the agent may serve with
          NoConn,      \* not a member of Conns
          MaxLinkFaults    \* bound: network cuts and agent restarts

ASSUME NoConnAssumption == NoConn \notin Conns

VARIABLES mode,        \* nodes.transport
          cert,        \* node_certificates: "none" (not listed), "valid", "revoked", "expired"
          agentCert,   \* what the running agent presents
          conn,        \* [st, cert, dialed]; st "none" | "shook" | "authorized" | "open" | "dead"
          reg,         \* Registry.conns[node]
          op,          \* per RPC: [conn, evicts]; evicts: its error removes the entry
          revoking,    \* a revoke_certificate between its row and its remove
          late,        \* connections authorized before, registered after a revocation
          linkFaults

linkVars == <<mode, cert, agentCert, conn, reg, op, revoking, late, linkFaults>>

NoOp == [conn |-> NoConn, evicts |-> FALSE]
Free(c) == conn[c].st = "none"
Up(c) == conn[c].st \in {"shook", "authorized", "open"}
Held(c) == reg = c \/ \E o \in Ops : op[o].conn = c

LinkInit ==
    /\ mode \in {"serve", "dial", "both"}
    /\ cert = [k \in Certs |-> "none"]
    /\ agentCert \in Certs
    /\ conn = [c \in Conns |-> [st |-> "none", cert |-> agentCert, dialed |-> FALSE]]
    /\ reg = NoConn
    /\ op = [o \in Ops |-> NoOp]
    /\ revoking = FALSE /\ late = {} /\ linkFaults = 0

-----------------------------------------------------------------------------
(* Opening a channel. *)

\* AgentClient::connect inside connect_serve; the callers check is_connected.
connect_serve(c) ==
    /\ mode # "dial" /\ reg = NoConn /\ Free(c)
    /\ conn' = [conn EXCEPT ![c] = [st |-> "shook", cert |-> agentCert, dialed |-> FALSE]]
    /\ UNCHANGED <<mode, cert, agentCert, reg, op, revoking, late, linkFaults>>

\* Dial.Run keeps one tunnel: it dials again once the last one has closed.
\* tunnel::handle has read the peer's fingerprint and asked for its id.
DialIn(c) ==
    /\ mode # "serve" /\ Free(c)
    /\ \A d \in Conns : ~(Up(d) /\ conn[d].dialed)
    /\ conn' = [conn EXCEPT ![c] = [st |-> "shook", cert |-> agentCert, dialed |-> TRUE]]
    /\ UNCHANGED <<mode, cert, agentCert, reg, op, revoking, late, linkFaults>>

\* repo::authorize_node_certificate: without an inventory every certificate of
\* the CA passes; with one, only a listed, unrevoked, current one.
authorize_node_certificate(k) ==
    (\E j \in Certs : cert[j] # "none") => cert[k] = "valid"

authorize_certificate(c) ==
    /\ conn[c].st = "shook"
    /\ conn' = [conn EXCEPT ![c].st =
                  IF authorize_node_certificate(conn[c].cert) THEN "authorized" ELSE "dead"]
    /\ UNCHANGED <<mode, cert, agentCert, reg, op, revoking, late, linkFaults>>

\* whoru, the id check and touch_node passed: the entry is written, over
\* whatever is there.
register(c) ==
    /\ conn[c].st = "authorized"
    /\ conn' = [conn EXCEPT ![c].st = "open"]
    /\ reg' = c
    /\ UNCHANGED <<mode, cert, agentCert, op, revoking, late, linkFaults>>

\* A client nobody holds is dropped, which closes its socket; a dead one is
\* forgotten.
DropClient(c) ==
    /\ conn[c].st \in {"open", "dead"} /\ ~Held(c)
    /\ conn' = [conn EXCEPT ![c].st = "none"]
    /\ late' = late \ {c}
    /\ UNCHANGED <<mode, cert, agentCert, reg, op, revoking, linkFaults>>

-----------------------------------------------------------------------------
(* Using it. *)

\* client_of: heartbeat, metrics, logs, drift, ... evict on error; the stats
\* stream and the later benchmark legs do not.
client_of(o, evicts) ==
    /\ reg # NoConn /\ op[o] = NoOp
    /\ o = Heartbeat => evicts
    /\ op' = [op EXCEPT ![o] = [conn |-> reg, evicts |-> evicts]]
    /\ UNCHANGED <<mode, cert, agentCert, conn, reg, revoking, late, linkFaults>>

\* Mutant: the error is returned and the entry stays.
RpcEndsKeeps(o) ==
    /\ op[o] # NoOp
    /\ op' = [op EXCEPT ![o] = NoOp]
    /\ UNCHANGED <<mode, cert, agentCert, conn, reg, revoking, late, linkFaults>>

\* The answer, or the error of a dead channel and Registry::remove(node_id).
RpcEnds(o) ==
    /\ op[o] # NoOp
    /\ op' = [op EXCEPT ![o] = NoOp]
    /\ reg' = IF op[o].evicts /\ ~Up(op[o].conn) THEN NoConn ELSE reg
    /\ UNCHANGED <<mode, cert, agentCert, conn, revoking, late, linkFaults>>

-----------------------------------------------------------------------------
(* The inventory and the faults. *)

Enroll(k) ==
    /\ cert[k] = "none"
    /\ cert' = [cert EXCEPT ![k] = "valid"]
    /\ UNCHANGED <<mode, agentCert, conn, reg, op, revoking, late, linkFaults>>

CertExpires(k) ==
    /\ cert[k] = "valid"
    /\ cert' = [cert EXCEPT ![k] = "expired"]
    /\ UNCHANGED <<mode, agentCert, conn, reg, op, revoking, late, linkFaults>>

\* revoke_certificate: the row first, the registry entry after the await.
revoke_node_certificate(k) ==
    /\ ~revoking /\ cert[k] \in {"valid", "expired"}
    /\ cert' = [cert EXCEPT ![k] = "revoked"]
    /\ revoking' = TRUE
    /\ UNCHANGED <<mode, agentCert, conn, reg, op, late, linkFaults>>

\* Mutant: the channel in use is left in place.
RevokeLeavesChannel ==
    /\ revoking
    /\ revoking' = FALSE
    /\ late' = late \cup {c \in Conns : conn[c].st = "authorized" /\ cert[conn[c].cert] = "revoked"}
    /\ UNCHANGED <<mode, cert, agentCert, conn, reg, op, linkFaults>>

RevokeRemoves ==
    /\ revoking
    /\ revoking' = FALSE
    /\ reg' = NoConn
    /\ late' = late \cup {c \in Conns : conn[c].st = "authorized" /\ cert[conn[c].cert] = "revoked"}
    /\ UNCHANGED <<mode, cert, agentCert, conn, op, linkFaults>>

Cut(c) ==
    /\ Up(c) /\ linkFaults < MaxLinkFaults
    /\ conn' = [conn EXCEPT ![c].st = "dead"]
    /\ linkFaults' = linkFaults + 1
    /\ UNCHANGED <<mode, cert, agentCert, reg, op, revoking, late>>

\* The agent restarts, possibly with another certificate on disk.
AgentRestart(k) ==
    /\ linkFaults < MaxLinkFaults
    /\ agentCert' = k
    /\ conn' = [c \in Conns |-> IF Up(c) THEN [conn[c] EXCEPT !.st = "dead"] ELSE conn[c]]
    /\ linkFaults' = linkFaults + 1
    /\ UNCHANGED <<mode, cert, reg, op, revoking, late>>

LinkNext ==
    \/ \E c \in Conns : \/ connect_serve(c) \/ DialIn(c) \/ authorize_certificate(c)
                        \/ register(c) \/ DropClient(c) \/ Cut(c)
    \/ \E o \in Ops : (\E evicts \in BOOLEAN : client_of(o, evicts)) \/ RpcEnds(o)
    \/ \E k \in Certs : Enroll(k) \/ CertExpires(k) \/ revoke_node_certificate(k) \/ AgentRestart(k)
    \/ RevokeRemoves

\* The reconcile loop sleeps and ticks for ever, so a missing channel is dialed
\* and a present one pinged again and again; Dial.Run redials for ever; an RPC
\* ends (its channel answers or errors); spawned handlers run to their end.
LinkFairness ==
    /\ \A c \in Conns : /\ WF_linkVars(connect_serve(c)) /\ WF_linkVars(DialIn(c))
                        /\ WF_linkVars(authorize_certificate(c)) /\ WF_linkVars(register(c))
                        /\ WF_linkVars(DropClient(c))
    /\ WF_linkVars(client_of(Heartbeat, TRUE))
    /\ \A o \in Ops : WF_linkVars(RpcEnds(o))
    /\ WF_linkVars(RevokeRemoves)

LinkSpec == LinkInit /\ [][LinkNext]_linkVars /\ LinkFairness

-----------------------------------------------------------------------------
(* "Existing channels are not grandfathered" (api::revoke_certificate): a   *)
(* registered channel was opened with a certificate that is not revoked,    *)
(* except a channel whose certificate check was already over when the row   *)
(* was revoked and whose register came after the remove.                    *)
RevokedIsEvicted ==
    (reg # NoConn /\ ~revoking /\ cert[conn[reg].cert] = "revoked") => reg \in late

(* Once the faults are over and the agent's certificate is acceptable, the *)
(* registry comes to hold a live channel and keeps it: a dead entry is     *)
(* found by the next ping and replaced, and an error that came late from   *)
(* an earlier channel evicts the new one at most once.                     *)
LinkRecovers ==
    (<>[](authorize_node_certificate(agentCert) /\ ~revoking)) => <>[](reg # NoConn /\ Up(reg))
=============================================================================

-------------------------------- MODULE MCNode --------------------------------
(***************************************************************************)
(* One node and its master, for TLC: the connection between them, quotas,  *)
(* the device limit, WireGuard interfaces and the helper daemons.  The     *)
(* modules share no variable; a behaviour picks one part and runs it, and  *)
(* the fairness of a part is asked of the behaviours that run it.          *)
(***************************************************************************)
EXTENDS NodeLink, Quota, DeviceLimit, WireGuard, Services

VARIABLE part

MCLength == [daily |-> 1, weekly |-> 2]

\* Two interfaces with address pools of different size.
MCPort == <<1, 2>>
MCPrefix == <<1, 2>>

MCInit ==
    /\ LinkInit /\ QuotaInit /\ DeviceInit /\ WgInit /\ ServicesInit
    /\ part \in {"link", "quota", "devices", "wireguard", "services"}
    \* The certificates are alike.  A part that does not run has one initial state.
    /\ agentCert = CHOOSE k \in Certs : TRUE
    /\ part = "link" \/ mode = "serve"

MCNext ==
    \/ /\ part = "link" /\ LinkNext
       /\ UNCHANGED <<quotaVars, deviceVars, wgVars, svcVars, part>>
    \/ /\ part = "quota" /\ QuotaNext
       /\ UNCHANGED <<linkVars, deviceVars, wgVars, svcVars, part>>
    \/ /\ part = "devices" /\ DeviceNext
       /\ UNCHANGED <<linkVars, quotaVars, wgVars, svcVars, part>>
    \/ /\ part = "wireguard" /\ WgNext
       /\ UNCHANGED <<linkVars, quotaVars, deviceVars, svcVars, part>>
    \/ /\ part = "services" /\ ServicesNext
       /\ UNCHANGED <<linkVars, quotaVars, deviceVars, wgVars, part>>

\* LinkFairness of the behaviours that run the connection.
Linked(A) == part = "link" /\ A

MCSpec ==
    /\ MCInit /\ [][MCNext]_<<linkVars, quotaVars, deviceVars, wgVars, svcVars, part>>
    /\ \A c \in Conns :
        /\ WF_linkVars(Linked(connect_serve(c))) /\ WF_linkVars(Linked(DialIn(c)))
        /\ WF_linkVars(Linked(authorize_certificate(c))) /\ WF_linkVars(Linked(register(c)))
        /\ WF_linkVars(Linked(DropClient(c)))
    /\ WF_linkVars(Linked(client_of(Heartbeat, TRUE)))
    /\ \A o \in Ops : WF_linkVars(Linked(RpcEnds(o)))
    /\ WF_linkVars(Linked(RevokeRemoves))
    /\ WF_quotaVars(part = "quota" /\ EnforceQuota)
    /\ WF_deviceVars(part = "devices" /\ PassStep)
    /\ WF_wgVars(part = "wireguard" /\ BuildStep)
    /\ WF_svcVars(part = "services" /\ ServiceStep)

\* LinkRecovers for the behaviours that run the connection: a node whose agent
\* may connect, and whose certificate is not being revoked, comes to have a live
\* channel in the registry and keeps it.
ConnectionRecovers == part = "link" => LinkRecovers

\* Once the rows stop changing, the node comes to run what they say: wg.Apply
\* serves the peers of PeersFollowRows, svc.Apply the daemons of
\* ServicesFollowRows.
RowsAreFollowed == PeersFollowRows /\ ServicesFollowRows
==============================================================================

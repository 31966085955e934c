------------------------------- MODULE MCAgent -------------------------------
(***************************************************************************)
(* What the agent does at once, for TLC: handlers that apply, start, stop  *)
(* and reload the same core, and the certificates of Xray with their       *)
(* renewal.  The modules share no variable; a behaviour picks one part and *)
(* runs it, and the fairness of a part is asked of the behaviours that run *)
(* it.                                                                     *)
(***************************************************************************)
EXTENDS AgentCores, XrayAcme

VARIABLE part

OneCore == {"xray"}
RankOf == [k \in Cores |-> 1]
Anything == [a \in Handlers |-> {"apply", "start", "stop", "reload"}]

MCInit ==
    /\ Init /\ AcmeInit
    /\ part \in {"cores", "acme"}

MCNext ==
    \/ part = "cores" /\ Next /\ UNCHANGED <<acmeVars, part>>
    \/ part = "acme" /\ AcmeNext /\ UNCHANGED <<vars, part>>

\* Fairness and AcmeFairness of the part that runs.
OfCores(A) == part = "cores" /\ A
OfAcme(A) == part = "acme" /\ A

MCSpec ==
    /\ MCInit /\ [][MCNext]_<<vars, acmeVars, part>>
    /\ \A a \in Handlers : WF_vars(OfCores(HandlerStep(a)))
    /\ WF_vars(OfCores(\E c \in alive : Terminate(c)))
    /\ WF_vars(OfCores(\E c \in exited : Reap(c)))
    /\ WF_vars(OfCores(\E k \in Cores : RecoverCore(k)))
    /\ WF_acmeVars(OfAcme(RenewTick))
    /\ \A t \in Threads : WF_acmeVars(OfAcme(ThreadStep(t)))
    /\ SF_acmeVars(OfAcme(Register("renew"))) /\ SF_acmeVars(OfAcme(issueHTTP01("renew")))
==============================================================================

----------------------------- MODULE MCServices ------------------------------
(***************************************************************************)
(* The services that run beside the indexer and must make progress: the RPC *)
(* pool, webhook delivery, the runway worker, and the process's own start   *)
(* and shutdown.  They share no state, so a behaviour follows one of them,  *)
(* named by `focus`, and the others stay as they are: the state space is    *)
(* the sum of theirs, and fairness is asked of the service in focus.        *)
(***************************************************************************)
EXTENDS RpcPool, Webhooks, RunwayWorker, Lifecycle

VARIABLE focus

Services == {"rpc", "webhooks", "runway", "lifecycle"}

ServicesInit ==
  /\ focus \in Services
  /\ RpcInit /\ WebhookInit /\ RunwayInit /\ LcInit

ServicesNext ==
  /\ UNCHANGED focus
  /\ \/ /\ focus = "rpc" /\ RpcNext
        /\ UNCHANGED <<webhookVars, runwayVars, lcVars>>
     \/ /\ focus = "webhooks" /\ WebhookNext
        /\ UNCHANGED <<rpcVars, runwayVars, lcVars>>
     \/ /\ focus = "runway" /\ RunwayNext
        /\ UNCHANGED <<rpcVars, webhookVars, lcVars>>
     \/ /\ focus = "lifecycle" /\ LcNext
        /\ UNCHANGED <<rpcVars, webhookVars, runwayVars>>

(* The fairness of each service's own specification, asked while it is in focus. *)
ServicesFairness ==
  /\ WF_rpcVars(focus = "rpc" /\ Tick) /\ WF_rpcVars(focus = "rpc" /\ ProbeRound)
  /\ \A e \in Endpoints : WF_rpcVars(focus = "rpc" /\ ProbeEnds(e))
  /\ \A e \in Events : WF_webhookVars(focus = "webhooks" /\ Progress(e))
  /\ \A k \in Checks : /\ WF_runwayVars(focus = "runway" /\ StartCheck(k))
                       /\ WF_runwayVars(focus = "runway" /\ CheckProgress(k))
  /\ \A sig \in Signals :
       WF_lcVars(focus = "lifecycle" /\ (WaitForDrain(sig) \/ DrainOrTimeout(sig)
                                          \/ DisconnectRedis(sig) \/ Exit(sig)))

ServicesSpec ==
  ServicesInit
  /\ [][ServicesNext]_<<focus, rpcVars, webhookVars, runwayVars, lcVars>>
  /\ ServicesFairness

-----------------------------------------------------------------------------
(* Every service keeps the types its code gives its state, among them the    *)
(* counts, buffers and timers of bounded size.                               *)
ServicesTypeOK == RpcTypeOK /\ WebhookTypeOK /\ RunwayTypeOK /\ LcTypeOK

(* What a service owes comes about: an endpoint that is back is used again,  *)
(* a delivery ends, a stream about to run dry is announced, and a shutdown   *)
(* terminates the process.                                                   *)
ServicesProgress ==
  RpcRecovers /\ WebhookDeliveryEnds /\ RunwayCriticalAnnounced /\ LcShutdownEnds
=============================================================================

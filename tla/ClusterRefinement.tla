-------------------------- MODULE ClusterRefinement --------------------------
(***************************************************************************)
(* RayCluster implements ClusterContract, where the cluster owns what      *)
(* exists and the operator has not lost sight of: for all of its resources *)
(* as long as the cached object is never behind the stored one, and for    *)
(* everything but the workers however far it is behind.                    *)
(***************************************************************************)
EXTENDS RayCluster

\* Teardown has begun when the cache shows the deletion and no reconcile that
\* read an older version is still running.
Phase ==
    IF Stored.life = "gone" THEN "gone"
    ELSE IF Cached.life # "live" /\ inst.life # "live" THEN "teardown"
    ELSE "serving"

\* Everything but the workers' VMs and the TLS secret, which the autoscaler
\* writes and not the operator.
HeadResources == {HeadNode, "svc"} \cup (Aux \ {"tls"})

Contract ==
    INSTANCE ClusterContract
        WITH Resources <- HeadResources \cup Workers,
             phase     <- Phase,
             owned     <- (HeadOwned \cup {w \in Workers : Live(w)}) \ lost

HeadContract ==
    INSTANCE ClusterContract
        WITH Resources <- HeadResources, phase <- Phase, owned <- HeadOwned \ lost

\* Every step of the controller, of its environment and of a failing call is a
\* step of the contract or changes nothing that the contract speaks of: VMs,
\* service, secrets and account are created only while the cluster is served,
\* and the object goes only after all of them, except for those that the
\* operator lost sight of: it did not find them in a cache to delete them, or
\* the status that records a worker was never stored.
ContractHolds == Contract!Spec

\* The same for what belongs to the head node and the cluster as a whole, when
\* reconciles read older versions of the object.  What a Delete call did not
\* find in its cache is the only exception.
HeadContractHolds == HeadContract!Spec
=============================================================================

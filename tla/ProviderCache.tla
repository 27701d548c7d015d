--------------------------- MODULE ProviderCache ---------------------------
(***************************************************************************)
(* The VM provider (pkg/provider/vmop) acting on worker VMs and on the     *)
(* cloud-init secret they share, when its reads come from informer caches: *)
(* mgr.GetClient() answers every Get from a cache that may not yet show    *)
(* what the same client created or deleted a moment ago.                   *)
(*                                                                         *)
(* RayCluster has caches that do not show something new yet.  Here a cache *)
(* may show any older version, also of what is gone; in return a turn of   *)
(* the worker loop is one action whose status is stored at once.           *)
(***************************************************************************)
EXTENDS StatusPatch, Naturals, Sequences

CONSTANTS
    Workers,      \* worker names
    MaxEdits,     \* bound: changes of the desired workers
    MaxOutages,   \* bound: VMs that lose their address or are deleted by hand
    MaxVersions   \* bound: versions of a VM that are told apart

ASSUME ProviderAssumption ==
    {MaxEdits, MaxOutages, MaxVersions} \subseteq Nat /\ MaxVersions > 1

VARIABLES
    phase,     \* how far the VMRayCluster object is on its way to deletion
    desired,   \* Spec.AutoscalerDesiredWorkers
    status,    \* Status.CurrentWorkers
    vms,       \* every worker's VirtualMachine, from the cached to the stored version
    secret,    \* the workers' cloud-init secret exists
    secretSeen,\* ... and the cache shows it
    edits,     \* changes of desired so far
    outages    \* outages so far

vars == <<phase, desired, status, vms, secret, secretSeen, edits, outages>>

VmState == {"absent", "booting", "up", "terminating"}
Running == [vm |-> RUNNING, ray |-> RAY_RUNNING]

Phases == {"live", "deleting", "delWorkers", "gone"}

\* A failing call of the delete path ends the reconcile; the next one begins
\* with the secrets again.
RestartDelete == IF phase = "delWorkers" THEN "deleting" ELSE phase

Tracked == TrackedIn(status)

\* The VirtualMachine of w as the cache shows it, and as the API server has it.
Seen(w) == vms[w][1]
Vm(w)   == vms[w][Len(vms[w])]

\* A new version of it.  At the bound the cache falls behind further: it will not
\* show the oldest of the versions that are still to come.
NextVersions(vs, s) ==
    IF Len(vs) < MaxVersions THEN Append(vs, s)
    ELSE [i \in 1..Len(vs) |-> IF i = 1 THEN vs[1] ELSE IF i < Len(vs) THEN vs[i + 1] ELSE s]

WriteVm(w, s) == vms' = [vms EXCEPT ![w] = NextVersions(@, s)]

Init ==
    /\ phase = "live"
    /\ desired \in SUBSET Workers
    /\ status = [w \in Workers |-> Untracked]
    /\ vms = [w \in Workers |-> <<"absent">>]
    /\ secret = FALSE /\ secretSeen = FALSE
    /\ edits = 0 /\ outages = 0

Node(w) == AsNode(status[w])

\* reconcileDesiredWorkers stores the status whether or not there was an error.
Answer(w, ans) == status' = [status EXCEPT ![w] = ProcessNodeVmState(Node(w), ans).status]

-----------------------------------------------------------------------------
(* Deploy, FetchVmStatus and Delete.                                       *)

\* CreateCloudInitSecret reads the secret from the cache and creates it when
\* it sees none; the AlreadyExists error of that Create is returned as it is,
\* and ProcessNodeVmState takes it for an existing VM.
Deploy(w) ==
    /\ Node(w).vm = EMPTY
    /\ IF secret /\ ~secretSeen
       THEN Answer(w, "exists") /\ UNCHANGED <<vms, secret>>
       ELSE /\ secret' = TRUE
            /\ IF Vm(w) = "absent"
               THEN WriteVm(w, "booting") /\ Answer(w, "created")
               ELSE Answer(w, "exists") /\ UNCHANGED vms

\* FetchVmStatus answers from the cache.
FetchAnswers(w) ==
    CASE Seen(w) = "absent"  -> {"notFound"}
      [] Seen(w) = "booting" -> {"noIp"}
      [] Seen(w) = "up"      -> {"ip"}
      [] OTHER               -> {"ip", "noIp"}

FetchVmStatus(w) ==
    /\ Node(w).vm # EMPTY
    /\ \E ans \in FetchAnswers(w) : Answer(w, ans)
    /\ UNCHANGED <<vms, secret>>

\* A turn of reconcileDesiredWorkers.
ReconcileWorker(w) ==
    /\ phase = "live" /\ w \in desired
    /\ Deploy(w) \/ FetchVmStatus(w)
    /\ UNCHANGED <<phase, desired, secretSeen, edits, outages>>

\* Deleting a VM twice makes no new version.
Terminate(w) ==
    IF Vm(w) = "terminating" THEN UNCHANGED vms ELSE WriteVm(w, "terminating")

\* Mutant: a VM that does not exist makes Delete fail.
DeleteNotFoundFails(w) ==
    IF Seen(w) = "absent" \/ Vm(w) = "absent"
    THEN phase' = RestartDelete /\ UNCHANGED <<vms, status>>
    ELSE /\ Terminate(w)
         /\ status' = [status EXCEPT ![w] = Untracked]
         /\ UNCHANGED phase

\* provider.Delete: a VM the cache does not show counts as deleted; a VM that
\* only the cache still shows makes the Delete call fail, and the next
\* reconcile starts over.
Delete(w) ==
    IF Seen(w) # "absent" /\ Vm(w) = "absent"
    THEN phase' = RestartDelete /\ UNCHANGED <<vms, status>>
    ELSE /\ IF Seen(w) = "absent" THEN UNCHANGED vms ELSE Terminate(w)
         /\ status' = [status EXCEPT ![w] = Untracked]
         /\ UNCHANGED phase

\* A turn of deleteNodes, for workers that are not desired or for all.
DeleteWorker(w) ==
    /\ w \in Tracked
    /\ phase = "delWorkers" \/ (phase = "live" /\ w \notin desired)
    /\ Delete(w)
    /\ UNCHANGED <<desired, secret, secretSeen, edits, outages>>

\* deleteSecret for the workers' secret: one the cache does not show counts as
\* deleted; one that only the cache still shows makes the Delete call fail.
DeleteSecret ==
    /\ phase = "deleting"
    /\ secretSeen => secret
    /\ secret' = (secret /\ ~secretSeen)
    /\ phase' = "delWorkers"
    /\ UNCHANGED <<desired, status, vms, secretSeen, edits, outages>>

\* With no worker left in the status the finalizer is removed.
RemoveFinalizer ==
    /\ phase = "delWorkers" /\ Tracked = {}
    /\ phase' = "gone"
    /\ UNCHANGED <<desired, status, vms, secret, secretSeen, edits, outages>>

-----------------------------------------------------------------------------
(* The caches, the autoscaler, users and the VM operator (external).       *)

\* The watch delivers the next version of w's VM.
SyncVm(w) ==
    /\ Len(vms[w]) > 1
    /\ vms' = [vms EXCEPT ![w] = Tail(@)]
    /\ UNCHANGED <<phase, desired, status, secret, secretSeen, edits, outages>>

SyncSecret ==
    /\ secretSeen # secret
    /\ secretSeen' = secret
    /\ UNCHANGED <<phase, desired, status, vms, secret, edits, outages>>

AutoscalerPatch ==
    /\ phase = "live" /\ edits < MaxEdits
    /\ desired' \in SUBSET Workers \ {desired}
    /\ edits' = edits + 1
    /\ UNCHANGED <<phase, status, vms, secret, secretSeen, outages>>

UserDelete ==
    /\ phase = "live"
    /\ phase' = "deleting"
    /\ UNCHANGED <<desired, status, vms, secret, secretSeen, edits, outages>>

VmStep(w, from, to) ==
    /\ Vm(w) \in from
    /\ WriteVm(w, to)
    /\ UNCHANGED <<phase, desired, status, secret, secretSeen, edits>>

VmBoot(w) == VmStep(w, {"booting"}, "up") /\ UNCHANGED outages
VmGone(w) == VmStep(w, {"terminating"}, "absent") /\ UNCHANGED outages

VmOutage(w) ==
    /\ outages < MaxOutages
    /\ VmStep(w, {"up"}, "booting") \/ VmStep(w, {"booting", "up"}, "terminating")
    /\ outages' = outages + 1

Next ==
    \/ \E w \in Workers : \/ ReconcileWorker(w) \/ DeleteWorker(w) \/ SyncVm(w)
                          \/ VmBoot(w) \/ VmGone(w) \/ VmOutage(w)
    \/ DeleteSecret \/ RemoveFinalizer \/ SyncSecret \/ AutoscalerPatch \/ UserDelete

Spec == Init /\ [][Next]_vars

\* Every reconcile visits every worker, caches catch up and the VM operator
\* does its work.
Fairness ==
    /\ \A w \in Workers : /\ WF_vars(ReconcileWorker(w)) /\ WF_vars(DeleteWorker(w))
                          /\ WF_vars(SyncVm(w)) /\ WF_vars(VmBoot(w)) /\ WF_vars(VmGone(w))
    /\ WF_vars(DeleteSecret) /\ WF_vars(RemoveFinalizer) /\ WF_vars(SyncSecret)

FairSpec == Spec /\ Fairness

-----------------------------------------------------------------------------
(* Properties.                                                             *)

\* Statuses, objects and their cached images keep their types through Deploy,
\* FetchVmStatus and Delete.
TypeOK ==
    /\ phase \in Phases
    /\ desired \subseteq Workers
    /\ status \in [Workers -> WorkerStatus]
    /\ vms \in [Workers -> Seq(VmState) \ {<<>>}]
    /\ secret \in BOOLEAN /\ secretSeen \in BOOLEAN
    /\ edits \in 0..MaxEdits /\ outages \in 0..MaxOutages

\* ProcessNodeVmState recovers from whatever a stale read made it believe, an
\* AlreadyExists error of the secret taken for an existing VM included: once
\* edits and outages cease every desired worker runs.
DesiredWorkersHeal ==
    <>[](phase = "live" => \A w \in desired : Vm(w) = "up" /\ status[w] = Running)

\* VMRayClusterDelete gets through although stale reads make single Delete
\* calls fail.
StaleDeletionCompletes == phase = "deleting" ~> phase = "gone"
=============================================================================

---------------------------- MODULE RayCluster ----------------------------
(***************************************************************************)
(* The VMRayCluster controller (internal/controller) reconciling one       *)
(* cluster, together with the parts of Kubernetes it talks to: the API     *)
(* server that stores the VMRayCluster object, the informer caches that    *)
(* every Get is answered from, and the VM operator that boots and removes  *)
(* virtual machines.  A reconcile is a sequence of steps, one per group of *)
(* calls to the API server; users, the autoscaler, the VM operator and the *)
(* informers act between any two of them.                                  *)
(*                                                                         *)
(* The object may be read in an older version (hist), and a VM, service,   *)
(* secret or account that was just created may be missing from its cache   *)
(* (unseen).  A cache that is late with the status of a VM or service is a *)
(* late VM operator; one that still shows what is gone makes a call fail,  *)
(* which is a fault here and the subject of ProviderCache.                 *)
(*                                                                         *)
(* Names that controller-runtime or the API server own are marked          *)
(* external; everything else is translated from the repository.            *)
(***************************************************************************)
EXTENDS StatusPatch, Naturals, Sequences, FiniteSets

CONSTANTS
    Workers,      \* worker names the autoscaler may ask for
    BadWorkers,   \* those among them whose node type the spec may leave out
    HeadNode,     \* the head node: GetHeadNodeName(cluster, nounce)
    MaxLag,       \* how many versions of the object the cache may be behind
    Late,         \* the resources that their caches may be late to show
    MaxEdits,     \* bound: changes of the desired workers
    MaxFaults     \* bound: crashes, failed calls, missing dependencies, outages

ASSUME ConstantsAssumption ==
    /\ BadWorkers \subseteq Workers
    /\ HeadNode \notin Workers
    /\ {MaxLag, MaxEdits, MaxFaults} \subseteq Nat

VARIABLES
    hist,     \* versions of the VMRayCluster from the cached to the stored one
    vms,      \* the VirtualMachine object of every node
    svc,      \* the VirtualMachineService of the head node
    aux,      \* the secrets, and the service account with its role
    unseen,   \* those among VMs, service, secrets and account not in a cache yet
    lost,     \* what the operator lost sight of (history)
    pc,       \* the step the reconcile in progress has reached
    inst,     \* re.CurrentClusterState
    orig,     \* re.OriginalClusterState
    todo,     \* workers the running loop has yet to visit
    current,  \* inst's resourceVersion is still the stored one
    locked,   \* this reconcile wrote metadata: its patch has a resourceVersion
    budget    \* what is left of the bounds

stores  == <<hist, vms, svc, aux, unseen, lost>>
recVars == <<pc, inst, orig, todo, current, locked>>
vars    == <<hist, vms, svc, aux, unseen, lost,
             pc, inst, orig, todo, current, locked, budget>>

-----------------------------------------------------------------------------
(* State.                                                                  *)

Nodes == Workers \cup {HeadNode}

\* The VMRayCluster object: deletion timestamp, finalizer, the desired workers
\* of its spec, the workers whose node type the spec does not have, the head and
\* worker statuses.  ClusterState, Conditions and VMServiceStatus are written and
\* never read by the controller.
VMRayCluster ==
    [life : {"live", "deleting", "gone"}, fin : BOOLEAN, desired : SUBSET Workers,
     unknown : SUBSET BadWorkers, head : VMRayNodeStatus, workers : [Workers -> WorkerStatus]]

\* The object as its user submits it, and the mark of one that is gone.
Submitted(d, b) ==
    [life |-> "live", fin |-> FALSE, desired |-> d, unknown |-> b,
     head |-> NewNode, workers |-> [w \in Workers |-> Untracked]]

Gone == [Submitted({}, {}) EXCEPT !.life = "gone"]

Stored == hist[Len(hist)]
Cached == hist[1]

Tracked(cr) == {w \in Workers : cr.workers[w] # Untracked}

\* A VirtualMachine is "booting" until it has an IP, then "up"; once deleted
\* it is "terminating" until the VM operator's finalizer lets it go.
VmState  == {"absent", "booting", "up", "terminating"}
Live(n)  == vms[n] \in {"booting", "up"}
SvcState == {"absent", "pending", "ready"}

\* Auxiliary resources in the order DeleteAuxiliaryResources removes them:
\* five secrets, then the role binding, the role and the service account.
Secrets == <<"ssh", "wsecret", "rootca", "tls", "hsecret">>
Account == {"binding", "role", "sa"}
Aux     == {Secrets[i] : i \in 1..Len(Secrets)} \cup Account

\* Nodes, the service and the auxiliary resources are different resources.
ASSUME NamesAssumption ==
    /\ Nodes \cap ({"svc"} \cup Aux) = {}
    /\ Late \subseteq Nodes \cup {"svc"} \cup Aux

\* What exists outside the object, and what a Get finds of it.
Existing ==
    {n \in Nodes : vms[n] # "absent"} \cup {s \in {"svc"} : svc # "absent"} \cup aux

Shown(r) == r \in Existing \ unseen

Steps == {"idle", "finalizer", "rootca", "validate", "head", "prune", "workers",
          "patch", "delSecrets", "delSa", "delHead", "delWorkers", "unfinalize"}

-----------------------------------------------------------------------------
(* The API server and the informer cache (external).                       *)

\* A write that changes nothing makes no new version.  Without lag the cache
\* sees every version at once.
Write(new) ==
    IF new = Stored THEN UNCHANGED hist
    ELSE IF MaxLag = 0 THEN hist' = <<new>>
    ELSE Len(hist) <= MaxLag /\ hist' = Append(hist, new)

\* The patch made of inst and orig, applied to the object as it is stored.
PatchedWorkers(cr) == MergeWorkers(orig.workers, inst.workers, cr.workers)

Patched(cr) == [cr EXCEPT !.head = Merge(orig.head, inst.head, cr.head),
                          !.workers = PatchedWorkers(cr)]

\* The informer delivers the next version.
Sync ==
    /\ Len(hist) > 1
    /\ hist' = Tail(hist)
    /\ UNCHANGED <<vms, svc, aux, unseen, lost, recVars, budget>>

\* What has just come into being may not be in its cache yet.
CachesLag == unseen' = (unseen \cap Existing') \cup (Late \cap (Existing' \ Existing))

\* The informer of r's kind delivers it.
Show(r) ==
    /\ r \in unseen
    /\ unseen' = unseen \ {r}
    /\ UNCHANGED <<hist, vms, svc, aux, lost, recVars, budget>>

\* Delete calls for the resources in D: the operator loses sight of those that
\* their Get does not find, until it calls Delete for them again.
Overlook(D) == lost' = (lost \ D) \cup (D \cap unseen)

\* The reconcile ends before its status is stored: the operator loses sight of
\* the workers that only this status records.
Forget == lost' = lost \cup {w \in Tracked(inst) \ Tracked(Stored) : Live(w)}

-----------------------------------------------------------------------------
(* Reconcile.                                                              *)

Init ==
    /\ \E d \in SUBSET Workers, b \in {{}, BadWorkers} : hist = <<Submitted(d, b)>>
    /\ vms = [n \in Nodes |-> "absent"]
    /\ svc = "absent"
    /\ aux = {}
    /\ unseen = {} /\ lost = {}
    /\ pc = "idle"
    /\ inst = Gone /\ orig = Gone
    /\ todo = {}
    /\ current = FALSE /\ locked = FALSE
    /\ budget = [edits |-> MaxEdits, faults |-> MaxFaults]

Spend(kind) == budget[kind] > 0 /\ budget' = [budget EXCEPT ![kind] = @ - 1]

Goto(step) == pc' = step /\ UNCHANGED <<orig, current, locked>>

\* The reconcile returns; its local state is dropped.
Return ==
    /\ pc' = "idle"
    /\ inst' = Gone /\ orig' = Gone
    /\ todo' = {}
    /\ current' = FALSE /\ locked' = FALSE

\* Mutant: the root CA secret is created before the deletion timestamp is read.
ReconcileRootCaFirst ==
    /\ pc = "idle"
    /\ Cached.life # "gone"
    /\ inst' = Cached /\ orig' = Cached
    /\ pc' = IF Cached.life = "live" THEN "finalizer" ELSE "delSecrets"
    /\ aux' = aux \cup {"rootca"}
    /\ current' = (Len(hist) = 1)
    /\ UNCHANGED <<hist, vms, svc, unseen, lost, todo, locked, budget>>

\* A reconcile may start whenever the previous one has returned: the object
\* changed, a requeue came due or an error is retried.
Reconcile ==
    /\ pc = "idle"
    /\ Cached.life # "gone"
    /\ inst' = Cached /\ orig' = Cached
    /\ pc' = IF Cached.life = "live" THEN "finalizer" ELSE "delSecrets"
    /\ current' = (Len(hist) = 1)
    /\ UNCHANGED <<stores, todo, locked, budget>>

\* Mutant: the error of the Update that adds the finalizer is ignored.
AddFinalizerIgnoresConflict ==
    /\ pc = "finalizer"
    /\ IF inst.fin \/ ~current THEN UNCHANGED hist ELSE Write([Stored EXCEPT !.fin = TRUE])
    /\ Goto("rootca")
    /\ UNCHANGED <<vms, svc, aux, unseen, lost, inst, todo, budget>>

\* Update is refused unless inst has the stored resourceVersion.
AddFinalizerAndNounce ==
    /\ pc = "finalizer"
    /\ \/ /\ inst.fin
          /\ Goto("rootca")
          /\ UNCHANGED <<hist, inst, todo, budget>>
       \/ /\ ~inst.fin /\ current
          /\ Write([Stored EXCEPT !.fin = TRUE])
          /\ inst' = [inst EXCEPT !.fin = TRUE]
          /\ pc' = "rootca"
          /\ locked' = TRUE
          /\ UNCHANGED <<orig, todo, current, budget>>
       \/ /\ ~inst.fin /\ ~current
          /\ Return
          /\ UNCHANGED <<hist, budget>>
       \/ ~inst.fin /\ Spend("faults") /\ Return /\ UNCHANGED hist
    /\ UNCHANGED <<vms, svc, aux, unseen, lost>>

\* A secret that the cache does not show is created again, which fails.
CreateVMRayClusterRootSecret ==
    /\ pc = "rootca"
    /\ \/ /\ "rootca" \notin unseen
          /\ aux' = aux \cup {"rootca"}
          /\ Goto("validate")
          /\ UNCHANGED <<inst, todo, budget>>
       \/ "rootca" \in unseen /\ Return /\ UNCHANGED <<aux, budget>>
       \/ Spend("faults") /\ Return /\ UNCHANGED aux
    /\ UNCHANGED <<hist, vms, svc, lost>>
    /\ CachesLag

\* A VM image, storage class or VM class is missing, or cannot be read: the
\* status is written and nothing else is done.
ValidateAuxiliaryDependencies ==
    /\ pc = "validate"
    /\ \/ Goto("head") /\ UNCHANGED budget
       \/ Spend("faults") /\ Goto("patch")
    /\ UNCHANGED <<stores, inst, todo>>

\* What follows ProcessNodeVmState for the head: an error, or a ray process
\* that is not running, skips the workers.
AfterHead(out) ==
    /\ inst' = [inst EXCEPT !.head = out.status]
    /\ IF out.err \/ out.status.ray # RAY_RUNNING
       THEN Goto("patch") /\ todo' = {}
       ELSE Goto("prune") /\ todo' = Tracked(inst) \ inst.desired

\* DeployVmService up to the point where it returns an IP.  A service that the
\* cache does not show is created again, which fails.
DeployVmService ==
    /\ pc = "head" /\ inst.head.vm = EMPTY
    /\ \/ /\ svc = "absent"
          /\ svc' = "pending"
          /\ AfterHead(ProcessNodeVmState(inst.head, "noService"))
          /\ UNCHANGED budget
       \/ /\ svc = "pending" \/ "svc" \in unseen
          /\ AfterHead(ProcessNodeVmState(inst.head, "serviceError"))
          /\ UNCHANGED <<svc, budget>>
       \/ /\ Spend("faults")          \* Get fails: the error is swallowed
          /\ AfterHead(ProcessNodeVmState(inst.head, "noService"))
          /\ UNCHANGED svc
       \/ /\ Spend("faults")          \* Create fails, or its answer is lost
          /\ svc = "absent"
          /\ svc' \in {"absent", "pending"}
          /\ AfterHead(ProcessNodeVmState(inst.head, "serviceError"))
    /\ UNCHANGED <<hist, vms, aux, lost>>
    /\ CachesLag

\* Creating the VirtualMachine, and what the Create call answers.
CreateVm(n)     == vms' = [vms EXCEPT ![n] = IF @ = "absent" THEN "booting" ELSE @]
CreateAnswer(n) == IF vms[n] = "absent" THEN "created" ELSE "exists"

\* What the calls that Deploy makes for the head create.
CreateServiceAccountAndRole == Account
GetOrCreatePrivateKeySecret == {"ssh"}
CreateCloudInitConfigSecret == {"hsecret"}

AccountAndKey == CreateServiceAccountAndRole \cup GetOrCreatePrivateKeySecret
HeadAux       == AccountAndKey \cup CreateCloudInitConfigSecret

\* How far Deploy gets before it meets something that the cache does not show
\* and tries to create it again.
HeadAuxPrefixes == {{}, {"sa"}, {"sa", "role"}, Account, AccountAndKey, HeadAux}
HeadAuxReached  == UNION {made \in HeadAuxPrefixes : made \cap unseen = {}}

\* Deploy for the head: service account, role, binding, ssh key, cloud-init
\* secret, VM.  An AlreadyExists answer for any of them is taken for an existing
\* VM.  A failing call leaves what was created before it; what a call that
\* timed out was to create may exist all the same.
DeployHead ==
    /\ pc = "head" /\ inst.head.vm = EMPTY /\ svc = "ready" /\ Shown("svc")
    /\ \/ /\ HeadAuxReached = HeadAux
          /\ aux' = aux \cup HeadAux
          /\ CreateVm(HeadNode)
          /\ AfterHead(ProcessNodeVmState(inst.head, CreateAnswer(HeadNode)))
          /\ UNCHANGED budget
       \/ /\ HeadAuxReached # HeadAux
          /\ aux' = aux \cup HeadAuxReached
          /\ AfterHead(ProcessNodeVmState(inst.head, "exists"))
          /\ UNCHANGED <<vms, budget>>
       \/ /\ Spend("faults")
          /\ \/ /\ \E made \in HeadAuxPrefixes :
                      made \subseteq HeadAuxReached /\ aux' = aux \cup made
                /\ UNCHANGED vms
             \/ /\ HeadAuxReached = HeadAux
                /\ aux' = aux \cup HeadAux /\ CreateVm(HeadNode)
          /\ AfterHead(ProcessNodeVmState(inst.head, "deployError"))
    /\ UNCHANGED <<hist, svc, lost>>
    /\ CachesLag

\* What FetchVmStatus can answer without a fault.  A VM that is being removed
\* may or may not still report its address.
FetchAnswers(n) ==
    CASE ~Shown(n)          -> {"notFound"}
      [] vms[n] = "booting" -> {"noIp"}
      [] vms[n] = "up"      -> {"ip"}
      [] OTHER              -> {"ip", "noIp"}

FetchHead ==
    /\ pc = "head" /\ inst.head.vm # EMPTY
    /\ \/ /\ \E ans \in FetchAnswers(HeadNode) : AfterHead(ProcessNodeVmState(inst.head, ans))
          /\ UNCHANGED budget
       \/ Spend("faults") /\ AfterHead(ProcessNodeVmState(inst.head, "fetchError"))
    /\ UNCHANGED stores

\* provider.Delete for a worker: a VM that the cache does not show counts as
\* deleted, whether or not it exists.
DeleteVm(n) == vms' = [vms EXCEPT ![n] = IF Shown(n) THEN "terminating" ELSE @]

\* Mutant: the entry is dropped from the status, the VM is not deleted.
DeleteNodeKeepsVm(w) ==
    /\ inst' = [inst EXCEPT !.workers[w] = Untracked]
    /\ todo' = todo \ {w}
    /\ UNCHANGED <<vms, lost, pc, budget>>

\* Mutant: a VM that does not exist makes provider.Delete fail.
DeleteNodeNotFoundFails(w) ==
    IF vms[w] = "absent"
    THEN pc' = "patch" /\ todo' = {} /\ UNCHANGED <<vms, lost, inst, budget>>
    ELSE /\ DeleteVm(w) /\ Overlook({w})
         /\ inst' = [inst EXCEPT !.workers[w] = Untracked]
         /\ todo' = todo \ {w}
         /\ UNCHANGED <<pc, budget>>

\* One turn of the loop in deleteNodes; its error ends the loop.
DeleteNode(w) ==
    \/ /\ DeleteVm(w) /\ Overlook({w})
       /\ inst' = [inst EXCEPT !.workers[w] = Untracked]
       /\ todo' = todo \ {w}
       /\ UNCHANGED <<pc, budget>>
    \/ /\ Spend("faults")
       /\ \/ DeleteVm(w)              \* deleted, but the answer is lost
          \/ UNCHANGED vms
       /\ todo' = {}
       /\ pc' = "patch"
       /\ UNCHANGED <<lost, inst>>

DeleteUndesiredWorker ==
    /\ pc = "prune"
    /\ \/ \E w \in todo : DeleteNode(w)
       \/ /\ todo = {}
          /\ pc' = "workers"
          /\ todo' = inst.desired
          /\ UNCHANGED <<vms, lost, inst, budget>>
    /\ UNCHANGED <<hist, svc, aux, unseen, orig, current, locked>>

\* Mutant: the error is checked before the status is reassigned.
AfterWorkerDropsStatus(w, out) ==
    IF out.err THEN Goto("patch") /\ todo' = {} /\ UNCHANGED inst
    ELSE /\ Goto("workers")
         /\ todo' = todo \ {w}
         /\ inst' = [inst EXCEPT !.workers[w] = out.status]

\* What follows ProcessNodeVmState for worker w: its status is stored before
\* the error is looked at, and an error ends the loop.
AfterWorker(w, out) ==
    /\ inst' = [inst EXCEPT !.workers[w] = out.status]
    /\ IF out.err THEN Goto("patch") /\ todo' = {}
                  ELSE Goto("workers") /\ todo' = todo \ {w}

WorkerNode(w) == AsNode(inst.workers[w])

\* CreateCloudInitSecret for a worker needs the cluster's ssh key and, until
\* the secret that all workers share exists, a token of the service account
\* and the root CA.
ReadPrivateKeyForCluster    == Shown("ssh")
FetchServiceAccountToken    == "sa" \in aux
ReadCaCrtAndCaKeyFromSecret == Shown("rootca")

WorkerSecretReady ==
    /\ ReadPrivateKeyForCluster
    /\ Shown("wsecret") \/ (FetchServiceAccountToken /\ ReadCaCrtAndCaKeyFromSecret)

\* Deploy for a worker: the shared cloud-init secret, then the VM; an unknown
\* node type fails in between.  A secret that the cache does not show is created
\* again, and the AlreadyExists answer is taken for an existing VM.
DeployWorker(w) ==
    /\ WorkerNode(w).vm = EMPTY
    /\ \/ /\ WorkerSecretReady /\ "wsecret" \notin unseen /\ w \notin inst.unknown
          /\ aux' = aux \cup {"wsecret"}
          /\ CreateVm(w)
          /\ AfterWorker(w, ProcessNodeVmState(WorkerNode(w), CreateAnswer(w)))
          /\ UNCHANGED budget
       \/ /\ WorkerSecretReady /\ "wsecret" \in unseen
          /\ AfterWorker(w, ProcessNodeVmState(WorkerNode(w), "exists"))
          /\ UNCHANGED <<vms, aux, budget>>
       \/ /\ ~WorkerSecretReady \/ (w \in inst.unknown /\ "wsecret" \notin unseen)
          /\ aux' = IF WorkerSecretReady THEN aux \cup {"wsecret"} ELSE aux
          /\ AfterWorker(w, ProcessNodeVmState(WorkerNode(w), "deployError"))
          /\ UNCHANGED <<vms, budget>>
       \/ /\ Spend("faults") /\ WorkerSecretReady
          /\ \/ aux' \in {aux, aux \cup {"wsecret"}} /\ UNCHANGED vms
             \/ /\ w \notin inst.unknown /\ "wsecret" \notin unseen
                /\ aux' = aux \cup {"wsecret"} /\ CreateVm(w)
          /\ AfterWorker(w, ProcessNodeVmState(WorkerNode(w), "deployError"))

FetchWorker(w) ==
    /\ WorkerNode(w).vm # EMPTY
    /\ \/ /\ \E ans \in FetchAnswers(w) :
                AfterWorker(w, ProcessNodeVmState(WorkerNode(w), ans))
          /\ UNCHANGED budget
       \/ /\ Spend("faults")
          /\ AfterWorker(w, ProcessNodeVmState(WorkerNode(w), "fetchError"))
    /\ UNCHANGED <<vms, aux>>

\* One turn of the loop in reconcileDesiredWorkers; a Go map has no order.  A
\* worker that the operator had lost sight of is known again.
ReconcileDesiredWorker ==
    /\ pc = "workers"
    /\ \/ \E w \in todo : (DeployWorker(w) \/ FetchWorker(w)) /\ lost' = lost \ {w}
       \/ todo = {} /\ Goto("patch") /\ UNCHANGED <<vms, aux, lost, inst, todo, budget>>
    /\ UNCHANGED <<hist, svc>>
    /\ CachesLag

\* updateStatus.  The patch fails when the object is gone, or, once this
\* reconcile has written metadata, when somebody else wrote the object since.
UpdateStatus ==
    /\ pc = "patch"
    /\ \/ /\ Stored.life # "gone" /\ (locked => current)
          /\ Write(Patched(Stored))
          /\ UNCHANGED <<lost, budget>>
       \/ /\ Stored.life = "gone" \/ (locked /\ ~current)
          /\ UNCHANGED <<hist, lost, budget>>
       \/ Spend("faults") /\ Forget /\ UNCHANGED hist
    /\ Return
    /\ UNCHANGED <<vms, svc, aux, unseen>>

-----------------------------------------------------------------------------
(* VMRayClusterDelete.  Every failure ends in updateStatus.                *)

SecretsUpTo(k) == {Secrets[i] : i \in 1..k}

\* DeleteAllCloudInitSecret; a failure leaves a suffix of the secrets.  One that
\* the cache does not show counts as deleted.
DeleteAllCloudInitSecret ==
    /\ pc = "delSecrets"
    /\ \/ /\ aux' = aux \ (SecretsUpTo(Len(Secrets)) \ unseen)
          /\ Overlook(SecretsUpTo(Len(Secrets)))
          /\ Goto("delSa")
          /\ UNCHANGED budget
       \/ /\ Spend("faults")
          /\ \E k \in 0..Len(Secrets) :
                aux' = aux \ (SecretsUpTo(k) \ unseen) /\ Overlook(SecretsUpTo(k))
          /\ Goto("patch")
    /\ UNCHANGED <<hist, vms, svc, unseen, inst, todo>>

\* Mutant: a role binding that is not found ends the deletion successfully.
DeleteAccountStopsAtNotFound ==
    /\ pc = "delSa"
    /\ aux' = IF "binding" \in aux THEN aux \ Account ELSE aux
    /\ Goto("delHead")
    /\ UNCHANGED <<hist, vms, svc, unseen, lost, inst, todo, budget>>

\* The opposite order of creation; a failure leaves the rest, and what the
\* cache does not show counts as deleted.
DeleteServiceAccountAndRole ==
    /\ pc = "delSa"
    /\ \/ /\ aux' = aux \ (Account \ unseen)
          /\ Overlook(Account)
          /\ Goto("delHead")
          /\ UNCHANGED budget
       \/ /\ Spend("faults") /\ Goto("patch")
          /\ \E done \in {{}, {"binding"}, {"binding", "role"}, Account} :
                aux' = aux \ (done \ unseen) /\ Overlook(done)
    /\ UNCHANGED <<hist, vms, svc, unseen, inst, todo>>

\* deleteVMService: a service that the cache does not show counts as deleted.
DeleteVMService == svc' = IF "svc" \in unseen THEN svc ELSE "absent"

\* Mutant: deleteWorkerNodes is called without its "all" flag.
DeleteHeadThenUndesired ==
    /\ pc = "delHead"
    /\ DeleteVMService /\ DeleteVm(HeadNode) /\ Overlook({"svc", HeadNode})
    /\ Goto("delWorkers")
    /\ todo' = Tracked(inst) \ inst.desired
    /\ UNCHANGED <<hist, aux, unseen, inst, budget>>

\* Mutant: an error of provider.Delete for the head does not end the loop.
DeleteHeadIgnoresError ==
    /\ pc = "delHead"
    /\ \/ DeleteVMService /\ DeleteVm(HeadNode) /\ Overlook({"svc", HeadNode}) /\ UNCHANGED budget
       \/ Spend("faults") /\ UNCHANGED <<svc, vms, lost>>
    /\ Goto("delWorkers")
    /\ todo' = Tracked(inst)
    /\ UNCHANGED <<hist, aux, unseen, inst>>

\* provider.Delete for the head: the VM service first, then the VM.
DeleteHead ==
    /\ pc = "delHead"
    /\ \/ /\ DeleteVMService /\ DeleteVm(HeadNode) /\ Overlook({"svc", HeadNode})
          /\ Goto("delWorkers")
          /\ todo' = Tracked(inst)
          /\ UNCHANGED budget
       \/ /\ Spend("faults")
          /\ \/ UNCHANGED <<svc, vms, lost>>
             \/ DeleteVMService /\ Overlook({"svc"}) /\ (UNCHANGED vms \/ DeleteVm(HeadNode))
          /\ Goto("patch")
          /\ UNCHANGED todo
    /\ UNCHANGED <<hist, aux, unseen, inst>>

DeleteAnyWorker ==
    /\ pc = "delWorkers"
    /\ \/ \E w \in todo : DeleteNode(w)
       \/ todo = {} /\ pc' = "unfinalize" /\ UNCHANGED <<vms, lost, inst, todo, budget>>
    /\ UNCHANGED <<hist, svc, aux, unseen, orig, current, locked>>

\* The Update that removes the finalizer lets the API server drop the object;
\* it is refused when somebody wrote the object after the cached version.
RemoveFinalizer ==
    /\ pc = "unfinalize"
    /\ \/ current /\ Write(Gone) /\ UNCHANGED budget
       \/ ~current /\ UNCHANGED <<hist, budget>>
       \/ Spend("faults") /\ UNCHANGED hist
    /\ Return
    /\ UNCHANGED <<vms, svc, aux, unseen, lost>>

-----------------------------------------------------------------------------
(* Everybody else.                                                         *)

\* A write by somebody else makes inst's resourceVersion stale.
OthersWrite(new) ==
    /\ Write(new)
    /\ current' = FALSE
    /\ UNCHANGED <<vms, svc, aux, unseen, lost, pc, inst, orig, todo, locked>>

\* The autoscaler (or the user) patches Spec.AutoscalerDesiredWorkers.
AutoscalerPatch ==
    /\ Stored.life # "gone"
    /\ \E d \in SUBSET Workers \ {Stored.desired} :
          OthersWrite([Stored EXCEPT !.desired = d])
    /\ Spend("edits")

\* Without a finalizer the object disappears at once.
UserDelete ==
    /\ Stored.life = "live"
    /\ OthersWrite(IF Stored.fin THEN [Stored EXCEPT !.life = "deleting"] ELSE Gone)
    /\ UNCHANGED budget

VmBoot(n) ==
    /\ vms[n] = "booting"
    /\ vms' = [vms EXCEPT ![n] = "up"]
    /\ UNCHANGED <<hist, svc, aux, unseen, lost, recVars, budget>>

VmGone(n) ==
    /\ vms[n] = "terminating"
    /\ vms' = [vms EXCEPT ![n] = "absent"]
    /\ UNCHANGED <<hist, svc, aux, lost, recVars, budget>>
    /\ CachesLag

\* A VM loses its address, or an administrator deletes it.
VmOutage(n) ==
    /\ Live(n)
    /\ \E s \in {"booting", "terminating"} \ {vms[n]} : vms' = [vms EXCEPT ![n] = s]
    /\ Spend("faults")
    /\ UNCHANGED <<hist, svc, aux, unseen, lost, recVars>>

SvcReady ==
    /\ svc = "pending"
    /\ svc' = "ready"
    /\ UNCHANGED <<hist, vms, aux, unseen, lost, recVars, budget>>

\* The autoscaler in the head node stores the TLS certificate of the cluster
\* as long as its service account lets it.
AutoscalerTls ==
    /\ vms[HeadNode] = "up" /\ Account \subseteq aux /\ "tls" \notin aux
    /\ aux' = aux \cup {"tls"}
    /\ UNCHANGED <<hist, vms, svc, lost, recVars, budget>>
    /\ CachesLag

\* The operator's process ends and is restarted.
Crash ==
    /\ pc # "idle"
    /\ Spend("faults")
    /\ Forget
    /\ Return
    /\ UNCHANGED <<hist, vms, svc, aux, unseen>>

-----------------------------------------------------------------------------

ReconcileStep ==
    \/ Reconcile \/ AddFinalizerAndNounce \/ CreateVMRayClusterRootSecret
    \/ ValidateAuxiliaryDependencies \/ DeployVmService \/ DeployHead \/ FetchHead
    \/ DeleteUndesiredWorker \/ ReconcileDesiredWorker \/ UpdateStatus
    \/ DeleteAllCloudInitSecret \/ DeleteServiceAccountAndRole \/ DeleteHead
    \/ DeleteAnyWorker \/ RemoveFinalizer

VmOperator == SvcReady \/ \E n \in Nodes : VmBoot(n) \/ VmGone(n)

Environment ==
    \/ AutoscalerPatch \/ UserDelete \/ AutoscalerTls \/ Crash
    \/ \E n \in Nodes : VmOutage(n)

Informers == Sync \/ \E r \in Late : Show(r)

Next == ReconcileStep \/ Informers \/ VmOperator \/ Environment

Spec == Init /\ [][Next]_vars

\* The work queue runs the controller, the watches deliver every version, and
\* the VM operator gives every VM and service its address and removes what was
\* deleted.  Nothing obliges users, the autoscaler or faults to act.
Fairness ==
    /\ WF_vars(ReconcileStep)
    /\ WF_vars(Sync)
    /\ \A r \in Late : WF_vars(Show(r))
    /\ WF_vars(SvcReady)
    /\ \A n \in Nodes : WF_vars(VmBoot(n)) /\ WF_vars(VmGone(n))

FairSpec == Spec /\ Fairness

-----------------------------------------------------------------------------
(* Properties.                                                             *)

\* Every variable keeps the shape of the Go structure or Kubernetes object it
\* models, through every handler of the controller and every outside event.
TypeOK ==
    /\ hist \in Seq(VMRayCluster) /\ hist # <<>>
    /\ vms \in [Nodes -> VmState]
    /\ svc \in SvcState
    /\ aux \subseteq Aux
    /\ pc \in Steps
    /\ inst \in VMRayCluster /\ orig \in VMRayCluster
    /\ todo \subseteq Workers
    /\ current \in BOOLEAN /\ locked \in BOOLEAN
    /\ budget \in [edits : Nat, faults : Nat]
    /\ unseen \subseteq Late
    /\ lost \subseteq Late \cup Workers

\* addFinalizerAndNounce comes before anything is created and Update is
\* refused for a stale object: whatever the controller owns outside the object
\* is protected by a stored finalizer for as long as the object exists.
FinalizerFirst ==
    Stored.life # "gone" /\ (aux # {} \/ svc # "absent" \/ \E n \in Nodes : vms[n] # "absent")
        => Stored.fin

\* What runs or exists of the head node and of the cluster as a whole.  The TLS
\* secret is left out: the autoscaler in the head node may write it again after
\* DeleteAllCloudInitSecret and before its service account is deleted.
HeadOwned ==
    {n \in {HeadNode} : Live(n)} \cup {s \in {"svc"} : svc # "absent"} \cup (aux \ {"tls"})

\* VMRayClusterDelete runs to its end before removeFinalizer: once the object
\* is gone so are the head's VM and VM service, the service account and every
\* secret, whatever crashed or failed on the way and however old the versions
\* of the object were that reconciles read.  What the Get of a Delete did not
\* find, because its cache did not show it yet, is the only exception.
HeadReleased == Stored.life = "gone" => HeadOwned \subseteq lost

\* VMRayClusterDelete says that it deletes the head node and all worker nodes:
\* no VM is left running when the object is gone, without exception.
NoVmLeft == Stored.life = "gone" => \A n \in Nodes : ~Live(n)

\* DeleteAllCloudInitSecret removes every secret of the cluster, the one that
\* the autoscaler in the head node writes included: none of them, and nothing
\* of the service account, is left when the object is gone.
SecretsReleased == Stored.life = "gone" => aux = {}

\* Once the object is gone no reconcile, however stale its cache, creates a VM
\* again: the cache never goes back behind the version the delete loop read.
NoResurrection ==
    [][Stored.life = "gone" => \A n \in Nodes : vms[n] = "absent" => vms'[n] = "absent"]_vars

\* Every running worker VM is known: it has an entry in the stored status, or
\* in the status that the running reconcile is about to store.  The operator
\* loses sight of a worker in two ways only: its VM was missing from the cache
\* when it was to be deleted, or the status recording it was never stored.
WorkersTracked ==
    \A w \in Workers : Live(w) =>
        \/ w \in Tracked(Stored) \cup lost
        \/ pc \in {"workers", "patch"} /\ w \in Tracked(inst)

\* Step 3 of VMRayClusterDelete, "Delete all worker nodes": no worker VM that
\* the operator has not lost sight of is left running when the object is gone.
WorkersReleased ==
    Stored.life = "gone" => \A w \in Workers : Live(w) => w \in lost

\* VMRayClusterReconcile makes sure the ray process in the head node is running
\* before it reconciles workers: a worker VM is only created by a reconcile
\* that found the head's VM running.
WorkersAfterHead ==
    [][\A w \in Workers : vms[w] = "absent" /\ vms'[w] # "absent"
          => inst.head = [vm |-> RUNNING, ray |-> RAY_RUNNING]]_vars

\* The delete loop retries until it gets through: an object that is being
\* deleted eventually disappears.
DeletionCompletes == Stored.life = "deleting" ~> Stored.life = "gone"

\* Once faults and edits cease, every worker the autoscaler asks for runs and
\* is recorded as running, whatever happens to a worker of an unknown node
\* type beside it.
DesiredWorkersRun ==
    <>[](Stored.life = "live" =>
           \A w \in Stored.desired \ Stored.unknown :
              vms[w] = "up" /\ Stored.workers[w] = [vm |-> RUNNING, ray |-> RAY_RUNNING])

\* Once faults and edits cease, no VM is left of a worker that the autoscaler
\* no longer asks for, unless the operator has lost sight of it.
UndesiredWorkersGo ==
    <>[](\A w \in Workers : w \notin Stored.desired => vms[w] = "absent" \/ w \in lost)
=============================================================================

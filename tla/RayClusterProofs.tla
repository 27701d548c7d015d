------------------------- MODULE RayClusterProofs -------------------------
(***************************************************************************)
(* What holds of RayCluster for every set of workers, every lag of the     *)
(* object, every set of resources that their caches are late to show and   *)
(* every number of crashes, faults and edits: type correctness, that the   *)
(* finalizer comes first, what can outlive the object, and that a deleted  *)
(* cluster is not brought back.                                            *)
(***************************************************************************)
EXTENDS RayCluster, NodeLcmProofs, SequenceTheorems

\* The steps between addFinalizerAndNounce and updateStatus that may create
\* something, and the steps of VMRayClusterDelete.
CreateSteps == {"rootca", "validate", "head", "prune", "workers"}
DeleteSteps == {"delSecrets", "delSa", "delHead", "delWorkers", "unfinalize"}

\* A version and a later one: deletion is never taken back, and a finalizer is
\* only removed together with the object.
Precedes(old, new) ==
    /\ old.life # "live" => new.life # "live"
    /\ old.life = "gone" => new.life = "gone"
    /\ old.fin => new.fin \/ new.life = "gone"

HistOrdered ==
    \A i \in 1..Len(hist) : \A j \in i..Len(hist) : Precedes(hist[i], hist[j])

\* Once the object is gone no version the cache can still show would let a
\* reconcile get past addFinalizerAndNounce.
GoneForGood ==
    Stored.life = "gone" => \A i \in 1..Len(hist) : hist[i].life # "live" \/ ~hist[i].fin

\* What a reconcile may rely on from the version it read.
ReadAtFinalizer ==
    pc = "finalizer" =>
        /\ inst.fin => Stored.fin /\ Stored.life # "gone"
        /\ current => Stored.life = "live"

CreatorsProtected ==
    pc \in CreateSteps => Stored.fin /\ Stored.life # "gone"

DeletersFinal ==
    pc \in DeleteSteps => \A i \in 1..Len(hist) : hist[i].life # "live"

\* What the delete loop has released, or lost sight of, by the time it reaches
\* a step.
AuxReleased  == aux \ {"tls"} \subseteq lost
HeadVanished ==
    /\ svc # "absent" => "svc" \in lost
    /\ Live(HeadNode) => HeadNode \in lost

DeleteProgress ==
    /\ pc \in {"delSa"} => aux \ ({"tls"} \cup Account) \subseteq lost
    /\ pc \in {"delHead", "delWorkers", "unfinalize"} => AuxReleased
    /\ pc \in {"delWorkers", "unfinalize"} => HeadVanished

\* The inductive invariant.
IndInv ==
    /\ TypeOK
    /\ HistOrdered
    /\ GoneForGood
    /\ ReadAtFinalizer
    /\ CreatorsProtected
    /\ DeletersFinal
    /\ DeleteProgress
    /\ FinalizerFirst
    /\ HeadReleased

-----------------------------------------------------------------------------
(* Facts about the operators.                                              *)

\* The object a user submits and the mark of a gone one are well formed.
LEMMA SubmittedType ==
    ASSUME NEW d \in SUBSET Workers, NEW b \in SUBSET BadWorkers
    PROVE  /\ Submitted(d, b) \in VMRayCluster
           /\ Submitted(d, b).life = "live" /\ ~Submitted(d, b).fin
  BY NewNodeType DEF Submitted, VMRayCluster, WorkerStatus

\* The mark of a deleted object has the type of an object.
LEMMA GoneType == Gone \in VMRayCluster /\ Gone.life = "gone"
  <1>1. Submitted({}, {}) \in VMRayCluster
    BY SubmittedType
  <1> QED
    BY <1>1 DEF Gone, VMRayCluster

\* A status patch keeps the deletion timestamp, the finalizer and the types.
LEMMA PatchedType ==
    ASSUME TypeOK, NEW cr \in VMRayCluster
    PROVE  /\ Patched(cr) \in VMRayCluster
           /\ Patched(cr).life = cr.life
           /\ Patched(cr).fin = cr.fin
  <1>1. inst.head \in VMRayNodeStatus /\ orig.head \in VMRayNodeStatus /\ cr.head \in VMRayNodeStatus
    BY DEF TypeOK, VMRayCluster
  <1>2. Merge(orig.head, inst.head, cr.head) \in VMRayNodeStatus
    BY <1>1, MergeType
  <1>3. PatchedWorkers(cr) \in [Workers -> WorkerStatus]
    BY MergeWorkersType DEF TypeOK, VMRayCluster, PatchedWorkers
  <1> QED
    BY <1>2, <1>3 DEF Patched, VMRayCluster

\* Reading the ends of the version history.
LEMMA StoredType ==
    ASSUME TypeOK
    PROVE  /\ Len(hist) \in Nat \ {0}
           /\ Stored \in VMRayCluster
           /\ Cached \in VMRayCluster
           /\ \A i \in 1..Len(hist) : hist[i] \in VMRayCluster
  BY DEF TypeOK, Stored, Cached

\* A write leaves a history that ends in what was written, and whose other
\* versions were there before.
LEMMA WriteEffect ==
    ASSUME TypeOK, NEW new \in VMRayCluster, Write(new)
    PROVE  /\ hist' \in Seq(VMRayCluster) /\ hist' # <<>>
           /\ Stored' = new
           /\ \A i \in 1..Len(hist') :
                 \/ hist'[i] = new
                 \/ i \in 1..Len(hist) /\ hist'[i] = hist[i]
           /\ \A i \in 1..Len(hist') : i > Len(hist) => i = Len(hist')
  <1>1. Len(hist) \in Nat \ {0} /\ hist \in Seq(VMRayCluster)
    BY DEF TypeOK
  <1>2. CASE new = Stored
    BY <1>1, <1>2 DEF Write, Stored
  <1>3. CASE new # Stored /\ hist' = <<new>>
    BY <1>1, <1>3 DEF Stored
  <1>4. CASE new # Stored /\ hist' = Append(hist, new)
    BY <1>1, <1>4 DEF Stored
  <1> QED
    BY <1>2, <1>3, <1>4 DEF Write

\* The informer drops the oldest version and keeps the stored one.
LEMMA SyncEffect ==
    ASSUME TypeOK, Sync
    PROVE  /\ hist' \in Seq(VMRayCluster) /\ hist' # <<>>
           /\ Len(hist') = Len(hist) - 1
           /\ \A i \in 1..Len(hist') : i + 1 \in 1..Len(hist) /\ hist'[i] = hist[i + 1]
           /\ Stored' = Stored
  <1>1. Len(hist) \in Nat \ {0} /\ hist \in Seq(VMRayCluster) /\ Len(hist) > 1
        /\ hist # <<>> /\ hist' = Tail(hist)
    BY DEF TypeOK, Sync
  <1>2. /\ hist' \in Seq(VMRayCluster)
        /\ Len(hist') = Len(hist) - 1
        /\ \A i \in 1..Len(hist') : hist'[i] = hist[i + 1]
    BY <1>1, HeadTailProperties
  <1>3. hist' # <<>>
    <2>1. Len(hist') # 0
      BY <1>1, <1>2
    <2> QED
      BY <2>1
  <1> QED
    BY <1>1, <1>2, <1>3 DEF Stored

\* The head is released when its service and VM and the auxiliary resources are.
LEMMA HeadOwnedParts ==
    /\ HeadOwned \subseteq lost <=> AuxReleased /\ HeadVanished
    /\ (HeadOwned \subseteq lost)' <=> AuxReleased' /\ HeadVanished'
  BY DEF HeadOwned, AuxReleased, HeadVanished, Live

-----------------------------------------------------------------------------
(* Type correctness.                                                       *)

\* The part of TypeOK about what the caches do not show.
SightTypeOK == unseen \subseteq Late /\ lost \subseteq Late \cup Workers

\* No step makes the caches late with anything else, or loses anything else.
LEMMA SightType == TypeOK /\ Next => SightTypeOK'
  <1> SUFFICES ASSUME TypeOK, Next PROVE SightTypeOK'
    OBVIOUS
  <1> USE DEF recVars, stores
  <1>1. UNCHANGED unseen \/ CachesLag \/ \E r : unseen' = unseen \ {r}
    BY DEF Next, ReconcileStep, Informers, VmOperator, Environment, Reconcile,
       AddFinalizerAndNounce, CreateVMRayClusterRootSecret, ValidateAuxiliaryDependencies,
       DeployVmService, DeployHead, FetchHead, DeleteUndesiredWorker, ReconcileDesiredWorker,
       UpdateStatus, DeleteAllCloudInitSecret, DeleteServiceAccountAndRole, DeleteHead,
       DeleteAnyWorker, RemoveFinalizer, Sync, Show, SvcReady, VmBoot, VmGone,
       AutoscalerPatch, UserDelete, OthersWrite, AutoscalerTls, Crash, VmOutage
  <1>2. UNCHANGED lost \/ Forget \/ (\E D : Overlook(D)) \/ \E w : lost' = lost \ {w}
    BY DEF Next, ReconcileStep, Informers, VmOperator, Environment, Reconcile,
       AddFinalizerAndNounce, CreateVMRayClusterRootSecret, ValidateAuxiliaryDependencies,
       DeployVmService, DeployHead, FetchHead, DeleteUndesiredWorker, ReconcileDesiredWorker,
       UpdateStatus, DeleteAllCloudInitSecret, DeleteServiceAccountAndRole, DeleteHead,
       DeleteAnyWorker, DeleteNode, RemoveFinalizer, Sync, Show, SvcReady, VmBoot, VmGone,
       AutoscalerPatch, UserDelete, OthersWrite, AutoscalerTls, Crash, VmOutage
  <1>3. unseen' \subseteq Late
    BY <1>1 DEF CachesLag, TypeOK
  <1>4. lost' \subseteq Late \cup Workers
    BY <1>2 DEF Forget, Overlook, Tracked, TypeOK
  <1> QED
    BY <1>3, <1>4 DEF SightTypeOK

\* The part of TypeOK about the reconcile in progress.
RecTypeOK ==
    /\ pc \in Steps
    /\ inst \in VMRayCluster /\ orig \in VMRayCluster
    /\ todo \subseteq Workers
    /\ current \in BOOLEAN /\ locked \in BOOLEAN

\* Returning from a reconcile leaves its local state well typed.
LEMMA ReturnType ==
    ASSUME Return
    PROVE  RecTypeOK'
  BY GoneType DEF Return, RecTypeOK, Steps

\* A bound that is used up a little remains a number.
LEMMA SpendType ==
    ASSUME TypeOK, NEW kind \in {"edits", "faults"}, Spend(kind)
    PROVE  budget' \in [edits : Nat, faults : Nat]
  BY DEF TypeOK, Spend

\* What follows ProcessNodeVmState for the head is well typed.
LEMMA AfterHeadType ==
    ASSUME TypeOK, NEW ans, AfterHead(ProcessNodeVmState(inst.head, ans))
    PROVE  /\ RecTypeOK'
           /\ pc' \in {"patch", "prune"}
  <1> DEFINE out == ProcessNodeVmState(inst.head, ans)
  <1>1. out \in [status : VMRayNodeStatus, err : BOOLEAN]
    BY ProcessType DEF TypeOK, VMRayCluster
  <1> HIDE DEF out
  <1>2. AfterHead(out)
    BY DEF out
  <1>3. inst' \in VMRayCluster
    BY <1>1, <1>2 DEF TypeOK, AfterHead, VMRayCluster
  <1>4. todo' \subseteq Workers
    BY <1>2 DEF AfterHead, Tracked
  <1> QED
    BY <1>2, <1>3, <1>4 DEF TypeOK, RecTypeOK, AfterHead, Goto, Steps

\* An object remains one when the entry of a worker is set.
LEMMA SetWorkerType ==
    ASSUME NEW cr \in VMRayCluster, NEW w \in Workers, NEW st \in WorkerStatus
    PROVE  [cr EXCEPT !.workers[w] = st] \in VMRayCluster
  BY DEF VMRayCluster

\* What follows ProcessNodeVmState for a worker is well typed.
LEMMA AfterWorkerType ==
    ASSUME TypeOK, NEW w \in Workers, NEW ans,
           AfterWorker(w, ProcessNodeVmState(WorkerNode(w), ans))
    PROVE  /\ RecTypeOK'
           /\ pc' \in {"patch", "workers"}
  <1> DEFINE out == ProcessNodeVmState(WorkerNode(w), ans)
  <1>1. WorkerNode(w) \in VMRayNodeStatus
    BY AsNodeType DEF WorkerNode, TypeOK, VMRayCluster
  <1>2. out \in [status : VMRayNodeStatus, err : BOOLEAN]
    BY <1>1, ProcessType
  <1> HIDE DEF out
  <1>3. AfterWorker(w, out)
    BY DEF out
  <1>4. out.status \in WorkerStatus
    BY <1>2 DEF WorkerStatus
  <1>5. inst' \in VMRayCluster
    BY <1>3, <1>4, SetWorkerType DEF TypeOK, AfterWorker
  <1> QED
    BY <1>3, <1>5 DEF TypeOK, RecTypeOK, AfterWorker, Goto, Steps

\* Creating and deleting a VM keeps the type of the VMs.
LEMMA VmWrites ==
    ASSUME TypeOK, NEW n \in Nodes, CreateVm(n) \/ DeleteVm(n)
    PROVE  vms' \in [Nodes -> VmState]
  BY DEF TypeOK, CreateVm, DeleteVm, VmState

\* A turn of deleteNodes is well typed.
LEMMA DeleteNodeType ==
    ASSUME TypeOK, pc \in {"prune", "delWorkers"}, NEW w \in todo, DeleteNode(w),
           UNCHANGED <<orig, current, locked>>
    PROVE  /\ RecTypeOK'
           /\ pc' \in {pc, "patch"}
           /\ vms' \in [Nodes -> VmState]
           /\ budget' \in [edits : Nat, faults : Nat]
  <1>0. w \in Workers /\ w \in Nodes
    BY DEF TypeOK, Nodes
  <1>1. CASE DeleteVm(w) /\ inst' = [inst EXCEPT !.workers[w] = Untracked]
             /\ todo' = todo \ {w} /\ UNCHANGED <<pc, budget>>
    <2>1. inst' \in VMRayCluster
      BY <1>0, <1>1, SetWorkerType DEF TypeOK, WorkerStatus
    <2>2. vms' \in [Nodes -> VmState]
      BY <1>0, <1>1, VmWrites
    <2> QED
      BY <1>1, <2>1, <2>2 DEF TypeOK, RecTypeOK
  <1>2. CASE Spend("faults") /\ (DeleteVm(w) \/ UNCHANGED vms)
             /\ todo' = {} /\ pc' = "patch" /\ UNCHANGED inst
    <2>1. budget' \in [edits : Nat, faults : Nat]
      BY <1>2, SpendType
    <2>2. vms' \in [Nodes -> VmState]
      BY <1>0, <1>2, VmWrites DEF TypeOK
    <2> QED
      BY <1>2, <2>1, <2>2 DEF TypeOK, RecTypeOK, Steps
  <1> QED
    BY <1>1, <1>2 DEF DeleteNode

\* The initial state is well typed.
LEMMA TypeInit == Init => TypeOK
  <1> SUFFICES ASSUME Init PROVE TypeOK
    OBVIOUS
  <1>1. PICK d \in SUBSET Workers, b \in SUBSET BadWorkers : hist = <<Submitted(d, b)>>
    BY DEF Init
  <1>2. hist \in Seq(VMRayCluster) /\ hist # <<>>
    BY <1>1, SubmittedType
  <1> QED
    BY <1>2, GoneType, ConstantsAssumption
       DEF Init, TypeOK, VmState, SvcState, Steps

\* Every handler of the controller keeps the types.
LEMMA TypeReconcileStep ==
    ASSUME TypeOK, ReconcileStep, SightTypeOK'
    PROVE  TypeOK'
  <1> USE DEF SightTypeOK
  <1> DEFINE BudgetType == budget \in [edits : Nat, faults : Nat]
  <1>0. /\ Stored \in VMRayCluster /\ Cached \in VMRayCluster
        /\ HeadNode \in Nodes
        /\ \A w \in todo : w \in Workers /\ w \in Nodes
    BY StoredType DEF TypeOK, Nodes
  <1>1. CASE Reconcile
    BY <1>0, <1>1 DEF Reconcile, TypeOK, stores, Steps
  <1>2. CASE AddFinalizerAndNounce
    <2>1. [Stored EXCEPT !.fin = TRUE] \in VMRayCluster /\ [inst EXCEPT !.fin = TRUE] \in VMRayCluster
      BY <1>0 DEF TypeOK, VMRayCluster
    <2>2. hist' \in Seq(VMRayCluster) /\ hist' # <<>>
      BY <1>2, <2>1, WriteEffect DEF AddFinalizerAndNounce, TypeOK
    <2>3. RecTypeOK'
      BY <1>2, <2>1, ReturnType DEF AddFinalizerAndNounce, TypeOK, RecTypeOK, Goto, Steps
    <2>4. BudgetType'
      BY <1>2, SpendType DEF AddFinalizerAndNounce, TypeOK
    <2> QED
      BY <1>2, <2>2, <2>3, <2>4 DEF AddFinalizerAndNounce, TypeOK, RecTypeOK
  <1>3. CASE CreateVMRayClusterRootSecret
    <2>1. RecTypeOK'
      BY <1>3, ReturnType DEF CreateVMRayClusterRootSecret, TypeOK, RecTypeOK, Goto, Steps
    <2>2. BudgetType'
      BY <1>3, SpendType DEF CreateVMRayClusterRootSecret, TypeOK
    <2>3. aux' \subseteq Aux
      BY <1>3 DEF CreateVMRayClusterRootSecret, TypeOK, Aux, Secrets, Account
    <2> QED
      BY <1>3, <2>1, <2>2, <2>3 DEF CreateVMRayClusterRootSecret, TypeOK, RecTypeOK
  <1>4. CASE ValidateAuxiliaryDependencies
    <2>1. BudgetType'
      BY <1>4, SpendType DEF ValidateAuxiliaryDependencies, TypeOK
    <2> QED
      BY <1>4, <2>1 DEF ValidateAuxiliaryDependencies, TypeOK, Goto, Steps, stores
  <1>5. CASE DeployVmService
    <2>1. RecTypeOK'
      BY <1>5, AfterHeadType DEF DeployVmService
    <2>2. BudgetType'
      BY <1>5, SpendType DEF DeployVmService, TypeOK
    <2>3. svc' \in SvcState
      BY <1>5 DEF DeployVmService, TypeOK, SvcState
    <2> QED
      BY <1>5, <2>1, <2>2, <2>3 DEF DeployVmService, TypeOK, RecTypeOK
  <1>6. CASE DeployHead
    <2>1. RecTypeOK'
      BY <1>6, AfterHeadType DEF DeployHead
    <2>2. BudgetType'
      BY <1>6, SpendType DEF DeployHead, TypeOK
    <2>3. vms' \in [Nodes -> VmState]
      BY <1>0, <1>6, VmWrites DEF DeployHead, TypeOK
    <2>4. aux' \subseteq Aux
      BY <1>6 DEF DeployHead, HeadAuxPrefixes, HeadAuxReached, HeadAux, AccountAndKey, CreateServiceAccountAndRole,
                  GetOrCreatePrivateKeySecret, CreateCloudInitConfigSecret,
                  TypeOK, Aux, Secrets, Account
    <2> QED
      BY <1>6, <2>1, <2>2, <2>3, <2>4 DEF DeployHead, TypeOK, RecTypeOK
  <1>7. CASE FetchHead
    <2>1. RecTypeOK'
      BY <1>7, AfterHeadType DEF FetchHead
    <2>2. BudgetType'
      BY <1>7, SpendType DEF FetchHead, TypeOK
    <2> QED
      BY <1>7, <2>1, <2>2 DEF FetchHead, TypeOK, RecTypeOK, stores
  <1>8. CASE DeleteUndesiredWorker
    <2>1. CASE \E w \in todo : DeleteNode(w)
      BY <1>8, <2>1, DeleteNodeType DEF DeleteUndesiredWorker, TypeOK, RecTypeOK
    <2>2. CASE todo = {} /\ pc' = "workers" /\ todo' = inst.desired /\ UNCHANGED <<vms, inst, budget>>
      BY <1>8, <2>2 DEF DeleteUndesiredWorker, TypeOK, Steps, VMRayCluster
    <2> QED
      BY <1>8, <2>1, <2>2 DEF DeleteUndesiredWorker
  <1>9. CASE ReconcileDesiredWorker
    <2>1. ASSUME NEW w \in todo, DeployWorker(w)
          PROVE  RecTypeOK' /\ BudgetType' /\ vms' \in [Nodes -> VmState] /\ aux' \subseteq Aux
      <3>1. RecTypeOK'
        BY <1>0, <2>1, AfterWorkerType DEF DeployWorker
      <3>2. BudgetType'
        BY <2>1, SpendType DEF DeployWorker, TypeOK
      <3>3. vms' \in [Nodes -> VmState]
        BY <1>0, <2>1, VmWrites DEF DeployWorker, TypeOK
      <3>4. aux' \subseteq Aux
        BY <2>1 DEF DeployWorker, TypeOK, Aux, Secrets, Account
      <3> QED
        BY <3>1, <3>2, <3>3, <3>4
    <2>2. ASSUME NEW w \in todo, FetchWorker(w)
          PROVE  RecTypeOK' /\ BudgetType' /\ vms' \in [Nodes -> VmState] /\ aux' \subseteq Aux
      <3>1. RecTypeOK'
        BY <1>0, <2>2, AfterWorkerType DEF FetchWorker
      <3>2. BudgetType'
        BY <2>2, SpendType DEF FetchWorker, TypeOK
      <3> QED
        BY <2>2, <3>1, <3>2 DEF FetchWorker, TypeOK
    <2>3. CASE todo = {} /\ Goto("patch") /\ UNCHANGED <<vms, aux, inst, todo, budget>>
      BY <1>9, <2>3 DEF ReconcileDesiredWorker, TypeOK, Goto, Steps
    <2> QED
      BY <1>9, <2>1, <2>2, <2>3 DEF ReconcileDesiredWorker, TypeOK, RecTypeOK
  <1>10. CASE UpdateStatus
    <2>1. hist' \in Seq(VMRayCluster) /\ hist' # <<>>
      BY <1>0, <1>10, PatchedType, WriteEffect DEF UpdateStatus, TypeOK
    <2>2. RecTypeOK'
      BY <1>10, ReturnType DEF UpdateStatus
    <2>3. BudgetType'
      BY <1>10, SpendType DEF UpdateStatus, TypeOK
    <2> QED
      BY <1>10, <2>1, <2>2, <2>3 DEF UpdateStatus, TypeOK, RecTypeOK
  <1>11. CASE DeleteAllCloudInitSecret
    <2>1. BudgetType'
      BY <1>11, SpendType DEF DeleteAllCloudInitSecret, TypeOK
    <2> QED
      BY <1>11, <2>1 DEF DeleteAllCloudInitSecret, TypeOK, Goto, Steps
  <1>12. CASE DeleteServiceAccountAndRole
    <2>1. BudgetType'
      BY <1>12, SpendType DEF DeleteServiceAccountAndRole, TypeOK
    <2> QED
      BY <1>12, <2>1 DEF DeleteServiceAccountAndRole, TypeOK, Goto, Steps
  <1>13. CASE DeleteHead
    <2>1. BudgetType'
      BY <1>13, SpendType DEF DeleteHead, TypeOK
    <2>2. vms' \in [Nodes -> VmState]
      BY <1>0, <1>13, VmWrites DEF DeleteHead, TypeOK
    <2>3. svc' \in SvcState
      BY <1>13 DEF DeleteHead, DeleteVMService, TypeOK, SvcState
    <2>4. todo' \subseteq Workers
      BY <1>13 DEF DeleteHead, TypeOK, Tracked
    <2> QED
      BY <1>13, <2>1, <2>2, <2>3, <2>4 DEF DeleteHead, TypeOK, Goto, Steps
  <1>14. CASE DeleteAnyWorker
    <2>1. CASE \E w \in todo : DeleteNode(w)
      BY <1>14, <2>1, DeleteNodeType DEF DeleteAnyWorker, TypeOK, RecTypeOK
    <2>2. CASE todo = {} /\ pc' = "unfinalize" /\ UNCHANGED <<vms, inst, todo, budget>>
      BY <1>14, <2>2 DEF DeleteAnyWorker, TypeOK, Steps
    <2> QED
      BY <1>14, <2>1, <2>2 DEF DeleteAnyWorker
  <1>15. CASE RemoveFinalizer
    <2>1. hist' \in Seq(VMRayCluster) /\ hist' # <<>>
      BY <1>15, GoneType, WriteEffect DEF RemoveFinalizer, TypeOK
    <2>2. RecTypeOK'
      BY <1>15, ReturnType DEF RemoveFinalizer
    <2>3. BudgetType'
      BY <1>15, SpendType DEF RemoveFinalizer, TypeOK
    <2> QED
      BY <1>15, <2>1, <2>2, <2>3 DEF RemoveFinalizer, TypeOK, RecTypeOK
  <1> QED
    BY <1>1, <1>2, <1>3, <1>4, <1>5, <1>6, <1>7, <1>8, <1>9, <1>10, <1>11, <1>12,
       <1>13, <1>14, <1>15 DEF ReconcileStep

\* So do the cache, the VM operator, users, the autoscaler and crashes.
LEMMA TypeOtherStep ==
    ASSUME TypeOK, Informers \/ VmOperator \/ Environment, SightTypeOK'
    PROVE  TypeOK'
  <1> USE DEF recVars, stores, SightTypeOK
  <1>0. Stored \in VMRayCluster /\ Len(hist) \in Nat \ {0} /\ hist \in Seq(VMRayCluster)
    BY StoredType DEF TypeOK
  <1>1. CASE Sync
    <2>1. hist' \in Seq(VMRayCluster) /\ hist' # <<>>
      BY <1>1, SyncEffect
    <2> QED
      BY <1>1, <2>1 DEF Sync, TypeOK
  <1>2. CASE AutoscalerPatch
    <2>1. PICK d \in SUBSET Workers : OthersWrite([Stored EXCEPT !.desired = d])
      BY <1>2 DEF AutoscalerPatch
    <2>2. [Stored EXCEPT !.desired = d] \in VMRayCluster
      BY <1>0 DEF VMRayCluster
    <2>3. hist' \in Seq(VMRayCluster) /\ hist' # <<>>
      BY <2>1, <2>2, WriteEffect DEF OthersWrite
    <2>4. budget' \in [edits : Nat, faults : Nat]
      BY <1>2, SpendType DEF AutoscalerPatch
    <2> QED
      BY <2>1, <2>3, <2>4 DEF OthersWrite, TypeOK
  <1>3. CASE UserDelete
    <2>1. [Stored EXCEPT !.life = "deleting"] \in VMRayCluster /\ Gone \in VMRayCluster
      BY <1>0, GoneType DEF VMRayCluster
    <2>2. hist' \in Seq(VMRayCluster) /\ hist' # <<>>
      BY <1>3, <2>1, WriteEffect DEF UserDelete, OthersWrite
    <2> QED
      BY <1>3, <2>2 DEF UserDelete, OthersWrite, TypeOK
  <1>4. CASE AutoscalerTls
    BY <1>4 DEF AutoscalerTls, TypeOK, Aux, Secrets, Account
  <1>5. CASE Crash
    <2>1. RecTypeOK'
      BY <1>5, ReturnType DEF Crash
    <2>2. budget' \in [edits : Nat, faults : Nat]
      BY <1>5, SpendType DEF Crash
    <2> QED
      BY <1>5, <2>1, <2>2 DEF Crash, TypeOK, RecTypeOK
  <1>6. ASSUME NEW n \in Nodes, VmOutage(n)
        PROVE  TypeOK'
    <2>1. budget' \in [edits : Nat, faults : Nat]
      BY <1>6, SpendType DEF VmOutage
    <2>2. vms' \in [Nodes -> VmState]
      BY <1>6 DEF VmOutage, TypeOK, VmState
    <2> QED
      BY <1>6, <2>1, <2>2 DEF VmOutage, TypeOK
  <1>7. CASE SvcReady
    BY <1>7 DEF SvcReady, TypeOK, SvcState
  <1>8. ASSUME NEW n \in Nodes, VmBoot(n) \/ VmGone(n)
        PROVE  TypeOK'
    BY <1>8 DEF VmBoot, VmGone, TypeOK, VmState
  <1>9. ASSUME NEW r \in Late, Show(r)
        PROVE  TypeOK'
    BY <1>9 DEF Show, TypeOK
  <1> QED
    BY <1>1, <1>2, <1>3, <1>4, <1>5, <1>6, <1>7, <1>8, <1>9
       DEF Informers, VmOperator, Environment

\* Every step keeps the types.
LEMMA TypeNext == TypeOK /\ [Next]_vars => TypeOK'
  <1> SUFFICES ASSUME TypeOK, [Next]_vars PROVE TypeOK'
    OBVIOUS
  <1>1. CASE UNCHANGED vars
    BY <1>1 DEF vars, TypeOK
  <1> QED
    BY <1>1, SightType, TypeReconcileStep, TypeOtherStep DEF Next

\* Every variable of the controller and of the stores it writes keeps its type
\* in every behaviour, for any workers, lag and number of faults.
THEOREM TypeCorrect == Spec => []TypeOK
  BY TypeInit, TypeNext, PTL DEF Spec

-----------------------------------------------------------------------------
(* The inductive invariant.                                                *)

\* A write after which the history is still ordered: it neither takes back a
\* deletion nor drops a finalizer from an object it keeps.
LEMMA WriteOrdered ==
    ASSUME TypeOK, HistOrdered, NEW new \in VMRayCluster, Write(new), Precedes(Stored, new)
    PROVE  HistOrdered'
  <1>0. Len(hist) \in Nat \ {0} /\ hist \in Seq(VMRayCluster)
    BY DEF TypeOK
  <1>1. \A i \in 1..Len(hist) : Precedes(hist[i], Stored)
    BY <1>0 DEF HistOrdered, Stored
  <1>2. \A i \in 1..Len(hist) : Precedes(hist[i], new)
    BY <1>1 DEF Precedes
  <1>3. Precedes(new, new)
    BY DEF Precedes
  <1>4. CASE new = Stored
    BY <1>4 DEF Write, HistOrdered
  <1>5. CASE new # Stored /\ hist' = <<new>>
    BY <1>3, <1>5 DEF HistOrdered
  <1>6. CASE new # Stored /\ hist' = Append(hist, new)
    <2>1. Len(hist') = Len(hist) + 1 /\ hist'[Len(hist')] = new
          /\ \A i \in 1..Len(hist) : hist'[i] = hist[i]
      BY <1>0, <1>6
    <2> SUFFICES ASSUME NEW i \in 1..Len(hist'), NEW j \in i..Len(hist')
                 PROVE  Precedes(hist'[i], hist'[j])
      BY DEF HistOrdered
    <2>2. CASE j = Len(hist')
      BY <1>0, <1>2, <1>3, <2>1, <2>2
    <2>3. CASE j # Len(hist')
      <3>1. i \in 1..Len(hist) /\ j \in i..Len(hist)
        BY <1>0, <2>1, <2>3
      <3> QED
        BY <2>1, <3>1 DEF HistOrdered
    <2> QED
      BY <2>2, <2>3
  <1> QED
    BY <1>4, <1>5, <1>6 DEF Write

\* What a write does to the conjuncts that speak of every version.
LEMMA WriteRest ==
    ASSUME TypeOK, NEW new \in VMRayCluster, Write(new)
    PROVE  /\ Stored' = new
           /\ new.life # "live" /\ (\A i \in 1..Len(hist) : hist[i].life # "live")
                => \A i \in 1..Len(hist') : hist'[i].life # "live"
           /\ (new.life # "live" \/ ~new.fin)
              /\ (\A i \in 1..Len(hist) : hist[i].life # "live" \/ ~hist[i].fin)
                => \A i \in 1..Len(hist') : hist'[i].life # "live" \/ ~hist'[i].fin
  BY WriteEffect

\* The object as submitted satisfies the invariant: nothing exists yet.
LEMMA IndInvInit == Init => IndInv
  <1> SUFFICES ASSUME Init PROVE IndInv
    OBVIOUS
  <1>1. TypeOK
    BY TypeInit
  <1>2. PICK d \in SUBSET Workers, b \in SUBSET BadWorkers : hist = <<Submitted(d, b)>>
    BY DEF Init
  <1>3. Len(hist) = 1 /\ hist[1] = Submitted(d, b) /\ Stored = Submitted(d, b)
    BY <1>2 DEF Stored
  <1>4. Stored.life = "live" /\ ~Stored.fin
    BY <1>3, SubmittedType
  <1>5. HistOrdered
    BY <1>3 DEF HistOrdered, Precedes
  <1>6. FinalizerFirst /\ HeadReleased /\ GoneForGood
    BY <1>4 DEF Init, FinalizerFirst, HeadReleased, GoneForGood
  <1>7. ReadAtFinalizer /\ CreatorsProtected /\ DeletersFinal /\ DeleteProgress
    BY DEF Init, ReadAtFinalizer, CreatorsProtected, DeletersFinal, DeleteProgress,
           CreateSteps, DeleteSteps
  <1> QED
    BY <1>1, <1>5, <1>6, <1>7 DEF IndInv

\* Nothing comes into being but what the head node's autoscaler adds, and
\* nothing that was released, or lost, is back or in sight again.
NoGrowth ==
    /\ aux = {} => aux' = {}
    /\ svc = "absent" => svc' = "absent"
    /\ \A n \in Nodes : vms[n] = "absent" => vms'[n] = "absent"
    /\ aux' \ lost' \subseteq (aux \ lost) \cup {"tls"}
    /\ svc' # "absent" /\ "svc" \notin lost' => svc # "absent" /\ "svc" \notin lost
    /\ \A n \in Nodes : Live(n)' /\ n \notin lost' => Live(n) /\ n \notin lost

\* A step that writes no version and creates nothing keeps the invariant when
\* it ends the reconcile, leaves it alone or moves on in the delete loop.
LEMMA QuietStep ==
    ASSUME IndInv, TypeOK', UNCHANGED hist, NoGrowth,
           \/ pc' \in {"idle", "patch"}
           \/ UNCHANGED <<pc, inst, current>>
           \/ pc \in DeleteSteps /\ pc' \in DeleteSteps /\ DeleteProgress'
    PROVE  IndInv'
  <1>0. TypeOK /\ HeadNode \in Nodes
    BY DEF IndInv, Nodes
  <1>1. Stored' = Stored
    BY DEF Stored
  <1>2. HistOrdered' /\ GoneForGood'
    BY <1>1 DEF IndInv, HistOrdered, GoneForGood
  <1>3. FinalizerFirst'
    BY <1>1 DEF IndInv, FinalizerFirst, NoGrowth
  <1>4. HeadReleased'
    <2>1. AuxReleased /\ HeadVanished => AuxReleased' /\ HeadVanished'
      BY <1>0 DEF AuxReleased, HeadVanished, NoGrowth
    <2> QED
      BY <1>1, <2>1, HeadOwnedParts DEF IndInv, HeadReleased
  <1>5. CASE pc' \in {"idle", "patch"}
    BY <1>2, <1>3, <1>4, <1>5 DEF IndInv, ReadAtFinalizer, CreatorsProtected, DeletersFinal,
       DeleteProgress, CreateSteps, DeleteSteps
  <1>6. CASE UNCHANGED <<pc, inst, current>>
    <2>1. ReadAtFinalizer' /\ CreatorsProtected' /\ DeletersFinal'
      BY <1>1, <1>6 DEF IndInv, ReadAtFinalizer, CreatorsProtected, DeletersFinal
    <2>2. DeleteProgress'
      BY <1>0, <1>6 DEF IndInv, DeleteProgress, AuxReleased, HeadVanished, NoGrowth
    <2> QED
      BY <1>2, <1>3, <1>4, <2>1, <2>2 DEF IndInv
  <1>7. CASE pc \in DeleteSteps /\ pc' \in DeleteSteps /\ DeleteProgress'
    <2>1. ReadAtFinalizer' /\ CreatorsProtected' /\ DeletersFinal'
      BY <1>7 DEF IndInv, ReadAtFinalizer, CreatorsProtected, DeletersFinal, CreateSteps, DeleteSteps
    <2> QED
      BY <1>2, <1>3, <1>4, <1>7, <2>1 DEF IndInv
  <1> QED
    BY <1>5, <1>6, <1>7

\* A step of the create path may create what it likes: the finalizer is there.
LEMMA CreateStep ==
    ASSUME IndInv, TypeOK', UNCHANGED hist, pc \in CreateSteps,
           pc' \in CreateSteps \cup {"idle", "patch"}
    PROVE  IndInv'
  <1>1. Stored' = Stored
    BY DEF Stored
  <1>2. Stored.fin /\ Stored.life # "gone"
    BY DEF IndInv, CreatorsProtected
  <1>3. HistOrdered' /\ GoneForGood'
    BY <1>1 DEF IndInv, HistOrdered, GoneForGood
  <1>4. FinalizerFirst' /\ HeadReleased'
    BY <1>1, <1>2 DEF FinalizerFirst, HeadReleased
  <1>5. ReadAtFinalizer' /\ CreatorsProtected' /\ DeletersFinal' /\ DeleteProgress'
    BY <1>1, <1>2 DEF ReadAtFinalizer, CreatorsProtected, DeletersFinal, DeleteProgress,
       CreateSteps, DeleteSteps
  <1> QED
    BY <1>3, <1>4, <1>5 DEF IndInv

\* A write of a version that neither creates nor removes the object keeps the
\* invariant, whoever makes it.
LEMMA WriteStep ==
    ASSUME IndInv, TypeOK', NEW new \in VMRayCluster, Write(new), Precedes(Stored, new),
           new.life # "gone", Stored.life # "gone", UNCHANGED <<vms, svc, aux, lost>>,
           \/ pc' \in {"idle"} \cup CreateSteps /\ (pc' # "idle" => new.fin)
           \/ UNCHANGED <<pc, inst>> /\ ~current'
    PROVE  IndInv'
  <1>0. TypeOK /\ HistOrdered /\ Stored \in VMRayCluster /\ Len(hist) \in Nat \ {0}
    BY StoredType DEF IndInv
  <1>1. HistOrdered' /\ Stored' = new
    BY <1>0, WriteOrdered, WriteRest
  <1>2. Stored.fin => new.fin
    BY DEF Precedes
  <1>3. FinalizerFirst' /\ HeadReleased' /\ GoneForGood'
    BY <1>0, <1>1, <1>2 DEF IndInv, FinalizerFirst, HeadReleased, GoneForGood
  <1>4. CASE pc' \in {"idle"} \cup CreateSteps /\ (pc' # "idle" => new.fin)
    <2>1. ReadAtFinalizer' /\ CreatorsProtected' /\ DeletersFinal' /\ DeleteProgress'
      BY <1>1, <1>4 DEF ReadAtFinalizer, CreatorsProtected, DeletersFinal, DeleteProgress,
         CreateSteps, DeleteSteps
    <2> QED
      BY <1>1, <1>3, <2>1 DEF IndInv
  <1>5. CASE UNCHANGED <<pc, inst>> /\ ~current'
    <2>1. ReadAtFinalizer'
      BY <1>1, <1>2, <1>5 DEF IndInv, ReadAtFinalizer
    <2>2. CreatorsProtected'
      BY <1>1, <1>2, <1>5 DEF IndInv, CreatorsProtected
    <2>3. DeletersFinal'
      <3> SUFFICES ASSUME pc \in DeleteSteps
                   PROVE  \A i \in 1..Len(hist') : hist'[i].life # "live"
        BY <1>5 DEF DeletersFinal
      <3>1. \A i \in 1..Len(hist) : hist[i].life # "live"
        BY DEF IndInv, DeletersFinal
      <3>2. Stored.life # "live"
        BY <1>0, <3>1 DEF Stored
      <3> QED
        BY <1>0, <3>1, <3>2, WriteRest DEF Precedes
    <2>4. DeleteProgress'
      BY <1>5 DEF IndInv, DeleteProgress, AuxReleased, HeadVanished, Live
    <2> QED
      BY <1>1, <1>3, <2>1, <2>2, <2>3, <2>4 DEF IndInv
  <1> QED
    BY <1>4, <1>5

\* The write that makes the object disappear keeps the invariant when nothing
\* in sight is left and no version in the history is both live and protected.
LEMMA VanishStep ==
    ASSUME IndInv, TypeOK', Write(Gone), UNCHANGED <<vms, svc, aux, lost>>,
           AuxReleased, HeadVanished,
           \A i \in 1..Len(hist) : hist[i].life # "live" \/ ~hist[i].fin,
           \/ pc' = "idle"
           \/ UNCHANGED <<pc, inst>> /\ ~current' /\ ~Stored.fin
    PROVE  IndInv'
  <1>0. TypeOK /\ HistOrdered /\ Stored \in VMRayCluster /\ Len(hist) \in Nat \ {0}
    BY StoredType DEF IndInv
  <1>1. Precedes(Stored, Gone)
    BY GoneType DEF Precedes
  <1>2. HistOrdered' /\ Stored' = Gone
    BY <1>0, <1>1, GoneType, WriteOrdered, WriteRest
  <1>3. GoneForGood'
    BY <1>0, <1>2, GoneType, WriteRest DEF GoneForGood
  <1>4. FinalizerFirst' /\ HeadReleased'
    <2>1. AuxReleased' /\ HeadVanished'
      BY DEF AuxReleased, HeadVanished, Live
    <2> QED
      BY <1>2, <2>1, GoneType, HeadOwnedParts DEF FinalizerFirst, HeadReleased
  <1>5. CASE pc' = "idle"
    BY <1>2, <1>3, <1>4, <1>5 DEF IndInv, ReadAtFinalizer, CreatorsProtected, DeletersFinal,
       DeleteProgress, CreateSteps, DeleteSteps
  <1>6. CASE UNCHANGED <<pc, inst>> /\ ~current' /\ ~Stored.fin
    <2>1. ReadAtFinalizer' /\ CreatorsProtected'
      BY <1>6 DEF IndInv, ReadAtFinalizer, CreatorsProtected
    <2>2. DeletersFinal'
      BY <1>0, <1>6, GoneType, WriteRest DEF IndInv, DeletersFinal
    <2>3. DeleteProgress'
      BY <1>6 DEF IndInv, DeleteProgress, AuxReleased, HeadVanished, Live
    <2> QED
      BY <1>2, <1>3, <1>4, <2>1, <2>2, <2>3 DEF IndInv
  <1> QED
    BY <1>5, <1>6

\* A VM is found when it exists and its cache shows it.
LEMMA ShownVm ==
    ASSUME TypeOK, NEW n \in Nodes
    PROVE  Shown(n) <=> vms[n] # "absent" /\ n \notin unseen
  BY NamesAssumption DEF TypeOK, Shown, Existing

\* A deletion is no growth, and removes what is not unseen.
LEMMA DeletionShrinks ==
    ASSUME TypeOK, NEW n \in Nodes, DeleteVm(n) \/ UNCHANGED vms
    PROVE  /\ \A m \in Nodes : vms[m] = "absent" => vms'[m] = "absent"
           /\ \A m \in Nodes : ~Live(m) => ~Live(m)'
           /\ DeleteVm(n) => ~Live(n)' \/ n \in unseen
  BY ShownVm DEF TypeOK, DeleteVm, Live, VmState

\* The invariant is kept by the steps of the create path.
LEMMA IndInvCreate ==
    ASSUME IndInv, TypeOK',
           \/ Reconcile \/ AddFinalizerAndNounce \/ CreateVMRayClusterRootSecret
           \/ ValidateAuxiliaryDependencies \/ DeployVmService \/ DeployHead \/ FetchHead
           \/ DeleteUndesiredWorker \/ ReconcileDesiredWorker \/ UpdateStatus
    PROVE  IndInv'
  <1> USE DEF stores
  <1>0. /\ TypeOK /\ Stored \in VMRayCluster /\ Len(hist) \in Nat \ {0}
        /\ \A w \in todo : w \in Workers
    BY StoredType DEF IndInv, TypeOK
  <1>1. CASE Reconcile
    <2>1. Stored' = Stored /\ UNCHANGED <<hist, vms, svc, aux, lost>>
      BY <1>1 DEF Stored, Reconcile
    <2>2. HistOrdered' /\ GoneForGood' /\ FinalizerFirst' /\ HeadReleased'
      BY <2>1 DEF IndInv, HistOrdered, GoneForGood, FinalizerFirst, HeadReleased, HeadOwned, Live
    <2>3. Precedes(Cached, Stored) /\ \A i \in 1..Len(hist) : Precedes(Cached, hist[i])
      BY <1>0 DEF IndInv, HistOrdered, Cached, Stored
    <2>4. ReadAtFinalizer'
      <3> SUFFICES ASSUME Cached.life = "live"
                   PROVE  /\ Cached.fin => Stored.fin /\ Stored.life # "gone"
                          /\ Len(hist) = 1 => Stored.life = "live"
        BY <1>1, <2>1 DEF ReadAtFinalizer, Reconcile
      <3>1. Stored.life = "gone" => ~Cached.fin
        BY <1>0 DEF IndInv, GoneForGood, Cached
      <3>2. Cached.fin => Stored.fin \/ Stored.life = "gone"
        BY <2>3 DEF Precedes
      <3>3. Len(hist) = 1 => Stored = Cached
        BY DEF Stored, Cached
      <3> QED
        BY <3>1, <3>2, <3>3
    <2>5. DeletersFinal'
      BY <1>1, <2>3 DEF Reconcile, DeletersFinal, Precedes, DeleteSteps
    <2>6. CreatorsProtected' /\ DeleteProgress'
      BY <1>1 DEF Reconcile, CreatorsProtected, CreateSteps, DeleteProgress
    <2> QED
      BY <2>2, <2>4, <2>5, <2>6 DEF IndInv
  <1>2. CASE AddFinalizerAndNounce
    <2>0. UNCHANGED <<vms, svc, aux, lost>> /\ pc = "finalizer"
      BY <1>2 DEF AddFinalizerAndNounce
    <2>1. CASE inst.fin /\ pc' = "rootca" /\ UNCHANGED hist
      <3>1. Stored' = Stored /\ Stored.fin /\ Stored.life # "gone"
        BY <2>0, <2>1 DEF IndInv, ReadAtFinalizer, Stored
      <3>2. HistOrdered' /\ GoneForGood'
        BY <2>1, <3>1 DEF IndInv, HistOrdered, GoneForGood
      <3>3. FinalizerFirst' /\ HeadReleased'
        BY <3>1 DEF FinalizerFirst, HeadReleased
      <3>4. ReadAtFinalizer' /\ CreatorsProtected' /\ DeletersFinal' /\ DeleteProgress'
        BY <2>1, <3>1 DEF ReadAtFinalizer, CreatorsProtected, DeletersFinal, DeleteProgress,
           CreateSteps, DeleteSteps
      <3> QED
        BY <3>2, <3>3, <3>4 DEF IndInv
    <2>2. CASE current /\ Write([Stored EXCEPT !.fin = TRUE]) /\ pc' = "rootca"
      <3> DEFINE new == [Stored EXCEPT !.fin = TRUE]
      <3>1. new \in VMRayCluster /\ new.fin /\ new.life = Stored.life
        BY <1>0 DEF VMRayCluster
      <3>2. Stored.life = "live"
        BY <2>0, <2>2 DEF IndInv, ReadAtFinalizer
      <3>3. Precedes(Stored, new)
        BY <3>1 DEF Precedes
      <3>4. pc' \in {"idle"} \cup CreateSteps
        BY <2>2 DEF CreateSteps
      <3> HIDE DEF new
      <3>5. Write(new)
        BY <2>2 DEF new
      <3> QED
        BY <2>0, <3>1, <3>2, <3>3, <3>4, <3>5, WriteStep
    <2>3. CASE pc' = "idle" /\ UNCHANGED hist
      BY <2>0, <2>3, QuietStep DEF NoGrowth, Live
    <2> QED
      BY <1>2, <2>1, <2>2, <2>3 DEF AddFinalizerAndNounce, Goto, Return
  <1>3. CASE CreateVMRayClusterRootSecret
    BY <1>3, CreateStep DEF CreateVMRayClusterRootSecret, Goto, Return, CreateSteps
  <1>4. CASE ValidateAuxiliaryDependencies
    BY <1>4, CreateStep DEF ValidateAuxiliaryDependencies, Goto, CreateSteps
  <1>5. CASE DeployVmService
    <2>1. pc = "head" /\ UNCHANGED hist /\ \E ans : AfterHead(ProcessNodeVmState(inst.head, ans))
      BY <1>5 DEF DeployVmService
    <2> QED
      BY <1>0, <2>1, AfterHeadType, CreateStep DEF CreateSteps
  <1>6. CASE DeployHead
    <2>1. pc = "head" /\ UNCHANGED hist /\ \E ans : AfterHead(ProcessNodeVmState(inst.head, ans))
      BY <1>6 DEF DeployHead
    <2> QED
      BY <1>0, <2>1, AfterHeadType, CreateStep DEF CreateSteps
  <1>7. CASE FetchHead
    <2>1. pc = "head" /\ UNCHANGED hist /\ \E ans : AfterHead(ProcessNodeVmState(inst.head, ans))
      BY <1>7 DEF FetchHead
    <2> QED
      BY <1>0, <2>1, AfterHeadType, CreateStep DEF CreateSteps
  <1>8. CASE DeleteUndesiredWorker
    <2>1. pc = "prune" /\ UNCHANGED hist /\ pc' \in {"prune", "patch", "workers"}
      BY <1>8 DEF DeleteUndesiredWorker, DeleteNode
    <2> QED
      BY <2>1, CreateStep DEF CreateSteps
  <1>9. CASE ReconcileDesiredWorker
    <2>1. pc = "workers" /\ UNCHANGED hist
      BY <1>9 DEF ReconcileDesiredWorker
    <2>2. ASSUME NEW w \in todo, DeployWorker(w)
          PROVE  \E ans : AfterWorker(w, ProcessNodeVmState(WorkerNode(w), ans))
      BY <2>2 DEF DeployWorker
    <2>3. ASSUME NEW w \in todo, FetchWorker(w)
          PROVE  \E ans : AfterWorker(w, ProcessNodeVmState(WorkerNode(w), ans))
      BY <2>3 DEF FetchWorker
    <2>4. pc' \in {"patch", "workers"}
      BY <1>0, <1>9, <2>2, <2>3, AfterWorkerType DEF ReconcileDesiredWorker, Goto
    <2> QED
      BY <2>1, <2>4, CreateStep DEF CreateSteps
  <1>10. CASE UpdateStatus
    <2>1. CASE UNCHANGED hist
      <3>1. lost \subseteq lost' /\ UNCHANGED <<vms, svc, aux>> /\ pc' = "idle"
        BY <1>10 DEF UpdateStatus, Return, Forget
      <3> QED
        BY <2>1, <3>1, QuietStep DEF NoGrowth, Live
    <2>2. CASE Stored.life # "gone" /\ Write(Patched(Stored)) /\ UNCHANGED lost
      <3>1. /\ Patched(Stored) \in VMRayCluster
            /\ Patched(Stored).life = Stored.life /\ Patched(Stored).fin = Stored.fin
        BY <1>0, PatchedType
      <3>2. Precedes(Stored, Patched(Stored))
        BY <3>1 DEF Precedes
      <3>3. pc' = "idle" /\ UNCHANGED <<vms, svc, aux, lost>>
        BY <1>10, <2>2 DEF UpdateStatus, Return
      <3> QED
        BY <2>2, <3>1, <3>2, <3>3, WriteStep
    <2> QED
      BY <1>10, <2>1, <2>2 DEF UpdateStatus
  <1> QED
    BY <1>1, <1>2, <1>3, <1>4, <1>5, <1>6, <1>7, <1>8, <1>9, <1>10

\* No Delete call of the controller makes anything grow: what is in sight again
\* was found and deleted.
LEMMA DeletersShrink ==
    ASSUME TypeOK,
           \/ DeleteAllCloudInitSecret \/ DeleteServiceAccountAndRole \/ DeleteHead
           \/ DeleteAnyWorker \/ DeleteUndesiredWorker
    PROVE  NoGrowth
  <1>0. /\ TypeOK /\ HeadNode \in Nodes /\ \A w \in todo : w \in Workers /\ w \in Nodes
        /\ \A n \in Nodes : n # "svc" /\ n \notin Aux
        /\ HeadNode \notin Workers /\ "svc" \notin Aux
        /\ aux \subseteq Aux
    BY ConstantsAssumption, NamesAssumption DEF TypeOK, Nodes, Aux, Secrets, Account
  <1>1. CASE DeleteAllCloudInitSecret
    <2>1. PICK k \in 0..Len(Secrets) :
             aux' = aux \ (SecretsUpTo(k) \ unseen) /\ Overlook(SecretsUpTo(k))
      BY <1>1 DEF DeleteAllCloudInitSecret, Secrets
    <2>2. SecretsUpTo(k) \subseteq Aux /\ UNCHANGED <<vms, svc>>
      BY <1>1 DEF DeleteAllCloudInitSecret, SecretsUpTo, Aux, Secrets
    <2> QED
      BY <1>0, <2>1, <2>2 DEF NoGrowth, Overlook, Live
  <1>2. CASE DeleteServiceAccountAndRole
    <2>1. PICK D \in SUBSET Account : aux' = aux \ (D \ unseen) /\ Overlook(D)
      BY <1>2 DEF DeleteServiceAccountAndRole, Account
    <2>2. Account \subseteq Aux /\ UNCHANGED <<vms, svc>>
      BY <1>2 DEF DeleteServiceAccountAndRole, Aux
    <2> QED
      BY <1>0, <2>1, <2>2 DEF NoGrowth, Overlook, Live
  <1>3. CASE DeleteHead
    <2>1. /\ UNCHANGED aux
          /\ DeleteVm(HeadNode) \/ UNCHANGED vms
          /\ \/ UNCHANGED <<svc, lost>>
             \/ DeleteVMService /\ Overlook({"svc"})
             \/ DeleteVMService /\ DeleteVm(HeadNode) /\ Overlook({"svc", HeadNode})
      BY <1>3 DEF DeleteHead
    <2> QED
      BY <1>0, <2>1, DeletionShrinks DEF NoGrowth, Overlook, DeleteVMService
  <1>4. CASE DeleteAnyWorker \/ DeleteUndesiredWorker
    <2>1. UNCHANGED <<svc, aux>>
      BY <1>4 DEF DeleteAnyWorker, DeleteUndesiredWorker
    <2>2. CASE UNCHANGED <<vms, lost>>
      BY <2>1, <2>2 DEF NoGrowth, Live
    <2>3. ASSUME NEW w \in todo, DeleteNode(w)
          PROVE  NoGrowth
      <3>1. w \in Nodes /\ w # "svc" /\ w \notin Aux /\ (DeleteVm(w) \/ UNCHANGED vms)
        BY <1>0, <2>3 DEF DeleteNode
      <3>2. UNCHANGED lost \/ (DeleteVm(w) /\ Overlook({w}))
        BY <2>3 DEF DeleteNode
      <3> QED
        BY <1>0, <2>1, <3>1, <3>2, DeletionShrinks DEF NoGrowth, Overlook
    <2> QED
      BY <1>4, <2>2, <2>3 DEF DeleteAnyWorker, DeleteUndesiredWorker
  <1> QED
    BY <1>1, <1>2, <1>3, <1>4

\* The invariant is kept by the steps of the delete loop.
LEMMA IndInvDelete ==
    ASSUME IndInv, TypeOK',
           \/ DeleteAllCloudInitSecret \/ DeleteServiceAccountAndRole \/ DeleteHead
           \/ DeleteAnyWorker \/ RemoveFinalizer
    PROVE  IndInv'
  <1>0. /\ TypeOK /\ HeadNode \in Nodes /\ \A w \in todo : w \in Workers /\ w \in Nodes
        /\ \A n \in Nodes : n # "svc" /\ n \notin Aux
        /\ HeadNode \notin Workers /\ "svc" \notin Aux
        /\ aux \subseteq Aux
    BY ConstantsAssumption, NamesAssumption DEF IndInv, TypeOK, Nodes, Aux, Secrets, Account
  <1>1. CASE DeleteAllCloudInitSecret
    <2>1. PICK k \in 0..Len(Secrets) :
             /\ aux' = aux \ (SecretsUpTo(k) \ unseen) /\ Overlook(SecretsUpTo(k))
             /\ pc' = "delSa" => k = Len(Secrets)
      BY <1>1 DEF DeleteAllCloudInitSecret, Goto, Secrets
    <2>2. SecretsUpTo(k) \subseteq Aux /\ SecretsUpTo(Len(Secrets)) \cup Account = Aux
      BY DEF SecretsUpTo, Aux, Secrets
    <2>3. UNCHANGED <<hist, vms, svc>> /\ pc = "delSecrets" /\ pc' \in {"delSa", "patch"}
      BY <1>1 DEF DeleteAllCloudInitSecret, Goto
    <2>4. NoGrowth
      BY <1>0, <1>1, DeletersShrink
    <2>5. pc' = "delSa" => DeleteProgress'
      BY <1>0, <2>1, <2>2 DEF DeleteProgress, Overlook
    <2> QED
      BY <2>3, <2>4, <2>5, QuietStep DEF DeleteSteps
  <1>2. CASE DeleteServiceAccountAndRole
    <2>1. PICK D \in SUBSET Account :
             /\ aux' = aux \ (D \ unseen) /\ Overlook(D)
             /\ pc' = "delHead" => D = Account
      BY <1>2 DEF DeleteServiceAccountAndRole, Goto, Account
    <2>2. UNCHANGED <<hist, vms, svc>> /\ pc = "delSa" /\ pc' \in {"delHead", "patch"}
      BY <1>2 DEF DeleteServiceAccountAndRole, Goto
    <2>3. NoGrowth
      BY <1>0, <1>2, DeletersShrink
    <2>4. pc' = "delHead" => DeleteProgress'
      BY <2>1, <2>2 DEF IndInv, DeleteProgress, AuxReleased, Overlook
    <2> QED
      BY <2>2, <2>3, <2>4, QuietStep DEF DeleteSteps
  <1>3. CASE DeleteHead
    <2>1. UNCHANGED <<hist, aux>> /\ pc = "delHead" /\ pc' \in {"delWorkers", "patch"}
      BY <1>3 DEF DeleteHead, Goto
    <2>2. pc' = "delWorkers" =>
             DeleteVMService /\ DeleteVm(HeadNode) /\ Overlook({"svc", HeadNode})
      BY <1>3 DEF DeleteHead, Goto
    <2>3. NoGrowth
      BY <1>0, <1>3, DeletersShrink
    <2>4. pc' = "delWorkers" => AuxReleased' /\ HeadVanished'
      <3>1. AuxReleased
        BY <2>1 DEF IndInv, DeleteProgress
      <3> QED
        BY <1>0, <2>1, <2>2, <3>1, DeletionShrinks
           DEF AuxReleased, HeadVanished, Overlook, DeleteVMService
    <2>5. pc' = "delWorkers" => DeleteProgress'
      BY <2>4 DEF DeleteProgress
    <2> QED
      BY <2>1, <2>3, <2>5, QuietStep DEF DeleteSteps
  <1>4. CASE DeleteAnyWorker
    <2>1. UNCHANGED <<hist, svc, aux>> /\ pc = "delWorkers" /\ pc' \in {"delWorkers", "unfinalize", "patch"}
      BY <1>4 DEF DeleteAnyWorker, DeleteNode
    <2>2. NoGrowth
      BY <1>0, <1>4, DeletersShrink
    <2>3. AuxReleased' /\ HeadVanished'
      <3>1. AuxReleased /\ HeadVanished
        BY <2>1 DEF IndInv, DeleteProgress
      <3> QED
        BY <1>0, <2>1, <2>2, <3>1 DEF AuxReleased, HeadVanished, NoGrowth
    <2>4. pc' \in DeleteSteps => DeleteProgress'
      BY <2>1, <2>3 DEF DeleteProgress
    <2> QED
      BY <2>1, <2>2, <2>4, QuietStep DEF DeleteSteps
  <1>5. CASE RemoveFinalizer
    <2>1. pc = "unfinalize" /\ pc' = "idle" /\ UNCHANGED <<vms, svc, aux, lost>>
      BY <1>5 DEF RemoveFinalizer, Return
    <2>2. CASE UNCHANGED hist
      BY <2>1, <2>2, QuietStep DEF NoGrowth, Live
    <2>3. CASE Write(Gone)
      <3>1. AuxReleased /\ HeadVanished
        BY <2>1 DEF IndInv, DeleteProgress
      <3>2. \A i \in 1..Len(hist) : hist[i].life # "live"
        BY <2>1 DEF IndInv, DeletersFinal, DeleteSteps
      <3> QED
        BY <2>1, <2>3, <3>1, <3>2, VanishStep
    <2> QED
      BY <1>5, <2>2, <2>3 DEF RemoveFinalizer
  <1> QED
    BY <1>1, <1>2, <1>3, <1>4, <1>5

\* The invariant is kept by everybody else.
LEMMA IndInvOther ==
    ASSUME IndInv, TypeOK', Informers \/ VmOperator \/ Environment
    PROVE  IndInv'
  <1> USE DEF recVars, stores
  <1>0. TypeOK /\ Stored \in VMRayCluster /\ Len(hist) \in Nat \ {0}
    BY StoredType DEF IndInv
  <1>1. CASE Sync
    <2>1. /\ Len(hist') = Len(hist) - 1 /\ Stored' = Stored
          /\ \A i \in 1..Len(hist') : i + 1 \in 1..Len(hist) /\ hist'[i] = hist[i + 1]
      BY <1>0, <1>1, SyncEffect
    <2>2. HistOrdered'
      <3> SUFFICES ASSUME NEW i \in 1..Len(hist'), NEW j \in i..Len(hist')
                   PROVE  Precedes(hist'[i], hist'[j])
        BY DEF HistOrdered
      <3>1. i + 1 \in 1..Len(hist) /\ j + 1 \in (i + 1)..Len(hist) /\ j \in 1..Len(hist')
        BY <1>0, <2>1
      <3> QED
        BY <2>1, <3>1 DEF IndInv, HistOrdered
    <2>3. GoneForGood' /\ DeletersFinal'
      BY <1>1, <2>1 DEF IndInv, GoneForGood, DeletersFinal, Sync
    <2>4. ReadAtFinalizer' /\ CreatorsProtected' /\ DeleteProgress' /\ FinalizerFirst' /\ HeadReleased'
      BY <1>1, <2>1 DEF IndInv, ReadAtFinalizer, CreatorsProtected, DeleteProgress,
         AuxReleased, HeadVanished, FinalizerFirst, HeadReleased, HeadOwned, Sync, Live
    <2> QED
      BY <2>2, <2>3, <2>4 DEF IndInv
  <1>2. CASE AutoscalerPatch
    <2>1. PICK d \in SUBSET Workers : OthersWrite([Stored EXCEPT !.desired = d])
      BY <1>2 DEF AutoscalerPatch
    <2> DEFINE new == [Stored EXCEPT !.desired = d]
    <2>2. new \in VMRayCluster /\ new.fin = Stored.fin /\ new.life = Stored.life
      BY <1>0 DEF VMRayCluster
    <2> HIDE DEF new
    <2>3. Write(new) /\ ~current' /\ UNCHANGED <<vms, svc, aux, lost, pc, inst>>
      BY <2>1 DEF OthersWrite, new
    <2>4. Stored.life # "gone" /\ Precedes(Stored, new)
      BY <1>2, <2>2 DEF AutoscalerPatch, Precedes
    <2> QED
      BY <2>2, <2>3, <2>4, WriteStep
  <1>3. CASE UserDelete
    <2>0. ~current' /\ UNCHANGED <<vms, svc, aux, lost, pc, inst>> /\ Stored.life = "live"
      BY <1>3 DEF UserDelete, OthersWrite
    <2>1. CASE Stored.fin
      <3> DEFINE new == [Stored EXCEPT !.life = "deleting"]
      <3>1. new \in VMRayCluster /\ new.fin = Stored.fin /\ new.life = "deleting"
        BY <1>0 DEF VMRayCluster
      <3> HIDE DEF new
      <3>2. Write(new)
        BY <1>3, <2>1 DEF UserDelete, OthersWrite, new
      <3>3. Precedes(Stored, new)
        BY <2>0, <3>1 DEF Precedes
      <3> QED
        BY <2>0, <3>1, <3>2, <3>3, WriteStep
    <2>2. CASE ~Stored.fin
      <3>1. Write(Gone)
        BY <1>3, <2>2 DEF UserDelete, OthersWrite
      <3>2. svc = "absent" /\ aux = {} /\ vms[HeadNode] = "absent"
        BY <2>0, <2>2 DEF IndInv, FinalizerFirst, Nodes
      <3>3. \A i \in 1..Len(hist) : ~hist[i].fin
        BY <1>0, <2>0, <2>2 DEF IndInv, HistOrdered, Precedes, Stored
      <3> QED
        BY <2>0, <2>2, <3>1, <3>2, <3>3, VanishStep DEF AuxReleased, HeadVanished, Live
    <2> QED
      BY <2>1, <2>2
  <1>4. CASE AutoscalerTls
    BY <1>4, QuietStep DEF AutoscalerTls, NoGrowth, Live, Account
  <1>5. CASE Crash
    BY <1>5, QuietStep DEF Crash, Return, Forget, NoGrowth, Live
  <1>6. ASSUME NEW n \in Nodes, VmOutage(n)
        PROVE  IndInv'
    <2>1. NoGrowth
      BY <1>0, <1>6 DEF VmOutage, NoGrowth, Live, TypeOK
    <2> QED
      BY <1>6, <2>1, QuietStep DEF VmOutage
  <1>7. CASE SvcReady
    BY <1>7, QuietStep DEF SvcReady, NoGrowth, Live
  <1>8. ASSUME NEW n \in Nodes, VmBoot(n) \/ VmGone(n)
        PROVE  IndInv'
    <2>1. HeadNode \in Nodes
      BY DEF Nodes
    <2>2. NoGrowth
      BY <1>0, <1>8, <2>1 DEF VmBoot, VmGone, NoGrowth, Live, TypeOK
    <2> QED
      BY <1>8, <2>2, QuietStep DEF VmBoot, VmGone
  <1>9. ASSUME NEW r \in Late, Show(r)
        PROVE  IndInv'
    BY <1>9, QuietStep DEF Show, NoGrowth, Live
  <1> QED
    BY <1>1, <1>2, <1>3, <1>4, <1>5, <1>6, <1>7, <1>8, <1>9
       DEF Informers, VmOperator, Environment

\* Every step keeps the inductive invariant.
LEMMA IndInvNext == IndInv /\ [Next]_vars => IndInv'
  <1> SUFFICES ASSUME IndInv, [Next]_vars PROVE IndInv'
    OBVIOUS
  <1>0. TypeOK'
    BY TypeNext DEF IndInv
  <1>1. CASE UNCHANGED vars
    BY <1>0, <1>1, QuietStep DEF vars, NoGrowth, Live
  <1>2. CASE Next
    BY <1>0, <1>2, IndInvCreate, IndInvDelete, IndInvOther DEF Next, ReconcileStep
  <1> QED
    BY <1>1, <1>2

-----------------------------------------------------------------------------
(* The theorems.                                                           *)

\* The invariant the safety theorems follow from.
THEOREM Invariance == Spec => []IndInv
  BY IndInvInit, IndInvNext, PTL DEF Spec

\* Whatever the controller owns outside the object is protected by a stored
\* finalizer while the object exists, for any lag, crashes and faults.
THEOREM FinalizerComesFirst == Spec => []FinalizerFirst
  <1>1. IndInv => FinalizerFirst
    BY DEF IndInv
  <1> QED
    BY <1>1, Invariance, PTL

\* Nothing of the head node, and no secret but the autoscaler's, outlives the
\* object, for any lag of the object, any late caches, crashes and faults, with
\* one exception: what the last Delete call for it did not find in its cache.
THEOREM HeadIsReleased == Spec => []HeadReleased
  <1>1. IndInv => HeadReleased
    BY DEF IndInv
  <1> QED
    BY <1>1, Invariance, PTL

\* Only resources whose caches may be late are left when the object is gone: a
\* provider that reads from the API server (Late = {}) leaves nothing of the
\* head, whatever the lag of the object, crashes and faults.
THEOREM OnlyLateIsLeft == Spec => [](Stored.life = "gone" => HeadOwned \subseteq Late)
  <1>1. IndInv => (Stored.life = "gone" => HeadOwned \subseteq Late)
    <2> SUFFICES ASSUME IndInv, Stored.life = "gone", NEW r \in HeadOwned
                 PROVE  r \in Late
      OBVIOUS
    <2>1. r \in lost /\ lost \subseteq Late \cup Workers /\ aux \subseteq Aux
      BY DEF IndInv, HeadReleased, TypeOK
    <2>2. r \notin Workers
      BY <2>1, ConstantsAssumption, NamesAssumption DEF HeadOwned, Nodes
    <2> QED
      BY <2>1, <2>2
  <1> QED
    BY <1>1, Invariance, PTL

\* A reconcile that runs after the object is gone creates no VM.
THEOREM NothingIsResurrected == Spec => NoResurrection
  <1> DEFINE Kept == Stored.life = "gone" =>
                        \A n \in Nodes : vms[n] = "absent" => vms'[n] = "absent"
  <1>1. IndInv /\ [Next]_vars => [Kept]_vars
    <2> SUFFICES ASSUME IndInv, Next, Stored.life = "gone", NEW n \in Nodes, vms[n] = "absent"
                 PROVE  vms'[n] = "absent"
      OBVIOUS
    <2>0. TypeOK /\ pc \notin CreateSteps
      BY DEF IndInv, CreatorsProtected
    <2> USE DEF recVars, stores
    <2>1. CASE ReconcileStep
      <3>1. CASE UNCHANGED vms
        BY <3>1
      <3>2. CASE \E m \in Nodes : DeleteVm(m)
        BY <2>0, <3>2, DeletionShrinks
      <3> QED
        BY <2>0, <2>1, <3>1, <3>2 DEF ReconcileStep, CreateSteps, Reconcile,
           AddFinalizerAndNounce, CreateVMRayClusterRootSecret, ValidateAuxiliaryDependencies,
           DeployVmService, DeployHead, FetchHead, DeleteUndesiredWorker,
           ReconcileDesiredWorker, UpdateStatus, DeleteAllCloudInitSecret,
           DeleteServiceAccountAndRole, DeleteHead, DeleteAnyWorker, DeleteNode,
           RemoveFinalizer, Nodes, TypeOK
    <2>2. CASE Informers \/ Crash \/ AutoscalerPatch \/ UserDelete \/ AutoscalerTls \/ SvcReady
      BY <2>2 DEF Informers, Sync, Show, Crash, AutoscalerPatch, UserDelete, AutoscalerTls, SvcReady, OthersWrite
    <2>3. ASSUME NEW m \in Nodes, VmOutage(m) \/ VmBoot(m) \/ VmGone(m)
          PROVE  vms'[n] = "absent"
      BY <2>0, <2>3 DEF VmOutage, VmBoot, VmGone, Live, TypeOK
    <2> QED
      BY <2>1, <2>2, <2>3 DEF Next, VmOperator, Environment
  <1> QED
    BY <1>1, Invariance, PTL DEF Spec, NoResurrection
=============================================================================

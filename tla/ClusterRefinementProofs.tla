---------------------- MODULE ClusterRefinementProofs ----------------------
(***************************************************************************)
(* RayCluster implements ClusterContract for every set of workers, every   *)
(* lag of the object, any late caches and every number of crashes, faults  *)
(* and edits, as far as the head node and the cluster as a whole are       *)
(* concerned and but for what a Delete call did not find.  Every step is   *)
(* shown to leave what is owned alone, to only release or lose, or to      *)
(* create while the cluster is served; the refinement follows from these   *)
(* three kinds.                                                            *)
(***************************************************************************)
EXTENDS ClusterRefinement, RayClusterProofs

\* The version a reconcile works on: a live one on the create path, one with
\* a deletion timestamp in the delete loop, none between two reconciles.
ReadLife ==
    /\ pc = "idle" => inst.life = "gone"
    /\ pc \in CreateSteps \cup {"finalizer"} => inst.life = "live"
    /\ pc \in DeleteSteps => inst.life # "live"

RefInv == IndInv /\ ReadLife

-----------------------------------------------------------------------------
(* Three kinds of steps.                                                   *)

\* Nothing that the contract speaks of comes or goes.
SameOwned ==
    /\ aux' \ {"tls"} = aux \ {"tls"}
    /\ svc' = "absent" <=> svc = "absent"
    /\ \A n \in Nodes : Live(n)' <=> Live(n)
    /\ lost' = lost

\* The phase stays, teardown begins, or the object goes.
PhaseForward ==
    \/ Phase' = Phase
    \/ Phase = "serving" /\ Phase' = "teardown"
    \/ Phase # "gone" /\ Phase' = "gone"

\* Nothing comes into being or back in sight, and teardown begins at most.
Shrinks ==
    /\ Phase' = Phase \/ (Phase = "serving" /\ Phase' = "teardown")
    /\ aux' \ lost' \subseteq (aux \ lost) \cup {"tls"}
    /\ svc' # "absent" /\ "svc" \notin lost' => svc # "absent" /\ "svc" \notin lost
    /\ \A n \in Nodes : Live(n)' /\ n \notin lost' => Live(n) /\ n \notin lost

\* Something is created or back in sight, by a reconcile that is entitled to.
Grows ==
    /\ Phase = "serving" /\ Phase' = "serving"
    /\ aux \subseteq aux'
    /\ svc' = "absent" => svc = "absent"
    /\ \A n \in Nodes : Live(n) => Live(n)'
    /\ lost' \subseteq lost

StepKind == (SameOwned /\ PhaseForward) \/ Shrinks \/ Grows

\* The phase depends on three lives only.
LEMMA PhaseOf ==
    /\ Stored.life = "gone" => Phase = "gone"
    /\ Stored.life # "gone" /\ Cached.life # "live" /\ inst.life # "live" => Phase = "teardown"
    /\ Stored.life # "gone" /\ (Cached.life = "live" \/ inst.life = "live") => Phase = "serving"
  BY DEF Phase

\* A step that keeps the object and the version the reconcile works on keeps
\* the phase.
LEMMA PhaseKept ==
    ASSUME UNCHANGED hist, (inst'.life = "live") <=> (inst.life = "live")
    PROVE  Phase' = Phase
  <1>1. Stored' = Stored /\ Cached' = Cached
    BY DEF Stored, Cached
  <1> QED
    BY <1>1 DEF Phase

\* Neither the cache nor a running reconcile goes back to a live version: the
\* phase moves forward when the object does.
LEMMA PhaseMoves ==
    ASSUME Stored.life = "gone" => Stored'.life = "gone",
           Cached.life # "live" => Cached'.life # "live",
           inst.life # "live" => inst'.life # "live" \/ Cached.life = "live"
    PROVE  PhaseForward
  BY DEF Phase, PhaseForward

\* A write that does not take back a deletion does not bring the cache back to
\* a live version.
LEMMA WriteCached ==
    ASSUME IndInv, NEW new \in VMRayCluster, Write(new), Precedes(Stored, new)
    PROVE  /\ Stored' = new
           /\ Cached.life # "live" => Cached'.life # "live"
  <1>0. TypeOK /\ HistOrdered /\ Len(hist) \in Nat \ {0} /\ hist \in Seq(VMRayCluster)
    BY DEF IndInv, TypeOK
  <1>1. Precedes(Cached, Stored)
    BY <1>0 DEF HistOrdered, Cached, Stored
  <1>2. Stored' = new
    BY <1>0, WriteRest
  <1>3. Cached' \in {Cached, new}
    <2>1. CASE UNCHANGED hist
      BY <2>1 DEF Cached
    <2>2. CASE hist' = <<new>>
      BY <2>2 DEF Cached
    <2>3. CASE hist' = Append(hist, new)
      BY <1>0, <2>3 DEF Cached
    <2> QED
      BY <2>1, <2>2, <2>3 DEF Write
  <1> QED
    BY <1>1, <1>2, <1>3 DEF Precedes

-----------------------------------------------------------------------------
(* Which version a reconcile works on.                                     *)

\* ProcessNodeVmState for the head changes no life.
LEMMA AfterHeadLife ==
    ASSUME TypeOK, NEW out, AfterHead(out)
    PROVE  inst'.life = inst.life
  BY DEF TypeOK, VMRayCluster, AfterHead

\* Nor does it for a worker, and neither does removing its entry.
LEMMA WorkerLife ==
    ASSUME TypeOK, NEW w, NEW st, inst' = [inst EXCEPT !.workers[w] = st]
    PROVE  inst'.life = inst.life
  BY DEF TypeOK, VMRayCluster

\* A turn of deleteNodes stays in its loop or ends in updateStatus.
LEMMA DeleteNodeLife ==
    ASSUME TypeOK, NEW w, DeleteNode(w)
    PROVE  inst'.life = inst.life /\ pc' \in {pc, "patch"}
  BY WorkerLife DEF DeleteNode

\* A turn of reconcileDesiredWorkers does, too.
LEMMA WorkerTurnLife ==
    ASSUME TypeOK, NEW w \in todo, DeployWorker(w) \/ FetchWorker(w)
    PROVE  inst'.life = inst.life /\ pc' \in {"workers", "patch"}
  <1>1. \E out : AfterWorker(w, out)
    BY DEF DeployWorker, FetchWorker
  <1> QED
    BY <1>1, WorkerLife DEF AfterWorker, Goto

\* A reconcile that has begun keeps the life of the version it read until it
\* returns, and each path keeps to its own steps.
LEMMA ReconcileLife ==
    ASSUME IndInv, ReadLife, ReconcileStep
    PROVE  /\ ReadLife'
           /\ pc # "idle" /\ pc' # "idle" => inst'.life = inst.life
           /\ pc' = "idle" => inst'.life = "gone"
  <1> USE DEF CreateSteps, DeleteSteps, ReadLife
  <1>0. TypeOK /\ Gone.life = "gone"
    BY GoneType DEF IndInv
  <1>1. CASE Reconcile
    BY <1>1 DEF Reconcile
  <1>2. CASE AddFinalizerAndNounce
    BY <1>0, <1>2 DEF AddFinalizerAndNounce, Return, Goto, TypeOK, VMRayCluster
  <1>3. CASE CreateVMRayClusterRootSecret
    BY <1>0, <1>3 DEF CreateVMRayClusterRootSecret, Return, Goto
  <1>4. CASE ValidateAuxiliaryDependencies
    BY <1>4 DEF ValidateAuxiliaryDependencies, Goto
  <1>5. CASE DeployVmService \/ DeployHead \/ FetchHead
    <2>1. pc = "head" /\ \E ans : AfterHead(ProcessNodeVmState(inst.head, ans))
      BY <1>5 DEF DeployVmService, DeployHead, FetchHead
    <2>2. pc' \in {"patch", "prune"} /\ inst'.life = inst.life
      BY <1>0, <2>1, AfterHeadType, AfterHeadLife
    <2> QED
      BY <2>1, <2>2
  <1>6. CASE DeleteUndesiredWorker
    <2>1. pc = "prune" /\ pc' \in {"prune", "patch", "workers"} /\ inst'.life = inst.life
      BY <1>0, <1>6, DeleteNodeLife DEF DeleteUndesiredWorker
    <2> QED
      BY <2>1
  <1>7. CASE ReconcileDesiredWorker
    <2>1. pc = "workers" /\ pc' \in {"workers", "patch"} /\ inst'.life = inst.life
      BY <1>0, <1>7, WorkerTurnLife DEF ReconcileDesiredWorker, Goto
    <2> QED
      BY <2>1
  <1>8. CASE UpdateStatus \/ RemoveFinalizer
    BY <1>0, <1>8 DEF UpdateStatus, RemoveFinalizer, Return
  <1>9. CASE DeleteAllCloudInitSecret \/ DeleteServiceAccountAndRole \/ DeleteHead
    BY <1>9 DEF DeleteAllCloudInitSecret, DeleteServiceAccountAndRole, DeleteHead, Goto
  <1>10. CASE DeleteAnyWorker
    <2>1. pc = "delWorkers" /\ pc' \in {"delWorkers", "patch", "unfinalize"} /\ inst'.life = inst.life
      BY <1>0, <1>10, DeleteNodeLife DEF DeleteAnyWorker
    <2> QED
      BY <2>1
  <1> QED
    BY <1>1, <1>2, <1>3, <1>4, <1>5, <1>6, <1>7, <1>8, <1>9, <1>10 DEF ReconcileStep

\* Nobody else touches a running reconcile except by ending it.
LEMMA OtherLife ==
    ASSUME ReadLife, Informers \/ VmOperator \/ Environment
    PROVE  /\ ReadLife'
           /\ UNCHANGED inst \/ inst'.life = "gone"
  <1> USE DEF recVars, stores
  <1>1. CASE Crash
    BY <1>1, GoneType DEF Crash, Return, ReadLife, CreateSteps, DeleteSteps
  <1>2. CASE Informers \/ VmOperator \/ AutoscalerPatch \/ UserDelete \/ AutoscalerTls \/ \E n \in Nodes : VmOutage(n)
    <2>1. UNCHANGED <<pc, inst>>
      BY <1>2 DEF Informers, Sync, Show, VmOperator, SvcReady, VmBoot, VmGone, AutoscalerPatch, UserDelete,
                  OthersWrite, AutoscalerTls, VmOutage
    <2> QED
      BY <2>1 DEF ReadLife
  <1> QED
    BY <1>1, <1>2 DEF Environment

\* The invariant of the refinement.
LEMMA RefInvInit == Init => RefInv
  BY IndInvInit, GoneType DEF Init, RefInv, ReadLife, CreateSteps, DeleteSteps

\* Every step keeps it.
LEMMA RefInvNext == RefInv /\ [Next]_vars => RefInv'
  <1>1. ASSUME RefInv, UNCHANGED vars
        PROVE  ReadLife'
    BY <1>1 DEF RefInv, ReadLife, vars
  <1> QED
    BY <1>1, IndInvNext, ReconcileLife, OtherLife DEF RefInv, Next

-----------------------------------------------------------------------------
(* Every step is of one of the three kinds.                                *)

\* Creating a VM stops none.
LEMMA CreationGrows ==
    ASSUME TypeOK, NEW n \in Nodes, CreateVm(n) \/ UNCHANGED vms
    PROVE  \A m \in Nodes : Live(m) => Live(m)'
  BY DEF TypeOK, CreateVm, Live, VmState

\* A step of the create path that does not return creates things while the
\* cluster is served.
LEMMA CreatorGrows ==
    ASSUME RefInv, pc \in CreateSteps, UNCHANGED hist, inst'.life = inst.life,
           aux \subseteq aux', svc' = "absent" => svc = "absent", lost' \subseteq lost,
           UNCHANGED vms \/ \E n \in Nodes : CreateVm(n)
    PROVE  Grows
  <1>1. inst.life = "live" /\ Stored.life # "gone" /\ TypeOK
    BY DEF RefInv, ReadLife, IndInv, CreatorsProtected
  <1>2. Phase = "serving" /\ Phase' = Phase
    BY <1>1, PhaseOf, PhaseKept
  <1>3. HeadNode \in Nodes
    BY DEF Nodes
  <1> QED
    BY <1>1, <1>2, <1>3, CreationGrows DEF Grows

\* A step that writes no version, creates nothing and keeps the reconcile on
\* its path only releases.
LEMMA DeleterShrinks ==
    ASSUME RefInv, UNCHANGED hist, inst'.life = inst.life, NoGrowth
    PROVE  Shrinks
  <1>1. Phase' = Phase
    BY PhaseKept
  <1> QED
    BY <1>1 DEF Shrinks, NoGrowth

\* A reconcile that ends before its status is stored only loses workers.
LEMMA EndedShrinks ==
    ASSUME RefInv, UNCHANGED <<hist, vms, svc, aux>>, inst'.life = "gone", lost \subseteq lost'
    PROVE  Shrinks
  <1>1. Stored' = Stored /\ Cached' = Cached
    BY DEF Stored, Cached
  <1>2. Phase' = Phase \/ (Phase = "serving" /\ Phase' = "teardown")
    BY <1>1 DEF Phase
  <1> QED
    BY <1>2 DEF Shrinks, Live

\* A step that touches neither VMs, service nor auxiliary resources, and loses
\* sight of none, moves the phase forward at most.
LEMMA StoresKept ==
    ASSUME RefInv, UNCHANGED <<vms, svc, aux, lost>>,
           \/ UNCHANGED hist
           \/ \E new \in VMRayCluster : Write(new) /\ Precedes(Stored, new),
           \/ inst'.life = inst.life
           \/ inst'.life = "gone"
           \/ inst'.life = Cached.life
    PROVE  SameOwned /\ PhaseForward
  <1>1. SameOwned
    BY DEF SameOwned, Live
  <1>2. /\ Stored.life = "gone" => Stored'.life = "gone"
        /\ Cached.life # "live" => Cached'.life # "live"
    <2>1. CASE UNCHANGED hist
      BY <2>1 DEF Stored, Cached
    <2>2. CASE \E new \in VMRayCluster : Write(new) /\ Precedes(Stored, new)
      BY <2>2, WriteCached DEF RefInv, Precedes
    <2> QED
      BY <2>1, <2>2
  <1>3. inst.life # "live" => inst'.life # "live" \/ Cached.life = "live"
    OBVIOUS
  <1> QED
    BY <1>1, <1>2, <1>3, PhaseMoves

\* The controller's own steps.
LEMMA ReconcileKind ==
    ASSUME RefInv, ReconcileStep
    PROVE  StepKind
  <1> USE DEF stores
  <1>0. /\ IndInv /\ ReadLife /\ TypeOK /\ Stored \in VMRayCluster
        /\ HeadNode \in Nodes /\ Gone.life = "gone"
        /\ \A w \in todo : w \in Nodes
    BY StoredType, GoneType DEF RefInv, IndInv, Nodes, TypeOK
  <1>1. CASE Reconcile
    BY <1>1, StoresKept DEF Reconcile, StepKind
  <1>2. CASE AddFinalizerAndNounce
    <2>1. UNCHANGED <<vms, svc, aux, lost>> /\ (inst'.life = inst.life \/ inst'.life = "gone")
      BY <1>0, <1>2 DEF AddFinalizerAndNounce, Return, TypeOK, VMRayCluster
    <2>2. [Stored EXCEPT !.fin = TRUE] \in VMRayCluster
      BY <1>0 DEF VMRayCluster
    <2>3. Precedes(Stored, [Stored EXCEPT !.fin = TRUE])
      BY <1>0 DEF Precedes, VMRayCluster
    <2>4. UNCHANGED hist \/ Write([Stored EXCEPT !.fin = TRUE])
      BY <1>2 DEF AddFinalizerAndNounce
    <2> QED
      BY <2>1, <2>2, <2>3, <2>4, StoresKept DEF StepKind
  <1>3. CASE CreateVMRayClusterRootSecret
    <2>1. CASE Return /\ UNCHANGED aux
      BY <1>0, <1>3, <2>1, StoresKept DEF CreateVMRayClusterRootSecret, Return, StepKind
    <2>2. CASE aux' = aux \cup {"rootca"} /\ UNCHANGED inst
      BY <1>3, <2>2, CreatorGrows DEF CreateVMRayClusterRootSecret, CreateSteps, StepKind
    <2> QED
      BY <1>3, <2>1, <2>2 DEF CreateVMRayClusterRootSecret
  <1>4. CASE ValidateAuxiliaryDependencies
    BY <1>4, StoresKept DEF ValidateAuxiliaryDependencies, StepKind
  <1>5. CASE DeployVmService \/ DeployHead \/ FetchHead
    <2>1. pc = "head" /\ UNCHANGED hist /\ inst'.life = inst.life
      BY <1>0, <1>5, AfterHeadLife DEF DeployVmService, DeployHead, FetchHead
    <2>2. /\ aux \subseteq aux' /\ (svc' = "absent" => svc = "absent") /\ lost' \subseteq lost
          /\ UNCHANGED vms \/ CreateVm(HeadNode)
      BY <1>5 DEF DeployVmService, DeployHead, FetchHead
    <2> QED
      BY <1>0, <2>1, <2>2, CreatorGrows DEF CreateSteps, StepKind
  <1>6. CASE DeleteUndesiredWorker
    <2>1. UNCHANGED hist /\ inst'.life = inst.life
      BY <1>0, <1>6, DeleteNodeLife DEF DeleteUndesiredWorker
    <2> QED
      BY <1>0, <1>6, <2>1, DeletersShrink, DeleterShrinks DEF StepKind
  <1>7. CASE ReconcileDesiredWorker
    <2>1. pc = "workers" /\ UNCHANGED <<hist, svc>> /\ inst'.life = inst.life
      BY <1>0, <1>7, WorkerTurnLife DEF ReconcileDesiredWorker
    <2>2. /\ aux \subseteq aux' /\ lost' \subseteq lost
          /\ UNCHANGED vms \/ \E n \in Nodes : CreateVm(n)
      BY <1>0, <1>7 DEF ReconcileDesiredWorker, DeployWorker, FetchWorker
    <2> QED
      BY <2>1, <2>2, CreatorGrows DEF CreateSteps, StepKind
  <1>8. CASE UpdateStatus
    <2>1. UNCHANGED <<vms, svc, aux>> /\ inst'.life = "gone"
      BY <1>0, <1>8 DEF UpdateStatus, Return
    <2>2. Patched(Stored) \in VMRayCluster /\ Precedes(Stored, Patched(Stored))
      BY <1>0, PatchedType DEF Precedes
    <2>3. CASE Write(Patched(Stored)) /\ UNCHANGED lost
      BY <2>1, <2>2, <2>3, StoresKept DEF StepKind
    <2>4. CASE UNCHANGED hist /\ (UNCHANGED lost \/ Forget)
      BY <2>1, <2>4, EndedShrinks DEF Forget, StepKind
    <2> QED
      BY <1>8, <2>3, <2>4 DEF UpdateStatus
  <1>9. CASE DeleteAllCloudInitSecret \/ DeleteServiceAccountAndRole \/ DeleteHead
    <2>1. UNCHANGED <<hist, inst>>
      BY <1>9 DEF DeleteAllCloudInitSecret, DeleteServiceAccountAndRole, DeleteHead
    <2> QED
      BY <1>0, <1>9, <2>1, DeletersShrink, DeleterShrinks DEF StepKind
  <1>10. CASE DeleteAnyWorker
    <2>1. UNCHANGED hist /\ inst'.life = inst.life
      BY <1>0, <1>10, DeleteNodeLife DEF DeleteAnyWorker
    <2> QED
      BY <1>0, <1>10, <2>1, DeletersShrink, DeleterShrinks DEF StepKind
  <1>11. CASE RemoveFinalizer
    <2>1. UNCHANGED <<vms, svc, aux, lost>> /\ inst'.life = "gone"
      BY <1>0, <1>11 DEF RemoveFinalizer, Return
    <2>2. Gone \in VMRayCluster /\ Precedes(Stored, Gone)
      BY GoneType DEF Precedes
    <2>3. UNCHANGED hist \/ Write(Gone)
      BY <1>11 DEF RemoveFinalizer
    <2> QED
      BY <2>1, <2>2, <2>3, StoresKept DEF StepKind
  <1> QED
    BY <1>1, <1>2, <1>3, <1>4, <1>5, <1>6, <1>7, <1>8, <1>9, <1>10, <1>11 DEF ReconcileStep

\* Everybody else's steps.
LEMMA OtherKind ==
    ASSUME RefInv, Informers \/ VmOperator \/ Environment
    PROVE  StepKind
  <1> USE DEF recVars, stores
  <1>0. /\ IndInv /\ TypeOK /\ Stored \in VMRayCluster /\ Gone.life = "gone"
        /\ Len(hist) \in Nat \ {0}
    BY StoredType, GoneType DEF RefInv, IndInv
  <1>1. CASE Sync
    <2>1. Stored' = Stored /\ UNCHANGED <<vms, svc, aux, lost, inst>> /\ Cached' = hist[2] /\ 2 \in 1..Len(hist)
      BY <1>0, <1>1, SyncEffect DEF Sync, Cached
    <2>2. Precedes(Cached, Cached')
      BY <1>0, <2>1 DEF IndInv, HistOrdered, Cached
    <2>3. PhaseForward
      BY <2>1, <2>2, PhaseMoves DEF Precedes
    <2> QED
      BY <2>1, <2>3 DEF StepKind, SameOwned, Live
  <1>2. CASE AutoscalerPatch
    <2>1. PICK d \in SUBSET Workers : OthersWrite([Stored EXCEPT !.desired = d])
      BY <1>2 DEF AutoscalerPatch
    <2>2. [Stored EXCEPT !.desired = d] \in VMRayCluster
      BY <1>0 DEF VMRayCluster
    <2>3. Precedes(Stored, [Stored EXCEPT !.desired = d])
      BY <1>0 DEF Precedes, VMRayCluster
    <2> QED
      BY <2>1, <2>2, <2>3, StoresKept DEF OthersWrite, StepKind
  <1>3. CASE UserDelete
    <2>1. Stored.life = "live" /\ UNCHANGED <<vms, svc, aux, lost, inst>>
      BY <1>3 DEF UserDelete, OthersWrite
    <2>2. [Stored EXCEPT !.life = "deleting"] \in VMRayCluster /\ Gone \in VMRayCluster
      BY <1>0, GoneType DEF VMRayCluster
    <2>3. Precedes(Stored, [Stored EXCEPT !.life = "deleting"]) /\ Precedes(Stored, Gone)
      BY <1>0, <2>1 DEF Precedes, VMRayCluster
    <2>4. Write([Stored EXCEPT !.life = "deleting"]) \/ Write(Gone)
      BY <1>3 DEF UserDelete, OthersWrite
    <2> QED
      BY <2>1, <2>2, <2>3, <2>4, StoresKept DEF StepKind
  <1>4. CASE AutoscalerTls \/ SvcReady
    <2>1. Phase' = Phase
      BY <1>4, PhaseKept DEF AutoscalerTls, SvcReady
    <2>2. SameOwned
      BY <1>4 DEF AutoscalerTls, SvcReady, SameOwned, Live
    <2> QED
      BY <2>1, <2>2 DEF StepKind, PhaseForward
  <1>5. CASE Crash
    BY <1>0, <1>5, EndedShrinks DEF Crash, Return, Forget, StepKind
  <1>6. ASSUME NEW n \in Nodes, VmOutage(n) \/ VmBoot(n) \/ VmGone(n)
        PROVE  StepKind
    <2>1. Phase' = Phase
      BY <1>6, PhaseKept DEF VmOutage, VmBoot, VmGone
    <2>2. UNCHANGED <<svc, aux, lost>>
      BY <1>6 DEF VmOutage, VmBoot, VmGone
    <2>3. \A m \in Nodes : Live(m)' => Live(m)
      BY <1>0, <1>6 DEF VmOutage, VmBoot, VmGone, Live, TypeOK
    <2> QED
      BY <2>1, <2>2, <2>3 DEF StepKind, Shrinks
  <1>7. ASSUME NEW r \in Late, Show(r)
        PROVE  StepKind
    BY <1>7, StoresKept DEF Show, StepKind
  <1> QED
    BY <1>1, <1>2, <1>3, <1>4, <1>5, <1>6, <1>7 DEF Informers, VmOperator, Environment

\* Every step of the system.
LEMMA NextKind ==
    ASSUME RefInv, [Next]_vars
    PROVE  StepKind
  <1>1. CASE UNCHANGED vars
    BY <1>1, PhaseKept DEF vars, StepKind, SameOwned, PhaseForward, Live
  <1> QED
    BY <1>1, ReconcileKind, OtherKind DEF Next

-----------------------------------------------------------------------------
(* The refinement.                                                         *)

\* What exists is always among what the operator can create.
LEMMA HeadOwnedType ==
    ASSUME TypeOK
    PROVE  HeadOwned \subseteq HeadResources
  BY DEF TypeOK, HeadOwned, HeadResources

\* A cluster that was just submitted owns nothing and is served.
LEMMA ContractInit == Init => HeadContract!Init
  <1> SUFFICES ASSUME Init PROVE HeadContract!Init
    OBVIOUS
  <1>1. PICK d \in SUBSET Workers, b \in SUBSET BadWorkers : hist = <<Submitted(d, b)>>
    BY DEF Init
  <1>2. Stored.life = "live" /\ Cached.life = "live"
    BY <1>1, SubmittedType DEF Stored, Cached
  <1>3. HeadOwned = {}
    BY DEF Init, HeadOwned, Live, Nodes
  <1> QED
    BY <1>2, <1>3, PhaseOf DEF HeadContract!Init

\* A step of each kind is a step of the contract or none of its business.
LEMMA HeadContractStep ==
    ASSUME RefInv, RefInv', StepKind
    PROVE  [HeadContract!Next]_(HeadContract!vars)
  <1> DEFINE Held == HeadOwned \ lost
  <1>0. /\ TypeOK /\ TypeOK' /\ HeadNode \in Nodes
        /\ Held \subseteq HeadResources /\ Held' \subseteq HeadResources
    <2>1. TypeOK => Held \subseteq HeadResources
      BY HeadOwnedType
    <2>2. TypeOK' => Held' \subseteq HeadResources
      BY DEF TypeOK, HeadOwned, HeadResources
    <2> QED
      BY <2>1, <2>2 DEF RefInv, IndInv, Nodes
  <1>1. CASE SameOwned /\ PhaseForward
    <2>1. Held' = Held
      BY <1>0, <1>1 DEF SameOwned, HeadOwned
    <2>2. Phase' = "gone" => Held' = {}
      <3>1. Phase' = "gone" => Stored'.life = "gone"
        BY DEF Phase
      <3> QED
        BY <3>1 DEF RefInv, IndInv, HeadReleased
    <2>3. Held' \in SUBSET Held
      BY <2>1
    <2> HIDE DEF Held
    <2>4. CASE Phase' = Phase
      BY <2>1, <2>4 DEF HeadContract!vars, Held
    <2>5. CASE Phase = "serving" /\ Phase' = "teardown"
      BY <2>3, <2>5 DEF HeadContract!Next, HeadContract!BeginTeardown, Held
    <2>6. CASE Phase # "gone" /\ Phase' = "gone"
      BY <2>1, <2>2, <2>6 DEF HeadContract!Next, HeadContract!Vanish, Held
    <2> QED
      BY <1>1, <2>4, <2>5, <2>6 DEF PhaseForward
  <1>2. CASE Shrinks
    <2>1. Held' \in SUBSET Held
      BY <1>0, <1>2 DEF Shrinks, HeadOwned
    <2> HIDE DEF Held
    <2> QED
      BY <1>2, <2>1 DEF Shrinks, HeadContract!Next, HeadContract!Release,
         HeadContract!BeginTeardown, Held
  <1>3. CASE Grows
    <2>1. Held \subseteq Held'
      BY <1>0, <1>3 DEF Grows, HeadOwned
    <2> QED
      BY <1>0, <1>3, <2>1 DEF Grows, HeadContract!Next, HeadContract!Acquire
  <1> QED
    BY <1>1, <1>2, <1>3 DEF StepKind

\* The controller implements its contract for the head's VM and service, the
\* account and every secret but the autoscaler's: they are created only while
\* the cluster is served, and the object goes only after all of them, whatever
\* version of the object a reconcile reads, crashes or fails.  Excepted is what
\* the last Delete call for it did not find in its cache.
THEOREM HeadContractImplemented == Spec => HeadContractHolds
  <1>1. RefInv /\ RefInv' /\ [Next]_vars => [HeadContract!Next]_(HeadContract!vars)
    BY NextKind, HeadContractStep
  <1>2. Spec => []RefInv
    BY RefInvInit, RefInvNext, PTL DEF Spec
  <1> QED
    BY <1>1, <1>2, ContractInit, PTL DEF Spec, HeadContractHolds, HeadContract!Spec
=============================================================================

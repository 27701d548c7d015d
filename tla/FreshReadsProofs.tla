-------------------------- MODULE FreshReadsProofs --------------------------
(***************************************************************************)
(* What the controller promises about workers when the cache of the object *)
(* shows every write at once, for every set of workers, any late caches of *)
(* the VMs, and every number of edits, crashes and faults: every worker VM *)
(* is recorded, none outlives the object, none is created before the head  *)
(* runs, and the whole of ClusterContract is implemented.  A worker counts *)
(* unless the operator lost sight of it, which happens in two ways: it was *)
(* not in the cache when it was to be deleted, or the reconcile that made  *)
(* it ended before its status was stored.  With an older version of the    *)
(* object the runs stale_orphans and stale_head show that it is not so.    *)
(***************************************************************************)
EXTENDS ClusterRefinementProofs

\* The instances the theorems of this module are about.
FreshReads == MaxLag = 0

\* A ray process is only recorded as running beside a running VM.
Consistent(st) == st.ray = RAY_RUNNING => st.vm = RUNNING

\* The cache shows the stored version.
NoStaleness == FreshReads /\ Len(hist) = 1

\* An object without a finalizer has an empty status; one that is being deleted
\* has a finalizer.
StatusNeedsFinalizer ==
    /\ ~Stored.fin => Stored.head = NewNode /\ Tracked(Stored) = {}
    /\ Stored.life = "deleting" => Stored.fin

\* Nobody but the reconcile in progress writes the status, and past
\* addFinalizerAndNounce the object does not disappear under it.
ReadIsStored ==
    /\ pc # "idle" => orig.head = Stored.head /\ orig.workers = Stored.workers
    /\ pc = "finalizer" => inst.fin = Stored.fin
    /\ pc \notin {"idle", "finalizer"} => Stored.fin /\ Stored.life # "gone"

\* How far the reconcile has changed its copy of the status.
CopyUnchanged ==
    /\ pc \in {"finalizer", "rootca", "validate", "head"} => inst.head = orig.head
    /\ pc \in {"finalizer", "rootca", "validate", "head", "delSecrets", "delSa", "delHead"}
         => inst.workers = orig.workers

\* The reconcile that adds the finalizer, and whose patch may be refused, never
\* reaches the workers: a new head is not running yet.
FirstReconcile ==
    locked => /\ pc \in {"rootca", "validate", "head", "patch"}
              /\ pc # "patch" => inst.head = NewNode
              /\ inst.workers = orig.workers

HeadRuns ==
    /\ Consistent(Stored.head) /\ Consistent(inst.head)
    /\ pc \in {"prune", "workers"} => inst.head = [vm |-> RUNNING, ray |-> RAY_RUNNING]

\* The reconcile's own copy knows every running worker that is not lost.
CopyTracks == pc # "idle" => \A w \in Workers : Live(w) => w \in Tracked(inst) \cup lost

\* The delete loop visits every worker that is still recorded.
DeleteLoopCovers ==
    /\ pc = "delWorkers" => Tracked(inst) \subseteq todo
    /\ pc = "unfinalize" => Tracked(inst) = {}

\* The inductive invariant.
FreshInv ==
    /\ RefInv
    /\ NoStaleness
    /\ StatusNeedsFinalizer
    /\ ReadIsStored
    /\ CopyUnchanged
    /\ FirstReconcile
    /\ HeadRuns
    /\ CopyTracks
    /\ DeleteLoopCovers
    /\ WorkersTracked
    /\ WorkersReleased

-----------------------------------------------------------------------------
(* Facts about the operators.                                              *)

\* Without lag a write replaces the only version.
LEMMA FreshWrite ==
    ASSUME TypeOK, NoStaleness, NEW new \in VMRayCluster, Write(new)
    PROVE  Len(hist') = 1 /\ Stored' = new /\ Cached' = new
  <1>1. hist \in Seq(VMRayCluster) /\ Len(hist) = 1 /\ MaxLag = 0
    BY DEF TypeOK, NoStaleness, FreshReads
  <1>2. CASE new = Stored
    BY <1>1, <1>2 DEF Write, Stored, Cached
  <1>3. CASE new # Stored
    BY <1>1, <1>3 DEF Write, Stored, Cached
  <1> QED
    BY <1>2, <1>3

\* A patch against the version that is stored turns its status into the copy.
LEMMA PatchIsCopy ==
    ASSUME TypeOK, NEW cr \in VMRayCluster, orig.head = cr.head, orig.workers = cr.workers
    PROVE  Patched(cr).head = inst.head /\ Patched(cr).workers = inst.workers
  <1>1. /\ inst.head \in VMRayNodeStatus /\ cr.head \in VMRayNodeStatus
        /\ inst.workers \in [Workers -> WorkerStatus] /\ cr.workers \in [Workers -> WorkerStatus]
    BY DEF TypeOK, VMRayCluster
  <1>2. Merge(cr.head, inst.head, cr.head) = inst.head
    BY <1>1 DEF Merge, VMRayNodeStatus
  <1>3. PatchedWorkers(cr) = inst.workers
    <2>1. CASE TrackedIn(inst.workers) = {} /\ TrackedIn(cr.workers) # {}
      BY <1>1, <2>1 DEF PatchedWorkers, MergeWorkers, TrackedIn
    <2>2. CASE ~(TrackedIn(inst.workers) = {} /\ TrackedIn(cr.workers) # {})
      <3>1. PatchedWorkers(cr) = [w \in Workers |-> MergeWorker(cr.workers[w], inst.workers[w], cr.workers[w])]
        BY <1>1, <2>2 DEF PatchedWorkers, MergeWorkers
      <3>2. ASSUME NEW was \in WorkerStatus, NEW is \in WorkerStatus
            PROVE  MergeWorker(was, is, was) = is
        <4>1. CASE is = was \/ is = Untracked
          BY <4>1 DEF MergeWorker
        <4>2. CASE is # was /\ is # Untracked
          <5>1. is \in VMRayNodeStatus /\ AsNode(is) = is /\ AsNode(was) \in VMRayNodeStatus
            BY <3>2, <4>2, AsNodeType DEF AsNode, WorkerStatus
          <5>2. Merge(AsNode(was), is, AsNode(was)) = is
            BY <5>1 DEF Merge, VMRayNodeStatus
          <5> QED
            BY <4>2, <5>1, <5>2 DEF MergeWorker
        <4> QED
          BY <4>1, <4>2
      <3> QED
        BY <1>1, <3>1, <3>2
    <2> QED
      BY <2>1, <2>2
  <1> QED
    BY <1>2, <1>3 DEF Patched, VMRayCluster

\* ProcessNodeVmState records a running ray process only beside a running VM.
LEMMA ProcessConsistent ==
    ASSUME NEW st \in VMRayNodeStatus, NEW ans, Consistent(st)
    PROVE  Consistent(ProcessNodeVmState(st, ans).status)
  BY DEF Consistent, ProcessNodeVmState, ProcessEmpty, ProcessInitialized, ProcessRunning,
         ProcessFail, Outcome, VMRayNodeStatus, VMNodeStatus, RayProcessStatus,
         EMPTY, INITIALIZED, RUNNING, FAIL, RAY_EMPTY, RAY_INITIALIZED, RAY_RUNNING, RAY_FAIL

\* A head that was only just requested does not run after one reconcile.
LEMMA NewHeadWaits ==
    ASSUME NEW ans
    PROVE  ProcessNodeVmState(NewNode, ans).status.ray # RAY_RUNNING
  BY DEF NewNode, ProcessNodeVmState, ProcessEmpty, Outcome, EMPTY, INITIALIZED, FAIL,
         RUNNING, RAY_EMPTY, RAY_RUNNING

-----------------------------------------------------------------------------
(* The invariant holds initially and is kept.                              *)

\* An object that was just submitted, or is gone, has an empty status.
LEMMA EmptyStatus ==
    ASSUME NEW d \in SUBSET Workers, NEW b \in SUBSET BadWorkers
    PROVE  /\ Submitted(d, b).head = NewNode /\ Tracked(Submitted(d, b)) = {}
           /\ Gone.head = NewNode /\ Tracked(Gone) = {} /\ ~Gone.fin
           /\ Gone.workers = [w \in Workers |-> Untracked]
           /\ Consistent(NewNode)
  BY DEF Submitted, Gone, Tracked, NewNode, Consistent, RAY_EMPTY, RAY_RUNNING

\* Two objects none of whose workers have an entry have the same entries.
LEMMA NoEntries ==
    ASSUME NEW cr \in VMRayCluster, Tracked(cr) = {}
    PROVE  cr.workers = [w \in Workers |-> Untracked]
  BY DEF VMRayCluster, Tracked

\* The initial state.
LEMMA FreshInit == FreshReads /\ Init => FreshInv
  <1> SUFFICES ASSUME FreshReads, Init PROVE FreshInv
    OBVIOUS
  <1>0. RefInv
    BY RefInvInit
  <1>1. PICK d \in SUBSET Workers, b \in SUBSET BadWorkers : hist = <<Submitted(d, b)>>
    BY DEF Init
  <1>2. Len(hist) = 1 /\ Stored = Submitted(d, b)
    BY <1>1 DEF Stored
  <1>3. Stored.life = "live" /\ Stored.head = NewNode /\ Tracked(Stored) = {}
    BY <1>2, SubmittedType, EmptyStatus
  <1>4. NoStaleness
    BY <1>2 DEF NoStaleness, Init, FreshReads
  <1>5. StatusNeedsFinalizer
    BY <1>3 DEF StatusNeedsFinalizer
  <1>6. HeadRuns
    BY <1>3, EmptyStatus DEF HeadRuns, Init
  <1>7. WorkersTracked /\ WorkersReleased
    BY <1>3 DEF WorkersTracked, WorkersReleased, Live, Init, Nodes
  <1>8. ReadIsStored /\ CopyUnchanged /\ FirstReconcile /\ CopyTracks /\ DeleteLoopCovers
    BY DEF Init, ReadIsStored, CopyUnchanged, FirstReconcile, CopyTracks, DeleteLoopCovers
  <1> QED
    BY <1>0, <1>4, <1>5, <1>6, <1>7, <1>8 DEF FreshInv

\* A step outside the controller that starts no VM and writes no object.
LEMMA FreshOutside ==
    ASSUME FreshInv, RefInv', UNCHANGED <<hist, lost, recVars>>,
           \A n \in Nodes : Live(n)' => Live(n)
    PROVE  FreshInv'
  <1> USE DEF recVars
  <1>0. Stored' = Stored /\ \A w \in Workers : Live(w)' => Live(w)
    BY DEF Stored, Nodes
  <1>1. NoStaleness' /\ StatusNeedsFinalizer' /\ ReadIsStored' /\ CopyUnchanged' /\ FirstReconcile'
    BY <1>0 DEF FreshInv, NoStaleness, FreshReads, StatusNeedsFinalizer, ReadIsStored,
       CopyUnchanged, FirstReconcile, Tracked
  <1>2. HeadRuns' /\ CopyTracks' /\ DeleteLoopCovers' /\ WorkersTracked' /\ WorkersReleased'
    BY <1>0 DEF FreshInv, HeadRuns, CopyTracks, DeleteLoopCovers, WorkersTracked,
       WorkersReleased, Tracked
  <1> QED
    BY <1>1, <1>2 DEF FreshInv

\* The end of a reconcile, when what is stored by then records every running
\* worker that is not lost.
LEMMA FreshReturn ==
    ASSUME FreshInv, RefInv', Return, UNCHANGED vms, NoStaleness', StatusNeedsFinalizer',
           Consistent(Stored'.head), WorkersReleased',
           \A w \in Workers : Live(w) => w \in Tracked(Stored') \cup lost'
    PROVE  FreshInv'
  <1>0. Consistent(Gone.head) /\ inst' = Gone /\ pc' = "idle" /\ ~locked'
    BY EmptyStatus DEF Return
  <1>1. HeadRuns' /\ ReadIsStored' /\ CopyUnchanged' /\ FirstReconcile' /\ CopyTracks' /\ DeleteLoopCovers'
    BY <1>0 DEF HeadRuns, ReadIsStored, CopyUnchanged, FirstReconcile, CopyTracks, DeleteLoopCovers
  <1>2. WorkersTracked'
    BY DEF WorkersTracked, Tracked, Live
  <1> QED
    BY <1>1, <1>2 DEF FreshInv

\* A reconcile that returns without having written the object: it has touched
\* no worker, or what it recorded is lost.
LEMMA FreshGivesUp ==
    ASSUME FreshInv, RefInv', Return, UNCHANGED <<hist, vms>>,
           (pc \notin {"workers", "patch"} /\ UNCHANGED lost) \/ Forget
    PROVE  FreshInv'
  <1>0. Stored' = Stored /\ lost \subseteq lost'
    BY DEF Stored, Forget
  <1>1. NoStaleness' /\ StatusNeedsFinalizer' /\ WorkersReleased' /\ Consistent(Stored'.head)
    BY <1>0 DEF FreshInv, NoStaleness, FreshReads, StatusNeedsFinalizer, WorkersReleased,
       HeadRuns, Live, Tracked
  <1>2. \A w \in Workers : Live(w) => w \in Tracked(Stored') \cup lost'
    BY <1>0 DEF FreshInv, WorkersTracked, Forget
  <1> QED
    BY <1>1, <1>2, FreshReturn

\* A step inside a reconcile past addFinalizerAndNounce that writes no version:
\* what has to be shown of it.
LEMMA FreshInside ==
    ASSUME FreshInv, RefInv', UNCHANGED <<hist, orig, locked>>,
           pc \notin {"idle", "finalizer"}, pc' \notin {"idle", "finalizer"},
           CopyUnchanged', FirstReconcile', HeadRuns', CopyTracks', DeleteLoopCovers',
           \A w \in Workers : Live(w)' => \/ w \in Tracked(Stored) \cup lost'
                                          \/ pc' \in {"workers", "patch"} /\ w \in Tracked(inst')
    PROVE  FreshInv'
  <1>0. Stored' = Stored
    BY DEF Stored
  <1>1. NoStaleness' /\ StatusNeedsFinalizer' /\ ReadIsStored'
    BY <1>0 DEF FreshInv, NoStaleness, FreshReads, StatusNeedsFinalizer, ReadIsStored, Tracked
  <1>2. WorkersTracked'
    BY <1>0 DEF WorkersTracked, Tracked
  <1>3. WorkersReleased'
    BY <1>0 DEF FreshInv, ReadIsStored, WorkersReleased
  <1> QED
    BY <1>1, <1>2, <1>3 DEF FreshInv

\* A reconcile begins with a copy of what is stored.
LEMMA FreshReconcile ==
    ASSUME FreshInv, RefInv', Reconcile
    PROVE  FreshInv'
  <1>0. /\ pc = "idle" /\ UNCHANGED <<hist, vms, lost, locked, budget>> /\ Cached.life # "gone"
        /\ inst' = Cached /\ orig' = Cached
        /\ pc' = IF Cached.life = "live" THEN "finalizer" ELSE "delSecrets"
    BY DEF Reconcile, stores
  <1>1. Cached = Stored /\ Stored' = Stored /\ Stored \in VMRayCluster
    BY <1>0, StoredType DEF Cached, Stored, FreshInv, NoStaleness, RefInv, IndInv
  <1>2. ~locked
    BY <1>0 DEF FreshInv, FirstReconcile
  <1>3. NoStaleness' /\ StatusNeedsFinalizer' /\ WorkersReleased' /\ FirstReconcile' /\ DeleteLoopCovers'
    BY <1>0, <1>1, <1>2 DEF FreshInv, NoStaleness, FreshReads, StatusNeedsFinalizer,
       WorkersReleased, Live, FirstReconcile, DeleteLoopCovers, Tracked
  <1>4. ReadIsStored'
    BY <1>0, <1>1 DEF ReadIsStored, FreshInv, StatusNeedsFinalizer, VMRayCluster
  <1>5. CopyUnchanged' /\ HeadRuns'
    BY <1>0, <1>1 DEF CopyUnchanged, FreshInv, HeadRuns
  <1>6. CopyTracks' /\ WorkersTracked'
    BY <1>0, <1>1 DEF FreshInv, CopyTracks, WorkersTracked, Live, Tracked
  <1> QED
    BY <1>3, <1>4, <1>5, <1>6 DEF FreshInv

\* addFinalizerAndNounce writes metadata only, or ends the reconcile.
LEMMA FreshFinalizer ==
    ASSUME FreshInv, RefInv', AddFinalizerAndNounce
    PROVE  FreshInv'
  <1>0. /\ pc = "finalizer" /\ UNCHANGED <<vms, svc, aux, lost>>
        /\ TypeOK /\ Stored \in VMRayCluster /\ NoStaleness
    BY StoredType DEF AddFinalizerAndNounce, FreshInv, RefInv, IndInv
  <1>1. inst.fin = Stored.fin /\ inst.head = orig.head /\ inst.workers = orig.workers
        /\ orig.head = Stored.head /\ orig.workers = Stored.workers /\ ~locked
    BY <1>0 DEF FreshInv, ReadIsStored, CopyUnchanged, FirstReconcile
  <1>2. CASE inst.fin /\ Goto("rootca") /\ UNCHANGED <<hist, inst, todo, budget>>
    <2>1. Stored.fin /\ Stored.life # "gone" /\ Stored' = Stored
      BY <1>0, <1>2 DEF FreshInv, RefInv, IndInv, ReadAtFinalizer, Stored
    <2>2. NoStaleness' /\ StatusNeedsFinalizer' /\ WorkersReleased' /\ FirstReconcile' /\ DeleteLoopCovers'
      BY <1>0, <1>1, <1>2, <2>1 DEF FreshInv, NoStaleness, FreshReads, StatusNeedsFinalizer,
         WorkersReleased, FirstReconcile, DeleteLoopCovers, Goto
    <2>3. ReadIsStored' /\ CopyUnchanged' /\ HeadRuns'
      BY <1>1, <1>2, <2>1 DEF FreshInv, ReadIsStored, CopyUnchanged, HeadRuns, Goto
    <2>4. CopyTracks' /\ WorkersTracked'
      BY <1>0, <1>2, <2>1 DEF FreshInv, CopyTracks, WorkersTracked, Live, Tracked, Goto
    <2> QED
      BY <2>2, <2>3, <2>4 DEF FreshInv
  <1>3. CASE /\ ~inst.fin /\ current
             /\ Write([Stored EXCEPT !.fin = TRUE])
             /\ inst' = [inst EXCEPT !.fin = TRUE]
             /\ pc' = "rootca" /\ locked' = TRUE
             /\ UNCHANGED <<orig, todo, current, budget>>
    <2> DEFINE new == [Stored EXCEPT !.fin = TRUE]
    <2>1. /\ new \in VMRayCluster /\ new.fin /\ new.life = Stored.life
          /\ new.head = Stored.head /\ new.workers = Stored.workers
      BY <1>0 DEF VMRayCluster
    <2>2. inst'.head = inst.head /\ inst'.workers = inst.workers
      BY <1>0, <1>3 DEF TypeOK, VMRayCluster
    <2>3. Len(hist') = 1 /\ Stored' = new
      BY <1>0, <1>3, <2>1, FreshWrite
    <2>4. Stored.life = "live" /\ Stored.head = NewNode
      BY <1>0, <1>1, <1>3 DEF FreshInv, RefInv, IndInv, ReadAtFinalizer, StatusNeedsFinalizer
    <2> HIDE DEF new
    <2>5. NoStaleness' /\ StatusNeedsFinalizer' /\ WorkersReleased' /\ FirstReconcile' /\ DeleteLoopCovers'
      BY <1>0, <1>1, <1>3, <2>1, <2>2, <2>3, <2>4 DEF NoStaleness, FreshReads, StatusNeedsFinalizer,
         WorkersReleased, FirstReconcile, DeleteLoopCovers
    <2>6. ReadIsStored' /\ CopyUnchanged' /\ HeadRuns'
      BY <1>1, <1>3, <2>1, <2>2, <2>3, <2>4 DEF FreshInv, ReadIsStored, CopyUnchanged, HeadRuns
    <2>7. CopyTracks' /\ WorkersTracked'
      BY <1>0, <1>3, <2>1, <2>2, <2>3 DEF FreshInv, CopyTracks, WorkersTracked, Live, Tracked
    <2> QED
      BY <2>5, <2>6, <2>7 DEF FreshInv
  <1>4. CASE Return /\ UNCHANGED hist
    BY <1>0, <1>4, FreshGivesUp
  <1> QED
    BY <1>2, <1>3, <1>4 DEF AddFinalizerAndNounce

\* The steps before the workers: nothing happens to a worker, and the workers
\* are only reached when the head runs.
LEMMA FreshHead ==
    ASSUME FreshInv, RefInv',
           CreateVMRayClusterRootSecret \/ ValidateAuxiliaryDependencies
             \/ DeployVmService \/ DeployHead \/ FetchHead
    PROVE  FreshInv'
  <1> USE DEF stores
  <1>0. TypeOK
    BY DEF FreshInv, RefInv, IndInv
  <1>1. UNCHANGED <<hist, lost>>
    BY DEF CreateVMRayClusterRootSecret, ValidateAuxiliaryDependencies,
       DeployVmService, DeployHead, FetchHead
  <1>2. CASE Return /\ pc = "rootca" /\ UNCHANGED vms
    BY <1>1, <1>2, FreshGivesUp
  <1>3. CASE /\ pc \in {"rootca", "validate"}
             /\ pc' \in {"validate", "head", "patch"}
             /\ UNCHANGED <<vms, inst, orig, locked>>
    <2>1. CopyUnchanged' /\ FirstReconcile' /\ HeadRuns' /\ CopyTracks' /\ DeleteLoopCovers'
      BY <1>1, <1>3 DEF FreshInv, CopyUnchanged, FirstReconcile, HeadRuns, CopyTracks,
         DeleteLoopCovers, Live, Tracked, Stored
    <2>2. \A w \in Workers : Live(w)' => w \in Tracked(Stored) \cup lost'
      BY <1>1, <1>3 DEF FreshInv, WorkersTracked, Live
    <2> QED
      BY <1>1, <1>3, <2>1, <2>2, FreshInside
  <1>4. CASE DeployVmService \/ DeployHead \/ FetchHead
    <2>1. PICK ans : AfterHead(ProcessNodeVmState(inst.head, ans))
      BY <1>4 DEF DeployVmService, DeployHead, FetchHead
    <2> DEFINE out == ProcessNodeVmState(inst.head, ans)
    <2>2. pc = "head" /\ inst.head \in VMRayNodeStatus /\ Consistent(inst.head)
      BY <1>0, <1>4 DEF DeployVmService, DeployHead, FetchHead, TypeOK, VMRayCluster, FreshInv, HeadRuns
    <2>3. out.status \in VMRayNodeStatus /\ Consistent(out.status)
      BY <2>2, ProcessType, ProcessConsistent
    <2>4. locked => out.status.ray # RAY_RUNNING
      BY <2>2, NewHeadWaits DEF FreshInv, FirstReconcile
    <2> HIDE DEF out
    <2>5. AfterHead(out)
      BY <2>1 DEF out
    <2>6. /\ inst'.head = out.status /\ inst'.workers = inst.workers
          /\ UNCHANGED <<orig, locked>> /\ pc' \in {"patch", "prune"}
          /\ pc' = "prune" => out.status.ray = RAY_RUNNING
      BY <1>0, <2>5 DEF AfterHead, Goto, TypeOK, VMRayCluster
    <2>7. HeadRuns'
      <3>1. pc' = "prune" => inst'.head = [vm |-> RUNNING, ray |-> RAY_RUNNING]
        BY <2>3, <2>6 DEF VMRayNodeStatus, Consistent
      <3>2. Consistent(Stored'.head)
        BY <1>1 DEF FreshInv, HeadRuns, Stored
      <3> QED
        BY <2>3, <2>6, <3>1, <3>2 DEF HeadRuns
    <2>8. CopyUnchanged' /\ FirstReconcile' /\ DeleteLoopCovers'
      BY <2>2, <2>4, <2>6 DEF FreshInv, CopyUnchanged, FirstReconcile, DeleteLoopCovers
    <2>9. \A w \in Workers : Live(w)' <=> Live(w)
      BY <1>0, <1>4, ConstantsAssumption
         DEF DeployVmService, DeployHead, FetchHead, CreateVm, Live, TypeOK, Nodes
    <2>10. CopyTracks'
      BY <1>1, <2>2, <2>6, <2>9 DEF FreshInv, CopyTracks, Tracked
    <2>11. \A w \in Workers : Live(w)' => w \in Tracked(Stored) \cup lost'
      BY <1>1, <2>2, <2>9 DEF FreshInv, WorkersTracked
    <2> QED
      BY <1>1, <2>2, <2>6, <2>7, <2>8, <2>10, <2>11, FreshInside
  <1>5. CASE CreateVMRayClusterRootSecret
    BY <1>2, <1>3, <1>5 DEF CreateVMRayClusterRootSecret, Goto
  <1>6. CASE ValidateAuxiliaryDependencies
    BY <1>3, <1>6 DEF ValidateAuxiliaryDependencies, Goto
  <1> QED
    BY <1>4, <1>5, <1>6

\* A turn of deleteNodes: an entry is dropped only after its VM was deleted or
\* found missing from the cache.
LEMMA DeleteNodeTracks ==
    ASSUME TypeOK, NEW w \in Workers, DeleteNode(w)
    PROVE  /\ inst'.head = inst.head
           /\ \A m \in Workers : Live(m)' => Live(m)
           /\ \A m \in Workers : Live(m)' /\ m \in Tracked(inst) => m \in Tracked(inst') \cup lost'
           /\ \A m \in Workers : Live(m)' /\ m \in lost => m \in lost'
           /\ pc' = "patch" \/ (UNCHANGED pc /\ Tracked(inst') = Tracked(inst) \ {w} /\ todo' = todo \ {w})
  <1>0. inst.workers \in [Workers -> WorkerStatus] /\ inst \in VMRayCluster /\ w \in Nodes
    BY DEF TypeOK, VMRayCluster, Nodes
  <1>1. (DeleteVm(w) \/ UNCHANGED vms)
    BY DEF DeleteNode
  <1>2. /\ \A m \in Workers : Live(m)' => Live(m)
        /\ DeleteVm(w) => ~Live(w)' \/ w \in unseen
    BY <1>0, <1>1, DeletionShrinks DEF Nodes
  <1>3. CASE DeleteVm(w) /\ Overlook({w}) /\ inst' = [inst EXCEPT !.workers[w] = Untracked]
             /\ todo' = todo \ {w} /\ UNCHANGED <<pc, budget>>
    <2>1. inst'.head = inst.head /\ inst'.workers = [inst.workers EXCEPT ![w] = Untracked]
      BY <1>0, <1>3 DEF VMRayCluster
    <2>2. Tracked(inst') = Tracked(inst) \ {w}
      BY <1>0, <2>1 DEF Tracked
    <2> QED
      BY <1>2, <1>3, <2>1, <2>2 DEF Overlook
  <1>4. CASE todo' = {} /\ pc' = "patch" /\ UNCHANGED <<lost, inst>>
    BY <1>2, <1>4 DEF Tracked
  <1> QED
    BY <1>3, <1>4 DEF DeleteNode

\* deleteUndesiredWorkers.
LEMMA FreshPrune ==
    ASSUME FreshInv, RefInv', DeleteUndesiredWorker
    PROVE  FreshInv'
  <1>0. /\ TypeOK /\ pc = "prune" /\ UNCHANGED <<hist, orig, locked>> /\ ~locked
        /\ \A w \in todo : w \in Workers
    BY DEF DeleteUndesiredWorker, FreshInv, RefInv, IndInv, FirstReconcile, TypeOK
  <1>1. Consistent(Stored'.head) /\ Consistent(inst.head)
        /\ inst.head = [vm |-> RUNNING, ray |-> RAY_RUNNING]
    BY <1>0 DEF FreshInv, HeadRuns, Stored
  <1>2. ASSUME NEW w \in todo, DeleteNode(w)
        PROVE  FreshInv'
    <2>1. w \in Workers
      BY <1>0, <1>2
    <2>2. /\ inst'.head = inst.head /\ pc' \in {"prune", "patch"}
          /\ \A m \in Workers : Live(m)' => Live(m)
          /\ \A m \in Workers : Live(m)' /\ m \in Tracked(inst) => m \in Tracked(inst') \cup lost'
          /\ \A m \in Workers : Live(m)' /\ m \in lost => m \in lost'
      BY <1>0, <1>2, <2>1, DeleteNodeTracks
    <2>3. CopyUnchanged' /\ FirstReconcile' /\ HeadRuns' /\ DeleteLoopCovers'
      BY <1>0, <1>1, <2>2 DEF CopyUnchanged, FirstReconcile, HeadRuns, DeleteLoopCovers
    <2>4. CopyTracks'
      BY <1>0, <2>2 DEF FreshInv, CopyTracks, Tracked
    <2>5. \A m \in Workers : Live(m)' => m \in Tracked(Stored) \cup lost'
      BY <1>0, <2>2 DEF FreshInv, WorkersTracked
    <2> QED
      BY <1>0, <2>2, <2>3, <2>4, <2>5, FreshInside
  <1>3. CASE pc' = "workers" /\ UNCHANGED <<vms, lost, inst, budget>>
    <2>1. CopyUnchanged' /\ FirstReconcile' /\ HeadRuns' /\ DeleteLoopCovers'
      BY <1>0, <1>1, <1>3 DEF CopyUnchanged, FirstReconcile, HeadRuns, DeleteLoopCovers
    <2>2. CopyTracks'
      BY <1>0, <1>3 DEF FreshInv, CopyTracks, Tracked, Live
    <2>3. \A m \in Workers : Live(m)' => m \in Tracked(Stored) \cup lost'
      BY <1>0, <1>3 DEF FreshInv, WorkersTracked, Live
    <2> QED
      BY <1>0, <1>3, <2>1, <2>2, <2>3, FreshInside
  <1> QED
    BY <1>2, <1>3 DEF DeleteUndesiredWorker

\* reconcileDesiredWorkers: a VM is created in the step that gives its worker
\* an entry in the copy.
LEMMA FreshWorkers ==
    ASSUME FreshInv, RefInv', ReconcileDesiredWorker
    PROVE  FreshInv'
  <1>0. /\ TypeOK /\ pc = "workers" /\ UNCHANGED hist /\ ~locked
        /\ \A w \in todo : w \in Workers /\ w \in Nodes
    BY DEF ReconcileDesiredWorker, FreshInv, RefInv, IndInv, FirstReconcile, TypeOK, Nodes
  <1>1. Consistent(Stored'.head) /\ Consistent(inst.head)
        /\ inst.head = [vm |-> RUNNING, ray |-> RAY_RUNNING]
    BY <1>0 DEF FreshInv, HeadRuns, Stored
  <1>2. ASSUME NEW w \in todo, DeployWorker(w) \/ FetchWorker(w), lost' = lost \ {w}
        PROVE  FreshInv'
    <2>0. w \in Workers /\ WorkerNode(w) \in VMRayNodeStatus
      BY <1>0, <1>2, AsNodeType DEF WorkerNode, TypeOK, VMRayCluster
    <2>1. PICK ans : AfterWorker(w, ProcessNodeVmState(WorkerNode(w), ans))
      BY <1>2 DEF DeployWorker, FetchWorker
    <2> DEFINE out == ProcessNodeVmState(WorkerNode(w), ans)
    <2>2. out.status \in VMRayNodeStatus /\ out.status # Untracked
      BY <2>0, ProcessType, UntrackedIsNoNode
    <2> HIDE DEF out
    <2>3. AfterWorker(w, out)
      BY <2>1 DEF out
    <2>4. /\ inst'.head = inst.head /\ inst'.workers = [inst.workers EXCEPT ![w] = out.status]
          /\ UNCHANGED <<orig, locked>> /\ pc' \in {"patch", "workers"}
      BY <1>0, <2>3 DEF AfterWorker, Goto, TypeOK, VMRayCluster
    <2>5. Tracked(inst') = Tracked(inst) \cup {w}
      BY <1>0, <2>0, <2>2, <2>4 DEF Tracked, TypeOK, VMRayCluster
    <2>6. \A m \in Workers : Live(m)' => Live(m) \/ m = w
      BY <1>0, <1>2 DEF DeployWorker, FetchWorker, CreateVm, Live, TypeOK, Nodes
    <2>7. CopyUnchanged' /\ FirstReconcile' /\ HeadRuns' /\ DeleteLoopCovers'
      BY <1>0, <1>1, <2>4 DEF CopyUnchanged, FirstReconcile, HeadRuns, DeleteLoopCovers
    <2>8. \A m \in Workers : Live(m)' => m \in Tracked(inst') \cup lost'
      BY <1>0, <1>2, <2>5, <2>6 DEF FreshInv, CopyTracks
    <2>9. CopyTracks'
      BY <2>8 DEF CopyTracks, Tracked
    <2> QED
      BY <1>0, <2>4, <2>7, <2>8, <2>9, FreshInside
  <1>3. CASE Goto("patch") /\ UNCHANGED <<vms, lost, inst, todo, budget>>
    <2>1. pc' = "patch" /\ UNCHANGED <<vms, lost, inst, orig, locked, budget>>
      BY <1>3 DEF Goto
    <2>2. CopyUnchanged' /\ FirstReconcile' /\ HeadRuns' /\ DeleteLoopCovers'
      BY <1>0, <1>1, <2>1 DEF CopyUnchanged, FirstReconcile, HeadRuns, DeleteLoopCovers
    <2>3. \A m \in Workers : Live(m)' => m \in Tracked(inst') \cup lost'
      BY <1>0, <2>1 DEF FreshInv, CopyTracks, Live
    <2>4. CopyTracks'
      BY <2>3 DEF CopyTracks, Tracked
    <2> QED
      BY <1>0, <2>1, <2>2, <2>3, <2>4, FreshInside
  <1> QED
    BY <1>2, <1>3 DEF ReconcileDesiredWorker

\* updateStatus stores the copy, or was of the reconcile that only got as far
\* as adding the finalizer.
LEMMA FreshUpdateStatus ==
    ASSUME FreshInv, RefInv', UpdateStatus
    PROVE  FreshInv'
  <1>0. /\ TypeOK /\ pc = "patch" /\ Return /\ UNCHANGED vms /\ Stored \in VMRayCluster
        /\ Stored.fin /\ Stored.life # "gone" /\ NoStaleness
        /\ orig.head = Stored.head /\ orig.workers = Stored.workers
    BY StoredType DEF UpdateStatus, FreshInv, RefInv, IndInv, ReadIsStored
  <1>1. \A w \in Workers : Live(w) => w \in Tracked(inst) \cup lost
    BY <1>0 DEF FreshInv, CopyTracks
  <1>2. CASE Write(Patched(Stored)) /\ UNCHANGED lost
    <2>1. /\ Patched(Stored) \in VMRayCluster
          /\ Patched(Stored).life = Stored.life /\ Patched(Stored).fin = Stored.fin
          /\ Patched(Stored).head = inst.head /\ Patched(Stored).workers = inst.workers
      BY <1>0, PatchedType, PatchIsCopy
    <2>2. Len(hist') = 1 /\ Stored' = Patched(Stored)
      BY <1>0, <1>2, <2>1, FreshWrite
    <2>3. NoStaleness' /\ StatusNeedsFinalizer' /\ WorkersReleased'
      BY <1>0, <1>2, <2>1, <2>2 DEF NoStaleness, FreshReads, StatusNeedsFinalizer, WorkersReleased
    <2>4. Consistent(Stored'.head)
      BY <2>1, <2>2 DEF FreshInv, HeadRuns
    <2>5. \A w \in Workers : Live(w) => w \in Tracked(Stored') \cup lost'
      BY <1>1, <1>2, <2>1, <2>2 DEF Tracked
    <2> QED
      BY <1>0, <2>3, <2>4, <2>5, FreshReturn
  <1>3. CASE locked /\ ~current /\ UNCHANGED <<hist, lost>>
    <2>1. Stored' = Stored /\ inst.workers = Stored.workers
      BY <1>0, <1>3 DEF FreshInv, FirstReconcile, Stored
    <2>2. NoStaleness' /\ StatusNeedsFinalizer' /\ WorkersReleased'
      BY <1>0, <1>3, <2>1 DEF NoStaleness, FreshReads, StatusNeedsFinalizer, WorkersReleased
    <2>3. Consistent(Stored'.head)
      BY <2>1 DEF FreshInv, HeadRuns
    <2>4. \A w \in Workers : Live(w) => w \in Tracked(Stored') \cup lost'
      BY <1>1, <1>3, <2>1 DEF Tracked
    <2> QED
      BY <1>0, <2>2, <2>3, <2>4, FreshReturn
  <1>4. CASE Forget /\ UNCHANGED hist
    BY <1>0, <1>4, FreshGivesUp
  <1> QED
    BY <1>0, <1>2, <1>3, <1>4 DEF UpdateStatus

\* The delete loop up to the workers.
LEMMA FreshDelete ==
    ASSUME FreshInv, RefInv', DeleteAllCloudInitSecret \/ DeleteServiceAccountAndRole \/ DeleteHead
    PROVE  FreshInv'
  <1>0. /\ TypeOK /\ UNCHANGED <<hist, inst, orig, locked>> /\ HeadNode \in Nodes
        /\ pc \in {"delSecrets", "delSa", "delHead"} /\ pc' \in {"delSa", "delHead", "delWorkers", "patch"}
        /\ pc' = "delWorkers" => todo' = Tracked(inst)
    BY DEF DeleteAllCloudInitSecret, DeleteServiceAccountAndRole, DeleteHead, Goto,
           FreshInv, RefInv, IndInv, Nodes
  <1>1. \A w \in Workers : Live(w)' /\ w \notin lost' => Live(w) /\ w \notin lost
    BY <1>0, DeletersShrink DEF NoGrowth, Nodes
  <1>2. CopyUnchanged' /\ FirstReconcile'
    BY <1>0 DEF FreshInv, CopyUnchanged, FirstReconcile
  <1>3. HeadRuns' /\ DeleteLoopCovers'
    BY <1>0 DEF FreshInv, HeadRuns, Stored, DeleteLoopCovers, Tracked
  <1>4. CopyTracks'
    BY <1>0, <1>1 DEF FreshInv, CopyTracks, Tracked
  <1>5. \A w \in Workers : Live(w)' => w \in Tracked(Stored) \cup lost'
    BY <1>0, <1>1 DEF FreshInv, WorkersTracked
  <1> QED
    BY <1>0, <1>2, <1>3, <1>4, <1>5, FreshInside

\* The delete loop over the workers.
LEMMA FreshDeleteWorkers ==
    ASSUME FreshInv, RefInv', DeleteAnyWorker
    PROVE  FreshInv'
  <1>0. /\ TypeOK /\ pc = "delWorkers" /\ UNCHANGED <<hist, orig, locked>> /\ ~locked
        /\ Tracked(inst) \subseteq todo
        /\ \A w \in todo : w \in Workers
    BY DEF DeleteAnyWorker, FreshInv, RefInv, IndInv, FirstReconcile, DeleteLoopCovers, TypeOK
  <1>1. Consistent(Stored'.head) /\ Consistent(inst.head)
    BY <1>0 DEF FreshInv, HeadRuns, Stored
  <1>2. ASSUME NEW w \in todo, DeleteNode(w)
        PROVE  FreshInv'
    <2>1. w \in Workers
      BY <1>0, <1>2
    <2>2. /\ inst'.head = inst.head /\ pc' \in {"delWorkers", "patch"}
          /\ \A m \in Workers : Live(m)' => Live(m)
          /\ \A m \in Workers : Live(m)' /\ m \in Tracked(inst) => m \in Tracked(inst') \cup lost'
          /\ \A m \in Workers : Live(m)' /\ m \in lost => m \in lost'
          /\ pc' = "patch" \/ (Tracked(inst') = Tracked(inst) \ {w} /\ todo' = todo \ {w})
      BY <1>0, <1>2, <2>1, DeleteNodeTracks
    <2>3. CopyUnchanged' /\ FirstReconcile' /\ HeadRuns'
      BY <1>0, <1>1, <2>2 DEF CopyUnchanged, FirstReconcile, HeadRuns
    <2>4. DeleteLoopCovers'
      <3>1. pc' = "delWorkers" => Tracked(inst') \subseteq todo'
        BY <1>0, <2>2
      <3> QED
        BY <2>2, <3>1 DEF DeleteLoopCovers, Tracked
    <2>5. CopyTracks'
      BY <1>0, <2>2 DEF FreshInv, CopyTracks, Tracked
    <2>6. \A m \in Workers : Live(m)' => m \in Tracked(Stored) \cup lost'
      BY <1>0, <2>2 DEF FreshInv, WorkersTracked
    <2> QED
      BY <1>0, <2>2, <2>3, <2>4, <2>5, <2>6, FreshInside
  <1>3. CASE todo = {} /\ pc' = "unfinalize" /\ UNCHANGED <<vms, lost, inst, todo, budget>>
    <2>1. CopyUnchanged' /\ FirstReconcile' /\ HeadRuns' /\ DeleteLoopCovers'
      BY <1>0, <1>1, <1>3 DEF CopyUnchanged, FirstReconcile, HeadRuns, DeleteLoopCovers, Tracked
    <2>2. CopyTracks'
      BY <1>0, <1>3 DEF FreshInv, CopyTracks, Tracked, Live
    <2>3. \A m \in Workers : Live(m)' => m \in Tracked(Stored) \cup lost'
      BY <1>0, <1>3 DEF FreshInv, WorkersTracked, Live
    <2> QED
      BY <1>0, <1>3, <2>1, <2>2, <2>3, FreshInside
  <1> QED
    BY <1>2, <1>3 DEF DeleteAnyWorker

\* The object goes, and nothing is recorded by then, so nothing runs that is
\* not lost.
LEMMA FreshRemoveFinalizer ==
    ASSUME FreshInv, RefInv', RemoveFinalizer
    PROVE  FreshInv'
  <1>0. TypeOK /\ NoStaleness /\ pc = "unfinalize" /\ Return /\ UNCHANGED <<vms, lost>>
    BY DEF RemoveFinalizer, FreshInv, RefInv, IndInv
  <1>1. CASE UNCHANGED hist
    BY <1>0, <1>1, FreshGivesUp
  <1>2. CASE Write(Gone)
    <2>1. Len(hist') = 1 /\ Stored' = Gone
      BY <1>0, <1>2, GoneType, FreshWrite
    <2>2. \A w \in Workers : Live(w) => w \in lost'
      BY <1>0 DEF FreshInv, CopyTracks, DeleteLoopCovers
    <2>3. NoStaleness'
      BY <1>0, <2>1 DEF NoStaleness, FreshReads
    <2>4. StatusNeedsFinalizer'
      BY <2>1, GoneType, EmptyStatus DEF StatusNeedsFinalizer, Tracked
    <2>5. Consistent(Stored'.head)
      BY <2>1, EmptyStatus
    <2>6. WorkersReleased'
      BY <1>0, <2>2 DEF WorkersReleased, Live
    <2> QED
      BY <1>0, <2>2, <2>3, <2>4, <2>5, <2>6, FreshReturn
  <1> QED
    BY <1>1, <1>2 DEF RemoveFinalizer

\* A write by somebody else leaves the status alone.
LEMMA FreshOthersWrite ==
    ASSUME FreshInv, RefInv',
           NEW new \in VMRayCluster, OthersWrite(new),
           new.head = Stored.head, new.workers = Stored.workers, new.fin = Stored.fin,
           new.life = "deleting" => new.fin,
           new.life = "gone" => ~Stored.fin /\ \A w \in Workers : ~Live(w)
    PROVE  FreshInv'
  <1>0. TypeOK /\ NoStaleness /\ UNCHANGED <<vms, lost, pc, inst, orig, todo, locked>> /\ Write(new)
    BY DEF FreshInv, RefInv, IndInv, OthersWrite
  <1>1. Len(hist') = 1 /\ Stored' = new
    BY <1>0, FreshWrite
  <1>2. Tracked(new) = Tracked(Stored) /\ \A w \in Workers : Live(w)' <=> Live(w)
    BY <1>0 DEF Tracked, Live
  <1>3. NoStaleness' /\ StatusNeedsFinalizer'
    BY <1>0, <1>1, <1>2 DEF FreshInv, NoStaleness, FreshReads, StatusNeedsFinalizer, Tracked
  <1>4. ReadIsStored' /\ CopyUnchanged' /\ FirstReconcile' /\ HeadRuns'
    BY <1>0, <1>1 DEF FreshInv, ReadIsStored, CopyUnchanged, FirstReconcile, HeadRuns
  <1>5. CopyTracks' /\ DeleteLoopCovers' /\ WorkersTracked' /\ WorkersReleased'
    BY <1>0, <1>1, <1>2 DEF FreshInv, CopyTracks, DeleteLoopCovers, WorkersTracked,
       WorkersReleased, Tracked
  <1> QED
    BY <1>3, <1>4, <1>5 DEF FreshInv

\* Users, the autoscaler, the VM operator and the cache.
LEMMA FreshOther ==
    ASSUME FreshInv, RefInv', Informers \/ VmOperator \/ Environment
    PROVE  FreshInv'
  <1> USE DEF stores, recVars
  <1>0. TypeOK /\ NoStaleness /\ Stored \in VMRayCluster
    BY StoredType DEF FreshInv, RefInv, IndInv
  <1>1. CASE Sync
    BY <1>0, <1>1 DEF Sync, NoStaleness
  <1>2. CASE AutoscalerPatch
    <2>1. PICK d \in SUBSET Workers : OthersWrite([Stored EXCEPT !.desired = d])
      BY <1>2 DEF AutoscalerPatch
    <2> DEFINE new == [Stored EXCEPT !.desired = d]
    <2>2. /\ new \in VMRayCluster /\ new.fin = Stored.fin /\ new.life = Stored.life
          /\ new.head = Stored.head /\ new.workers = Stored.workers
      BY <1>0 DEF VMRayCluster
    <2>3. Stored.life # "gone" /\ (Stored.life = "deleting" => Stored.fin)
      BY <1>2 DEF AutoscalerPatch, FreshInv, StatusNeedsFinalizer
    <2>4. OthersWrite(new)
      BY <2>1
    <2> HIDE DEF new
    <2> QED
      BY <2>2, <2>3, <2>4, FreshOthersWrite
  <1>3. CASE UserDelete
    <2>0. Stored.life = "live" /\ UNCHANGED budget
      BY <1>3 DEF UserDelete
    <2>1. CASE Stored.fin
      <3> DEFINE new == [Stored EXCEPT !.life = "deleting"]
      <3>1. /\ new \in VMRayCluster /\ new.fin = Stored.fin /\ new.life = "deleting"
            /\ new.head = Stored.head /\ new.workers = Stored.workers
        BY <1>0 DEF VMRayCluster
      <3>2. OthersWrite(new)
        BY <1>3, <2>1 DEF UserDelete
      <3> HIDE DEF new
      <3> QED
        BY <2>0, <2>1, <3>1, <3>2, FreshOthersWrite
    <2>2. CASE ~Stored.fin
      <3>1. OthersWrite(Gone)
        BY <1>3, <2>2 DEF UserDelete
      <3>2. \A w \in Workers : ~Live(w)
        BY <2>0, <2>2 DEF FreshInv, RefInv, IndInv, FinalizerFirst, Nodes, Live
      <3>3. Gone.head = Stored.head /\ Gone.workers = Stored.workers /\ Gone.fin = Stored.fin
        <4>1. Stored.head = NewNode /\ Tracked(Stored) = {}
          BY <2>2 DEF FreshInv, StatusNeedsFinalizer
        <4>2. Stored.fin = FALSE /\ Gone.fin = FALSE
          BY <1>0, <2>2, GoneType, EmptyStatus DEF VMRayCluster
        <4> QED
          BY <1>0, <4>1, <4>2, NoEntries, EmptyStatus
      <3> QED
        BY <2>0, <2>2, <3>1, <3>2, <3>3, GoneType, FreshOthersWrite
    <2> QED
      BY <2>1, <2>2
  <1>4. CASE AutoscalerTls \/ SvcReady
    BY <1>4, FreshOutside DEF AutoscalerTls, SvcReady, Live
  <1>5. CASE Crash
    BY <1>5, FreshGivesUp DEF Crash
  <1>6. ASSUME NEW n \in Nodes, VmOutage(n) \/ VmBoot(n) \/ VmGone(n)
        PROVE  FreshInv'
    <2>1. \A m \in Nodes : Live(m)' => Live(m)
      BY <1>0, <1>6 DEF VmOutage, VmBoot, VmGone, Live, TypeOK
    <2> QED
      BY <1>6, <2>1, FreshOutside DEF VmOutage, VmBoot, VmGone
  <1>7. ASSUME NEW r \in Late, Show(r)
        PROVE  FreshInv'
    BY <1>7, FreshOutside DEF Show, Live
  <1> QED
    BY <1>1, <1>2, <1>3, <1>4, <1>5, <1>6, <1>7 DEF Informers, VmOperator, Environment

\* Every step keeps the invariant.
LEMMA FreshNext == FreshInv /\ [Next]_vars => FreshInv'
  <1> SUFFICES ASSUME FreshInv, [Next]_vars PROVE FreshInv'
    OBVIOUS
  <1>0. RefInv'
    BY RefInvNext DEF FreshInv
  <1>1. CASE UNCHANGED vars
    BY <1>0, <1>1, FreshOutside DEF vars, recVars, Live
  <1>2. CASE ReconcileStep
    BY <1>0, <1>2, FreshReconcile, FreshFinalizer, FreshHead, FreshPrune, FreshWorkers,
       FreshUpdateStatus, FreshDelete, FreshDeleteWorkers, FreshRemoveFinalizer DEF ReconcileStep
  <1>3. CASE Informers \/ VmOperator \/ Environment
    BY <1>0, <1>3, FreshOther
  <1> QED
    BY <1>1, <1>2, <1>3 DEF Next

-----------------------------------------------------------------------------
(* The theorems.                                                           *)

\* The invariant the theorems about workers follow from.
THEOREM FreshInvariance == FreshReads /\ Spec => []FreshInv
  BY FreshInit, FreshNext, PTL DEF Spec

\* When the object is read fresh every running worker VM has an entry in the
\* stored status or in the one about to be stored, at every step of every
\* handler and whatever crashes or fails.  Excepted are the workers that were not
\* in the cache when they were to be deleted and those whose status was lost.
THEOREM WorkersStayTracked == FreshReads /\ Spec => []WorkersTracked
  <1>1. FreshInv => WorkersTracked
    BY DEF FreshInv
  <1> QED
    BY <1>1, FreshInvariance, PTL

\* When the object is read fresh VMRayClusterDelete leaves no worker VM running
\* that the operator has not lost sight of.
THEOREM WorkersAreReleased == FreshReads /\ Spec => []WorkersReleased
  <1>1. FreshInv => WorkersReleased
    BY DEF FreshInv
  <1> QED
    BY <1>1, FreshInvariance, PTL

\* When the object is read fresh no worker VM is created by a reconcile that
\* did not find the head's VM and its ray process running.
THEOREM WorkersFollowHead == FreshReads /\ Spec => WorkersAfterHead
  <1> DEFINE HeadFirst == \A w \in Workers : vms[w] = "absent" /\ vms'[w] # "absent"
                             => inst.head = [vm |-> RUNNING, ray |-> RAY_RUNNING]
  <1>1. FreshInv /\ [Next]_vars => [HeadFirst]_vars
    <2> SUFFICES ASSUME FreshInv, Next, NEW w \in Workers, vms[w] = "absent", vms'[w] # "absent"
                 PROVE  inst.head = [vm |-> RUNNING, ray |-> RAY_RUNNING]
      OBVIOUS
    <2>0. TypeOK /\ w # HeadNode /\ w \in Nodes /\ HeadNode \in Nodes
          /\ \A m \in todo : m \in Nodes
      BY ConstantsAssumption DEF FreshInv, RefInv, IndInv, TypeOK, Nodes
    <2> USE DEF recVars, stores
    <2>1. CASE pc = "workers"
      BY <2>1 DEF FreshInv, HeadRuns
    <2>2. CASE ReconcileStep /\ pc # "workers"
      <3>1. UNCHANGED vms \/ CreateVm(HeadNode) \/ \E n \in Nodes : DeleteVm(n)
        BY <2>0, <2>2 DEF ReconcileStep, Reconcile,
           AddFinalizerAndNounce, CreateVMRayClusterRootSecret, ValidateAuxiliaryDependencies,
           DeployVmService, DeployHead, FetchHead, DeleteUndesiredWorker,
           ReconcileDesiredWorker, UpdateStatus, DeleteAllCloudInitSecret,
           DeleteServiceAccountAndRole, DeleteHead, DeleteAnyWorker, DeleteNode,
           RemoveFinalizer
      <3> QED
        BY <2>0, <3>1, DeletionShrinks DEF CreateVm, TypeOK
    <2>3. CASE Informers \/ Crash \/ AutoscalerPatch \/ UserDelete \/ AutoscalerTls \/ SvcReady
      BY <2>3 DEF Informers, Sync, Show, Crash, AutoscalerPatch, UserDelete, AutoscalerTls, SvcReady, OthersWrite
    <2>4. ASSUME NEW m \in Nodes, VmOutage(m) \/ VmBoot(m) \/ VmGone(m)
          PROVE  FALSE
      BY <2>0, <2>4 DEF VmOutage, VmBoot, VmGone, Live, TypeOK
    <2> QED
      BY <2>1, <2>2, <2>3, <2>4 DEF Next, VmOperator, Environment
  <1> QED
    BY <1>1, FreshInvariance, PTL DEF Spec, WorkersAfterHead

-----------------------------------------------------------------------------
(* The whole contract.                                                     *)

\* What the contract calls owned.
AllOwned == (HeadOwned \cup {w \in Workers : Live(w)}) \ lost

\* A cluster that was just submitted owns nothing and is served.
LEMMA FullContractInit == Init => Contract!Init
  <1> SUFFICES ASSUME Init PROVE Contract!Init
    OBVIOUS
  <1>1. Phase = "serving" /\ HeadOwned \ lost = {}
    BY ContractInit DEF HeadContract!Init
  <1>2. \A w \in Workers : ~Live(w)
    BY DEF Init, Live, Nodes
  <1> QED
    BY <1>1, <1>2 DEF Contract!Init

\* A step of each kind is a step of the contract or none of its business.
LEMMA ContractStep ==
    ASSUME FreshInv, FreshInv', StepKind
    PROVE  [Contract!Next]_(Contract!vars)
  <1>0. /\ TypeOK /\ TypeOK' /\ HeadNode \in Nodes /\ \A w \in Workers : w \in Nodes
    BY DEF FreshInv, RefInv, IndInv, Nodes
  <1>1. /\ AllOwned \subseteq HeadResources \cup Workers
        /\ AllOwned' \subseteq HeadResources \cup Workers
    BY <1>0 DEF TypeOK, AllOwned, HeadOwned, HeadResources
  <1>2. CASE SameOwned /\ PhaseForward
    <2>1. AllOwned' = AllOwned /\ AllOwned' \in SUBSET AllOwned
      BY <1>0, <1>2 DEF SameOwned, AllOwned, HeadOwned
    <2>2. Phase' = "gone" => AllOwned' = {}
      <3>1. Phase' = "gone" => Stored'.life = "gone"
        BY DEF Phase
      <3> QED
        BY <3>1 DEF FreshInv, RefInv, IndInv, HeadReleased, WorkersReleased, AllOwned
    <2> QED
      BY <1>2, <2>1, <2>2 DEF PhaseForward, AllOwned, Contract!vars, Contract!Next,
         Contract!BeginTeardown, Contract!Vanish
  <1>3. CASE Shrinks
    <2>1. AllOwned' \in SUBSET AllOwned
      BY <1>0, <1>3 DEF Shrinks, AllOwned, HeadOwned
    <2> QED
      BY <1>3, <2>1 DEF Shrinks, AllOwned, Contract!Next, Contract!Release,
         Contract!BeginTeardown
  <1>4. CASE Grows
    <2>1. AllOwned \subseteq AllOwned'
      BY <1>0, <1>4 DEF Grows, AllOwned, HeadOwned
    <2> QED
      BY <1>1, <1>4, <2>1 DEF Grows, AllOwned, Contract!Next, Contract!Acquire
  <1> QED
    BY <1>2, <1>3, <1>4 DEF StepKind

\* When the object is read fresh the controller implements the whole contract:
\* VMs of the head and of workers, service, secrets and account are created
\* only while the cluster is served, and the object goes only after all of them
\* that the operator has not lost sight of.
THEOREM ContractImplemented == FreshReads /\ Spec => ContractHolds
  <1>1. FreshInv /\ FreshInv' /\ [Next]_vars => [Contract!Next]_(Contract!vars)
    BY NextKind, ContractStep DEF FreshInv
  <1> QED
    BY <1>1, FreshInvariance, FullContractInit, PTL DEF Spec, ContractHolds, Contract!Spec
=============================================================================

--------------------------- MODULE NodeLcmProofs ---------------------------
(***************************************************************************)
(* Facts about ProcessNodeVmState and about status patches that the proofs *)
(* of every module that uses them need: what they return, for every status *)
(* and every answer of the provider.                                       *)
(***************************************************************************)
EXTENDS StatusPatch, TLAPS

\* ProcessNodeVmState returns a node status and an error flag, whatever the
\* provider answered.
LEMMA ProcessType ==
    ASSUME NEW st \in VMRayNodeStatus, NEW ans
    PROVE  ProcessNodeVmState(st, ans) \in [status : VMRayNodeStatus, err : BOOLEAN]
  BY DEF ProcessNodeVmState, ProcessEmpty, ProcessInitialized, ProcessRunning,
         ProcessFail, Outcome, VMRayNodeStatus, VMNodeStatus, RayProcessStatus,
         EMPTY, INITIALIZED, RUNNING, FAIL, RAY_EMPTY, RAY_INITIALIZED, RAY_RUNNING, RAY_FAIL

\* The mark of a missing entry is no node status.
LEMMA UntrackedIsNoNode == Untracked \notin VMRayNodeStatus
  BY DEF Untracked, VMRayNodeStatus, VMNodeStatus, EMPTY, INITIALIZED, RUNNING, FAIL

\* The zero value is a node status.
LEMMA NewNodeType == NewNode \in VMRayNodeStatus
  BY DEF NewNode, VMRayNodeStatus, VMNodeStatus, RayProcessStatus, EMPTY, RAY_EMPTY

\* reconcileDesiredWorkers always works on a node status.
LEMMA AsNodeType ==
    ASSUME NEW st \in WorkerStatus
    PROVE  AsNode(st) \in VMRayNodeStatus
  BY NewNodeType DEF AsNode, WorkerStatus

\* Merging node statuses field by field gives a node status.
LEMMA MergeType ==
    ASSUME NEW was \in VMRayNodeStatus, NEW is \in VMRayNodeStatus, NEW st \in VMRayNodeStatus
    PROVE  Merge(was, is, st) \in VMRayNodeStatus
  BY DEF Merge, VMRayNodeStatus

\* A patch of current_workers leaves statuses of workers, whichever entries
\* and fields it holds.
LEMMA MergeWorkersType ==
    ASSUME NEW W, NEW was \in [W -> WorkerStatus], NEW is \in [W -> WorkerStatus],
           NEW st \in [W -> WorkerStatus]
    PROVE  MergeWorkers(was, is, st) \in [W -> WorkerStatus]
  <1>1. ASSUME NEW w \in W
        PROVE  MergeWorker(was[w], is[w], st[w]) \in WorkerStatus
    <2>1. was[w] \in WorkerStatus /\ is[w] \in WorkerStatus /\ st[w] \in WorkerStatus
      OBVIOUS
    <2>2. Merge(AsNode(was[w]), AsNode(is[w]), AsNode(st[w])) \in WorkerStatus
      BY <2>1, AsNodeType, MergeType DEF WorkerStatus
    <2> QED
      BY <2>1, <2>2 DEF MergeWorker, WorkerStatus
  <1>2. Untracked \in WorkerStatus
    BY DEF WorkerStatus
  <1> QED
    BY <1>1, <1>2 DEF MergeWorkers
=============================================================================

------------------------ MODULE ProviderCacheProofs ------------------------
(***************************************************************************)
(* The VM provider over stale reads keeps its types, for every set of      *)
(* workers and every number of edits and outages.                          *)
(***************************************************************************)
EXTENDS ProviderCache, NodeLcmProofs, SequenceTheorems

\* What ProcessNodeVmState makes of a worker, tracked or not, whatever a stale
\* read answered, is a status.
LEMMA AnswerType ==
    ASSUME TypeOK, NEW w \in Workers, NEW ans, Answer(w, ans)
    PROVE  status' \in [Workers -> WorkerStatus]
  <1>1. status \in [Workers -> WorkerStatus] /\ status[w] \in WorkerStatus
    BY DEF TypeOK
  <1> DEFINE st == ProcessNodeVmState(Node(w), ans).status
  <1>2. st \in VMRayNodeStatus
    BY <1>1, AsNodeType, ProcessType DEF Node
  <1>3. status' = [status EXCEPT ![w] = st]
    BY DEF Answer
  <1> HIDE DEF st
  <1> QED
    BY <1>1, <1>2, <1>3 DEF WorkerStatus

\* Of several versions one is left when the cache moves on.
LEMMA ShorterVersions ==
    ASSUME NEW S, NEW vs \in Seq(S), Len(vs) > 1
    PROVE  Tail(vs) \in Seq(S) \ {<<>>}
  <1>1. Tail(vs) \in Seq(S) /\ Len(Tail(vs)) = Len(vs) - 1
    BY HeadTailProperties
  <1>2. Len(vs) \in Nat
    OBVIOUS
  <1> DEFINE n == Len(vs)  m == Len(Tail(vs))
  <1>3. n \in Nat /\ n > 1 /\ m = n - 1
    BY <1>1, <1>2
  <1> HIDE DEF n, m
  <1>4. m # 0
    BY <1>3
  <1> QED
    BY <1>1, <1>4, EmptySeq DEF m

\* A VM always has versions, of which the cache shows one.
LEMMA VersionsType ==
    ASSUME TypeOK, NEW w \in Workers, NEW s \in VmState
    PROVE  /\ Vm(w) \in VmState
           /\ WriteVm(w, s) => vms' \in [Workers -> Seq(VmState) \ {<<>>}]
  <1> DEFINE vs == vms[w]
  <1>1. vs \in Seq(VmState) /\ Len(vs) \in Nat \ {0}
    BY DEF TypeOK
  <1>2. Append(vs, s) \in Seq(VmState) \ {<<>>}
    BY <1>1
  <1>3. ASSUME ~(Len(vs) < MaxVersions)
        PROVE  NextVersions(vs, s) \in Seq(VmState) \ {<<>>}
    <2>1. NextVersions(vs, s) \in [1..Len(vs) -> VmState]
      BY <1>1, <1>3 DEF NextVersions
    <2>2. [1..Len(vs) -> VmState] \subseteq Seq(VmState)
      BY <1>1, SeqDef
    <2>3. NextVersions(vs, s) # <<>>
      BY <1>1, <2>1
    <2> QED
      BY <2>1, <2>2, <2>3
  <1>4. NextVersions(vs, s) \in Seq(VmState) \ {<<>>}
    BY <1>2, <1>3 DEF NextVersions
  <1>5. Vm(w) \in VmState
    BY <1>1 DEF Vm
  <1>6. ASSUME WriteVm(w, s)
        PROVE  vms' \in [Workers -> Seq(VmState) \ {<<>>}]
    <2> DEFINE new == NextVersions(vms[w], s)
    <2>1. vms \in [Workers -> Seq(VmState) \ {<<>>}] /\ vms' = [vms EXCEPT ![w] = new]
      BY <1>6 DEF WriteVm, TypeOK
    <2>2. new \in Seq(VmState) \ {<<>>}
      BY <1>4
    <2> HIDE DEF new
    <2> QED
      BY <2>1, <2>2
  <1> QED
    BY <1>5, <1>6

\* Deploy and FetchVmStatus keep the types.
LEMMA ReconcileWorkerType ==
    ASSUME TypeOK, NEW w \in Workers, ReconcileWorker(w)
    PROVE  TypeOK'
  <1>1. status' \in [Workers -> WorkerStatus]
    BY AnswerType DEF ReconcileWorker, Deploy, FetchVmStatus
  <1>2. vms' \in [Workers -> Seq(VmState) \ {<<>>}] /\ secret' \in BOOLEAN
    BY VersionsType DEF ReconcileWorker, Deploy, FetchVmStatus, TypeOK, VmState
  <1> QED
    BY <1>1, <1>2 DEF ReconcileWorker, TypeOK

\* Delete keeps the types, whether it succeeds or fails.
LEMMA DeleteWorkerType ==
    ASSUME TypeOK, NEW w \in Workers, DeleteWorker(w)
    PROVE  TypeOK'
  <1>1. /\ phase' \in Phases
        /\ vms' \in [Workers -> Seq(VmState) \ {<<>>}]
        /\ status' \in [Workers -> WorkerStatus]
    BY VersionsType
    DEF DeleteWorker, Delete, Terminate, RestartDelete, TypeOK, VmState, WorkerStatus, Phases
  <1> QED
    BY <1>1 DEF DeleteWorker, TypeOK

\* Statuses, objects and their cached images keep their types through Deploy,
\* FetchVmStatus and Delete, however old what they read is.
THEOREM ProviderTypeCorrect == Spec => []TypeOK
  <1>1. Init => TypeOK
    <2> SUFFICES ASSUME Init
                 PROVE  TypeOK
      OBVIOUS
    <2>1. edits \in 0..MaxEdits /\ outages \in 0..MaxOutages
      BY ProviderAssumption DEF Init
    <2>2. status \in [Workers -> WorkerStatus]
      BY DEF Init, WorkerStatus
    <2>3. vms \in [Workers -> Seq(VmState) \ {<<>>}]
      BY DEF Init, VmState
    <2> QED
      BY <2>1, <2>2, <2>3 DEF Init, TypeOK, Phases
  <1>2. TypeOK /\ [Next]_vars => TypeOK'
    <2> SUFFICES ASSUME TypeOK, [Next]_vars
                 PROVE  TypeOK'
      OBVIOUS
    <2>1. ASSUME NEW w \in Workers, ReconcileWorker(w)
          PROVE  TypeOK'
      BY <2>1, ReconcileWorkerType
    <2>2. ASSUME NEW w \in Workers, DeleteWorker(w)
          PROVE  TypeOK'
      BY <2>2, DeleteWorkerType
    <2>3. ASSUME NEW w \in Workers, SyncVm(w)
          PROVE  TypeOK'
      <3>1. Tail(vms[w]) \in Seq(VmState) \ {<<>>}
        BY <2>3, ShorterVersions DEF SyncVm, TypeOK
      <3> QED
        BY <2>3, <3>1 DEF SyncVm, TypeOK
    <2>4. ASSUME NEW w \in Workers, VmBoot(w) \/ VmGone(w)
          PROVE  TypeOK'
      BY <2>4, VersionsType DEF VmBoot, VmGone, VmStep, TypeOK, VmState
    <2>5. ASSUME NEW w \in Workers, VmOutage(w)
          PROVE  TypeOK'
      <3>1. outages' \in 0..MaxOutages
        BY <2>5, ProviderAssumption DEF VmOutage, TypeOK
      <3> QED
        BY <2>5, <3>1, VersionsType DEF VmOutage, VmStep, TypeOK, VmState
    <2>6. CASE DeleteSecret \/ RemoveFinalizer \/ SyncSecret \/ UserDelete
      BY <2>6 DEF DeleteSecret, RemoveFinalizer, SyncSecret, UserDelete, TypeOK, Phases
    <2>7. CASE AutoscalerPatch
      <3>1. edits' \in 0..MaxEdits
        BY <2>7, ProviderAssumption DEF AutoscalerPatch, TypeOK
      <3> QED
        BY <2>7, <3>1 DEF AutoscalerPatch, TypeOK
    <2>8. CASE UNCHANGED vars
      BY <2>8 DEF vars, TypeOK
    <2> QED
      BY <2>1, <2>2, <2>3, <2>4, <2>5, <2>6, <2>7, <2>8 DEF Next
  <1> QED
    BY <1>1, <1>2, PTL DEF Spec
=============================================================================

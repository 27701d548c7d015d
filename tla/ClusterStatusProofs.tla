------------------------ MODULE ClusterStatusProofs ------------------------
(***************************************************************************)
(* What holds of ClusterStatus for every set of workers and node types,    *)
(* every cache lag and every number of faults: type correctness, that the  *)
(* conditions of a live object are bounded and that a reconcile that reads *)
(* the stored version leaves state and conditions that agree.              *)
(***************************************************************************)
EXTENDS ClusterStatus, NodeLcmProofs, SequenceTheorems, FiniteSetTheorems,
        WellFoundedInduction

-----------------------------------------------------------------------------
(* Subsequences.                                                           *)

\* A set of naturals that is not empty has a smallest element.
LEMMA SmallestElement ==
    ASSUME NEW T \in SUBSET Nat, T # {}
    PROVE  \E m \in T : \A k \in T : m <= k
  <1>1. PICK m \in T : \A k \in T : ~(<<k, m>> \in OpToRel(<, Nat))
    BY NatLessThanWellFounded, WFMin, Zenon
  <1>2. ASSUME NEW k \in T
        PROVE  m <= k
    <2>1. ~(k < m)
      BY <1>1, <1>2 DEF OpToRel
    <2> QED
      BY <2>1
  <1> QED
    BY <1>2

\* A list of n elements has n positions.
LEMMA Positions ==
    ASSUME NEW n \in Nat
    PROVE  IsFiniteSet(1..n) /\ Cardinality(1..n) = n
  <1>1. IsFiniteSet(1..n) /\ Cardinality(1..n) = IF 1 > n THEN 0 ELSE n - 1 + 1
    BY FS_Interval
  <1> QED
    BY <1>1

\* Every rank up to the number of positions that are kept is that of one of
\* them: Keep selects something for every place of its result.
LEMMA RankTaken ==
    ASSUME NEW n \in Nat, NEW kept \in SUBSET (1..n), NEW j \in 1..Cardinality(kept)
    PROVE  \E i \in kept : Cardinality({k \in kept : k <= i}) = j
  <1> DEFINE Upto(i) == {k \in kept : k <= i}
             T == {i \in 0..n : Cardinality(Upto(i)) >= j}
  <1>0. \A k \in kept : k \in Int /\ 1 <= k /\ k <= n
    OBVIOUS
  <1>1. IsFiniteSet(kept) /\ Cardinality(kept) \in Nat
    <2>1. IsFiniteSet(1..n)
      BY Positions
    <2> QED
      BY <2>1, FS_Subset, FS_CardinalityType
  <1>2. ASSUME NEW i
        PROVE  IsFiniteSet(Upto(i)) /\ Cardinality(Upto(i)) \in Nat
    <2>1. Upto(i) \in SUBSET kept
      OBVIOUS
    <2> HIDE DEF Upto
    <2> QED
      BY <2>1, <1>1, FS_Subset, FS_CardinalityType
  <1>3. n \in T
    <2>1. Upto(n) = kept
      BY <1>0
    <2> QED
      BY <2>1, <1>1
  <1>4. PICK m \in T : \A k \in T : m <= k
    <2>1. \A k \in T : k \in Nat
      OBVIOUS
    <2> HIDE DEF T
    <2> QED
      BY <1>3, <2>1, SmallestElement
  <1>5. m \in 1..n
    <2>1. Upto(0) = {}
      <3>1. \A k \in kept : ~(k <= 0)
        BY <1>0
      <3> QED
        BY <3>1
    <2> HIDE DEF Upto
    <2> QED
      BY <2>1, <1>4, FS_EmptySet
  <1>6. m - 1 \in 0..n /\ ~(Cardinality(Upto(m - 1)) >= j)
    <2> HIDE DEF Upto
    <2> QED
      BY <1>4, <1>5
  <1>7. m \in kept
    <2>1. SUFFICES ASSUME m \notin kept
                   PROVE  FALSE
      OBVIOUS
    <2>2. \A k \in kept : k <= m <=> k <= m - 1
      BY <2>1, <1>0, <1>5
    <2>3. Upto(m) = Upto(m - 1)
      BY <2>2
    <2> QED
      BY <2>3, <1>4, <1>6
  <1>8. Cardinality(Upto(m)) = Cardinality(Upto(m - 1)) + 1
    <2>1. \A k \in kept : k <= m <=> k <= m - 1 \/ k = m
      BY <1>0, <1>5
    <2>2. ~(m <= m - 1) /\ m <= m
      BY <1>5
    <2>3. Upto(m) = Upto(m - 1) \cup {m} /\ m \notin Upto(m - 1)
      BY <2>1, <2>2, <1>7
    <2> HIDE DEF Upto
    <2> QED
      BY <2>3, <1>2, FS_AddElement
  <1>9. Cardinality(Upto(m)) = j
    <2>1. Cardinality(Upto(m)) >= j
      BY <1>4
    <2> HIDE DEF Upto
    <2> QED
      BY <2>1, <1>6, <1>8, <1>2
  <1> QED
    BY <1>7, <1>9

\* Keep gives a sequence of elements of the one it is given, which is no
\* longer than that one.
LEMMA KeepType ==
    ASSUME NEW S, NEW s \in Seq(S), NEW kept \in SUBSET (1..Len(s))
    PROVE  /\ Keep(s, kept) \in Seq(S)
           /\ Len(Keep(s, kept)) <= Len(s)
  <1> DEFINE Rank(i) == Cardinality({k \in kept : k <= i})
             At(j) == CHOOSE i \in kept : Rank(i) = j
  <1>1. Len(s) \in Nat
    OBVIOUS
  <1>2. Cardinality(kept) \in Nat /\ Cardinality(kept) <= Len(s)
    <2>1. IsFiniteSet(1..Len(s)) /\ Cardinality(1..Len(s)) = Len(s)
      BY <1>1, Positions
    <2> QED
      BY <2>1, FS_Subset, FS_CardinalityType
  <1>3. ASSUME NEW j \in 1..Cardinality(kept)
        PROVE  s[At(j)] \in S
    <2>1. \E i \in kept : Rank(i) = j
      BY <1>1, RankTaken
    <2> HIDE DEF Rank
    <2>2. At(j) \in kept
      BY <2>1
    <2> QED
      <3>1. At(j) \in 1..Len(s)
        BY <2>2
      <3> HIDE DEF At
      <3> QED
        BY <3>1, ElementOfSeq
  <1>4. Keep(s, kept) = [j \in 1..Cardinality(kept) |-> s[At(j)]]
    BY DEF Keep
  <1> HIDE DEF At
  <1>5. [j \in 1..Cardinality(kept) |-> s[At(j)]] \in [1..Cardinality(kept) -> S]
    BY <1>3
  <1>6. Keep(s, kept) \in Seq(S) /\ Len(Keep(s, kept)) = Cardinality(kept)
    BY <1>2, <1>4, <1>5
  <1> QED
    BY <1>2, <1>6


-----------------------------------------------------------------------------
(* Validation.                                                             *)

MaxReports == 2 + Cardinality(NodeTypes)

\* The number of node types is a number.
LEMMA MaxReportsType == MaxReports \in Nat /\ MaxReports >= 1
  BY StatusAssumption, FS_CardinalityType DEF MaxReports

\* ValidateAuxiliaryDependencies looks up dependencies, and after slices.Compact
\* no more than an image, a storage class and a class for every node type.
LEMMA LookupsType ==
    ASSUME NEW order \in Orders
    PROVE  /\ Lookups(order) \in Seq(Deps)
           /\ Len(Lookups(order)) <= MaxReports
  <1> DEFINE N == Cardinality(NodeTypes)
             c == [i \in DOMAIN order |-> VMClass[order[i]]]
  <1>1. N \in Nat
    BY StatusAssumption, FS_CardinalityType
  <1>2. order \in [1..N -> NodeTypes]
    BY DEF Orders
  <1>3. c \in [1..N -> Deps]
    BY <1>2 DEF Deps, Classes
  <1> HIDE DEF c, N
  <1>4. c \in Seq(Deps) /\ Len(c) = N
    BY <1>1, <1>3
  <1>5. Compact(c) \in Seq(Deps) /\ Len(Compact(c)) <= N
    <2>1. {i \in 1..Len(c) : i = 1 \/ c[i] # c[i - 1]} \in SUBSET (1..Len(c))
      OBVIOUS
    <2> QED
      BY <1>4, <2>1, KeepType DEF Compact
  <1>6. <<"image", "storage">> \in Seq(Deps) /\ Len(<<"image", "storage">>) = 2
    BY DEF Deps
  <1>7. Lookups(order) = <<"image", "storage">> \o Compact(c)
    BY DEF Lookups, c
  <1>8. Lookups(order) \in Seq(Deps) /\ Len(Lookups(order)) = 2 + Len(Compact(c))
    BY <1>5, <1>6, <1>7, ConcatProperties
  <1> QED
    BY <1>1, <1>5, <1>8 DEF MaxReports, N

\* A condition for every lookup that found nothing, and for no other.
LEMMA NotFoundConditionsType ==
    ASSUME NEW lookups \in Seq(Deps), NEW now \in Seconds
    PROVE  /\ NotFoundConditions(lookups, now) \in Seq(Condition)
           /\ Len(NotFoundConditions(lookups, now)) <= Len(lookups)
  <1> DEFINE kept == {i \in 1..Len(lookups) : lookups[i] \notin deps}
             missing == Keep(lookups, kept)
             C(d) == [type |-> NotFoundType(d), reason |-> "ResourceNotFound",
                      about |-> d, at |-> now]
  <1>1. kept \in SUBSET (1..Len(lookups))
    OBVIOUS
  <1> HIDE DEF kept
  <1>2. missing \in Seq(Deps) /\ Len(missing) <= Len(lookups)
    BY <1>1, KeepType
  <1> HIDE DEF missing
  <1>3. ASSUME NEW d \in Deps
        PROVE  C(d) \in Condition
    <2>1. NotFoundType(d) \in Types /\ "ResourceNotFound" \in Reasons
      BY DEF NotFoundType, Types, Reasons
    <2> QED
      BY <1>3, <2>1 DEF Condition
  <1>4. NotFoundConditions(lookups, now) = [i \in DOMAIN missing |-> C(missing[i])]
    BY DEF NotFoundConditions, missing, kept
  <1> HIDE DEF C
  <1>5. DOMAIN missing = 1..Len(missing) /\ Len(missing) \in Nat
    BY <1>2
  <1>6. \A i \in 1..Len(missing) : C(missing[i]) \in Condition
    BY <1>2, <1>3, ElementOfSeq
  <1> DEFINE r == [i \in DOMAIN missing |-> C(missing[i])]
  <1>7. r \in [1..Len(missing) -> Condition]
    BY <1>5, <1>6
  <1> HIDE DEF r
  <1>8. r \in Seq(Condition) /\ Len(r) = Len(missing)
    BY <1>5, <1>7
  <1> QED
    BY <1>2, <1>4, <1>8 DEF r


-----------------------------------------------------------------------------
(* The object that a reconcile stores.                                     *)

\* An object whose state and conditions VMRayClusterReconcile made.
WellReported(cr) ==
    /\ cr \in VMRayCluster
    /\ Len(cr.conds) <= MaxReports
    /\ cr.conds # <<>> => cr.state = UNHEALTHY

\* Reading the ends of the version history.
LEMMA StoredType ==
    ASSUME TypeOK
    PROVE  /\ Len(hist) \in Nat \ {0}
           /\ Stored \in VMRayCluster
           /\ Cached \in VMRayCluster
           /\ \A i \in 1..Len(hist) : hist[i] \in VMRayCluster
  BY DEF TypeOK, Stored, Cached

\* A fresh start: no condition, and healthy until something is found.
LEMMA ResetType ==
    ASSUME TypeOK
    PROVE  /\ Reset(Cached) \in VMRayCluster
           /\ Reset(Cached).conds = <<>>
           /\ WellReported(Reset(Cached))
  <1>1. Cached \in VMRayCluster
    BY StoredType
  <1> DEFINE none == <<>>
  <1>2. none \in Seq(Condition) /\ Len(none) <= MaxReports
    BY MaxReportsType
  <1> HIDE DEF none
  <1>3. /\ [Cached EXCEPT !.conds = none, !.state = HEALTHY] \in VMRayCluster
        /\ [Cached EXCEPT !.conds = none, !.state = HEALTHY].conds = none
    BY <1>1, <1>2 DEF VMRayCluster
  <1> QED
    BY <1>2, <1>3 DEF WellReported, Reset, none

\* What a reconcile that finds something stores: unhealthy and some conditions.
LEMMA UnhealthyReport ==
    ASSUME NEW cr \in VMRayCluster, NEW conds \in Seq(Condition), Len(conds) <= MaxReports
    PROVE  WellReported([cr EXCEPT !.state = UNHEALTHY, !.conds = conds])
  BY DEF WellReported, VMRayCluster, UNHEALTHY

\* A single condition, which is what a failing node adds to an empty list.
LEMMA OneCondition ==
    ASSUME NEW type \in Types, NEW reason \in Reasons, NEW now \in Seconds
    PROVE  /\ AddErrorCondition(<<>>, type, reason, "node", now) \in Seq(Condition)
           /\ Len(AddErrorCondition(<<>>, type, reason, "node", now)) <= MaxReports
  <1>1. [type |-> type, reason |-> reason, about |-> "node", at |-> now] \in Condition
    BY DEF Condition
  <1> QED
    BY <1>1, MaxReportsType DEF AddErrorCondition

\* reconcileHeadNode leaves a node status for the head and touches no report.
LEMMA HeadDoneType ==
    ASSUME TypeOK
    PROVE  /\ HeadDone \in VMRayCluster
           /\ HeadDone.conds = <<>>
           /\ WellReported(HeadDone)
  <1>1. HeadOutcome.status \in VMRayNodeStatus
    BY StoredType, ProcessType DEF HeadOutcome, VMRayCluster
  <1> QED
    BY <1>1, ResetType DEF HeadDone, VMRayCluster, WellReported

\* reconcileWorkerNodes leaves statuses of workers and touches no report.
LEMMA WorkersDoneType ==
    ASSUME TypeOK, NEW visited \in SUBSET Workers, NEW dropped \in SUBSET Workers
    PROVE  /\ WorkersDone(visited, dropped) \in VMRayCluster
           /\ WorkersDone(visited, dropped).conds = <<>>
           /\ WellReported(WorkersDone(visited, dropped))
  <1> DEFINE ws == [w \in Workers |-> CASE w \in visited -> WorkerOutcome(w).status
                                        [] w \in dropped -> Untracked
                                        [] OTHER         -> HeadDone.workers[w]]
  <1>1. HeadDone \in VMRayCluster /\ HeadDone.conds = <<>> /\ WellReported(HeadDone)
    BY HeadDoneType
  <1>2. HeadDone.workers \in [Workers -> WorkerStatus]
    BY <1>1 DEF VMRayCluster
  <1>3. ASSUME NEW w \in Workers
        PROVE  WorkerOutcome(w).status \in WorkerStatus
    <2>1. Cached.workers[w] \in WorkerStatus
      BY StoredType DEF VMRayCluster
    <2> QED
      BY <2>1, AsNodeType, ProcessType DEF WorkerOutcome, WorkerStatus
  <1>4. Untracked \in WorkerStatus
    BY DEF WorkerStatus
  <1>5. ws \in [Workers -> WorkerStatus]
    BY <1>2, <1>3, <1>4
  <1>6. WorkersDone(visited, dropped) = [HeadDone EXCEPT !.workers = ws]
    BY DEF WorkersDone
  <1> HIDE DEF ws
  <1> QED
    BY <1>1, <1>5, <1>6 DEF VMRayCluster, WellReported

\* What a failing worker does to the report.
LEMMA WorkerErrorReport ==
    ASSUME NEW cr \in VMRayCluster, cr.conds = <<>>, WellReported(cr), NEW now \in Seconds
    PROVE  WellReported(WorkerError(cr, now))
  <1> DEFINE conds == AddErrorCondition(<<>>, "WorkerNodeReady", "FailureToDeployNode", "node", now)
  <1>1. conds \in Seq(Condition) /\ Len(conds) <= MaxReports
    BY OneCondition DEF Types, Reasons
  <1> HIDE DEF conds
  <1>2. WellReported([cr EXCEPT !.state = UNHEALTHY, !.conds = conds])
    BY <1>1, UnhealthyReport
  <1>3. cr.conds = <<>>
    OBVIOUS
  <1>4. [cr EXCEPT !.state = UNHEALTHY,
                   !.conds = AddErrorCondition(@, "WorkerNodeReady",
                                 "FailureToDeployNode", "node", now)]
          = [cr EXCEPT !.state = UNHEALTHY, !.conds = conds]
    BY <1>3 DEF conds
  <1> QED
    BY <1>2, <1>4 DEF WorkerError


-----------------------------------------------------------------------------
(* Steps of the history.                                                   *)

\* Life never goes back: an object that is being deleted does not become live
\* again.
LifeOrdered ==
    \A i \in 1..Len(hist) : \A j \in i..Len(hist) :
        hist[i].life # "live" => hist[j].life # "live"

\* A write leaves a history of versions that were there, followed by the one
\* that was written, if that is new.
LEMMA WriteEffect ==
    ASSUME TypeOK, NEW new \in VMRayCluster, Write(new)
    PROVE  /\ hist' \in Seq(VMRayCluster) /\ Len(hist') \in 1..(MaxLag + 1)
           /\ Stored' = new
           /\ \/ hist' = hist
              \/ /\ \A i \in 1..(Len(hist') - 1) : hist'[i] = hist[i]
                 /\ Len(hist') = Len(hist) + 1
              \/ /\ \A i \in 1..(Len(hist') - 1) : hist'[i] = hist[i + 1]
                 /\ Len(hist') = Len(hist)
  <1>1. /\ Len(hist) \in Nat \ {0} /\ hist \in Seq(VMRayCluster) /\ hist # <<>>
        /\ Len(hist) <= MaxLag + 1 /\ MaxLag \in Nat
    BY StatusAssumption DEF TypeOK
  <1>2. CASE new = Stored
    BY <1>1, <1>2 DEF Write, Stored
  <1>3. CASE new # Stored /\ Len(hist) <= MaxLag
    <2>1. hist' = Append(hist, new)
      BY <1>3, <1>1 DEF Write
    <2>2. /\ hist' \in Seq(VMRayCluster) /\ Len(hist') = Len(hist) + 1
          /\ \A i \in 1..Len(hist) : hist'[i] = hist[i]
          /\ hist'[Len(hist) + 1] = new
      BY <2>1, <1>1, AppendProperties
    <2> QED
      BY <2>2, <1>1, <1>3 DEF Stored
  <1>4. CASE new # Stored /\ Len(hist) > MaxLag
    <2>1. hist' = Append(Tail(hist), new)
      BY <1>4, <1>1 DEF Write
    <2>2. /\ Tail(hist) \in Seq(VMRayCluster) /\ Len(Tail(hist)) = Len(hist) - 1
          /\ \A i \in 1..Len(Tail(hist)) : Tail(hist)[i] = hist[i + 1]
      BY <1>1, HeadTailProperties
    <2>3. /\ hist' \in Seq(VMRayCluster) /\ Len(hist') = Len(hist)
          /\ \A i \in 1..(Len(hist) - 1) : hist'[i] = hist[i + 1]
          /\ hist'[Len(hist)] = new
      BY <2>1, <2>2, <1>1, AppendProperties
    <2> QED
      BY <2>3, <1>1, <1>4 DEF Stored
  <1> QED
    BY <1>1, <1>2, <1>3, <1>4

\* A write does not break the order of the versions if it does not revive
\* the stored one.
LEMMA WriteOrdered ==
    ASSUME TypeOK, LifeOrdered, NEW new \in VMRayCluster, Write(new),
           Stored.life # "live" => new.life # "live"
    PROVE  LifeOrdered'
  <1>1. Len(hist) \in Nat \ {0} /\ Len(hist') \in Nat \ {0}
    BY WriteEffect, StoredType, StatusAssumption
  <1>2. \A i \in 1..Len(hist) : hist[i].life # "live" => new.life # "live"
    BY <1>1 DEF LifeOrdered, Stored
  <1>3. hist'[Len(hist')] = new
    BY WriteEffect DEF Stored
  <1>4. CASE hist' = hist
    BY <1>4 DEF LifeOrdered
  <1>5. CASE /\ \A i \in 1..(Len(hist') - 1) : hist'[i] = hist[i]
             /\ Len(hist') = Len(hist) + 1
    <2> SUFFICES ASSUME NEW i \in 1..Len(hist'), NEW j \in i..Len(hist'), hist'[i].life # "live"
                 PROVE  hist'[j].life # "live"
      BY DEF LifeOrdered
    <2>1. CASE j = Len(hist')
      BY <2>1, <1>1, <1>2, <1>3, <1>5
    <2>2. CASE j # Len(hist')
      BY <2>2, <1>1, <1>5 DEF LifeOrdered
    <2> QED
      BY <2>1, <2>2
  <1>6. CASE /\ \A i \in 1..(Len(hist') - 1) : hist'[i] = hist[i + 1]
             /\ Len(hist') = Len(hist)
    <2> SUFFICES ASSUME NEW i \in 1..Len(hist'), NEW j \in i..Len(hist'), hist'[i].life # "live"
                 PROVE  hist'[j].life # "live"
      BY DEF LifeOrdered
    <2>1. CASE j = Len(hist')
      BY <2>1, <1>1, <1>2, <1>3, <1>6
    <2>2. CASE j # Len(hist')
      <3>1. i + 1 \in 1..Len(hist) /\ j + 1 \in (i + 1)..Len(hist)
        BY <2>2, <1>1, <1>6
      <3>2. hist'[i] = hist[i + 1] /\ hist'[j] = hist[j + 1]
        BY <2>2, <1>1, <1>6
      <3> QED
        BY <3>1, <3>2 DEF LifeOrdered
    <2> QED
      BY <2>1, <2>2
  <1> QED
    BY <1>4, <1>5, <1>6, WriteEffect

\* A status patch keeps the deletion timestamp and the types; of state and
\* conditions it stores the new ones or leaves the stored ones.
LEMMA PatchedType ==
    ASSUME TypeOK, NEW is \in VMRayCluster
    PROVE  /\ Patched(is) \in VMRayCluster
           /\ Patched(is).life = Stored.life
           /\ Patched(is).state = IF is.state # Cached.state THEN is.state ELSE Stored.state
           /\ Patched(is).conds = IF is.conds # Cached.conds THEN is.conds ELSE Stored.conds
  <1>1. Stored \in VMRayCluster /\ Cached \in VMRayCluster
    BY StoredType
  <1>2. Merge(Cached.head, is.head, Stored.head) \in VMRayNodeStatus
    BY <1>1, MergeType DEF VMRayCluster
  <1>3. MergeWorkers(Cached.workers, is.workers, Stored.workers) \in [Workers -> WorkerStatus]
    BY <1>1, MergeWorkersType DEF VMRayCluster
  <1> QED
    BY <1>1, <1>2, <1>3 DEF Patched, VMRayCluster


\* What updateStatus does to the history.
LEMMA UpdateEffect ==
    ASSUME TypeOK, LifeOrdered, NEW is \in VMRayCluster, UpdateStatus(is)
    PROVE  /\ hist' \in Seq(VMRayCluster) /\ Len(hist') \in 1..(MaxLag + 1)
           /\ LifeOrdered'
           /\ Stored' = Patched(is)
  <1>1. Write(Patched(is))
    BY DEF UpdateStatus
  <1>2. Patched(is) \in VMRayCluster /\ Patched(is).life = Stored.life
    BY PatchedType
  <1> QED
    BY <1>1, <1>2, WriteEffect, WriteOrdered

-----------------------------------------------------------------------------
(* VMRayClusterReconcile.                                                  *)

\* What is stored when lookups found nothing.
LEMMA NotFoundReport ==
    ASSUME TypeOK, NEW lookups \in Seq(Deps), Len(lookups) <= MaxReports, NEW now \in Seconds
    PROVE  WellReported([Reset(Cached) EXCEPT
                           !.state = UNHEALTHY,
                           !.conds = @ \o NotFoundConditions(lookups, now)])
  <1> DEFINE conds == NotFoundConditions(lookups, now)
  <1>1. conds \in Seq(Condition) /\ Len(conds) <= MaxReports
    <2>1. conds \in Seq(Condition) /\ Len(conds) <= Len(lookups)
      BY NotFoundConditionsType
    <2> HIDE DEF conds
    <2>2. Len(conds) \in Nat /\ Len(lookups) \in Nat
      BY <2>1
    <2> QED
      BY <2>1, <2>2, MaxReportsType
  <1> HIDE DEF conds
  <1>2. Reset(Cached).conds \o conds = conds
    BY <1>1, ResetType, ConcatEmptySeq
  <1>3. WellReported([Reset(Cached) EXCEPT !.state = UNHEALTHY, !.conds = conds])
    BY <1>1, ResetType, UnhealthyReport
  <1> QED
    BY <1>2, <1>3 DEF conds

\* Whatever VMRayClusterReconcile finds, it patches with an object whose state
\* and conditions agree.
LEMMA ReconcileReports ==
    ASSUME TypeOK, VMRayClusterReconcile
    PROVE  /\ Cached.life = "live"
           /\ \E is : WellReported(is) /\ UpdateStatus(is)
  <1>1. CASE Invalid
    <2>1. PICK order \in Orders, now \in Seconds :
             UpdateStatus([Reset(Cached) EXCEPT
                             !.state = UNHEALTHY,
                             !.conds = @ \o NotFoundConditions(Lookups(order), now)])
      BY <1>1 DEF Invalid
    <2>2. WellReported([Reset(Cached) EXCEPT
                          !.state = UNHEALTHY,
                          !.conds = @ \o NotFoundConditions(Lookups(order), now)])
      BY LookupsType, NotFoundReport
    <2> QED
      BY <1>1, <2>1, <2>2 DEF Invalid
  <1>2. CASE ValidationError
    <2>1. PICK order \in Orders, now \in Seconds : \E k \in 0..(Len(Lookups(order)) - 1) :
             UpdateStatus([Reset(Cached) EXCEPT
                             !.state = UNHEALTHY,
                             !.conds = @ \o NotFoundConditions(SubSeq(Lookups(order), 1, k), now)])
      BY <1>2 DEF ValidationError
    <2>2. PICK k \in 0..(Len(Lookups(order)) - 1) :
             UpdateStatus([Reset(Cached) EXCEPT
                             !.state = UNHEALTHY,
                             !.conds = @ \o NotFoundConditions(SubSeq(Lookups(order), 1, k), now)])
      BY <2>1
    <2> DEFINE seen == SubSeq(Lookups(order), 1, k)
    <2>3. Lookups(order) \in Seq(Deps) /\ Len(Lookups(order)) <= MaxReports /\ Len(Lookups(order)) \in Nat
      BY LookupsType
    <2>4. seen \in Seq(Deps) /\ Len(seen) <= MaxReports
      <3> DEFINE l == Lookups(order)
      <3>1. l \in Seq(Deps) /\ Len(l) <= MaxReports /\ Len(l) \in Nat /\ k \in 0..(Len(l) - 1)
        BY <2>3
      <3> HIDE DEF l
      <3>2. \A i \in 1..k : l[i] \in Deps
        BY <3>1, ElementOfSeq
      <3>3. SubSeq(l, 1, k) \in Seq(Deps) /\ Len(SubSeq(l, 1, k)) = k
        BY <3>1, <3>2, SubSeqProperties
      <3> QED
        BY <3>1, <3>3, MaxReportsType DEF l
    <2> HIDE DEF seen
    <2>5. WellReported([Reset(Cached) EXCEPT
                          !.state = UNHEALTHY, !.conds = @ \o NotFoundConditions(seen, now)])
      BY <2>4, NotFoundReport
    <2> QED
      BY <1>2, <2>2, <2>5 DEF ValidationError, seen
  <1>3. CASE HeadFails
    <2>1. PICK now \in Seconds :
             UpdateStatus([HeadDone EXCEPT
                             !.state = UNHEALTHY,
                             !.conds = AddErrorCondition(@, "HeadNodeReady",
                                           "FailureToDeployNode", "node", now)])
      BY <1>3 DEF HeadFails
    <2> DEFINE conds == AddErrorCondition(<<>>, "HeadNodeReady", "FailureToDeployNode", "node", now)
    <2>2. conds \in Seq(Condition) /\ Len(conds) <= MaxReports
      BY OneCondition DEF Types, Reasons
    <2>3. AddErrorCondition(HeadDone.conds, "HeadNodeReady", "FailureToDeployNode", "node", now) = conds
      BY HeadDoneType
    <2> HIDE DEF conds
    <2>4. WellReported([HeadDone EXCEPT !.state = UNHEALTHY, !.conds = conds])
      BY <2>2, HeadDoneType, UnhealthyReport
    <2> QED
      BY <1>3, <2>1, <2>3, <2>4 DEF HeadFails, Validated
  <1>4. CASE HeadNotReady
    BY <1>4, HeadDoneType DEF HeadNotReady, Validated
  <1>5. CASE PruneFails
    <2>1. PICK dropped \in SUBSET Undesired, now \in Seconds :
             UpdateStatus(WorkerError(WorkersDone({}, dropped), now))
      BY <1>5 DEF PruneFails
    <2>2. dropped \in SUBSET Workers
      BY StoredType DEF Undesired, TrackedIn, VMRayCluster
    <2>3. WellReported(WorkerError(WorkersDone({}, dropped), now))
      BY <2>2, WorkersDoneType, WorkerErrorReport
    <2> QED
      BY <1>5, <2>1, <2>3 DEF PruneFails, ReconcilesWorkers, Validated
  <1>6. CASE WorkersFail
    <2>1. PICK visited \in SUBSET Cached.desired, now \in Seconds :
             UpdateStatus(WorkerError(WorkersDone(visited, Undesired), now))
      BY <1>6 DEF WorkersFail
    <2>2. visited \in SUBSET Workers /\ Undesired \in SUBSET Workers
      BY StoredType DEF Undesired, TrackedIn, VMRayCluster
    <2>3. WellReported(WorkerError(WorkersDone(visited, Undesired), now))
      BY <2>2, WorkersDoneType, WorkerErrorReport
    <2> QED
      BY <1>6, <2>1, <2>3 DEF WorkersFail, ReconcilesWorkers, Validated
  <1>7. CASE WorkersSucceed
    <2>1. Cached.desired \in SUBSET Workers /\ Undesired \in SUBSET Workers
      BY StoredType DEF Undesired, TrackedIn, VMRayCluster
    <2> QED
      BY <1>7, <2>1, WorkersDoneType DEF WorkersSucceed, ReconcilesWorkers, Validated
  <1> QED
    BY <1>1, <1>2, <1>3, <1>4, <1>5, <1>6, <1>7 DEF VMRayClusterReconcile


-----------------------------------------------------------------------------
(* Everything else.                                                        *)

\* The part of TypeOK about what is not the object.
RestTypeOK ==
    /\ vms \in [Nodes -> {"absent", "booting", "up"}]
    /\ svc \in {"absent", "pending", "ready"}
    /\ deps \subseteq Deps
    /\ faulty \subseteq Calls
    /\ budget \in [edits : Nat, faults : Nat]

\* A bound that is used up a little remains a number.
LEMMA SpendType ==
    ASSUME TypeOK, NEW kind \in {"edits", "faults"}, Spend(kind)
    PROVE  budget' \in [edits : Nat, faults : Nat]
  BY DEF TypeOK, Spend

\* What the calls of a reconcile leave behind are VMs and a service.
LEMMA ProvisionType ==
    ASSUME TypeOK, NEW visited, NEW dropped, Provision(visited, dropped)
    PROVE  /\ vms' \in [Nodes -> {"absent", "booting", "up"}]
           /\ svc' \in {"absent", "pending", "ready"}
  <1>1. vms \in [Nodes -> {"absent", "booting", "up"}] /\ svc \in {"absent", "pending", "ready"}
    BY DEF TypeOK
  <1> QED
    BY <1>1 DEF Provision

\* Reconciles keep the types of VMs, service, dependencies, faults and bounds.
LEMMA ControllerRestType ==
    ASSUME TypeOK, Controller
    PROVE  RestTypeOK'
  <1>1. CASE Invalid
    BY <1>1 DEF Invalid, TypeOK, RestTypeOK
  <1>2. CASE ValidationError
    BY <1>2, SpendType DEF ValidationError, TypeOK, RestTypeOK
  <1>3. CASE HeadFails
    BY <1>3, ProvisionType DEF HeadFails, TypeOK, RestTypeOK
  <1>4. CASE HeadNotReady
    BY <1>4, ProvisionType DEF HeadNotReady, TypeOK, RestTypeOK
  <1>5. CASE PruneFails
    <2>1. PICK dropped : Provision({HeadNode}, dropped)
      BY <1>5 DEF PruneFails
    <2> QED
      BY <1>5, <2>1, ProvisionType DEF PruneFails, TypeOK, RestTypeOK
  <1>6. CASE WorkersFail
    <2>1. PICK visited : Provision(visited, Undesired)
      BY <1>6 DEF WorkersFail
    <2> QED
      BY <1>6, <2>1, ProvisionType DEF WorkersFail, TypeOK, RestTypeOK
  <1>7. CASE WorkersSucceed
    BY <1>7, ProvisionType DEF WorkersSucceed, TypeOK, RestTypeOK
  <1>8. CASE DeleteFails
    <2>1. /\ vms' \in [Nodes -> {"absent", "booting", "up"}]
          /\ svc' \in {"absent", "pending", "ready"}
      BY <1>8 DEF DeleteFails, TypeOK
    <2> QED
      BY <1>8, <2>1 DEF DeleteFails, TypeOK, RestTypeOK
  <1>9. CASE DeleteSucceeds
    BY <1>9 DEF DeleteSucceeds, TypeOK, RestTypeOK
  <1> QED
    BY <1>1, <1>2, <1>3, <1>4, <1>5, <1>6, <1>7, <1>8, <1>9
    DEF Controller, VMRayClusterReconcile, VMRayClusterDelete

\* So do the steps of everybody else.
LEMMA OthersRestType ==
    ASSUME TypeOK, Sync \/ SvcReady \/ (\E n \in Nodes : VmBoot(n)) \/ Environment
    PROVE  RestTypeOK'
  <1>1. CASE Sync
    BY <1>1 DEF Sync, TypeOK, RestTypeOK
  <1>2. CASE SvcReady
    BY <1>2 DEF SvcReady, TypeOK, RestTypeOK
  <1>3. ASSUME NEW n \in Nodes, VmBoot(n)
        PROVE  RestTypeOK'
    BY <1>3 DEF VmBoot, TypeOK, RestTypeOK
  <1>4. CASE AutoscalerPatch
    BY <1>4, SpendType DEF AutoscalerPatch, TypeOK, RestTypeOK
  <1>5. CASE UserDelete
    BY <1>5 DEF UserDelete, TypeOK, RestTypeOK
  <1>6. ASSUME NEW n \in Nodes, VmOutage(n)
        PROVE  RestTypeOK'
    <2>1. vms' \in [Nodes -> {"absent", "booting", "up"}]
      BY <1>6 DEF VmOutage, TypeOK
    <2> QED
      BY <1>6, <2>1, SpendType DEF VmOutage, TypeOK, RestTypeOK
  <1>7. ASSUME NEW call \in Calls, Break(call) \/ Mend(call)
        PROVE  RestTypeOK'
    BY <1>7, SpendType DEF Break, Mend, TypeOK, RestTypeOK
  <1>8. ASSUME NEW d \in Deps, DependencyAdded(d) \/ DependencyRemoved(d)
        PROVE  RestTypeOK'
    BY <1>8, SpendType DEF DependencyAdded, DependencyRemoved, TypeOK, RestTypeOK
  <1> QED
    BY <1>1, <1>2, <1>3, <1>4, <1>5, <1>6, <1>7, <1>8 DEF Environment

-----------------------------------------------------------------------------
(* The inductive invariant.                                                *)

StatusInv == TypeOK /\ LifeOrdered /\ ConditionsBounded

\* What a step has to do with the history.
HistInv ==
    /\ hist \in Seq(VMRayCluster) /\ Len(hist) \in 1..(MaxLag + 1)
    /\ LifeOrdered
    /\ ConditionsBounded

\* The object that is submitted is well formed.
LEMMA SubmittedType ==
    ASSUME NEW d \in SUBSET Workers
    PROVE  Submitted(d) \in VMRayCluster /\ Submitted(d).conds = <<>>
  <1> DEFINE none == <<>>
  <1>1. none \in Seq(Condition)
    OBVIOUS
  <1> HIDE DEF none
  <1>2. [life |-> "live", desired |-> d, head |-> NewNode,
         workers |-> [w \in Workers |-> Untracked], state |-> "", conds |-> none] \in VMRayCluster
    BY <1>1, NewNodeType DEF VMRayCluster, WorkerStatus
  <1> QED
    BY <1>2 DEF Submitted, none

\* So is the mark of a deleted object.
LEMMA GoneType == Gone \in VMRayCluster /\ Gone.life = "gone"
  <1>1. Submitted({}) \in VMRayCluster
    BY SubmittedType
  <1> QED
    BY <1>1 DEF Gone, VMRayCluster

\* The invariant holds of a cluster that was just submitted.
LEMMA StatusInvInit == Init => StatusInv
  <1> SUFFICES ASSUME Init
               PROVE  StatusInv
    OBVIOUS
  <1>1. PICK d \in SUBSET Workers : hist = <<Submitted(d)>>
    BY DEF Init
  <1>2. hist \in Seq(VMRayCluster) /\ Len(hist) = 1 /\ hist[1] = Submitted(d)
    BY <1>1, SubmittedType
  <1>3. TypeOK
    BY <1>2, StatusAssumption DEF Init, TypeOK
  <1>4. LifeOrdered
    BY <1>2 DEF LifeOrdered
  <1>5. ConditionsBounded
    <2>1. Len(Stored.conds) = 0
      BY <1>2, SubmittedType DEF Stored
    <2> QED
      BY <2>1, MaxReportsType DEF ConditionsBounded, MaxReports
  <1> QED
    BY <1>3, <1>4, <1>5 DEF StatusInv


\* VMRayClusterReconcile: a live object gets at most one condition for every
\* lookup, an object that is being deleted is not looked at.
LEMMA ReconcileHistInv ==
    ASSUME StatusInv, VMRayClusterReconcile
    PROVE  HistInv'
  <1>1. TypeOK /\ LifeOrdered /\ ConditionsBounded
    BY DEF StatusInv
  <1>2. PICK is : WellReported(is) /\ UpdateStatus(is)
    BY <1>1, ReconcileReports
  <1>3. is \in VMRayCluster
    BY <1>2 DEF WellReported
  <1>4. /\ hist' \in Seq(VMRayCluster) /\ Len(hist') \in 1..(MaxLag + 1)
        /\ LifeOrdered'
        /\ Stored' = Patched(is)
    BY <1>1, <1>2, <1>3, UpdateEffect
  <1>5. ConditionsBounded'
    <2> SUFFICES ASSUME Stored'.life = "live"
                 PROVE  Len(Stored'.conds) <= MaxReports
      BY DEF ConditionsBounded, MaxReports
    <2>1. Stored.life = "live" /\ (Stored'.conds = is.conds \/ Stored'.conds = Stored.conds)
      BY <1>1, <1>3, <1>4, PatchedType
    <2> QED
      BY <1>1, <1>2, <2>1 DEF ConditionsBounded, WellReported, MaxReports
  <1> QED
    BY <1>4, <1>5 DEF HistInv

\* VMRayClusterDelete: its conditions pile up on an object that no longer lives.
LEMMA DeleteHistInv ==
    ASSUME StatusInv, VMRayClusterDelete
    PROVE  HistInv' /\ Stored'.life # "live"
  <1>1. TypeOK /\ LifeOrdered /\ ConditionsBounded
    BY DEF StatusInv
  <1>2. Cached \in VMRayCluster /\ Stored \in VMRayCluster /\ Len(hist) \in Nat \ {0}
    BY <1>1, StoredType
  <1>3. Cached.life = "deleting"
    BY DEF VMRayClusterDelete, DeleteFails, DeleteSucceeds
  <1>4. Stored.life # "live"
    BY <1>1, <1>2, <1>3 DEF LifeOrdered, Stored, Cached
  <1>5. CASE DeleteFails
    <2>1. ASSUME NEW cr \in VMRayCluster, NEW now \in Seconds, NEW reason \in Reasons
          PROVE  DeleteError(cr, reason, now) \in VMRayCluster
      <3>1. [type |-> "DeleteCluster", reason |-> reason, about |-> "node", at |-> now] \in Condition
        BY <2>1 DEF Condition, Types
      <3>2. cr.conds \in Seq(Condition)
        BY <2>1 DEF VMRayCluster
      <3>3. AddErrorCondition(cr.conds, "DeleteCluster", reason, "node", now) \in Seq(Condition)
        BY <3>1, <3>2, AppendProperties DEF AddErrorCondition
      <3> QED
        BY <2>1, <3>3 DEF DeleteError, VMRayCluster
    <2>2. ASSUME NEW dropped \in SUBSET TrackedIn(Cached.workers)
          PROVE  [Cached EXCEPT !.workers = [w \in Workers |->
                     IF w \in dropped THEN Untracked ELSE @[w]]] \in VMRayCluster
      BY <1>2 DEF VMRayCluster, WorkerStatus
    <2>3. PICK is \in VMRayCluster : UpdateStatus(is)
      <3>1. PICK now \in Seconds, cr \in VMRayCluster, reason \in Reasons :
               UpdateStatus(DeleteError(cr, reason, now))
        <4>1. {"FailureToDeleteAuxiliaryResources", "FailureToDeleteHeadNode",
               "FailureToDeleteWorkerNode"} \subseteq Reasons
          BY DEF Reasons
        <4>2. PICK now \in Seconds :
                 \/ UpdateStatus(DeleteError(Cached, "FailureToDeleteAuxiliaryResources", now))
                 \/ UpdateStatus(DeleteError(Cached, "FailureToDeleteHeadNode", now))
                 \/ \E dropped \in SUBSET TrackedIn(Cached.workers) :
                       UpdateStatus(DeleteError(
                           [Cached EXCEPT !.workers = [w \in Workers |->
                               IF w \in dropped THEN Untracked ELSE @[w]]],
                           "FailureToDeleteWorkerNode", now))
          BY <1>5 DEF DeleteFails
        <4> QED
          BY <1>2, <2>2, <4>1, <4>2
      <3> QED
        BY <2>1, <3>1
    <2>4. /\ hist' \in Seq(VMRayCluster) /\ Len(hist') \in 1..(MaxLag + 1)
          /\ LifeOrdered'
          /\ Stored'.life # "live"
      BY <1>1, <1>4, <2>3, UpdateEffect, PatchedType
    <2> QED
      BY <2>4 DEF HistInv, ConditionsBounded
  <1>6. CASE DeleteSucceeds /\ Len(hist) = 1
    <2>1. Write(Gone)
      BY <1>6 DEF DeleteSucceeds
    <2>2. /\ hist' \in Seq(VMRayCluster) /\ Len(hist') \in 1..(MaxLag + 1)
          /\ LifeOrdered'
          /\ Stored' = Gone
      BY <1>1, <2>1, GoneType, WriteEffect, WriteOrdered
    <2> QED
      BY <2>2, GoneType DEF HistInv, ConditionsBounded
  <1>7. CASE DeleteSucceeds /\ Len(hist) # 1
    <2>1. hist' = hist
      BY <1>7 DEF DeleteSucceeds
    <2> QED
      BY <1>1, <1>4, <2>1 DEF HistInv, TypeOK, LifeOrdered, ConditionsBounded, Stored
  <1> QED
    BY <1>5, <1>6, <1>7 DEF VMRayClusterDelete

\* The informer drops the oldest version and keeps the stored one.
LEMMA SyncHistInv ==
    ASSUME StatusInv, Sync
    PROVE  HistInv'
  <1>1. TypeOK /\ LifeOrdered /\ ConditionsBounded
    BY DEF StatusInv
  <1>2. /\ Len(hist) \in Nat /\ Len(hist) > 1 /\ Len(hist) <= MaxLag + 1 /\ MaxLag \in Nat
        /\ hist \in Seq(VMRayCluster) /\ hist # <<>> /\ hist' = Tail(hist)
    BY <1>1, StatusAssumption DEF TypeOK, Sync
  <1>3. /\ hist' \in Seq(VMRayCluster)
        /\ Len(hist') = Len(hist) - 1
        /\ \A i \in 1..Len(hist') : hist'[i] = hist[i + 1]
    BY <1>2, HeadTailProperties
  <1>4. Stored' = Stored
    BY <1>2, <1>3 DEF Stored
  <1>5. LifeOrdered'
    <2> SUFFICES ASSUME NEW i \in 1..Len(hist'), NEW j \in i..Len(hist'), hist'[i].life # "live"
                 PROVE  hist'[j].life # "live"
      BY DEF LifeOrdered
    <2>1. i + 1 \in 1..Len(hist) /\ j + 1 \in (i + 1)..Len(hist)
      BY <1>2, <1>3
    <2>2. hist'[i] = hist[i + 1] /\ hist'[j] = hist[j + 1]
      BY <1>2, <1>3
    <2> QED
      BY <1>1, <2>1, <2>2 DEF LifeOrdered
  <1> QED
    BY <1>1, <1>2, <1>3, <1>4, <1>5 DEF HistInv, ConditionsBounded

\* A write by the autoscaler or a user, which touches no report.
LEMMA OutsideWriteHistInv ==
    ASSUME StatusInv, AutoscalerPatch \/ UserDelete
    PROVE  /\ HistInv'
           /\ Stored'.life = "live" => Stored'.conds = Stored.conds /\ Stored'.state = Stored.state
  <1>1. TypeOK /\ LifeOrdered /\ ConditionsBounded
    BY DEF StatusInv
  <1>2. Stored \in VMRayCluster /\ Stored.life = "live"
    BY <1>1, StoredType DEF AutoscalerPatch, UserDelete
  <1>3. PICK new \in VMRayCluster :
           /\ Write(new)
           /\ new.life = "live" => new.conds = Stored.conds /\ new.state = Stored.state
    <2>1. CASE AutoscalerPatch
      <3>1. PICK d \in SUBSET Workers : Write([Stored EXCEPT !.desired = d])
        BY <2>1 DEF AutoscalerPatch
      <3>2. /\ [Stored EXCEPT !.desired = d] \in VMRayCluster
            /\ [Stored EXCEPT !.desired = d].conds = Stored.conds
            /\ [Stored EXCEPT !.desired = d].state = Stored.state
        BY <3>1, <1>2 DEF VMRayCluster
      <3> QED
        BY <3>1, <3>2
    <2>2. CASE UserDelete
      <3>1. /\ [Stored EXCEPT !.life = "deleting"] \in VMRayCluster
            /\ [Stored EXCEPT !.life = "deleting"].life = "deleting"
        BY <1>2 DEF VMRayCluster
      <3> QED
        BY <2>2, <3>1, GoneType DEF UserDelete
    <2> QED
      BY <2>1, <2>2
  <1>4. /\ hist' \in Seq(VMRayCluster) /\ Len(hist') \in 1..(MaxLag + 1)
        /\ LifeOrdered'
        /\ Stored' = new
    BY <1>1, <1>2, <1>3, WriteEffect, WriteOrdered
  <1> QED
    BY <1>1, <1>2, <1>3, <1>4 DEF HistInv, ConditionsBounded

\* Every step preserves the invariant.
LEMMA StatusInvNext ==
    ASSUME StatusInv, [Next]_vars
    PROVE  StatusInv'
  <1>1. TypeOK
    BY DEF StatusInv
  <1>2. CASE hist' = hist /\ RestTypeOK'
    BY <1>2 DEF StatusInv, TypeOK, RestTypeOK, LifeOrdered, ConditionsBounded, Stored
  <1>3. CASE HistInv' /\ RestTypeOK'
    BY <1>3 DEF StatusInv, TypeOK, RestTypeOK, HistInv
  <1>4. CASE UNCHANGED vars
    BY <1>4 DEF vars, StatusInv, TypeOK, LifeOrdered, ConditionsBounded, Stored
  <1>5. CASE Controller
    BY <1>1, <1>3, <1>5, ControllerRestType, ReconcileHistInv, DeleteHistInv DEF Controller
  <1>6. CASE Sync
    BY <1>1, <1>3, <1>6, OthersRestType, SyncHistInv
  <1>7. CASE AutoscalerPatch \/ UserDelete
    BY <1>1, <1>3, <1>7, OthersRestType, OutsideWriteHistInv DEF Environment
  <1>8. ASSUME /\ SvcReady \/ (\E n \in Nodes : VmBoot(n)) \/ Environment
               /\ hist' = hist
        PROVE  StatusInv'
    BY <1>1, <1>2, <1>8, OthersRestType
  <1>9. CASE SvcReady \/ (\E n \in Nodes : VmBoot(n))
    BY <1>8, <1>9 DEF SvcReady, VmBoot
  <1>10. CASE \/ \E n \in Nodes : VmOutage(n)
              \/ \E call \in Calls : Break(call) \/ Mend(call)
              \/ \E d \in Deps : DependencyAdded(d) \/ DependencyRemoved(d)
    BY <1>8, <1>10 DEF Environment, VmOutage, Break, Mend, DependencyAdded, DependencyRemoved
  <1> QED
    BY <1>4, <1>5, <1>6, <1>7, <1>9, <1>10 DEF Next, Environment

-----------------------------------------------------------------------------
(* The theorems.                                                           *)

\* The inductive invariant holds in every reachable state.
THEOREM StatusInvariance == Spec => []StatusInv
  BY StatusInvInit, StatusInvNext, PTL DEF Spec

\* Type correctness: what VMRayClusterReconcile, VMRayClusterDelete and the
\* rest store always has the shape of the Go structures, conditions included.
THEOREM StatusTypeCorrect == Spec => []TypeOK
  <1>1. StatusInv => TypeOK
    BY DEF StatusInv
  <1> QED
    BY <1>1, StatusInvariance, PTL

\* Conditions do not pile up on a live object: over any number of retries and
\* from however old a version, there are never more than lookups.
THEOREM ConditionsStayBounded == Spec => []ConditionsBounded
  <1>1. StatusInv => ConditionsBounded
    BY DEF StatusInv
  <1> QED
    BY <1>1, StatusInvariance, PTL

\* A reconcile that read the stored version leaves state and conditions that
\* agree.
LEMMA FreshReconcileAgrees ==
    ASSUME StatusInv, VMRayClusterReconcile, Len(hist) = 1
    PROVE  ConditionsMeanUnhealthy'
  <1>1. TypeOK /\ LifeOrdered /\ Stored = Cached
    BY DEF StatusInv, Stored, Cached
  <1>2. PICK is : WellReported(is) /\ UpdateStatus(is)
    BY <1>1, ReconcileReports
  <1>3. is \in VMRayCluster
    BY <1>2 DEF WellReported
  <1>4. Stored' = Patched(is)
    BY <1>1, <1>2, <1>3, UpdateEffect
  <1>5. Stored'.state = is.state /\ Stored'.conds = is.conds
    BY <1>1, <1>3, <1>4, PatchedType
  <1> QED
    BY <1>2, <1>5 DEF WellReported, ConditionsMeanUnhealthy

\* Whatever older reconciles left, VMRayClusterReconcile on the stored version
\* ends with conditions only beside the state unhealthy.
THEOREM ReconcilesAgree == Spec => ReportsAgree
  <1>1. StatusInv /\ [Next]_vars => [VMRayClusterReconcile /\ Len(hist) = 1 => ConditionsMeanUnhealthy']_vars
    BY FreshReconcileAgrees
  <1> QED
    BY <1>1, StatusInvariance, PTL DEF Spec, ReportsAgree


\* The invariant of a cache that is never behind.
FreshStatusInv == MaxLag = 0 /\ StatusInv /\ ConditionsMeanUnhealthy

\* With a cache that is never behind, no stored version of a live object has
\* a condition beside any other state than unhealthy.
THEOREM FreshReportsAgree == MaxLag = 0 /\ Spec => []ConditionsMeanUnhealthy
  <1>1. MaxLag = 0 /\ Init => FreshStatusInv
    <2> SUFFICES ASSUME MaxLag = 0, Init
                 PROVE  ConditionsMeanUnhealthy
      BY StatusInvInit DEF FreshStatusInv
    <2>1. PICK d \in SUBSET Workers : hist = <<Submitted(d)>>
      BY DEF Init
    <2> QED
      BY <2>1, SubmittedType DEF ConditionsMeanUnhealthy, Stored
  <1>2. FreshStatusInv /\ [Next]_vars => FreshStatusInv'
    <2> SUFFICES ASSUME MaxLag = 0, StatusInv, ConditionsMeanUnhealthy, [Next]_vars
                 PROVE  ConditionsMeanUnhealthy'
      BY StatusInvNext DEF FreshStatusInv
    <2>1. Len(hist) = 1
      BY DEF StatusInv, TypeOK
    <2>2. CASE hist' = hist
      BY <2>2 DEF ConditionsMeanUnhealthy, Stored
    <2>3. CASE VMRayClusterReconcile
      BY <2>1, <2>3, FreshReconcileAgrees
    <2>4. CASE VMRayClusterDelete
      BY <2>4, DeleteHistInv DEF ConditionsMeanUnhealthy
    <2>5. CASE AutoscalerPatch \/ UserDelete
      <3>1. Stored.life = "live"
        BY <2>5 DEF AutoscalerPatch, UserDelete
      <3> QED
        BY <2>5, <3>1, OutsideWriteHistInv DEF ConditionsMeanUnhealthy
    <2>6. CASE Sync
      BY <2>1, <2>6 DEF Sync
    <2>7. CASE \/ SvcReady \/ \E n \in Nodes : VmBoot(n) \/ VmOutage(n)
               \/ \E call \in Calls : Break(call) \/ Mend(call)
               \/ \E d \in Deps : DependencyAdded(d) \/ DependencyRemoved(d)
      BY <2>2, <2>7 DEF SvcReady, VmBoot, VmOutage, Break, Mend, DependencyAdded, DependencyRemoved
    <2>8. CASE UNCHANGED vars
      BY <2>2, <2>8 DEF vars
    <2> QED
      BY <2>3, <2>4, <2>5, <2>6, <2>7, <2>8 DEF Next, Controller, Environment
  <1>3. FreshStatusInv => ConditionsMeanUnhealthy
    BY DEF FreshStatusInv
  <1> QED
    BY <1>1, <1>2, <1>3, PTL DEF Spec
=============================================================================

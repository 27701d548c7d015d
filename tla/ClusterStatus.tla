--------------------------- MODULE ClusterStatus ---------------------------
(***************************************************************************)
(* What a VMRayCluster tells its user: Status.ClusterState and             *)
(* Status.Conditions, as VMRayClusterReconcile and VMRayClusterDelete      *)
(* compute them from missing dependencies, failing nodes and failing       *)
(* deletions.  A reconcile is one action here (RayCluster looks into it);  *)
(* it works on the cached version of the object and patches the stored     *)
(* one, and what it finds is decided by faults that last until mended.     *)
(***************************************************************************)
EXTENDS StatusPatch, Naturals, Sequences, FiniteSets, FiniteSetsExt

CONSTANTS
    Workers,      \* worker names the autoscaler may ask for
    HeadNode,     \* the head node
    NodeTypes,    \* the keys of available_node_types
    VMClass,      \* the VM class of every node type
    MinWorkers,   \* min_workers of every node type
    MaxLag,       \* how many versions of the object the cache may be behind
    MaxEdits,     \* bound: changes of the desired workers
    MaxFaults,    \* bound: faults, outages, dependencies that disappear
    MaxConditions \* bound: length of Conditions at which deletion is not retried

Nodes   == Workers \cup {HeadNode}
Classes == {VMClass[t] : t \in NodeTypes}

ASSUME StatusAssumption ==
    /\ HeadNode \notin Workers
    /\ IsFiniteSet(NodeTypes)
    /\ Classes \cap {"image", "storage"} = {}
    /\ MinWorkers \in [NodeTypes -> Nat]
    /\ {MaxLag, MaxEdits, MaxFaults, MaxConditions} \subseteq Nat

VARIABLES
    hist,     \* versions of the object from the cached to the stored one
    vms,      \* the VirtualMachine of every node
    svc,      \* the VirtualMachineService of the head node
    deps,     \* the VM image, storage class and VM classes that exist
    faulty,   \* the calls that fail at present
    budget    \* what is left of the bounds

vars == <<hist, vms, svc, deps, faulty, budget>>

-----------------------------------------------------------------------------
(* State.                                                                  *)

HEALTHY   == "healthy"
UNHEALTHY == "unhealthy"

Deps == {"image", "storage"} \cup Classes

\* The calls that can fail for a while: Deploy of a node, a read of its VM,
\* the deletion of the auxiliary resources.
Calls == (Nodes \X {"deploy", "fetch"}) \cup {<<HeadNode, "aux">>}

\* A condition: its type, its reason, what its message names, and the second
\* it was added, of which only "the same or another" matters.
Seconds   == {0, 1}
Types     == {"InvalidVirtualMachineImage", "InvalidStorageClass", "InvalidVirtualMachineClass",
              "HeadNodeReady", "WorkerNodeReady", "DeleteCluster"}
Reasons   == {"ResourceNotFound", "FailureToDeployNode", "FailureToDeleteAuxiliaryResources",
              "FailureToDeleteHeadNode", "FailureToDeleteWorkerNode"}
Condition == [type : Types, reason : Reasons, about : Deps \cup {"node"}, at : Seconds]

VMRayCluster ==
    [life : {"live", "deleting", "gone"}, desired : SUBSET Workers, head : VMRayNodeStatus,
     workers : [Workers -> WorkerStatus], state : {"", HEALTHY, UNHEALTHY},
     conds : Seq(Condition)]

Submitted(d) ==
    [life |-> "live", desired |-> d, head |-> NewNode,
     workers |-> [w \in Workers |-> Untracked], state |-> "", conds |-> <<>>]

Gone == [Submitted({}) EXCEPT !.life = "gone"]

Stored == hist[Len(hist)]
Cached == hist[1]

\* Every write makes a version; the cache is never more than MaxLag behind.
Write(new) ==
    IF new = Stored THEN UNCHANGED hist
    ELSE hist' = Append(IF Len(hist) > MaxLag THEN Tail(hist) ELSE hist, new)

\* updateStatus: the fields in which the object after the reconcile (is)
\* differs from the cached one; a list is patched as a whole.
Patched(is) ==
    [Stored EXCEPT
        !.head    = Merge(Cached.head, is.head, @),
        !.workers = MergeWorkers(Cached.workers, is.workers, @),
        !.state   = IF is.state # Cached.state THEN is.state ELSE @,
        !.conds   = IF is.conds # Cached.conds THEN is.conds ELSE @]

\* The singletons let TLC evaluate the object and the patch once.
UpdateStatus(cr) ==
    /\ Stored.life # "gone"
    /\ \E is \in {cr} : \E new \in {Patched(is)} : Write(new)

Spend(kind) == budget[kind] > 0 /\ budget' = [budget EXCEPT ![kind] = @ - 1]

Init ==
    /\ \E d \in SUBSET Workers : hist = <<Submitted(d)>>
    /\ vms = [n \in Nodes |-> "absent"]
    /\ svc = "absent"
    /\ deps \in SUBSET Deps
    /\ faulty = {}
    /\ budget = [edits |-> MaxEdits, faults |-> MaxFaults]

-----------------------------------------------------------------------------
(* ValidateAuxiliaryDependencies.                                          *)

AddErrorCondition(conds, type, reason, about, now) ==
    Append(conds, [type |-> type, reason |-> reason, about |-> about, at |-> now])

\* The elements of s at the positions in kept, in their order.
Keep(s, kept) ==
    LET Rank(i) == Cardinality({k \in kept : k <= i})
    IN  [j \in 1..Cardinality(kept) |-> s[CHOOSE i \in kept : Rank(i) = j]]

\* slices.Compact drops an element that equals the one before it.
Compact(s) == Keep(s, {i \in 1..Len(s) : i = 1 \/ s[i] # s[i - 1]})

\* The orders in which a range over the map of node types can visit it.
Orders == {o \in [1..Cardinality(NodeTypes) -> NodeTypes] :
              \A i, j \in DOMAIN o : o[i] = o[j] => i = j}

\* What is looked up, one after the other, for one order of the map.
Lookups(order) ==
    <<"image", "storage">> \o Compact([i \in DOMAIN order |-> VMClass[order[i]]])

NotFoundType(d) ==
    CASE d = "image"   -> "InvalidVirtualMachineImage"
      [] d = "storage" -> "InvalidStorageClass"
      [] OTHER         -> "InvalidVirtualMachineClass"

\* Mutant: only the first dependency that is missing is reported.
NotFoundConditionsFirst(lookups, now) ==
    LET missing == Keep(lookups, {i \in 1..Len(lookups) : lookups[i] \notin deps})
    IN  [i \in 1..(IF missing = <<>> THEN 0 ELSE 1) |->
            [type |-> NotFoundType(missing[i]), reason |-> "ResourceNotFound",
             about |-> missing[i], at |-> now]]

NotFoundConditions(lookups, now) ==
    LET missing == Keep(lookups, {i \in 1..Len(lookups) : lookups[i] \notin deps})
    IN  [i \in DOMAIN missing |->
            [type |-> NotFoundType(missing[i]), reason |-> "ResourceNotFound",
             about |-> missing[i], at |-> now]]

\* Mutant: the conditions of the reconcile before are kept.
ResetKeepsConditions(cr) == [cr EXCEPT !.state = HEALTHY]

\* Mutant: only the conditions start afresh, the state does not.
ResetKeepsState(cr) == [cr EXCEPT !.conds = <<>>]

\* The object as VMRayClusterReconcile starts to work on it.
Reset(cr) == [cr EXCEPT !.conds = <<>>, !.state = HEALTHY]

\* A dependency is missing: the state and a condition for each lookup that
\* failed are stored, and nothing else is done.
Invalid ==
    /\ Cached.life = "live"
    /\ deps # Deps
    /\ \E order \in Orders, now \in Seconds :
          UpdateStatus([Reset(Cached) EXCEPT
                          !.state = UNHEALTHY,
                          !.conds = @ \o NotFoundConditions(Lookups(order), now)])
    /\ UNCHANGED <<vms, svc, deps, faulty, budget>>

\* A lookup fails for another reason: the cluster is marked unhealthy with the
\* conditions found so far, and none for the failure.
ValidationError ==
    /\ Cached.life = "live"
    /\ \E order \in Orders, now \in Seconds : \E k \in 0..(Len(Lookups(order)) - 1) :
          UpdateStatus([Reset(Cached) EXCEPT
                          !.state = UNHEALTHY,
                          !.conds = @ \o NotFoundConditions(SubSeq(Lookups(order), 1, k), now)])
    /\ Spend("faults")
    /\ UNCHANGED <<vms, svc, deps, faulty>>

-----------------------------------------------------------------------------
(* The head and the workers.                                               *)

Fails(n, call) == <<n, call>> \in faulty

FetchVmStatus(n) ==
    IF Fails(n, "fetch") THEN "fetchError"
    ELSE CASE vms[n] = "absent"  -> "notFound"
           [] vms[n] = "booting" -> "noIp"
           [] OTHER              -> "ip"

Deploy(n) ==
    IF Fails(n, "deploy") THEN "deployError"
    ELSE IF vms[n] = "absent" THEN "created" ELSE "exists"

\* DeployVmService comes before Deploy and swallows an error of its read.
HeadAnswer ==
    IF Cached.head.vm # EMPTY THEN FetchVmStatus(HeadNode)
    ELSE IF Fails(HeadNode, "fetch") \/ svc = "absent" THEN "noService"
    ELSE IF svc = "pending" THEN "serviceError"
    ELSE Deploy(HeadNode)

WorkerAnswer(w) ==
    IF AsNode(Cached.workers[w]).vm = EMPTY THEN Deploy(w) ELSE FetchVmStatus(w)

HeadOutcome      == ProcessNodeVmState(Cached.head, HeadAnswer)
WorkerOutcome(w) == ProcessNodeVmState(AsNode(Cached.workers[w]), WorkerAnswer(w))

\* The object after reconcileHeadNode.
HeadDone == [Reset(Cached) EXCEPT !.head = HeadOutcome.status]

\* What the calls leave behind: VMs for the nodes among visited that Deploy
\* created one for, none for the nodes in dropped.
Provision(visited, dropped) ==
    LET Answer(n) == IF n = HeadNode THEN HeadAnswer ELSE WorkerAnswer(n)
    IN  /\ vms' = [n \in Nodes |->
                     CASE n \in dropped                             -> "absent"
                       [] n \in visited /\ Answer(n) = "created"    -> "booting"
                       [] OTHER                                     -> vms[n]]
        /\ svc' = IF HeadAnswer = "noService" /\ ~Fails(HeadNode, "fetch")
                  THEN "pending" ELSE svc

Validated == Cached.life = "live" /\ deps = Deps

HeadFails ==
    /\ Validated /\ HeadOutcome.err
    /\ \E now \in Seconds :
          UpdateStatus([HeadDone EXCEPT
                          !.state = UNHEALTHY,
                          !.conds = AddErrorCondition(@, "HeadNodeReady",
                                        "FailureToDeployNode", "node", now)])
    /\ Provision({HeadNode}, {})
    /\ UNCHANGED <<deps, faulty, budget>>

HeadNotReady ==
    /\ Validated /\ ~HeadOutcome.err /\ HeadDone.head.ray # RAY_RUNNING
    /\ UpdateStatus(HeadDone)
    /\ Provision({HeadNode}, {})
    /\ UNCHANGED <<deps, faulty, budget>>

ReconcilesWorkers == Validated /\ ~HeadOutcome.err /\ HeadDone.head.ray = RAY_RUNNING

Undesired == TrackedIn(Cached.workers) \ Cached.desired

\* The object after the workers in dropped are deleted and those in visited
\* went through ProcessNodeVmState.
WorkersDone(visited, dropped) ==
    [HeadDone EXCEPT !.workers =
        [w \in Workers |-> CASE w \in visited -> WorkerOutcome(w).status
                             [] w \in dropped -> Untracked
                             [] OTHER         -> @[w]]]

GetMinWorkerNodes == MapThenSumSet(LAMBDA t : MinWorkers[t], NodeTypes)

\* Mutant: the condition is added and the state is forgotten.
WorkerErrorKeepsState(cr, now) ==
    [cr EXCEPT !.conds = AddErrorCondition(@, "WorkerNodeReady",
                             "FailureToDeployNode", "node", now)]

\* An error of reconcileWorkerNodes counts only while few workers are recorded.
WorkerError(cr, now) ==
    IF Cardinality(TrackedIn(cr.workers)) <= GetMinWorkerNodes
    THEN [cr EXCEPT !.state = UNHEALTHY,
                    !.conds = AddErrorCondition(@, "WorkerNodeReady",
                                  "FailureToDeployNode", "node", now)]
    ELSE cr

\* deleteWorkerNodes ends at the first VM that cannot be deleted, after some
\* of the others.
PruneFails ==
    /\ ReconcilesWorkers
    /\ LET stuck == {w \in Undesired : Fails(w, "fetch")}
       IN  /\ stuck # {}
           /\ \E dropped \in SUBSET (Undesired \ stuck), now \in Seconds :
                 /\ UpdateStatus(WorkerError(WorkersDone({}, dropped), now))
                 /\ Provision({HeadNode}, dropped)
    /\ UNCHANGED <<deps, faulty, budget>>

\* reconcileDesiredWorkers ends at the first worker with an error, after some
\* of those without one.
WorkersFail ==
    /\ ReconcilesWorkers /\ \A w \in Undesired : ~Fails(w, "fetch")
    /\ LET failing == {w \in Cached.desired : WorkerOutcome(w).err}
       IN  \E last \in failing, done \in SUBSET (Cached.desired \ failing), now \in Seconds :
              LET visited == done \cup {last}
              IN  /\ UpdateStatus(WorkerError(WorkersDone(visited, Undesired), now))
                  /\ Provision(visited \cup {HeadNode}, Undesired)
    /\ UNCHANGED <<deps, faulty, budget>>

WorkersSucceed ==
    /\ ReconcilesWorkers /\ \A w \in Undesired : ~Fails(w, "fetch")
    /\ \A w \in Cached.desired : ~WorkerOutcome(w).err
    /\ UpdateStatus(WorkersDone(Cached.desired, Undesired))
    /\ Provision(Cached.desired \cup {HeadNode}, Undesired)
    /\ UNCHANGED <<deps, faulty, budget>>

-----------------------------------------------------------------------------
(* VMRayClusterDelete.  Conditions and state are not reset.                *)

DeleteError(cr, reason, now) ==
    [cr EXCEPT !.conds = AddErrorCondition(@, "DeleteCluster", reason, "node", now)]

DeleteFails ==
    /\ Cached.life = "deleting" /\ Len(Cached.conds) < MaxConditions
    /\ \E now \in Seconds :
       \/ /\ Fails(HeadNode, "aux")
          /\ UpdateStatus(DeleteError(Cached, "FailureToDeleteAuxiliaryResources", now))
          /\ UNCHANGED <<vms, svc>>
       \/ /\ ~Fails(HeadNode, "aux") /\ Fails(HeadNode, "fetch")
          /\ UpdateStatus(DeleteError(Cached, "FailureToDeleteHeadNode", now))
          /\ UNCHANGED <<vms, svc>>
       \/ /\ ~Fails(HeadNode, "aux") /\ ~Fails(HeadNode, "fetch")
          /\ LET stuck == {w \in TrackedIn(Cached.workers) : Fails(w, "fetch")}
             IN  /\ stuck # {}
                 /\ \E dropped \in SUBSET (TrackedIn(Cached.workers) \ stuck) :
                       /\ UpdateStatus(DeleteError(
                             [Cached EXCEPT !.workers = [w \in Workers |->
                                 IF w \in dropped THEN Untracked ELSE @[w]]],
                             "FailureToDeleteWorkerNode", now))
                       /\ vms' = [n \in Nodes |-> IF n \in dropped \cup {HeadNode}
                                                  THEN "absent" ELSE vms[n]]
                       /\ svc' = "absent"
    /\ UNCHANGED <<deps, faulty, budget>>

DeleteSucceeds ==
    /\ Cached.life = "deleting"
    /\ ~Fails(HeadNode, "aux")
    /\ \A n \in TrackedIn(Cached.workers) \cup {HeadNode} : ~Fails(n, "fetch")
    /\ vms' = [n \in Nodes |-> IF n \in TrackedIn(Cached.workers) \cup {HeadNode}
                               THEN "absent" ELSE vms[n]]
    /\ svc' = "absent"
    /\ IF Len(hist) = 1 THEN Write(Gone) ELSE UNCHANGED hist
    /\ UNCHANGED <<deps, faulty, budget>>

-----------------------------------------------------------------------------
(* Everybody else (external).                                              *)

Sync ==
    /\ Len(hist) > 1
    /\ hist' = Tail(hist)
    /\ UNCHANGED <<vms, svc, deps, faulty, budget>>

AutoscalerPatch ==
    /\ Stored.life = "live"
    /\ \E d \in SUBSET Workers \ {Stored.desired} : Write([Stored EXCEPT !.desired = d])
    /\ Spend("edits")
    /\ UNCHANGED <<vms, svc, deps, faulty>>

\* The object stays until it is reconciled if its finalizer is there, which
\* it is once a status was stored.
UserDelete ==
    /\ Stored.life = "live"
    /\ \/ Write([Stored EXCEPT !.life = "deleting"])
       \/ Stored.state = "" /\ Write(Gone)
    /\ UNCHANGED <<vms, svc, deps, faulty, budget>>

VmBoot(n) ==
    /\ vms[n] = "booting"
    /\ vms' = [vms EXCEPT ![n] = "up"]
    /\ UNCHANGED <<hist, svc, deps, faulty, budget>>

SvcReady ==
    /\ svc = "pending"
    /\ svc' = "ready"
    /\ UNCHANGED <<hist, vms, deps, faulty, budget>>

\* A VM loses its address or is deleted by hand.
VmOutage(n) ==
    /\ vms[n] # "absent"
    /\ \E s \in {"booting", "absent"} \ {vms[n]} : vms' = [vms EXCEPT ![n] = s]
    /\ Spend("faults")
    /\ UNCHANGED <<hist, svc, deps, faulty>>

Break(call) ==
    /\ call \notin faulty
    /\ faulty' = faulty \cup {call}
    /\ Spend("faults")
    /\ UNCHANGED <<hist, vms, svc, deps>>

Mend(call) ==
    /\ call \in faulty
    /\ faulty' = faulty \ {call}
    /\ UNCHANGED <<hist, vms, svc, deps, budget>>

DependencyAdded(d) ==
    /\ d \notin deps
    /\ deps' = deps \cup {d}
    /\ UNCHANGED <<hist, vms, svc, faulty, budget>>

DependencyRemoved(d) ==
    /\ d \in deps
    /\ deps' = deps \ {d}
    /\ Spend("faults")
    /\ UNCHANGED <<hist, vms, svc, faulty>>

-----------------------------------------------------------------------------

VMRayClusterReconcile ==
    \/ Invalid \/ ValidationError \/ HeadFails \/ HeadNotReady
    \/ PruneFails \/ WorkersFail \/ WorkersSucceed

VMRayClusterDelete == DeleteFails \/ DeleteSucceeds

Controller == VMRayClusterReconcile \/ VMRayClusterDelete

Environment ==
    \/ AutoscalerPatch \/ UserDelete
    \/ \E n \in Nodes : VmOutage(n)
    \/ \E call \in Calls : Break(call) \/ Mend(call)
    \/ \E d \in Deps : DependencyAdded(d) \/ DependencyRemoved(d)

Next == Controller \/ Sync \/ SvcReady \/ (\E n \in Nodes : VmBoot(n)) \/ Environment

Spec == Init /\ [][Next]_vars

\* A reconcile is requeued or retried after every outcome; the watch and the
\* VM operator make progress.  Faults come and go as they like.
Fairness ==
    /\ WF_vars(Controller)
    /\ WF_vars(Sync)
    /\ WF_vars(SvcReady)
    /\ \A n \in Nodes : WF_vars(VmBoot(n))

FairSpec == Spec /\ Fairness

-----------------------------------------------------------------------------
(* Properties.                                                             *)

\* Every variable keeps the shape of the Go structure or Kubernetes object it
\* models, through every reconcile and every event outside.
TypeOK ==
    /\ hist \in Seq(VMRayCluster) /\ Len(hist) \in 1..(MaxLag + 1)
    /\ vms \in [Nodes -> {"absent", "booting", "up"}]
    /\ svc \in {"absent", "pending", "ready"}
    /\ deps \subseteq Deps
    /\ faulty \subseteq Calls
    /\ budget \in [edits : Nat, faults : Nat]

\* Reported conditions and reported state agree: there is no condition on a
\* live cluster that is called healthy.
ConditionsMeanUnhealthy ==
    Stored.life = "live" /\ Stored.conds # <<>> => Stored.state = UNHEALTHY

\* updateStatus patches only what a reconcile changed in the version it read,
\* so that one that read an old version may store conditions beside the
\* "healthy" of another.  A reconcile that reads what is stored mends that: state
\* and conditions agree when VMRayClusterReconcile is done.
ReportsAgree ==
    [][VMRayClusterReconcile /\ Len(hist) = 1 => ConditionsMeanUnhealthy']_vars

\* VMRayClusterReconcile starts with an empty list, so that conditions do not
\* pile up over retries: a live object has at most one for every lookup.
ConditionsBounded ==
    Stored.life = "live" => Len(Stored.conds) <= 2 + Cardinality(NodeTypes)

Reports(d) ==
    /\ Stored.state = UNHEALTHY
    /\ \E i \in 1..Len(Stored.conds) : Stored.conds[i].about = d

\* Whatever is stale, a VM image, storage class or VM class that stays missing
\* ends up in the conditions of the object and stays there.
MissingDependencyReported ==
    \A d \in Deps :
        <>[](Stored.life = "live" /\ d \notin deps) => <>[]Reports(d)

\* Whatever was reported before, once nothing fails and nothing is missing the
\* object becomes and stays healthy, without conditions.
RecoveryClears ==
    <>[](Stored.life = "live" /\ deps = Deps /\ faulty = {})
        => <>[](Stored.state = HEALTHY /\ Stored.conds = <<>>)

HeadCannotDeploy ==
    /\ Stored.life = "live" /\ deps = Deps
    /\ faulty = {<<HeadNode, "deploy">>} /\ vms[HeadNode] = "absent"

\* A head node that can never be deployed is reported again and again.
HeadFailureRecurs == <>[]HeadCannotDeploy => []<>(Stored.state = UNHEALTHY)

Created(cr) == {w \in Workers : cr.workers[w].vm \in {INITIALIZED, RUNNING}}

\* "Mark cluster state as unhealthy if we fail to create atleast minimum
\* workers": a reconcile that meets a failing worker and has fewer than the
\* minimum created does not store a healthy cluster.
MinimumWorkersOrUnhealthy ==
    [][WorkersFail /\ Cardinality(Created(Stored')) < GetMinWorkerNodes
          => Stored'.state = UNHEALTHY]_vars
=============================================================================

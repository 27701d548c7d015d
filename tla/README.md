# VMRayCluster operator: TLA+ models and proofs

The operator in `vmray-cluster-operator/` deploys Ray clusters on vSphere
virtual machines. A user submits a `VMRayCluster` object; the controller
creates a head VM behind a VM service and then the worker VMs that the
autoscaler, running in the head, asks for. This directory models the operator's
control logic in TLA+, checks it with TLC on small instances and proves with
TLAPS, for instances of any size, every safety property that those runs check.

## 1. The system

| Part | Source (under `vmray-cluster-operator/`) | State | Operations |
|---|---|---|---|
| Controller | `internal/controller/vmraycluster_controller.go`, `..._utils.go` | none of its own; two copies of the object during a reconcile | `Reconcile`, `VMRayClusterReconcile`, `VMRayClusterDelete`, `updateStatus`, finalizer handling |
| Node lifecycle manager | `internal/controller/lcm/node_lcm.go` | the node status in the object | `ProcessNodeVmState` |
| VM provider | `pkg/provider/vmop/vmop_provider.go`, `translator/` | VirtualMachine and VirtualMachineService objects | `Deploy`, `Delete`, `FetchVmStatus`, `DeployVmService`, `DeleteAuxiliaryResources` |
| Secrets, service account, role | `pkg/provider/vmop/utils/utils.go` | five secrets, service account, role, binding | create-if-missing, delete in order |
| Root CA | `pkg/provider/vmop/tls/tls_utils.go` | one secret | `CreateVMRayClusterRootSecret`, `ReadCaCrtAndCaKeyFromSecret` |
| Cloud-init, bootstrap, docker login | `pkg/provider/vmop/cloudinit/`, `utils/docker_auth.go` | none | text templates for the secrets |
| Webhook | `api/v1alpha1/vmraycluster_webhook.go` | none | `ValidateCreate`, `ValidateUpdate` |
| Manager process | `cmd/main.go` | none | flags and wiring: one controller, one worker, a cache-backed client |
| External | API server, informer caches, VM operator, autoscaler, users | the object's versions, VMs | writes, watch events, boot, removal, edits |

How they interact. `Reconcile` reads the object from the informer cache, which
may be behind the API server, keeps a deep copy, walks the head and the workers
through `ProcessNodeVmState`, which calls the VM provider, and stores the
difference between the two copies as a JSON merge patch at the very end. The
finalizer is added and removed by `Update`, which the API server refuses when
the object was written since the version read. Nothing is locked: users, the
autoscaler and the VM operator act between any two API calls, the process may
stop between any two, and any call may fail, or take effect although its answer
is lost.

What is hard: the cached object and the cached VMs, services and secrets are
stale in different ways, each kind having a cache of its own;
VMs exist before the status that records them is stored; deletion is a sequence
of ten calls any of which may fail; one worker's error ends the loop for the
others; the iteration order of Go maps differs from call to call; and secrets are
written once and reused, by other reconciles and perhaps by a later cluster of
the same name. The list
with source lines is `hazards` in `PROJECT.json`.

What makes the parts correct: nothing exists that the finalizer does not
protect; nothing survives the object; workers follow a running head; every
desired worker comes up and every other one disappears; deletion completes;
what the webhook let in stays admissible and can be deployed; what the object
reports is what is the case; and what nodes are given when they boot fits
together and belongs to their own cluster.

## 2. The modules

`NodeLcm` holds `ProcessNodeVmState` as a function of the recorded status and
of the provider's answer, one operator per `case` of the Go switch. `Ip` and
`Conditions` are copied through and never read, so they are left out.

`StatusPatch` (extends `NodeLcm`) is the merge patch of `updateStatus` on the
head's status and on `current_workers`: only fields in which the two copies
differ are written, and because `current_workers` is `omitempty` an emptied map
is patched to null as a whole.

`RayCluster` (extends `StatusPatch`) is the core: one cluster, its object, VMs, VM
service and auxiliary resources, and one reconcile at a time, as controller-runtime
guarantees for one key. Its state and the code:

| Variable | Meaning |
|---|---|
| `hist` | versions of the object; the first is what the cache shows, the last what the API server stores |
| `vms`, `svc` | VMs (absent, booting without IP, up, terminating) and the VM service |
| `aux` | secrets, role binding, role, service account that exist |
| `unseen` | those among VMs, service, secrets and account that exist and are not in their cache yet |
| `lost` | history: what the operator lost sight of, see below |
| `pc`, `todo` | the step the reconcile has reached; nodes its loop has yet to visit |
| `inst`, `orig` | `CurrentClusterState` and `OriginalClusterState` of the `reconcileEnvelope` |
| `current`, `locked` | whether `inst` has the stored resourceVersion; whether the patch carries one (the `Update` that adds the finalizer changes it, so it is part of the difference) |
| `budget` | what is left of the bounds on edits and faults; a crash and a lost patch are faults |

The manager hands the provider a client whose every `Get` is answered from an
informer cache (`cmd/main.go:117-119`). `hist` is the cache of the object.
Whatever is created and is in the constant `Late` is `unseen` until its informer
delivers it (`Show`), and a `Get` finds only what is `Shown`. Hence a `Create`
that the code would have left out fails with AlreadyExists, `FetchVmStatus`
answers NotFound, and a `Delete` that does not find its VM, service, secret or
account reports success. A cache that is late with the *state* of a VM or service
behaves like a late VM operator; one that still shows what is gone makes calls
fail, which a fault does, too.

`lost` records the two ways in which the operator loses sight of something: it
called `Delete` for it while the cache did not show it (`Overlook`), or a
reconcile that created a worker VM ended before its status was stored (`Forget`).
A later `Delete` that finds the resource, or a reconcile that visits the worker,
takes it out of `lost` again. No action reads `lost`; it only makes it possible to say that
there are no other ways.

Every function on the path of `Reconcile` is an action (`map` in
`PROJECT.json` names the lines). A step ends where other actors may act on
what it did: `Deploy` for one node is one step, and a failing one leaves any
prefix of what it creates; so does a failing `DeleteAllCloudInitSecret` or
`DeleteServiceAccountAndRole`. An operator that stops in the middle of a step
reaches the same stores as a failing call followed by `Crash`; an answer lost
after the `Update` of the finalizer or the creation of the root CA is the step
followed by `Crash`.

`ClusterContract` is the abstract specification of what the operator promises
about the resources of one cluster: they are acquired while it is served, only
given back once teardown has begun, and the object goes only when nothing is
left. Beginning the teardown may drop resources, because a reconcile that dies
may be the last that saw a live object and may forget what it created. `ClusterRefinement` shows that `RayCluster` implements it. Teardown begins
when the cache shows the deletion and no reconcile that read an older version
still runs; what is owned are the VMs that are not being removed, the service,
the secrets and the account, without what is `lost`. The TLS secret, which the autoscaler writes, is not
the operator's to acquire and is left out (see `tls_left` below). There are two
instances: all resources (`ContractHolds`), and all but the workers
(`HeadContractHolds`), which also holds when reconciles read older versions of
the object. Both hold with late caches, crashes and faults.

`ProviderCache` (extends `StatusPatch`) studies the staleness that `RayCluster`
leaves out: VMs and the workers' shared secret are read from caches that may show
any older version, also of something that is gone. `vms` holds the versions of
each VM from the one the cache shows to the stored one; `MaxVersions` bounds how
many are told apart, not how far the cache may be behind. A turn of the worker
loop is one action and its status is stored at once. It covers the AlreadyExists
answer of a secret that the cache does not show, VMs the cache does not show yet,
and VMs only the cache still shows.

`ClusterStatus` (extends `StatusPatch`) is about what the object tells its
user: `ClusterState` and `Conditions`, which nothing reads back. A whole
reconcile is one action, with one alternative per way it can end: a missing
dependency, a lookup that fails, a head that fails or is not ready, workers that
fail, success, and the same for the deletion. It works on a version of the
object that may be behind and stores a patch against it. `faulty` is the set of
calls that fail at present, until they are mended; `deps` the VM image, storage
class and VM classes that exist. A condition has its type, reason, what it
names, and a timestamp of which only "the same second or another" matters.
`Compact` is `slices.Compact`, on a list in any order of the Go map.

`Provisioning` (extends `NodeLcm`) gives the objects their content: which CA,
ssh key, token, address, port, files and mounts a cloud-init secret has, with
which secret a VM booted, which port a service forwards. Generated keys,
certificates, UIDs and addresses are numbers that are used once. Clusters are
submitted one after the other under the same name, by the ray CLI or otherwise,
perhaps with the nounce label of the one before; the user's registry secret may
be missing or incomplete; the clock counts days. Reads are current here: stale
reads and crashes are `RayCluster`'s and `ProviderCache`'s subject. A step of the
controller is a reconcile that finds the steps before its own done, so that a
long reconcile is several of them in a row; a failing one leaves any prefix of
its calls. Two simplifications: the delete loop walks the desired workers in place
of `CurrentWorkers`, which comes to the same because they only grow here, and a
deleted VM service is gone at once, which matters only to a cluster that is
submitted with the nounce label of the one before. Nounces, five random
characters, are taken to differ.

`Webhook` follows one request at a time through `validateVMRayCluster`. The loop
over node types is one action per turn, in any order; the total is kept modulo
`2^Width` (`Wrap`); the regular expressions are abstracted to "matches" or "does not".

The modules whose names begin with `MC` add what the configurations need (names,
symmetry, VM classes and minimum workers). The modules whose names end in `Proofs`
hold the proofs (section 4). Operators whose comment begins with "Mutant" are wrong variants
of the operator after them, used to show that a property can fail.

## 3. Runs

| Run | Instance | Shows |
|---|---|---|
| `fresh` | 2 workers, one perhaps of an unknown node type, caches never behind, 1 edit, 1 fault or crash, fair | `WorkersTracked`, `WorkersReleased`, `WorkersAfterHead` and the refinement `ContractHolds` when reads are fresh; `DeletionCompletes`, `DesiredWorkersRun`, `UndesiredWorkersGo` |
| `lagged` | 1 worker, object 1 version behind, late caches of head VM, service, root CA, account and workers' secret, 1 edit, 1 fault or crash | `FinalizerFirst`, `HeadReleased`, `NoResurrection` and the refinement `HeadContractHolds` in spite of stale reads and crashes, except for what a `Delete` did not find |
| `stale_reads` | 2 workers, VM and secret caches arbitrarily far behind, 4 versions told apart, 1 edit, 1 outage, fair | `DesiredWorkersHeal`, `StaleDeletionCompletes` |
| `status` | 1 worker, a minimum of 1, cache 1 behind, 1 edit, 1 fault, fair | `ConditionsBounded`, `ReportsAgree`; `MissingDependencyReported`, `RecoveryClears`, `HeadFailureRecurs` |
| `provisioning` | 2 clusters of one name, 1 worker, 1 edit, 1 fault, 1 day, fair | `NodesTrustEachOther`, `TokenOfOwnAccount`, `ServiceReachesHead`, `HeadIsOwn`, `ContainersCanStart`; `HeadServed`, `WorkersServed` |
| `webhook` | 3 node types, counts 0..2, 2-bit integers | `FinalizerUpdateAdmitted`, `AdmittedDeployable`, `TotalWithinMax` |
| `stale_orphans` | cache 1 behind, 2 edits, no crash, no fault | `WorkersReleased` fails |
| `stale_head` | cache 1 behind, 1 edit, 1 fault | `WorkersAfterHead` fails |
| `stale_delete` | 1 worker, late cache of the head VM, no edit, no fault | `NoVmLeft` fails |
| `tls_left` | 1 worker, no lag, no fault | `SecretsReleased` fails |
| `too_few_workers` | 2 workers, a minimum of 1, 2 faults | `MinimumWorkersOrUnhealthy` fails |
| `token_expires` | 1 cluster, 8 days | `TokenLastsSixMonths` fails |

Each module's run also checks its `TypeOK`. The failing runs show where the
code does not keep what its own comments say (`findings` in `PROJECT.json`). In
words:

* `stale_orphans`. A reconcile that sees a version one behind, in which the
  map becomes empty, patches `current_workers` to null and wipes the entry that
  the previous reconcile stored for a new worker. Its VM outlives the object.
  Without lag a crash has the same effect: the status patch is the only record of
  a worker VM, and if the process stops between `Deploy` and the patch and the
  worker is not desired at the retry, nobody knows the VM. `fresh` contains such
  behaviours; its properties except just these VMs (`Forget`), and no others.
* `stale_head`. A patch from an outdated copy stores `RayStatus` running
  beside `VmStatus` failure; the gate at line 179 looks at `RayStatus` alone.
* `stale_delete`. A cluster is deleted while its head is being deployed. The
  reconcile that deletes it looks for the head VM in a cache that does not show it
  yet, takes NotFound for "manually deleted", and removes the finalizer: the VM
  runs on and nobody knows it. The VM service, the secrets and the account can be
  left in the same way, and so can a worker that is dropped right after its
  creation. `HeadReleased`, `HeadContractHolds`, `WorkersTracked` and
  `ContractHolds` say that nothing is left in any other way, and `OnlyLateIsLeft`
  (section 4) that nothing of the head is left where no cache is late.
* `tls_left`. The TLS secret is the fourth of five secrets to go, before the
  service account and the head, whose autoscaler writes it: it can be written
  again in between.
* `too_few_workers`. Recorded workers are counted, whether or not they failed:
  two failed workers satisfy a minimum of one.
* `token_expires`. `60*60*30*6` seconds are seven and a half days.

The modules show further limits of the code that no run is kept for:

* `TotalWithinMax` excludes sums that do not fit into a `uint`: JSON integers go
  up to 2^63-1, so that three node types suffice for the sum to wrap.
* An AlreadyExists error of the workers' shared secret is taken for an existing
  VM and the worker becomes initialized without one. `DesiredWorkersHeal` shows
  that it recovers.
* A head that cannot be deployed alternates between FAIL, with an error, and
  EMPTY, without; in every second reconcile the cluster is called healthy.
  `HeadFailureRecurs` is what holds.
* After a crash or a lost patch, or when a `Delete` met a late cache, a worker VM
  may be lost (`lost`); `UndesiredWorkersGo` excepts it.
* `slices.Compact` removes neighbours only: a class that two node types share is
  looked up twice if the map's order separates them. `ConditionsBounded` allows
  for one lookup per node type.
* A patch made from an outdated version writes only the fields it believes to
  have changed, so that conditions can be stored beside the state healthy.
  `ReportsAgree` is what holds: a reconcile of the stored version puts both in
  order again.
* A failing deletion adds a condition at every attempt and nothing removes it;
  `MaxConditions` cuts this off, and `ConditionsBounded` speaks of live objects
  only.
* A port that is edited after the service or the head's secret was made never
  takes effect, and between the two only in one of them; `ServiceReachesHead` is
  about clusters nobody edited.
* A cluster that is submitted with the nounce label of the one before it takes
  the head VM that is still being removed for its own, until it is gone:
  `HeadIsOwn` excludes it, `HeadServed` shows that it recovers.

Bounds. One edit, fault or crash at an arbitrary point is what each hazard
needs, and the violations are found within them; two workers are the fewest in
which one worker's error can affect another; a lag of one lets a reconcile miss its
predecessor's patch or a user's write, and the proofs cover any lag. With lag 0
the cache shows every version at once. `lagged` has one worker to stay small: its
properties are about the head and the object and the invariants are proved for any
number. Its late caches take one resource of every kind: a VM, the service, a
secret that is created first, the account, a secret that is created last.
`status` has as many workers as the minimum, which the comparison still calls too
few (`too_few_workers` has one more, and both sides occur), and three lookups;
two seconds tell "same" from "another". A write at the bound of the lag makes
the cache move on in `ClusterStatus`; in `RayCluster` it waits until the cache has
moved on.
`provisioning` has two clusters, which is what adopting something of an earlier
one needs, and a clock that moves; all workers share one secret, so one worker
stands for them. In `webhook` sums of 2-bit integers up to 2 do wrap. Deadlock
is not checked except in `webhook`: the other systems really stop once the
object is gone.

Fairness (`FairSpec`). Weak fairness of the controller as a whole: the work
queue retries an error with back-off and a reconcile without error is requeued
after a fixed time. Weak fairness of each kind of VM-operator step and of the
watch. None for users, the autoscaler, faults, repairs and crashes, which the
budget bounds or the properties name, so the liveness properties say what
happens once they cease. In `ProviderCache` and `Provisioning` each worker's turn
is fair by itself, because a reconcile visits all workers that come before an
error and an error there changes that worker's status. Deletion is not fair in
`Provisioning`, whose liveness is about clusters that are kept.

## 4. Proofs

Every invariant and action property of the passing runs, and both refinements, are
theorems. They hold for every set of workers and node types, any lag, any choice of
late caches and any number of edits, crashes, faults and clusters, from the assumptions named in the
modules, which give constants their types and say which names differ:

* `ConstantsAssumption` (`RayCluster`): the head's name is no worker's name. The
  webhook does not enforce it; it holds because the autoscaler generates worker
  names.
* `NamesAssumption` (`RayCluster`): VMs, service, secrets and account are told
  apart, as Kubernetes does by their kinds.
* `ProvisioningAssumption`: the names of heads and workers differ, likewise.
* `StatusAssumption`, `WebhookAssumption`: there are finitely many node types, as in
  a Go map; `2^Width` is a positive number, which is spelled out because the
  provers do not know exponentiation; no node type is called like the marker for
  "no object".

| Module | Theorems | Property |
|---|---|---|
| `RayClusterProofs` | `TypeCorrect`, `Invariance`, `FinalizerComesFirst`, `HeadIsReleased`, `OnlyLateIsLeft`, `NothingIsResurrected` | `TypeOK`, `IndInv`, `FinalizerFirst`, `HeadReleased`, `HeadOwned \subseteq Late` once the object is gone, `NoResurrection` |
| `ClusterRefinementProofs` | `HeadContractImplemented` | `HeadContractHolds` |
| `FreshReadsProofs` | `FreshInvariance`, `WorkersStayTracked`, `WorkersAreReleased`, `WorkersFollowHead`, `ContractImplemented` | `FreshInv`, `WorkersTracked`, `WorkersReleased`, `WorkersAfterHead`, `ContractHolds` |
| `ClusterStatusProofs` | `StatusInvariance`, `StatusTypeCorrect`, `ConditionsStayBounded`, `ReconcilesAgree`, `FreshReportsAgree` | `StatusInv`, `TypeOK`, `ConditionsBounded`, `ReportsAgree`, `ConditionsMeanUnhealthy` |
| `ProvisioningProofs` | `ProvisioningInvariance`, `ProvisioningTypeCorrect`, `NodesTrust`, `TokenIsOwn`, `ServiceFitsHead`, `HeadsAreOwn`, `ContainersStart` | `ProvInv`, `TypeOK`, `NodesTrustEachOther`, `TokenOfOwnAccount`, `ServiceReachesHead`, `HeadIsOwn`, `ContainersCanStart` |
| `ProviderCacheProofs` | `ProviderTypeCorrect` | `TypeOK` |
| `WebhookProofs` | `WebhookInvariance`, `AdmittedCanBeDeployed`, `FinalizerNeverRefused`, `AdmittedTotal` | `WebhookInv`, `AdmittedDeployable`, `FinalizerUpdateAdmitted`, `TotalWithinMax` |
| `NodeLcmProofs` | lemmas on `ProcessNodeVmState` and on merge patches that the others use | |

**The object and its head.** `FinalizerFirst` and `HeadReleased` are not
inductive: a reconcile that runs on an old version could create something after
the object is gone. `IndInv` adds why it cannot. `HistOrdered`: along `hist`
deletion is never taken back and a finalizer is only lost together with the
object, so neither does the cache go back. `GoneForGood`: once the object is
gone, no version the cache can still show is both live and past
`addFinalizerAndNounce`. `ReadAtFinalizer`: a reconcile at that step that sees a
finalizer, or would be allowed to add one, works on an object that exists.
`CreatorsProtected`: past that step the stored object has its finalizer, which
only a delete reconcile could remove, and there is none while this one runs.
`DeletersFinal`: while a delete reconcile runs no version left in `hist` is live.
`DeleteProgress`: what each step of the delete loop leaves behind, namely nothing
but what it overlooked. `OnlyLateIsLeft` follows because only what is in `Late`, or
a worker, is ever `lost`: with caches that are never late, the head and everything
it needs are gone with the object. The proof has
one step per action; steps that create nothing and write no version are covered
by the lemma `QuietStep`, writes that keep the object by `WriteStep`, its
disappearance by `VanishStep`.

**The contract.** The refinement proofs classify every step of `RayCluster` by
what it does to the phase of the contract and to what is owned (`StepKind`):
what is owned stays and the phase perhaps moves forward, something is released or
lost, or something is acquired while the cluster is served. Each class is a step of `ClusterContract` or a stutter. That nothing is acquired in
teardown, and nothing is left at the end, is `DeletersFinal` and
`DeleteProgress` of `IndInv` for the head, and `FreshInv` for the workers.

**Workers.** The theorems of `FreshReadsProofs` have the hypothesis
`FreshReads`, that is `MaxLag = 0`; crashes, faults and late caches of VMs, secrets and
the rest are allowed. Nothing less will do: the runs `stale_orphans` and `stale_head`
violate two of the statements with a lag of one. `FreshInv`
says that the reconcile's original copy has the stored status (`ReadIsStored`),
how far the other copy has moved from it (`CopyUnchanged`, `FirstReconcile`), that
a ray process is recorded as running only beside a running VM (`HeadRuns`), that
the copy knows every running worker that is not lost (`CopyTracks`), and that the delete loop
covers what is recorded (`DeleteLoopCovers`). A patch then stores exactly the
copy, and that is why the stored status tracks every worker, too.

**What the object reports.** `StatusInv` holds of every version in `hist`, not
only of the stored one, because a patch is made from any of them. `Compact` and
the loop that drops conditions are both `Keep`, which selects positions of a list;
that its result has one entry for every position kept is proved from the
well-foundedness of the natural numbers by looking at the smallest position that
would fail (`RankTaken`), in place of an induction. `FreshReportsAgree` is what
a cache that is never behind adds.

**What nodes are given.** None of the properties of `Provisioning` is inductive:
they speak of VMs that run, and say nothing of secrets that a VM may yet boot
with. `ProvInv` speaks of all configurations in use, in secrets or on nodes.
`OneOrigin`: they have one CA and one ssh key in common, and as long as nothing is
deleted it is those of the secrets. `OwnToken`, `ServiceMatches`, `GoodContents`:
the same for account, service, and files. `DeleteCallsReach`: whatever lives has a
name that the delete loop visits, so that a completed loop leaves a state
`Clean`, and `CleanStart`: the next cluster finds one. `HeadVmAge`: a VM with a
head's name is not older than that name, which excludes that a head under a new
nounce was there before. Steps that only let VMs go or boot are covered by
`FadeRest`, steps that end in a clean state by `CleanRest`.

**The webhook.** `FinalizerUpdateAdmitted` says that the verdict does not depend
on the order in which the loop walks its map, once per validation. `WebhookInv`
ties the running total to a sum over the set of types visited (`AddsUp`), and the
verdict to a predicate of the object alone (`Fits`). That such sums exist is
proved by taking the smallest set of node types without one (`SumExists`), that
the fold in `TotalMinWorkers` is that sum in the same way (`FoldAddsUp`), and
that it does not matter where the total wraps around from quotient and remainder
(`ModAdd`).

Only model-checked: everything under fairness, which this prover cannot reason
about: `DeletionCompletes`, `DesiredWorkersRun`, `UndesiredWorkersGo`,
`DesiredWorkersHeal`, `StaleDeletionCompletes`, `MissingDependencyReported`,
`RecoveryClears`, `HeadFailureRecurs`, `HeadServed`, `WorkersServed`.

## 5. Not modelled

* `cmd/main.go`: flags and wiring. What the models take from it is that there is
  one controller with one worker and a client that reads from caches.
* The wording of cloud-init and bootstrap files, of certificates, commands and
  messages, and the fields of the bootstrap configuration that nothing else
  depends on: text without control flow. What ties nodes together is in
  `Provisioning`.
* Requeue times: a reconcile may start at any time.
* Several clusters at once in one namespace: the names of the secrets, the account
  and the head contain the cluster's name, and the autoscaler is trusted to give
  workers names of their own.
* Generated deep copies, the mock provider and tests; the Python scripts for the
  content library, CI, development set-ups and functional tests; the vendored
  GitHub action. They are no part of the running operator.

## 6. Plan

Done: all modules of section 2, and the proofs of every safety property that the
runs check. What could follow:

1. The safety facts behind the liveness properties, as far as they are
   step properties: that a reconcile which meets no error moves a failed node
   towards a new VM, and that no other step moves it back.
2. Which lost workers a later reconcile finds again, those that are still or again
   desired, as a property of its own.

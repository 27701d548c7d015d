------------------------------ MODULE Webhook ------------------------------
(***************************************************************************)
(* The validating webhook of VMRayCluster                                  *)
(* (api/v1alpha1/vmraycluster_webhook.go).  Every create and every update  *)
(* of the object passes it: what a user submits, the autoscaler's changes  *)
(* of the desired workers, and the updates with which the controller adds  *)
(* and removes its finalizer.  validateNodeTypes walks a Go map, whose     *)
(* order differs from one request to the next, and adds unsigned integers. *)
(***************************************************************************)
EXTENDS Naturals, FiniteSets, FiniteSetsExt

CONSTANTS
    Types,      \* names of node types
    MaxCount,   \* bound: the largest worker count in a request
    Width,      \* the number of bits of a uint
    Flaws       \* the fields that a request may get wrong

ASSUME WebhookAssumption ==
    /\ IsFiniteSet(Types) /\ "none" \notin Types
    /\ MaxCount \in Nat /\ Width \in Nat
    /\ 2^Width \in Nat \ {0} /\ MaxCount < 2^Width
    /\ Flaws \subseteq {"name", "image", "workers"}

VARIABLES
    stored,     \* the spec the API server stores, or NoObject
    req,        \* the spec under validation
    pc,         \* how far the validation is
    todo,       \* node types the loop has yet to visit
    total,      \* total_min_worker
    headSeen,   \* head_node_type_exists
    typesOk     \* validateNodeTypes returned no error

vars == <<stored, req, pc, todo, total, headSeen, typesOk>>
loop == <<todo, total, headSeen, typesOk>>

Counts   == 0..MaxCount
NodeType == [min : Counts, max : Counts]

\* What the webhook looks at: the node types T, the type of the head, the largest
\* number of workers and which of the fields matched against a regular
\* expression do not match it.
VMRayClusterSpec(T) ==
    [types : [T -> NodeType], head : Types, max : Counts, flaws : SUBSET Flaws]

NoObject == [types |-> <<>>, head |-> "none", max |-> 0, flaws |-> {}]

Init ==
    /\ stored = NoObject /\ req = NoObject
    /\ pc = "idle"
    /\ todo = {} /\ total = 0 /\ headSeen = FALSE /\ typesOk = TRUE

-----------------------------------------------------------------------------
(* Requests.                                                               *)

\* ValidateCreate and ValidateUpdate look at the new object alone.
Validate(spec) ==
    /\ pc = "idle"
    /\ req' = spec
    /\ pc' = "types"
    /\ todo' = DOMAIN spec.types
    /\ total' = 0 /\ headSeen' = FALSE /\ typesOk' = TRUE
    /\ UNCHANGED stored

Create ==
    /\ pc = "idle" /\ stored = NoObject
    /\ \E T \in SUBSET Types : \E spec \in VMRayClusterSpec(T) : Validate(spec)

\* The controller's updates change metadata only.
FinalizerUpdate == stored # NoObject /\ Validate(stored)

AutoscalerUpdate ==
    /\ stored # NoObject
    /\ \E f \in SUBSET ({"workers"} \cap Flaws) : Validate([stored EXCEPT !.flaws = f])

-----------------------------------------------------------------------------
(* validateVMRayCluster.                                                   *)

\* The sum of two uints.
Wrap(n) == n % 2^Width

\* Mutant: the limit of the whole cluster is not looked at.
CheckNodeTypeIgnoresMax(t) ==
    LET nt == req.types[t]
    IN  IF nt.min > nt.max
        THEN typesOk' = FALSE /\ pc' = "decide" /\ UNCHANGED <<todo, total, headSeen>>
        ELSE /\ total' = Wrap(total + nt.min)
             /\ headSeen' = (headSeen \/ req.head = t)
             /\ todo' = todo \ {t}
             /\ UNCHANGED <<typesOk, pc>>

\* Mutant: the loop ends when it has found the type of the head.
CheckNodeTypeStopsAtHead(t) ==
    LET nt == req.types[t]
    IN  IF nt.min > nt.max \/ nt.max > req.max
        THEN typesOk' = FALSE /\ pc' = "decide" /\ UNCHANGED <<todo, total, headSeen>>
        ELSE /\ total' = Wrap(total + nt.min)
             /\ headSeen' = (headSeen \/ req.head = t)
             /\ todo' = IF req.head = t THEN {} ELSE todo \ {t}
             /\ UNCHANGED <<typesOk, pc>>

\* One turn of the loop in validateNodeTypes; an error ends it.
CheckNodeType(t) ==
    LET nt == req.types[t]
    IN  IF nt.min > nt.max \/ nt.max > req.max
        THEN typesOk' = FALSE /\ pc' = "decide" /\ UNCHANGED <<todo, total, headSeen>>
        ELSE /\ total' = Wrap(total + nt.min)
             /\ headSeen' = (headSeen \/ req.head = t)
             /\ todo' = todo \ {t}
             /\ UNCHANGED <<typesOk, pc>>

\* Mutant: the total is not compared with the limit of the cluster.
CheckHeadAlone == headSeen

\* What validateNodeTypes asks after its loop.
CheckTotals == headSeen /\ total <= req.max

ValidateNodeTypes ==
    /\ pc = "types"
    /\ \/ \E t \in todo : CheckNodeType(t)
       \/ /\ todo = {}
          /\ typesOk' = CheckTotals
          /\ pc' = "decide"
          /\ UNCHANGED <<todo, total, headSeen>>
    /\ UNCHANGED <<stored, req>>

ValidateName           == "name" \notin req.flaws
ValidateDockerImage    == "image" \notin req.flaws
ValidateDesiredWorkers == "workers" \notin req.flaws
ValidateMinNodeTypes   == DOMAIN req.types # {}

\* All five checks are made and their errors collected.
Admitted ==
    /\ ValidateName /\ typesOk /\ ValidateMinNodeTypes
    /\ ValidateDockerImage /\ ValidateDesiredWorkers

ValidateVMRayCluster ==
    /\ pc = "decide"
    /\ stored' = IF Admitted THEN req ELSE stored
    /\ pc' = "idle"
    /\ req' = NoObject
    /\ todo' = {} /\ total' = 0 /\ headSeen' = FALSE /\ typesOk' = TRUE

Next == Create \/ FinalizerUpdate \/ AutoscalerUpdate \/ ValidateNodeTypes \/ ValidateVMRayCluster

Spec == Init /\ [][Next]_vars

-----------------------------------------------------------------------------
(* Properties.                                                             *)

\* An object that was let in stays admissible in whatever order the loop of
\* validateNodeTypes walks its map: the controller's update that removes the
\* finalizer is never refused.
FinalizerUpdateAdmitted == pc = "decide" /\ req = stored => Admitted

\* What validateNodeTypes lets in can be deployed: getVmClass knows the type
\* of the head, and the counts of every node type are in order.
AdmittedDeployable ==
    stored # NoObject =>
        /\ stored.head \in DOMAIN stored.types
        /\ \A t \in DOMAIN stored.types :
              stored.types[t].min <= stored.types[t].max /\ stored.types[t].max <= stored.max

TotalMinWorkers == MapThenSumSet(LAMBDA t : stored.types[t].min, DOMAIN stored.types)

\* "Validate total number of min workers": together, the node types of an
\* object that was let in ask for no more workers than the cluster may have,
\* unless they ask for so many that their sum does not fit into a uint.
TotalWithinMax == TotalMinWorkers <= stored.max \/ TotalMinWorkers >= 2^Width
=============================================================================

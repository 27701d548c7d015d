--------------------------- MODULE ClusterContract ---------------------------
(***************************************************************************)
(* What the operator promises about the resources of one cluster, without  *)
(* saying how: it acquires them while the cluster is being served, gives   *)
(* them back in any order once teardown has begun, never acquires anything *)
(* again after that, and lets the object disappear only when it holds      *)
(* nothing.  Resources may also be taken away from outside at any time.    *)
(***************************************************************************)

CONSTANT Resources    \* what the operator can create for the cluster

VARIABLES
    phase,            \* "serving", "teardown" or "gone"
    owned             \* the resources that exist

vars == <<phase, owned>>

Init == phase = "serving" /\ owned = {}

\* A call to the API server may create several resources, or none.
Acquire ==
    /\ phase = "serving"
    /\ owned' \in SUBSET Resources /\ owned \subseteq owned'
    /\ UNCHANGED phase

Release ==
    /\ owned' \in SUBSET owned
    /\ UNCHANGED phase

\* A reconcile that dies begins the teardown and forgets what it created.
BeginTeardown ==
    /\ phase = "serving"
    /\ phase' = "teardown"
    /\ owned' \in SUBSET owned

\* A cluster that owns nothing yet may vanish without a teardown.
Vanish ==
    /\ phase # "gone" /\ owned = {}
    /\ phase' = "gone"
    /\ UNCHANGED owned

Next == Acquire \/ Release \/ BeginTeardown \/ Vanish

Spec == Init /\ [][Next]_vars
=============================================================================

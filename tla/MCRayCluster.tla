--------------------------- MODULE MCRayCluster ---------------------------
(* RayCluster with its contract, for TLC. *)
EXTENDS ClusterRefinement

CONSTANTS w1, w2, head
=============================================================================

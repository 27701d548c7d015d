-------------------------- MODULE MCClusterStatus --------------------------
(***************************************************************************)
(* Small instances of ClusterStatus for TLC.                               *)
(***************************************************************************)
EXTENDS ClusterStatus, TLC

\* One VM class, and a minimum of one worker for every node type.
OneClass == [t \in NodeTypes |-> "small"]
OneEach  == [t \in NodeTypes |-> 1]
=============================================================================

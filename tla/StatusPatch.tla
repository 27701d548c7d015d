---------------------------- MODULE StatusPatch ----------------------------
(***************************************************************************)
(* What updateStatus does to the node statuses that the API server stores: *)
(* client.MergeFrom turns the copy of the object before the reconcile      *)
(* (was) and the one after it (is) into a JSON merge patch, and the API    *)
(* server applies it to the object as it is stored by then (st).           *)
(***************************************************************************)
EXTENDS NodeLcm

\* A worker without an entry in Status.CurrentWorkers.
Untracked    == [vm |-> "untracked", ray |-> RAY_EMPTY]
WorkerStatus == VMRayNodeStatus \cup {Untracked}

TrackedIn(workers) == {w \in DOMAIN workers : workers[w] # Untracked}

\* Only the fields in which the two copies differ are part of the patch.
Merge(was, is, st) ==
    [vm  |-> IF is.vm  # was.vm  THEN is.vm  ELSE st.vm,
     ray |-> IF is.ray # was.ray THEN is.ray ELSE st.ray]

AsNode(st) == IF st = Untracked THEN NewNode ELSE st

\* The patch of one entry of current_workers: an entry that was lost is
\* removed, one that did not change is not in the patch.
MergeWorker(was, is, st) ==
    IF is = was THEN st
    ELSE IF is = Untracked THEN Untracked
    ELSE Merge(AsNode(was), AsNode(is), AsNode(st))

\* current_workers is omitempty: when no entry is left the patch sets the
\* whole map to null.
MergeWorkers(was, is, st) ==
    IF TrackedIn(is) = {} /\ TrackedIn(was) # {}
    THEN [w \in DOMAIN st |-> Untracked]
    ELSE [w \in DOMAIN st |-> MergeWorker(was[w], is[w], st[w])]
=============================================================================

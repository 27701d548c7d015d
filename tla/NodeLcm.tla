------------------------------ MODULE NodeLcm ------------------------------
(***************************************************************************)
(* The node lifecycle manager (internal/controller/lcm/node_lcm.go): the   *)
(* state machine that ProcessNodeVmState runs once per reconcile for the   *)
(* head node and for every desired worker.  It is a function of the status *)
(* recorded in the VMRayCluster and of what the VM provider answers, so it *)
(* is modelled by constant-level operators; RayCluster supplies answers.   *)
(***************************************************************************)

\* VMNodeStatus and RayProcessStatus of api/v1alpha1/vmraycluster_types.go.
EMPTY       == ""
INITIALIZED == "initialized"
RUNNING     == "running"
FAIL        == "failure"

RAY_EMPTY       == ""
RAY_INITIALIZED == "initialized"
RAY_RUNNING     == "running"
RAY_FAIL        == "failure"

VMNodeStatus     == {EMPTY, INITIALIZED, RUNNING, FAIL}
RayProcessStatus == {RAY_EMPTY, RAY_INITIALIZED, RAY_RUNNING, RAY_FAIL}

\* VMRayNodeStatus.  Ip and Conditions are copied from the VM and are never
\* read back by the controller's control flow, so they are left out.
VMRayNodeStatus == [vm : VMNodeStatus, ray : RayProcessStatus]

\* The zero value: a node whose creation was only just requested.
NewNode == [vm |-> EMPTY, ray |-> RAY_EMPTY]

\* What the provider can answer.  "noService": the VM service has no IP yet and
\* DeployVmService reported no error; "serviceError": it reported one.
DeployAnswer == {"created", "exists", "deployError", "noService", "serviceError"}
FetchAnswer  == {"ip", "noIp", "notFound", "fetchError"}

Outcome(status, err) == [status |-> status, err |-> err]

\* Mutant: an error of Deploy marks the node and is not returned.
ProcessEmptyDropsError(st, ans) ==
    CASE ans \in {"created", "exists"} -> Outcome([st EXCEPT !.vm = INITIALIZED], FALSE)
      [] ans = "deployError"           -> Outcome([st EXCEPT !.vm = FAIL], FALSE)
      [] ans = "noService"             -> Outcome(st, FALSE)
      [] OTHER                         -> Outcome(st, TRUE)

\* Status EMPTY: deploy the node.  An AlreadyExists error counts as success.
ProcessEmpty(st, ans) ==
    CASE ans \in {"created", "exists"} -> Outcome([st EXCEPT !.vm = INITIALIZED], FALSE)
      [] ans = "deployError"           -> Outcome([st EXCEPT !.vm = FAIL], TRUE)
      [] ans = "noService"             -> Outcome(st, FALSE)
      [] OTHER                         -> Outcome(st, TRUE)

\* Status INITIALIZED: wait for the VM to be assigned an IP.
ProcessInitialized(st, ans) ==
    CASE ans = "ip"   -> Outcome([vm |-> RUNNING, ray |-> RAY_INITIALIZED], FALSE)
      [] ans = "noIp" -> Outcome(st, FALSE)
      [] OTHER        -> Outcome([st EXCEPT !.vm = FAIL], TRUE)

\* Mutant: a failed head keeps reporting a running ray process.
ProcessRunningKeepsRay(st, ans) ==
    IF ans = "ip" THEN Outcome([st EXCEPT !.ray = RAY_RUNNING], FALSE)
                  ELSE Outcome([st EXCEPT !.vm = FAIL], TRUE)

\* Status RUNNING: the VM must still exist and have its IP.
ProcessRunning(st, ans) ==
    IF ans = "ip" THEN Outcome([st EXCEPT !.ray = RAY_RUNNING], FALSE)
                  ELSE Outcome([vm |-> FAIL, ray |-> RAY_FAIL], TRUE)

\* Mutant: a missing VM is recorded with a status the switch does not know.
ProcessFailUnknownStatus(st, ans) ==
    CASE ans \in {"ip", "noIp"} -> Outcome([st EXCEPT !.vm = INITIALIZED], FALSE)
      [] ans = "notFound"       -> Outcome([st EXCEPT !.vm = "missing"], FALSE)
      [] OTHER                  -> Outcome(st, FALSE)

\* Mutant: a failed node whose VM is missing is never deployed again.
ProcessFailNeverRedeploys(st, ans) ==
    IF ans \in {"ip", "noIp"} THEN Outcome([st EXCEPT !.vm = INITIALIZED], FALSE)
                              ELSE Outcome(st, FALSE)

\* Status FAIL: pick up a VM that is there, redeploy one that is not.  An
\* error other than NotFound leaves the status alone and is not returned.
ProcessFail(st, ans) ==
    CASE ans \in {"ip", "noIp"} -> Outcome([st EXCEPT !.vm = INITIALIZED], FALSE)
      [] ans = "notFound"       -> Outcome([st EXCEPT !.vm = EMPTY], FALSE)
      [] OTHER                  -> Outcome(st, FALSE)

\* The default case of the switch, an error for a status that is none of these,
\* cannot arise: TypeOK of every module that uses this operator excludes it.
ProcessNodeVmState(st, ans) ==
    CASE st.vm = EMPTY       -> ProcessEmpty(st, ans)
      [] st.vm = INITIALIZED -> ProcessInitialized(st, ans)
      [] st.vm = RUNNING     -> ProcessRunning(st, ans)
      [] st.vm = FAIL        -> ProcessFail(st, ans)
=============================================================================

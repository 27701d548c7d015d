---------------------------- MODULE Provisioning ----------------------------
(***************************************************************************)
(* What the nodes of a cluster are given when they boot: certificate       *)
(* authority, ssh key, token, ports and addresses, as the operator writes  *)
(* them into secrets (pkg/provider/vmop/utils, tls, cloudinit), over       *)
(* several clusters that are created one after the other under the same    *)
(* name.  RayCluster looks at which objects exist and at stale reads and   *)
(* crashes; here reads are current and the objects have content.           *)
(*                                                                         *)
(* Every action of the controller is a reconcile that finds the steps      *)
(* before its own already done; a reconcile that does several steps is     *)
(* several of these actions in a row.                                      *)
(***************************************************************************)
EXTENDS NodeLcm, Naturals, Sequences, FiniteSets

CONSTANTS
    Workers,         \* worker names, which may recur from cluster to cluster
    AuthSecret,      \* docker_config names a secret with registry credentials
    SecondsPerTick,  \* resolution of the clock
    MaxLives,        \* bound: clusters created under the name
    MaxEdits,        \* bound: changes of the ray port
    MaxFaults,       \* bound: failed calls, VMs deleted by hand
    MaxClock         \* bound: ticks of the clock

ASSUME ProvisioningAssumption ==
    /\ Workers \cap (1..MaxLives) = {}
    /\ AuthSecret \in BOOLEAN
    /\ SecondsPerTick \in Nat \ {0}
    /\ MaxLives \in Nat \ {0}
    /\ {MaxEdits, MaxFaults, MaxClock} \subseteq Nat

VARIABLES
    cr,        \* the VMRayCluster, or the last one if there is none
    ca,        \* the secret with the root CA: which CA, 0 if there is none
    ssh,       \* the secret with the ssh key: which key, 0 if there is none
    hsecret,   \* the cloud-init secret of the head
    wsecret,   \* the cloud-init secret that all workers share
    sa,        \* the service account (its UID), 0 if there is none
    svcs,      \* the VirtualMachineService of every head name
    vms,       \* the VirtualMachine of every node name
    docker,    \* the user's secret with registry credentials
    minted,    \* how many CAs, keys, UIDs and addresses were made so far
    clock,     \* time in ticks
    budget     \* what is left of the bounds

creds == <<ca, ssh, hsecret, wsecret, sa>>
vars  == <<cr, ca, ssh, hsecret, wsecret, sa, svcs, vms, docker, minted, clock, budget>>

-----------------------------------------------------------------------------
(* State.                                                                  *)

Lives == 1..MaxLives

\* GetHeadNodeName: the head of a cluster is named after its nounce, and
\* random nounces are taken to differ, so that they can be numbered.
HeadNames == Lives
Names     == HeadNames \cup Workers

RayHeadDefaultPort == 6379
OtherPort          == 6380
Ports              == {RayHeadDefaultPort, OtherPort}

RayCLI     == "ray-cli"
K8S        == "k8s"
Requestors == {RayCLI, K8S}

Cluster ==
    [life : {"none", "live", "deleting"}, inc : 0..MaxLives, nounce : 0..MaxLives,
     labelled : BOOLEAN, fin : BOOLEAN, requestor : Requestors, port : Ports, desired : SUBSET Workers,
     head : VMRayNodeStatus, workers : [Workers -> VMRayNodeStatus]]

NoToken == [sa |-> 0, at |-> 0]

\* The bootstrap configuration, in so far as it ties other things together:
\* the port in the start commands of head and workers, and the files that the
\* autoscaler mounts into the containers of the workers.
NoBootstrap == [port |-> 0, options |-> {}]

\* A cloud-init configuration: what produceCloudInitConfigYamlTemplate puts
\* into files, environment and commands, in so far as nodes depend on it.
NoCloudInit ==
    [ca |-> 0, ssh |-> 0, token |-> NoToken, ip |-> 0, bootstrap |-> NoBootstrap,
     files |-> {}, mounts |-> {}, login |-> FALSE]

NoSvc == [state |-> "absent", port |-> 0, ip |-> 0]

\* A VM reads its secret when it boots.  inc is the cluster it was made for.
NoVm == [state |-> "absent", inc |-> 0, boot |-> NoCloudInit]

Spend(kind) == budget[kind] > 0 /\ budget' = [budget EXCEPT ![kind] = @ - 1]

\* What is generated is new: numbers are used once.
Mint ==
    minted' = [minted EXCEPT !.ca  = IF ca'  > @ THEN ca'  ELSE @,
                             !.ssh = IF ssh' > @ THEN ssh' ELSE @,
                             !.sa  = IF sa'  > @ THEN sa'  ELSE @]

Init ==
    /\ cr = [life |-> "none", inc |-> 0, nounce |-> 0, labelled |-> FALSE, fin |-> FALSE,
             requestor |-> K8S, port |-> RayHeadDefaultPort, desired |-> {}, head |-> NewNode,
             workers |-> [w \in Workers |-> NewNode]]
    /\ ca = 0 /\ ssh = 0 /\ sa = 0
    /\ hsecret = NoCloudInit /\ wsecret = NoCloudInit
    /\ svcs = [h \in HeadNames |-> NoSvc]
    /\ vms = [n \in Names |-> NoVm]
    /\ docker \in {"missing", "incomplete", "complete"}
    /\ minted = [ca |-> 0, ssh |-> 0, sa |-> 0, ip |-> 0]
    /\ clock = 0
    /\ budget = [edits |-> MaxEdits, faults |-> MaxFaults]

-----------------------------------------------------------------------------
(* Cloud-init configurations.                                              *)

\* Mutant: a key that the secret does not have is taken for an empty string.
GetDockerLoginCmdLenient == [ok |-> ~AuthSecret \/ docker # "missing",
                             cmd |-> AuthSecret /\ docker = "complete"]

\* Without a secret name there is no login; a secret that is missing, or has
\* no user name or password, is an error.
GetDockerLoginCmd == [ok |-> ~AuthSecret \/ docker = "complete", cmd |-> AuthSecret]

\* Files that every node is given, and those that docker flags mount from
\* the VM into the ray container.
CommonFiles == {"id_rsa_ray", "ca.crt", "ca.key", "gencert.sh"}
DockerFlags == {"ca.crt", "ca.key", "gencert.sh"}

\* The ray CLI copies its own bootstrap configuration to the head node.
HeadFiles ==
    CommonFiles \cup {"svc-account-token.env"}
        \cup (IF cr.requestor = RayCLI THEN {} ELSE {"ray_bootstrap_config.yaml"})

\* What the docker run command of the head mounts; the ray CLI starts its
\* container itself.
HeadMounts ==
    IF cr.requestor = RayCLI THEN {}
    ELSE DockerFlags \cup {"svc-account-token.env", "ray_bootstrap_config.yaml", "id_rsa_ray"}

\* The port of the start commands, as the object has it now.
GetRayPort == cr.port

GetRayBootstrapConfig ==
    IF cr.requestor = RayCLI THEN NoBootstrap
    ELSE [port |-> GetRayPort, options |-> DockerFlags]

\* A token of the service account, issued now.
FetchServiceAccountToken(account) == [sa |-> account, at |-> clock]

\* The lifetime that is asked for, in seconds.
TokenExpirationRequest == 60 * 60 * 30 * 6

Age(token) == (clock - token.at) * SecondsPerTick

HeadCloudInit(account, key) ==
    [ca |-> ca, ssh |-> key, token |-> FetchServiceAccountToken(account),
     ip |-> svcs[cr.nounce].ip, bootstrap |-> GetRayBootstrapConfig,
     files |-> HeadFiles, mounts |-> HeadMounts, login |-> GetDockerLoginCmd.cmd]

\* A worker has its ray container started by the head; the token is fetched
\* and left out.
WorkerCloudInit ==
    [NoCloudInit EXCEPT !.ca = ca, !.ssh = ssh, !.files = CommonFiles,
                        !.login = GetDockerLoginCmd.cmd]

\* The certificate that gencert.sh signs on a node: with the root CA that was
\* written there, and for the service's address if the container has it.
RayTLSConfig(boot) ==
    [issuer |-> boot.ca,
     ip     |-> IF "svc-account-token.env" \in boot.mounts THEN boot.ip ELSE 0]

-----------------------------------------------------------------------------
(* VMRayClusterReconcile.                                                  *)

\* Mutant: the nounce does not depend on chance.
CreateRandomNounceConstant == 1

CreateRandomNounce == cr.inc

\* A label that was submitted is kept.
AddFinalizerAndNounce ==
    /\ cr.life = "live" /\ ~cr.fin
    /\ cr' = [cr EXCEPT !.fin = TRUE,
                        !.nounce = IF @ = 0 THEN CreateRandomNounce ELSE @]
    /\ UNCHANGED <<creds, svcs, vms, docker, minted, clock, budget>>

\* Mutant: a root CA is made whether or not the secret exists.
RootSecretMissingAlways == TRUE

RootSecretMissing == ca = 0

CreateVMRayClusterRootSecret ==
    /\ cr.life = "live" /\ cr.fin /\ RootSecretMissing
    /\ ca' = minted.ca + 1
    /\ UNCHANGED <<cr, ssh, hsecret, wsecret, sa, svcs, vms, docker, clock, budget>>
    /\ Mint

Prepared == cr.life = "live" /\ cr.fin /\ ca # 0

AfterHead(ans) == cr' = [cr EXCEPT !.head = ProcessNodeVmState(cr.head, ans).status]

\* Mutant: the service is made with the default port.
ServicePortDefault == RayHeadDefaultPort

ServicePort == cr.port

\* The service gets the port as the object has it now; it is never updated.
DeployVmService ==
    /\ Prepared /\ cr.head.vm = EMPTY /\ svcs[cr.nounce].state = "absent"
    /\ svcs' = [svcs EXCEPT ![cr.nounce] =
                  [NoSvc EXCEPT !.state = "pending", !.port = ServicePort]]
    /\ AfterHead("noService")
    /\ UNCHANGED <<creds, vms, docker, minted, clock, budget>>

CreateVm(n) ==
    vms' = [vms EXCEPT ![n] = IF @.state = "absent"
                              THEN [NoVm EXCEPT !.state = "booting", !.inc = cr.inc] ELSE @]

CreateAnswer(n) == IF vms[n].state = "absent" THEN "created" ELSE "exists"

\* Mutant: the ssh key is generated and not stored.
StorePrivateKeyNot(key) == ssh

\* What the secret of the ssh key holds after getOrCreatePrivateKeySecret.
StorePrivateKey(key) == key

\* The calls of Deploy for the head: service account with its role, ssh key,
\* cloud-init secret, VM.  Each of them keeps what exists.  The first done
\* of them take effect.
DeployHeadCalls(done) ==
    LET account == IF sa = 0 THEN minted.sa + 1 ELSE sa
        key     == IF ssh = 0 THEN minted.ssh + 1 ELSE ssh
    IN  /\ sa'  = IF done >= 1 THEN account ELSE sa
        /\ ssh' = IF done >= 2 THEN StorePrivateKey(key) ELSE ssh
        /\ hsecret' = IF done >= 3 /\ hsecret = NoCloudInit
                      THEN HeadCloudInit(account, key) ELSE hsecret
        /\ IF done >= 4 THEN CreateVm(cr.nounce) ELSE UNCHANGED vms
        /\ UNCHANGED <<ca, wsecret, svcs, docker, clock>>
        /\ Mint

HeadSecretPossible == hsecret # NoCloudInit \/ GetDockerLoginCmd.ok

DeployHead ==
    /\ Prepared /\ cr.head.vm = EMPTY /\ svcs[cr.nounce].state = "ready"
    /\ \/ /\ HeadSecretPossible
          /\ DeployHeadCalls(4)
          /\ AfterHead(CreateAnswer(cr.nounce))
          /\ UNCHANGED budget
       \/ /\ ~HeadSecretPossible
          /\ DeployHeadCalls(2)
          /\ AfterHead("deployError")
          /\ UNCHANGED budget
       \/ /\ Spend("faults")
          /\ \E done \in 0..(IF HeadSecretPossible THEN 4 ELSE 2) : DeployHeadCalls(done)
          /\ AfterHead("deployError")

FetchAnswers(n) ==
    CASE vms[n].state = "absent"  -> {"notFound"}
      [] vms[n].state = "booting" -> {"noIp"}
      [] vms[n].state = "up"      -> {"ip"}
      [] OTHER                    -> {"ip", "noIp"}

FetchHead ==
    /\ Prepared /\ cr.head.vm # EMPTY
    /\ \E ans \in FetchAnswers(cr.nounce) : AfterHead(ans)
    /\ UNCHANGED <<creds, svcs, vms, docker, minted, clock, budget>>

AfterWorker(w, ans) ==
    cr' = [cr EXCEPT !.workers[w] = ProcessNodeVmState(cr.workers[w], ans).status]

\* The workers' secret is made by the first worker that is deployed.
WorkerSecretPossible ==
    ssh # 0 /\ (wsecret # NoCloudInit \/ (sa # 0 /\ GetDockerLoginCmd.ok))

DeployWorkerCalls(w, done) ==
    /\ wsecret' = IF done >= 1 /\ wsecret = NoCloudInit THEN WorkerCloudInit ELSE wsecret
    /\ IF done >= 2 THEN CreateVm(w) ELSE UNCHANGED vms
    /\ UNCHANGED <<ca, ssh, hsecret, sa, svcs, docker, minted, clock>>

DeployWorker(w) ==
    /\ Prepared /\ cr.head.ray = RAY_RUNNING
    /\ w \in cr.desired /\ cr.workers[w].vm = EMPTY
    /\ \/ /\ WorkerSecretPossible
          /\ DeployWorkerCalls(w, 2)
          /\ AfterWorker(w, CreateAnswer(w))
          /\ UNCHANGED budget
       \/ /\ ~WorkerSecretPossible
          /\ DeployWorkerCalls(w, 0)
          /\ AfterWorker(w, "deployError")
          /\ UNCHANGED budget
       \/ /\ Spend("faults")
          /\ \E done \in 0..(IF WorkerSecretPossible THEN 2 ELSE 0) : DeployWorkerCalls(w, done)
          /\ AfterWorker(w, "deployError")

FetchWorker(w) ==
    /\ Prepared /\ cr.head.ray = RAY_RUNNING
    /\ w \in cr.desired /\ cr.workers[w].vm # EMPTY
    /\ \E ans \in FetchAnswers(w) : AfterWorker(w, ans)
    /\ UNCHANGED <<creds, svcs, vms, docker, minted, clock, budget>>

-----------------------------------------------------------------------------
(* VMRayClusterDelete.                                                     *)

Terminate(n) == IF vms[n].state = "absent" THEN NoVm ELSE [vms[n] EXCEPT !.state = "terminating"]

\* Mutant: the last of the five secrets, that of the head, is forgotten.
WithoutHeadSecretNot == hsecret

WithoutHeadSecret == NoCloudInit

\* The calls in their order: ssh key, workers' secret, root CA, head's secret,
\* service account and role, VM service, head VM, worker VMs.  The code walks
\* Status.CurrentWorkers; cr.desired stands for it, because it only grows in
\* this module and a desired worker without an entry has no VM yet.  The VM
\* service goes at once, where Kubernetes may take its time; its name has the
\* nounce in it, so that only a cluster that keeps the label could meet it.
DeleteCalls(done) ==
    /\ ssh'     = IF done >= 1 THEN 0 ELSE ssh
    /\ wsecret' = IF done >= 2 THEN NoCloudInit ELSE wsecret
    /\ ca'      = IF done >= 3 THEN 0 ELSE ca
    /\ hsecret' = IF done >= 4 THEN WithoutHeadSecret ELSE hsecret
    /\ sa'      = IF done >= 5 THEN 0 ELSE sa
    /\ svcs'    = IF done >= 6 THEN [svcs EXCEPT ![cr.nounce] = NoSvc] ELSE svcs
    /\ vms'     = [n \in Names |-> IF \/ done >= 7 /\ n = cr.nounce
                                      \/ done >= 8 /\ n \in cr.desired
                                   THEN Terminate(n) ELSE vms[n]]
    /\ UNCHANGED <<docker, minted, clock>>

\* The finalizer goes when everything is deleted; a failing call leaves the
\* rest to the next attempt.
VMRayClusterDelete ==
    /\ cr.life = "deleting"
    /\ \/ DeleteCalls(8) /\ cr' = [cr EXCEPT !.life = "none"] /\ UNCHANGED budget
       \/ Spend("faults") /\ (\E done \in 0..8 : DeleteCalls(done)) /\ UNCHANGED cr

-----------------------------------------------------------------------------
(* Everybody else (external).                                              *)

\* A cluster is submitted under the name once the one before it is gone,
\* perhaps with the labels of that one.  The ray CLI brings its own ssh key.
Submit ==
    /\ cr.life = "none" /\ cr.inc < MaxLives
    /\ \E r \in Requestors, p \in Ports, keep \in BOOLEAN :
          /\ keep => cr.nounce # 0
          /\ cr' = [cr EXCEPT !.life = "live", !.inc = @ + 1, !.fin = FALSE,
                              !.nounce = IF keep THEN @ ELSE 0, !.labelled = keep,
                              !.requestor = r, !.port = p, !.desired = {}, !.head = NewNode,
                              !.workers = [w \in Workers |-> NewNode]]
          /\ ssh' = IF r = RayCLI /\ ssh = 0 THEN minted.ssh + 1 ELSE ssh
    /\ UNCHANGED <<ca, hsecret, wsecret, sa, svcs, vms, docker, clock, budget>>
    /\ Mint

UserEdit ==
    /\ cr.life = "live"
    /\ \E p \in Ports \ {cr.port} : cr' = [cr EXCEPT !.port = p]
    /\ Spend("edits")
    /\ UNCHANGED <<creds, svcs, vms, docker, minted, clock>>

UserDelete ==
    /\ cr.life = "live"
    /\ cr' = [cr EXCEPT !.life = IF cr.fin THEN "deleting" ELSE "none"]
    /\ UNCHANGED <<creds, svcs, vms, docker, minted, clock, budget>>

\* The autoscaler runs on the head and uses the token it booted with.
AutoscalerPatch(w) ==
    /\ cr.life = "live" /\ w \notin cr.desired
    /\ cr.fin /\ vms[cr.nounce].state = "up"
    /\ LET token == vms[cr.nounce].boot.token
       IN  token.sa = sa /\ Age(token) < TokenExpirationRequest
    /\ cr' = [cr EXCEPT !.desired = @ \cup {w}]
    /\ UNCHANGED <<creds, svcs, vms, docker, minted, clock, budget>>

DockerSecret ==
    /\ docker # "complete"
    /\ docker' \in {"incomplete", "complete"} \ {docker}
    /\ UNCHANGED <<cr, creds, svcs, vms, minted, clock, budget>>

SvcReady(h) ==
    /\ svcs[h].state = "pending"
    /\ svcs' = [svcs EXCEPT ![h].state = "ready", ![h].ip = minted.ip + 1]
    /\ minted' = [minted EXCEPT !.ip = @ + 1]
    /\ UNCHANGED <<cr, creds, vms, docker, clock, budget>>

SecretOf(n) == IF n \in HeadNames THEN hsecret ELSE wsecret

\* The VM operator boots a VM with the cloud-init secret that it names.
VmBoot(n) ==
    /\ vms[n].state = "booting" /\ SecretOf(n) # NoCloudInit
    /\ vms' = [vms EXCEPT ![n].state = "up", ![n].boot = SecretOf(n)]
    /\ UNCHANGED <<cr, creds, svcs, docker, minted, clock, budget>>

VmGone(n) ==
    /\ vms[n].state = "terminating"
    /\ vms' = [vms EXCEPT ![n] = NoVm]
    /\ UNCHANGED <<cr, creds, svcs, docker, minted, clock, budget>>

\* A VM is deleted by hand.
VmOutage(n) ==
    /\ vms[n].state \in {"booting", "up"}
    /\ vms' = [vms EXCEPT ![n] = Terminate(n)]
    /\ Spend("faults")
    /\ UNCHANGED <<cr, creds, svcs, docker, minted, clock>>

Tick ==
    /\ clock < MaxClock
    /\ clock' = clock + 1
    /\ UNCHANGED <<cr, creds, svcs, vms, docker, minted, budget>>

-----------------------------------------------------------------------------

ReconcileHead == DeployVmService \/ DeployHead \/ FetchHead

ReconcileWorker(w) == DeployWorker(w) \/ FetchWorker(w)

Next ==
    \/ AddFinalizerAndNounce \/ CreateVMRayClusterRootSecret \/ ReconcileHead
    \/ VMRayClusterDelete
    \/ Submit \/ UserEdit \/ UserDelete \/ DockerSecret \/ Tick
    \/ \E w \in Workers : ReconcileWorker(w) \/ AutoscalerPatch(w)
    \/ \E h \in HeadNames : SvcReady(h)
    \/ \E n \in Names : VmBoot(n) \/ VmGone(n) \/ VmOutage(n)

Spec == Init /\ [][Next]_vars

\* Reconciles are requeued for ever and visit the head and every worker; the
\* VM operator makes progress.
Fairness ==
    /\ WF_vars(AddFinalizerAndNounce) /\ WF_vars(CreateVMRayClusterRootSecret)
    /\ WF_vars(ReconcileHead)
    /\ \A w \in Workers : WF_vars(ReconcileWorker(w))
    /\ \A h \in HeadNames : WF_vars(SvcReady(h))
    /\ \A n \in Names : WF_vars(VmBoot(n)) /\ WF_vars(VmGone(n))

FairSpec == Spec /\ Fairness

-----------------------------------------------------------------------------
(* Properties.                                                             *)

CloudInit ==
    LET files == CommonFiles \cup {"svc-account-token.env", "ray_bootstrap_config.yaml"}
    IN  [ca : Nat, ssh : Nat, token : [sa : Nat, at : Nat], ip : Nat,
         bootstrap : [port : Ports \cup {0}, options : SUBSET DockerFlags],
         files : SUBSET files, mounts : SUBSET files, login : BOOLEAN]

Svc == [state : {"absent", "pending", "ready"}, port : Ports \cup {0}, ip : Nat]

Vm == [state : {"absent", "booting", "up", "terminating"}, inc : 0..MaxLives, boot : CloudInit]

\* A configuration that refers to nothing that was never made.
Made(s) ==
    /\ s.ca <= minted.ca /\ s.ssh <= minted.ssh /\ s.ip <= minted.ip
    /\ s.token.sa <= minted.sa /\ s.token.at <= clock

\* Contents of the objects have the shape the code gives them, and nothing
\* refers to a key, account or address that was never made.
TypeOK ==
    /\ cr \in Cluster
    /\ minted \in [ca : Nat, ssh : Nat, sa : Nat, ip : Nat]
    /\ ca \in 0..minted.ca /\ ssh \in 0..minted.ssh /\ sa \in 0..minted.sa
    /\ hsecret \in CloudInit /\ wsecret \in CloudInit
    /\ svcs \in [HeadNames -> Svc]
    /\ vms \in [Names -> Vm]
    /\ Made(hsecret) /\ Made(wsecret)
    /\ \A h \in HeadNames : svcs[h].ip <= minted.ip
    /\ \A n \in Names : Made(vms[n].boot)
    /\ docker \in {"missing", "incomplete", "complete"}
    /\ clock \in 0..MaxClock
    /\ budget \in [edits : 0..MaxEdits, faults : Nat]

Up(n) == vms[n].state = "up"

\* Nodes that run at the same time trust each other's certificates and hold the
\* same ssh key: the head was given them by the reconcile that deployed it, workers
\* by a later one, from secrets that are made once and reused, over failing
\* calls, redeployed nodes and earlier clusters of the same name.
NodesTrustEachOther ==
    \A m, n \in Names :
        Up(m) /\ Up(n) => /\ RayTLSConfig(vms[m].boot).issuer = vms[n].boot.ca
                          /\ vms[m].boot.ssh = vms[n].boot.ssh

\* The token on the head belongs to the service account that exists, not to
\* that of an earlier cluster of the same name: the autoscaler can use it.
TokenOfOwnAccount ==
    cr.life = "live" /\ cr.fin =>
        (Up(cr.nounce) => vms[cr.nounce].boot.token.sa = sa)

\* As long as nobody edited the port, the VM service forwards to the one that
\* the head's start command has, and the head's certificate names the address
\* of the service; the ray CLI starts ray in a way of its own.
ServiceReachesHead ==
    cr.life = "live" /\ cr.fin /\ cr.requestor = K8S /\ budget.edits = MaxEdits =>
        (Up(cr.nounce) =>
            /\ svcs[cr.nounce].port = vms[cr.nounce].boot.bootstrap.port
            /\ svcs[cr.nounce].ip = RayTLSConfig(vms[cr.nounce].boot).ip)

\* "where on re-application if head VM from previous request still exists it
\* won't face the already exists error": a head that is reported to run is not
\* the VM of an earlier cluster of the same name, unless the object was
\* submitted with the nounce label of that cluster.
HeadIsOwn ==
    cr.life = "live" /\ cr.head.vm = RUNNING /\ ~cr.labelled =>
        vms[cr.nounce].inc \in {0, cr.inc}

\* What the ray container of a node mounts is on the node: on the head from
\* its own docker run command, on a worker from the run options that the
\* autoscaler has in the head's bootstrap configuration.  A node that pulls
\* its image from a private registry is logged in there.
ContainersCanStart ==
    /\ \A n \in Names : Up(n) => /\ vms[n].boot.mounts \subseteq vms[n].boot.files
                                 /\ AuthSecret => vms[n].boot.login
    /\ \A h \in HeadNames, w \in Workers :
          Up(h) /\ Up(w) => vms[h].boot.bootstrap.options \subseteq vms[w].boot.files

Served(n) == Up(n) /\ vms[n].inc = cr.inc

Supplied == cr.life = "live" /\ (AuthSecret => docker = "complete")

\* A cluster whose registry credentials come late, whose calls failed or whose
\* name was used before still gets a head of its own that stays up.
HeadServed == <>[]Supplied => <>[](cr.head.vm = RUNNING /\ Served(cr.nounce))

\* So does every worker that the autoscaler asks for, even if the VM of an
\* earlier cluster has its name and is still being removed.
WorkersServed ==
    \A w \in Workers :
        <>[](Supplied /\ w \in cr.desired) => <>[](cr.workers[w].vm = RUNNING /\ Served(w))

SixMonths == 60 * 60 * 24 * 30 * 6

\* "TokenExpirationRequest int64 = 60 * 60 * 30 * 6 // 6 months": a head that
\* runs has a token that is valid for the six months after it was issued.
TokenLastsSixMonths ==
    \A h \in HeadNames :
        LET age == Age(vms[h].boot.token)
        IN  Up(h) /\ age < SixMonths => age < TokenExpirationRequest
=============================================================================

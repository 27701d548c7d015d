------------------------ MODULE ProvisioningProofs ------------------------
(***************************************************************************)
(* What holds of Provisioning for every number of clusters created under   *)
(* the name, every set of workers and every number of edits and faults:    *)
(* what the nodes of a cluster are given when they boot fits together and  *)
(* is their own.                                                           *)
(***************************************************************************)
EXTENDS Provisioning, NodeLcmProofs

-----------------------------------------------------------------------------
(* The inductive invariant.                                                *)

\* How the parts of the object belong together.
ObjectSane ==
    /\ cr.life # "none" => cr.inc # 0
    /\ cr.life = "deleting" => cr.fin
    /\ cr.nounce <= cr.inc
    /\ cr.fin => cr.nounce # 0
    /\ ~cr.fin => cr.head = NewNode
    /\ ~cr.labelled => cr.nounce = IF cr.fin THEN cr.inc ELSE 0

\* A VM that runs or will run.
Alive(n) == vms[n].state \in {"booting", "up"}

\* Nothing of an earlier cluster is left but VMs on their way out, and perhaps
\* an ssh key.
Clean ==
    /\ hsecret = NoCloudInit /\ wsecret = NoCloudInit
    /\ ca = 0 /\ sa = 0
    /\ \A h \in HeadNames : svcs[h] = NoSvc
    /\ \A n \in Names : ~Alive(n)

CleanStart == cr.life = "none" \/ ~cr.fin => Clean

\* Everything that exists has a name that the delete loop visits.
DeleteCallsReach ==
    /\ \A n \in Names : Alive(n) => n = cr.nounce \/ n \in cr.desired
    /\ \A h \in HeadNames : h # cr.nounce => svcs[h] = NoSvc

\* The configurations that are used, or may be used by a VM that boots.
InUse ==
    ({hsecret, wsecret} \ {NoCloudInit}) \cup {vms[n].boot : n \in {m \in Names : Up(m)}}

\* All of them come from one root CA and one ssh key, those of the secrets that
\* exist as long as nothing is deleted.
OneOrigin ==
    /\ \A s \in InUse : s.ca # 0 /\ s.ssh # 0
    /\ \A s, t \in InUse : s.ca = t.ca /\ s.ssh = t.ssh
    /\ cr.life = "live" => \A s \in InUse : s.ca = ca /\ s.ssh = ssh

\* What a head can have been given.
HeadUse ==
    ({hsecret} \ {NoCloudInit}) \cup {vms[h].boot : h \in {m \in HeadNames : Up(m)}}

OwnToken ==
    cr.life = "live" => \A s \in HeadUse : s.token.sa = sa /\ sa # 0

\* Before any edit, the service and the head's configuration were made from
\* the same object.
ServiceMatches ==
    cr.life = "live" /\ cr.fin /\ cr.requestor = K8S /\ budget.edits = MaxEdits =>
        /\ svcs[cr.nounce].state # "absent" => svcs[cr.nounce].port = cr.port
        /\ \A s \in HeadUse :
              /\ svcs[cr.nounce].state = "ready"
              /\ s.bootstrap.port = cr.port
              /\ s.ip = svcs[cr.nounce].ip
              /\ "svc-account-token.env" \in s.mounts

\* What configurations hold, whoever has them.
GoodNode(s) == s.mounts \subseteq s.files /\ (AuthSecret => s.login)
GoodWorker(s) == CommonFiles \subseteq s.files

GoodContents ==
    /\ \A s \in InUse : GoodNode(s)
    /\ wsecret # NoCloudInit => GoodWorker(wsecret)
    /\ \A w \in Workers : Up(w) => GoodWorker(vms[w].boot)

\* A VM that has the name of a head was made by the cluster with that number or
\* by a later one that was submitted with its label.
HeadVmAge ==
    \A h \in HeadNames : vms[h].inc # 0 => h <= vms[h].inc /\ vms[h].inc <= cr.inc

ProvInv ==
    /\ TypeOK
    /\ ObjectSane
    /\ CleanStart
    /\ DeleteCallsReach
    /\ OneOrigin
    /\ OwnToken
    /\ ServiceMatches
    /\ GoodContents
    /\ HeadVmAge


-----------------------------------------------------------------------------
(* Facts about the operators.                                              *)

\* Names of heads and of workers.
LEMMA NamesFacts ==
    /\ HeadNames \subseteq Names /\ Workers \subseteq Names
    /\ \A w \in Workers : w \notin HeadNames
    /\ \A h \in HeadNames : h \in Nat /\ h # 0
    /\ MaxLives \in Nat \ {0}
  BY ProvisioningAssumption DEF Names, HeadNames, Lives

\* An empty configuration is one.
LEMMA NoCloudInitType == NoCloudInit \in CloudInit
  BY DEF NoCloudInit, CloudInit, NoToken, NoBootstrap

\* What the absence of a service, a VM or a configuration looks like.
LEMMA NothingType ==
    /\ NoSvc \in Svc /\ NoSvc.state = "absent" /\ NoSvc.ip = 0
    /\ NoVm \in Vm /\ NoVm.state = "absent" /\ NoVm.inc = 0 /\ NoVm.boot = NoCloudInit
  BY NoCloudInitType, ProvisioningAssumption DEF NoSvc, Svc, NoVm, Vm

\* The numbers in a configuration.
LEMMA CloudInitNumbers ==
    ASSUME NEW s \in CloudInit
    PROVE  /\ s.ca \in Nat /\ s.ssh \in Nat /\ s.ip \in Nat
           /\ s.token.sa \in Nat /\ s.token.at \in Nat
  BY DEF CloudInit

\* What was made stays made.
LEMMA MadeStays ==
    ASSUME NEW s \in CloudInit, Made(s), TypeOK,
           minted' \in [ca : Nat, ssh : Nat, sa : Nat, ip : Nat],
           minted.ca <= minted'.ca, minted.ssh <= minted'.ssh,
           minted.sa <= minted'.sa, minted.ip <= minted'.ip,
           clock' \in Nat, clock <= clock'
    PROVE  Made(s)'
  <1>1. /\ minted \in [ca : Nat, ssh : Nat, sa : Nat, ip : Nat] /\ clock \in Nat
        /\ s.ca \in Nat /\ s.ssh \in Nat /\ s.ip \in Nat
        /\ s.token.sa \in Nat /\ s.token.at \in Nat
    BY CloudInitNumbers, ProvisioningAssumption DEF TypeOK
  <1> QED
    BY <1>1 DEF Made

\* What Mint does to the counters.
LEMMA MintEffect ==
    ASSUME TypeOK, Mint, ca' \in Nat, ssh' \in Nat, sa' \in Nat
    PROVE  /\ minted' \in [ca : Nat, ssh : Nat, sa : Nat, ip : Nat]
           /\ minted.ca <= minted'.ca /\ minted.ssh <= minted'.ssh
           /\ minted.sa <= minted'.sa /\ minted.ip = minted'.ip
           /\ ca' <= minted'.ca /\ ssh' <= minted'.ssh /\ sa' <= minted'.sa
  <1>1. /\ minted \in [ca : Nat, ssh : Nat, sa : Nat, ip : Nat]
        /\ minted.ca \in Nat /\ minted.ssh \in Nat /\ minted.sa \in Nat /\ minted.ip \in Nat
    BY DEF TypeOK
  <1>2. /\ minted'.ca = IF ca' > minted.ca THEN ca' ELSE minted.ca
        /\ minted'.ssh = IF ssh' > minted.ssh THEN ssh' ELSE minted.ssh
        /\ minted'.sa = IF sa' > minted.sa THEN sa' ELSE minted.sa
        /\ minted'.ip = minted.ip
        /\ minted' \in [ca : Nat, ssh : Nat, sa : Nat, ip : Nat]
    BY <1>1 DEF Mint
  <1> QED
    BY <1>1, <1>2

\* A bound that is used up a little remains within its bound.
LEMMA SpendEffect ==
    ASSUME TypeOK, NEW kind \in {"edits", "faults"}, Spend(kind)
    PROVE  /\ budget' \in [edits : 0..MaxEdits, faults : Nat]
           /\ kind = "faults" => budget'.edits = budget.edits
           /\ kind = "edits" => budget'.edits < budget.edits
  <1>1. /\ budget.edits \in 0..MaxEdits /\ budget.faults \in Nat /\ MaxEdits \in Nat
        /\ budget \in [edits : 0..MaxEdits, faults : Nat]
    BY ProvisioningAssumption DEF TypeOK
  <1>2. CASE kind = "edits"
    <2>1. budget.edits > 0 /\ budget' = [budget EXCEPT !["edits"] = budget.edits - 1]
      BY <1>2 DEF Spend
    <2> QED
      BY <1>1, <1>2, <2>1
  <1>3. CASE kind = "faults"
    <2>1. budget.faults > 0 /\ budget' = [budget EXCEPT !["faults"] = budget.faults - 1]
      BY <1>3 DEF Spend
    <2> QED
      BY <1>1, <1>3, <2>1
  <1> QED
    BY <1>2, <1>3

\* What ProcessNodeVmState gives the head.
LEMMA AfterHeadEffect ==
    ASSUME TypeOK, NEW ans, AfterHead(ans)
    PROVE  \E st \in VMRayNodeStatus : cr' = [cr EXCEPT !.head = st] /\ cr' \in Cluster
  <1>1. cr.head \in VMRayNodeStatus
    BY DEF TypeOK, Cluster
  <1> DEFINE st == ProcessNodeVmState(cr.head, ans).status
  <1>2. st \in VMRayNodeStatus
    BY <1>1, ProcessType
  <1>3. cr' = [cr EXCEPT !.head = st]
    BY DEF AfterHead
  <1> HIDE DEF st
  <1>4. cr' \in Cluster
    BY <1>2, <1>3 DEF TypeOK, Cluster
  <1> QED
    BY <1>2, <1>3, <1>4

\* What it gives a worker.
LEMMA AfterWorkerEffect ==
    ASSUME TypeOK, NEW ans, NEW w \in Workers, AfterWorker(w, ans)
    PROVE  \E st \in [Workers -> VMRayNodeStatus] :
              cr' = [cr EXCEPT !.workers = st] /\ cr' \in Cluster
  <1>1. cr.workers[w] \in VMRayNodeStatus /\ cr \in Cluster /\ cr.workers \in [Workers -> VMRayNodeStatus]
    BY DEF TypeOK, Cluster
  <1> DEFINE one == ProcessNodeVmState(cr.workers[w], ans).status
  <1>2. one \in VMRayNodeStatus
    BY <1>1, ProcessType
  <1>3. cr' = [cr EXCEPT !.workers[w] = one]
    BY DEF AfterWorker
  <1> HIDE DEF one
  <1> DEFINE st == [cr.workers EXCEPT ![w] = one]
  <1>4. st \in [Workers -> VMRayNodeStatus]
    BY <1>1, <1>2
  <1>5. cr' = [cr EXCEPT !.workers = st]
    BY <1>1, <1>3 DEF Cluster
  <1> HIDE DEF st
  <1>6. cr' \in Cluster
    BY <1>1, <1>4, <1>5 DEF Cluster
  <1> QED
    BY <1>4, <1>5, <1>6

\* A VM on its way out.
LEMMA TerminateType ==
    ASSUME TypeOK, NEW n \in Names
    PROVE  /\ Terminate(n) \in Vm
           /\ Terminate(n).state \in {"absent", "terminating"}
           /\ Terminate(n).inc \in {0, vms[n].inc}
           /\ Terminate(n).boot \in {NoCloudInit, vms[n].boot}
  BY NothingType DEF Terminate, TypeOK, Vm

\* A VM is created once.
LEMMA CreateVmEffect ==
    ASSUME TypeOK, NEW n \in Names, CreateVm(n)
    PROVE  /\ vms' \in [Names -> Vm]
           /\ \A m \in Names : m # n => vms'[m] = vms[m]
           /\ \/ vms'[n] = vms[n]
              \/ vms'[n].state = "booting" /\ vms'[n].inc = cr.inc /\ vms'[n].boot = NoCloudInit
  <1>1. vms \in [Names -> Vm] /\ cr.inc \in 0..MaxLives
    BY DEF TypeOK, Cluster
  <1> DEFINE new == [NoVm EXCEPT !.state = "booting", !.inc = cr.inc]
  <1>2. new \in Vm /\ new.state = "booting" /\ new.inc = cr.inc /\ new.boot = NoCloudInit
    BY <1>1, NoCloudInitType DEF Vm, NoVm
  <1> HIDE DEF new
  <1>3. vms' = [vms EXCEPT ![n] = IF vms[n].state = "absent" THEN new ELSE vms[n]]
    BY DEF CreateVm, new
  <1> QED
    BY <1>1, <1>2, <1>3

\* The cloud-init configuration of a head.
LEMMA HeadCloudInitType ==
    ASSUME TypeOK, NEW account \in Nat, NEW key \in Nat, cr.nounce \in HeadNames
    PROVE  LET s == HeadCloudInit(account, key)
           IN  /\ s \in CloudInit
               /\ s.ca = ca /\ s.ssh = key /\ s.token.sa = account /\ s.token.at = clock
               /\ s.ip = svcs[cr.nounce].ip /\ s.login = AuthSecret
               /\ s.mounts \subseteq s.files
               /\ cr.requestor = K8S => /\ s.bootstrap.port = cr.port
                                        /\ "svc-account-token.env" \in s.mounts
  <1> DEFINE files == CommonFiles \cup {"svc-account-token.env", "ray_bootstrap_config.yaml"}
  <1>1. /\ svcs[cr.nounce].ip \in Nat /\ ca \in Nat /\ clock \in Nat /\ AuthSecret \in BOOLEAN
        /\ cr.port \in Ports /\ cr.requestor \in Requestors
    BY ProvisioningAssumption DEF TypeOK, Svc, Cluster
  <1>2. /\ GetRayBootstrapConfig \in [port : Ports \cup {0}, options : SUBSET DockerFlags]
        /\ cr.requestor = K8S => GetRayBootstrapConfig.port = cr.port
    BY <1>1 DEF GetRayBootstrapConfig, GetRayPort, NoBootstrap, K8S, RayCLI
  <1>3. /\ HeadFiles \in SUBSET files /\ HeadMounts \in SUBSET files
        /\ HeadMounts \subseteq HeadFiles
        /\ cr.requestor = K8S => "svc-account-token.env" \in HeadMounts
    BY <1>1 DEF HeadFiles, HeadMounts, CommonFiles, DockerFlags, K8S, RayCLI
  <1>4. GetDockerLoginCmd.cmd = AuthSecret
    BY DEF GetDockerLoginCmd
  <1> QED
    BY <1>1, <1>2, <1>3, <1>4 DEF HeadCloudInit, CloudInit, FetchServiceAccountToken

\* The cloud-init configuration of a worker.
LEMMA WorkerCloudInitType ==
    ASSUME TypeOK
    PROVE  /\ WorkerCloudInit \in CloudInit
           /\ WorkerCloudInit.ca = ca /\ WorkerCloudInit.ssh = ssh
           /\ WorkerCloudInit.token = NoToken /\ WorkerCloudInit.ip = 0
           /\ WorkerCloudInit.files = CommonFiles /\ WorkerCloudInit.mounts = {}
           /\ WorkerCloudInit.login = AuthSecret
  <1>1. ca \in Nat /\ ssh \in Nat /\ AuthSecret \in BOOLEAN
    BY ProvisioningAssumption DEF TypeOK
  <1> QED
    BY <1>1 DEF WorkerCloudInit, CloudInit, NoCloudInit, NoToken, NoBootstrap, GetDockerLoginCmd


-----------------------------------------------------------------------------
(* Type correctness.                                                       *)

\* TypeOK without the object, the docker secret, the clock and the bounds.
ContentTypeOK ==
    /\ minted \in [ca : Nat, ssh : Nat, sa : Nat, ip : Nat]
    /\ ca \in 0..minted.ca /\ ssh \in 0..minted.ssh /\ sa \in 0..minted.sa
    /\ hsecret \in CloudInit /\ wsecret \in CloudInit
    /\ svcs \in [HeadNames -> Svc]
    /\ vms \in [Names -> Vm]
    /\ Made(hsecret) /\ Made(wsecret)
    /\ \A h \in HeadNames : svcs[h].ip <= minted.ip
    /\ \A n \in Names : Made(vms[n].boot)

\* The counters may only grow.
Grows ==
    /\ minted' \in [ca : Nat, ssh : Nat, sa : Nat, ip : Nat]
    /\ minted.ca <= minted'.ca /\ minted.ssh <= minted'.ssh
    /\ minted.sa <= minted'.sa /\ minted.ip <= minted'.ip
    /\ clock' \in Nat /\ clock <= clock'

\* A step keeps the types if what it writes is what was there, nothing, or
\* refers to things that have been made by then.
LEMMA ContentStep ==
    ASSUME TypeOK, Grows,
           ca' \in 0..minted'.ca, ssh' \in 0..minted'.ssh, sa' \in 0..minted'.sa,
           svcs' \in [HeadNames -> Svc], \A h \in HeadNames : svcs'[h].ip <= minted'.ip,
           hsecret' = hsecret \/ (hsecret' \in CloudInit /\ Made(hsecret)'),
           wsecret' = wsecret \/ (wsecret' \in CloudInit /\ Made(wsecret)'),
           vms' \in [Names -> Vm],
           \A n \in Names : vms'[n].boot \in {vms[n].boot, NoCloudInit, hsecret, wsecret}
    PROVE  ContentTypeOK'
  <1>1. ASSUME NEW s \in CloudInit, Made(s)
        PROVE  Made(s)'
    BY <1>1, MadeStays DEF Grows
  <1>2. hsecret \in CloudInit /\ Made(hsecret) /\ wsecret \in CloudInit /\ Made(wsecret)
    BY DEF TypeOK
  <1>3. hsecret' \in CloudInit /\ Made(hsecret)'
    <2>1. CASE hsecret' = hsecret
      BY <2>1, <1>2, <1>1 DEF Made
    <2> QED
      BY <2>1
  <1>4. wsecret' \in CloudInit /\ Made(wsecret)'
    <2>1. CASE wsecret' = wsecret
      BY <2>1, <1>2, <1>1 DEF Made
    <2> QED
      BY <2>1
  <1>5. NoCloudInit \in CloudInit /\ Made(NoCloudInit)
    <2>1. minted \in [ca : Nat, ssh : Nat, sa : Nat, ip : Nat] /\ clock \in Nat
      BY ProvisioningAssumption DEF TypeOK
    <2> QED
      BY <2>1, NoCloudInitType DEF NoCloudInit, Made, NoToken
  <1>6. ASSUME NEW n \in Names
        PROVE  Made(vms[n].boot)'
    <2>1. vms[n].boot \in CloudInit /\ Made(vms[n].boot)
      BY DEF TypeOK, Vm
    <2>2. PICK s \in CloudInit : Made(s) /\ vms'[n].boot = s
      BY <1>2, <1>5, <2>1
    <2>3. Made(s)'
      BY <1>1, <2>2
    <2> QED
      BY <2>2, <2>3 DEF Made
  <1> QED
    BY <1>3, <1>4, <1>6 DEF ContentTypeOK, Grows


\* What Deploy leaves behind for the head, however far it got.
LEMMA DeployHeadEffect ==
    ASSUME TypeOK, ObjectSane, DeployHead
    PROVE  /\ Prepared /\ cr.nounce \in HeadNames /\ svcs[cr.nounce].state = "ready"
           /\ \E st \in VMRayNodeStatus : cr' = [cr EXCEPT !.head = st] /\ cr' \in Cluster
           /\ budget' \in [edits : 0..MaxEdits, faults : Nat] /\ budget'.edits = budget.edits
           /\ UNCHANGED <<ca, wsecret, svcs, docker, clock>> /\ Mint
           /\ sa' \in Nat /\ (sa' = sa \/ (sa = 0 /\ sa' # 0))
           /\ ssh' \in Nat /\ (ssh' = ssh \/ (ssh = 0 /\ ssh' # 0))
           /\ \/ hsecret' = hsecret
              \/ /\ hsecret = NoCloudInit /\ sa' # 0 /\ ssh' # 0
                 /\ hsecret' = HeadCloudInit(sa', ssh')
           /\ vms' = vms \/ CreateVm(cr.nounce)
  <1>1. /\ Prepared /\ svcs[cr.nounce].state = "ready"
        /\ cr.nounce \in HeadNames
    <2>1. cr.nounce \in 0..MaxLives /\ cr.fin
      BY DEF DeployHead, Prepared, TypeOK, Cluster
    <2> QED
      BY <2>1, ProvisioningAssumption DEF DeployHead, ObjectSane, HeadNames, Lives
  <1>2. PICK ans : AfterHead(ans)
    BY DEF DeployHead
  <1>3. budget' \in [edits : 0..MaxEdits, faults : Nat] /\ budget'.edits = budget.edits
    <2>1. CASE UNCHANGED budget
      BY <2>1 DEF TypeOK
    <2>2. CASE Spend("faults")
      BY <2>2, SpendEffect
    <2> QED
      BY <2>1, <2>2 DEF DeployHead
  <1>4. PICK done \in 0..4 : DeployHeadCalls(done)
    BY DEF DeployHead
  <1> DEFINE account == IF sa = 0 THEN minted.sa + 1 ELSE sa
             key     == IF ssh = 0 THEN minted.ssh + 1 ELSE ssh
  <1>5. account \in Nat \ {0} /\ key \in Nat \ {0}
    BY DEF TypeOK
  <1>6. /\ UNCHANGED <<ca, wsecret, svcs, docker, clock>> /\ Mint
        /\ sa'  = IF done >= 1 THEN account ELSE sa
        /\ ssh' = IF done >= 2 THEN key ELSE ssh
        /\ hsecret' = IF done >= 3 /\ hsecret = NoCloudInit
                      THEN HeadCloudInit(account, key) ELSE hsecret
        /\ IF done >= 4 THEN CreateVm(cr.nounce) ELSE UNCHANGED vms
    BY <1>4 DEF DeployHeadCalls, StorePrivateKey
  <1>7. (sa # 0 => account = sa) /\ (ssh # 0 => key = ssh) /\ sa \in Nat /\ ssh \in Nat
    BY DEF TypeOK
  <1> HIDE DEF account, key
  <1>8. /\ sa' \in Nat /\ (sa' = sa \/ (sa = 0 /\ sa' # 0))
        /\ ssh' \in Nat /\ (ssh' = ssh \/ (ssh = 0 /\ ssh' # 0))
    BY <1>5, <1>6, <1>7
  <1>9. \/ hsecret' = hsecret
        \/ /\ hsecret = NoCloudInit /\ sa' # 0 /\ ssh' # 0
           /\ hsecret' = HeadCloudInit(sa', ssh')
    <2>1. CASE done >= 3
      <3>1. sa' = account /\ ssh' = key
        BY <1>6, <2>1
      <3> QED
        BY <1>5, <1>6, <3>1
    <2>2. CASE ~(done >= 3)
      BY <1>6, <2>2
    <2> QED
      BY <2>1, <2>2
  <1> QED
    BY <1>1, <1>2, <1>3, <1>6, <1>8, <1>9, AfterHeadEffect

\* What Deploy leaves behind for a worker.
LEMMA DeployWorkerEffect ==
    ASSUME TypeOK, NEW w \in Workers, DeployWorker(w)
    PROVE  /\ Prepared /\ w \in cr.desired
           /\ \E st \in [Workers -> VMRayNodeStatus] :
                 cr' = [cr EXCEPT !.workers = st] /\ cr' \in Cluster
           /\ budget' \in [edits : 0..MaxEdits, faults : Nat] /\ budget'.edits = budget.edits
           /\ UNCHANGED <<ca, ssh, hsecret, sa, svcs, docker, minted, clock>>
           /\ \/ wsecret' = wsecret
              \/ wsecret = NoCloudInit /\ ssh # 0 /\ wsecret' = WorkerCloudInit
           /\ vms' = vms \/ CreateVm(w)
  <1>1. Prepared /\ w \in cr.desired
    BY DEF DeployWorker
  <1>2. PICK ans : AfterWorker(w, ans)
    BY DEF DeployWorker
  <1>3. budget' \in [edits : 0..MaxEdits, faults : Nat] /\ budget'.edits = budget.edits
    <2>1. CASE UNCHANGED budget
      BY <2>1 DEF TypeOK
    <2>2. CASE Spend("faults")
      BY <2>2, SpendEffect
    <2> QED
      BY <2>1, <2>2 DEF DeployWorker
  <1>4. PICK done \in 0..2 : DeployWorkerCalls(w, done) /\ (done >= 1 => WorkerSecretPossible)
    BY DEF DeployWorker
  <1>5. /\ UNCHANGED <<ca, ssh, hsecret, sa, svcs, docker, minted, clock>>
        /\ vms' = vms \/ CreateVm(w)
        /\ \/ wsecret' = wsecret
           \/ wsecret = NoCloudInit /\ ssh # 0 /\ wsecret' = WorkerCloudInit
    BY <1>4 DEF DeployWorkerCalls, WorkerSecretPossible
  <1> QED
    BY <1>1, <1>2, <1>3, <1>5, AfterWorkerEffect

\* What any number of calls of the delete loop leaves behind.
LEMMA DeleteCallsEffect ==
    ASSUME TypeOK, cr.nounce \in HeadNames, NEW done \in 0..8, DeleteCalls(done)
    PROVE  /\ ssh' \in {0, ssh} /\ ca' \in {0, ca} /\ sa' \in {0, sa}
           /\ wsecret' \in {NoCloudInit, wsecret} /\ hsecret' \in {NoCloudInit, hsecret}
           /\ svcs' \in [HeadNames -> Svc]
           /\ \A h \in HeadNames : svcs'[h] \in {NoSvc, svcs[h]}
           /\ vms' \in [Names -> Vm]
           /\ \A n \in Names : vms'[n] \in {Terminate(n), vms[n]}
           /\ UNCHANGED <<docker, minted, clock>>
  <1>1. svcs \in [HeadNames -> Svc] /\ vms \in [Names -> Vm]
    BY DEF TypeOK
  <1>2. /\ svcs' \in [HeadNames -> Svc]
        /\ \A h \in HeadNames : svcs'[h] \in {NoSvc, svcs[h]}
    BY <1>1, NothingType DEF DeleteCalls
  <1>3. /\ vms' \in [Names -> Vm]
        /\ \A n \in Names : vms'[n] \in {Terminate(n), vms[n]}
    BY <1>1, TerminateType DEF DeleteCalls
  <1> QED
    BY <1>2, <1>3 DEF DeleteCalls, WithoutHeadSecret


\* TypeOK from its parts.
LEMMA TypeFromParts ==
    ASSUME ContentTypeOK', cr' \in Cluster,
           docker' \in {"missing", "incomplete", "complete"}, clock' \in 0..MaxClock,
           budget' \in [edits : 0..MaxEdits, faults : Nat]
    PROVE  TypeOK'
  BY DEF ContentTypeOK, TypeOK

\* The contents are not touched.
LEMMA ContentUnchanged ==
    ASSUME TypeOK, UNCHANGED <<creds, svcs, vms, minted>>, clock' \in 0..MaxClock, clock <= clock'
    PROVE  ContentTypeOK'
  <1>1. Grows
    BY ProvisioningAssumption DEF TypeOK, Grows
  <1>2. /\ ca' \in 0..minted'.ca /\ ssh' \in 0..minted'.ssh /\ sa' \in 0..minted'.sa
        /\ svcs' \in [HeadNames -> Svc] /\ \A h \in HeadNames : svcs'[h].ip <= minted'.ip
        /\ hsecret' = hsecret /\ wsecret' = wsecret
        /\ vms' \in [Names -> Vm] /\ \A n \in Names : vms'[n].boot = vms[n].boot
    BY DEF TypeOK, creds
  <1> QED
    BY <1>1, <1>2, ContentStep

\* Only VMs change, which keep their configuration, lose it or read it.
LEMMA ContentVms ==
    ASSUME TypeOK, UNCHANGED <<creds, svcs, minted, clock>>, vms' \in [Names -> Vm],
           \A n \in Names : vms'[n].boot \in {vms[n].boot, NoCloudInit, hsecret, wsecret}
    PROVE  ContentTypeOK'
  <1>1. Grows
    BY ProvisioningAssumption DEF TypeOK, Grows
  <1>2. /\ ca' \in 0..minted'.ca /\ ssh' \in 0..minted'.ssh /\ sa' \in 0..minted'.sa
        /\ svcs' \in [HeadNames -> Svc] /\ \A h \in HeadNames : svcs'[h].ip <= minted'.ip
        /\ hsecret' = hsecret /\ wsecret' = wsecret
    BY DEF TypeOK, creds
  <1> QED
    BY <1>1, <1>2, ContentStep

\* Every step that is a reconcile keeps the types.
LEMMA ReconcileType ==
    ASSUME TypeOK, ObjectSane,
           \/ AddFinalizerAndNounce \/ CreateVMRayClusterRootSecret \/ ReconcileHead
           \/ \E w \in Workers : ReconcileWorker(w)
    PROVE  TypeOK'
  <1>0. /\ cr \in Cluster /\ docker \in {"missing", "incomplete", "complete"}
        /\ clock \in 0..MaxClock /\ clock <= clock
        /\ budget \in [edits : 0..MaxEdits, faults : Nat]
    BY ProvisioningAssumption DEF TypeOK
  <1>1. CASE AddFinalizerAndNounce
    <2>1. cr' \in Cluster
      BY <1>0, <1>1 DEF AddFinalizerAndNounce, Cluster, CreateRandomNounce
    <2> QED
      BY <1>0, <1>1, <2>1, ContentUnchanged, TypeFromParts DEF AddFinalizerAndNounce
  <1>2. CASE CreateVMRayClusterRootSecret
    <2>1. /\ ca' \in Nat /\ ssh' \in Nat /\ sa' \in Nat /\ Mint
          /\ UNCHANGED <<cr, hsecret, wsecret, svcs, vms, docker, clock, budget>>
      BY <1>2 DEF CreateVMRayClusterRootSecret, TypeOK
    <2>2. Grows /\ minted.ip = minted'.ip
          /\ ca' \in 0..minted'.ca /\ ssh' \in 0..minted'.ssh /\ sa' \in 0..minted'.sa
      BY <1>0, <2>1, MintEffect, ProvisioningAssumption DEF TypeOK, Grows
    <2>3. ContentTypeOK'
      <3>1. /\ svcs' \in [HeadNames -> Svc] /\ \A h \in HeadNames : svcs'[h].ip <= minted'.ip
            /\ vms' \in [Names -> Vm] /\ \A n \in Names : vms'[n].boot = vms[n].boot
        BY <2>1, <2>2 DEF TypeOK
      <3> QED
        BY <2>1, <2>2, <3>1, ContentStep
    <2> QED
      BY <1>0, <2>1, <2>3, TypeFromParts
  <1>3. CASE DeployVmService
    <2>1. PICK st \in VMRayNodeStatus : cr' \in Cluster
      BY <1>3, AfterHeadEffect DEF DeployVmService
    <2>2. /\ UNCHANGED <<ca, ssh, hsecret, wsecret, sa, vms, docker, minted, clock, budget>>
          /\ svcs' = [svcs EXCEPT ![cr.nounce] = [NoSvc EXCEPT !.state = "pending", !.port = cr.port]]
      BY <1>3 DEF DeployVmService, creds, ServicePort
    <2> DEFINE new == [NoSvc EXCEPT !.state = "pending", !.port = cr.port]
    <2>3. new \in Svc /\ new.ip = 0
      BY <1>0 DEF NoSvc, Svc, Cluster
    <2> HIDE DEF new
    <2>4. svcs' \in [HeadNames -> Svc] /\ \A h \in HeadNames : svcs'[h].ip <= minted'.ip
      <3>1. /\ svcs \in [HeadNames -> Svc] /\ \A h \in HeadNames : svcs[h].ip <= minted'.ip
            /\ 0 <= minted'.ip /\ svcs' = [svcs EXCEPT ![cr.nounce] = new]
        BY <2>2 DEF TypeOK, new
      <3> QED
        BY <2>3, <3>1
    <2>5. Grows
      BY <2>2, ProvisioningAssumption DEF TypeOK, Grows
    <2>6. /\ ca' \in 0..minted'.ca /\ ssh' \in 0..minted'.ssh /\ sa' \in 0..minted'.sa
          /\ hsecret' = hsecret /\ wsecret' = wsecret
          /\ vms' \in [Names -> Vm] /\ \A n \in Names : vms'[n].boot = vms[n].boot
      BY <2>2 DEF TypeOK
    <2>7. ContentTypeOK'
      BY <2>4, <2>5, <2>6, ContentStep
    <2> QED
      BY <1>0, <2>1, <2>2, <2>7, TypeFromParts
  <1>4. CASE DeployHead
    <2>1. /\ cr.nounce \in HeadNames /\ cr' \in Cluster
          /\ budget' \in [edits : 0..MaxEdits, faults : Nat]
          /\ UNCHANGED <<ca, wsecret, svcs, docker, clock>> /\ Mint
          /\ sa' \in Nat /\ ssh' \in Nat
          /\ hsecret' = hsecret \/ hsecret' = HeadCloudInit(sa', ssh')
          /\ vms' = vms \/ CreateVm(cr.nounce)
      BY <1>4, DeployHeadEffect
    <2>2. Grows /\ minted.ip = minted'.ip
          /\ ca' \in 0..minted'.ca /\ ssh' \in 0..minted'.ssh /\ sa' \in 0..minted'.sa
      BY <1>0, <2>1, MintEffect, ProvisioningAssumption DEF TypeOK, Grows
    <2>3. vms' \in [Names -> Vm] /\ \A n \in Names : vms'[n].boot \in {vms[n].boot, NoCloudInit}
      BY <2>1, CreateVmEffect, NamesFacts DEF TypeOK
    <2>4. hsecret' = hsecret \/ (hsecret' \in CloudInit /\ Made(hsecret)')
      <3>1. SUFFICES ASSUME hsecret' = HeadCloudInit(sa', ssh')
                     PROVE  hsecret' \in CloudInit /\ Made(hsecret)'
        BY <2>1
      <3>2. /\ hsecret' \in CloudInit
            /\ hsecret'.ca = ca /\ hsecret'.ssh = ssh' /\ hsecret'.token.sa = sa'
            /\ hsecret'.token.at = clock /\ hsecret'.ip = svcs[cr.nounce].ip
        BY <3>1, <2>1, HeadCloudInitType
      <3>3. svcs[cr.nounce].ip <= minted'.ip /\ clock' = clock /\ clock <= clock /\ ca <= minted'.ca
        BY <1>0, <2>1, <2>2 DEF TypeOK
      <3> QED
        BY <3>2, <3>3, <2>2 DEF Made
    <2>5. ContentTypeOK'
      <3>1. svcs' \in [HeadNames -> Svc] /\ \A h \in HeadNames : svcs'[h].ip <= minted'.ip
        BY <2>1, <2>2 DEF TypeOK
      <3> QED
        BY <2>1, <2>2, <2>3, <2>4, <3>1, ContentStep
    <2> QED
      BY <1>0, <2>1, <2>5, TypeFromParts
  <1>5. CASE FetchHead
    <2>1. PICK st \in VMRayNodeStatus : cr' \in Cluster
      BY <1>5, AfterHeadEffect DEF FetchHead
    <2> QED
      BY <1>0, <1>5, <2>1, ContentUnchanged, TypeFromParts DEF FetchHead
  <1>6. ASSUME NEW w \in Workers, DeployWorker(w)
        PROVE  TypeOK'
    <2>1. /\ cr' \in Cluster
          /\ budget' \in [edits : 0..MaxEdits, faults : Nat]
          /\ UNCHANGED <<ca, ssh, hsecret, sa, svcs, docker, minted, clock>>
          /\ wsecret' = wsecret \/ wsecret' = WorkerCloudInit
          /\ vms' = vms \/ CreateVm(w)
      BY <1>6, DeployWorkerEffect
    <2>2. Grows
      BY <2>1, ProvisioningAssumption DEF TypeOK, Grows
    <2>3. vms' \in [Names -> Vm] /\ \A n \in Names : vms'[n].boot \in {vms[n].boot, NoCloudInit}
      BY <2>1, CreateVmEffect, NamesFacts DEF TypeOK
    <2>4. wsecret' = wsecret \/ (wsecret' \in CloudInit /\ Made(wsecret)')
      <3>1. SUFFICES ASSUME wsecret' = WorkerCloudInit
                     PROVE  wsecret' \in CloudInit /\ Made(wsecret)'
        BY <2>1
      <3>2. /\ wsecret' \in CloudInit
            /\ wsecret'.ca = ca /\ wsecret'.ssh = ssh /\ wsecret'.token = NoToken /\ wsecret'.ip = 0
        BY <3>1, WorkerCloudInitType
      <3>3. /\ minted' = minted /\ clock' = clock /\ clock \in Nat
            /\ minted \in [ca : Nat, ssh : Nat, sa : Nat, ip : Nat]
            /\ ca <= minted.ca /\ ssh <= minted.ssh
        BY <2>1, ProvisioningAssumption DEF TypeOK
      <3> QED
        BY <3>2, <3>3 DEF Made, NoToken
    <2>5. ContentTypeOK'
      <3>1. /\ svcs' \in [HeadNames -> Svc] /\ \A h \in HeadNames : svcs'[h].ip <= minted'.ip
            /\ ca' \in 0..minted'.ca /\ ssh' \in 0..minted'.ssh /\ sa' \in 0..minted'.sa
        BY <2>1 DEF TypeOK
      <3> QED
        BY <2>1, <2>2, <2>3, <2>4, <3>1, ContentStep
    <2> QED
      BY <1>0, <2>1, <2>5, TypeFromParts
  <1>7. ASSUME NEW w \in Workers, FetchWorker(w)
        PROVE  TypeOK'
    <2>1. PICK st \in [Workers -> VMRayNodeStatus] : cr' \in Cluster
      BY <1>7, AfterWorkerEffect DEF FetchWorker
    <2> QED
      BY <1>0, <1>7, <2>1, ContentUnchanged, TypeFromParts DEF FetchWorker
  <1> QED
    BY <1>1, <1>2, <1>3, <1>4, <1>5, <1>6, <1>7 DEF ReconcileHead, ReconcileWorker

\* What is submitted: a new cluster, with a label only if there was one.
LEMMA SubmitEffect ==
    ASSUME Submit
    PROVE  \E r \in Requestors, p \in Ports, keep \in BOOLEAN :
              /\ keep => cr.nounce # 0
              /\ cr' = [cr EXCEPT !.life = "live", !.inc = @ + 1, !.fin = FALSE,
                                  !.nounce = IF keep THEN @ ELSE 0, !.labelled = keep,
                                  !.requestor = r, !.port = p, !.desired = {}, !.head = NewNode,
                                  !.workers = [w \in Workers |-> NewNode]]
  BY DEF Submit

\* Every other step keeps them too.
LEMMA OthersType ==
    ASSUME TypeOK, ObjectSane,
           \/ VMRayClusterDelete
           \/ Submit \/ UserEdit \/ UserDelete \/ DockerSecret \/ Tick
           \/ \E w \in Workers : AutoscalerPatch(w)
           \/ \E h \in HeadNames : SvcReady(h)
           \/ \E n \in Names : VmBoot(n) \/ VmGone(n) \/ VmOutage(n)
    PROVE  TypeOK'
  <1>0. /\ cr \in Cluster /\ docker \in {"missing", "incomplete", "complete"}
        /\ clock \in 0..MaxClock /\ clock <= clock /\ MaxClock \in Nat
        /\ budget \in [edits : 0..MaxEdits, faults : Nat]
    BY ProvisioningAssumption DEF TypeOK
  <1>1. CASE VMRayClusterDelete
    <2>1. cr.nounce \in HeadNames
      BY <1>0, <1>1, ProvisioningAssumption
      DEF VMRayClusterDelete, ObjectSane, Cluster, HeadNames, Lives
    <2>2. PICK done \in 0..8 : DeleteCalls(done)
      BY <1>1 DEF VMRayClusterDelete
    <2>3. cr' \in Cluster
      BY <1>0, <1>1 DEF VMRayClusterDelete, Cluster
    <2>4. budget' \in [edits : 0..MaxEdits, faults : Nat]
      BY <1>0, <1>1, SpendEffect DEF VMRayClusterDelete
    <2>5. /\ ssh' \in {0, ssh} /\ ca' \in {0, ca} /\ sa' \in {0, sa}
          /\ wsecret' \in {NoCloudInit, wsecret} /\ hsecret' \in {NoCloudInit, hsecret}
          /\ svcs' \in [HeadNames -> Svc]
          /\ \A h \in HeadNames : svcs'[h] \in {NoSvc, svcs[h]}
          /\ vms' \in [Names -> Vm]
          /\ \A n \in Names : vms'[n] \in {Terminate(n), vms[n]}
          /\ UNCHANGED <<docker, minted, clock>>
      BY <2>1, <2>2, DeleteCallsEffect
    <2>6. Grows
      BY <2>5, ProvisioningAssumption DEF TypeOK, Grows
    <2>7. ca' \in 0..minted'.ca /\ ssh' \in 0..minted'.ssh /\ sa' \in 0..minted'.sa
      BY <2>5 DEF TypeOK
    <2>8. \A h \in HeadNames : svcs'[h].ip <= minted'.ip
      <3>1. minted' = minted /\ 0 <= minted.ip /\ \A h \in HeadNames : svcs[h].ip <= minted.ip
        BY <2>5 DEF TypeOK
      <3> QED
        BY <2>5, <3>1, NothingType
    <2>9. \A n \in Names : vms'[n].boot \in {vms[n].boot, NoCloudInit}
      BY <2>5, TerminateType
    <2>10. NoCloudInit \in CloudInit /\ Made(NoCloudInit)'
      <3>1. minted' \in [ca : Nat, ssh : Nat, sa : Nat, ip : Nat] /\ clock' \in Nat
        BY <2>6 DEF Grows
      <3> QED
        BY <3>1, NoCloudInitType DEF NoCloudInit, Made, NoToken
    <2>11. /\ hsecret' = hsecret \/ (hsecret' \in CloudInit /\ Made(hsecret)')
           /\ wsecret' = wsecret \/ (wsecret' \in CloudInit /\ Made(wsecret)')
      BY <2>5, <2>10 DEF Made
    <2>12. ContentTypeOK'
      BY <2>5, <2>6, <2>7, <2>8, <2>9, <2>11, ContentStep
    <2> QED
      BY <1>0, <2>3, <2>4, <2>5, <2>12, TypeFromParts
  <1>2. CASE Submit
    <2>1. /\ UNCHANGED <<ca, hsecret, wsecret, sa, svcs, vms, docker, clock, budget>> /\ Mint
          /\ ca' \in Nat /\ ssh' \in Nat /\ sa' \in Nat
      <3>1. ca \in Nat /\ ssh \in Nat /\ sa \in Nat /\ minted.ssh + 1 \in Nat
        BY DEF TypeOK
      <3> QED
        BY <1>2, <3>1 DEF Submit
    <2>2. cr' \in Cluster
      <3>1. cr.inc + 1 \in 0..MaxLives
        <4>1. cr.inc \in 0..MaxLives /\ cr.inc < MaxLives /\ MaxLives \in Nat
          BY <1>0, <1>2, ProvisioningAssumption DEF Submit, Cluster
        <4> QED
          BY <4>1
      <3>2. [w \in Workers |-> NewNode] \in [Workers -> VMRayNodeStatus] /\ NewNode \in VMRayNodeStatus
        BY NewNodeType
      <3>3. PICK r \in Requestors, p \in Ports, keep \in BOOLEAN :
               cr' = [cr EXCEPT !.life = "live", !.inc = @ + 1, !.fin = FALSE,
                                !.nounce = IF keep THEN @ ELSE 0, !.labelled = keep,
                                !.requestor = r, !.port = p, !.desired = {}, !.head = NewNode,
                                !.workers = [w \in Workers |-> NewNode]]
        BY <1>2, SubmitEffect
      <3>4. 0 \in 0..MaxLives
        BY ProvisioningAssumption
      <3> QED
        BY <1>0, <3>1, <3>2, <3>3, <3>4 DEF Cluster
    <2>3. Grows /\ minted.ip = minted'.ip
          /\ ca' \in 0..minted'.ca /\ ssh' \in 0..minted'.ssh /\ sa' \in 0..minted'.sa
      BY <1>0, <2>1, MintEffect DEF TypeOK, Grows
    <2>4. ContentTypeOK'
      <3>1. /\ svcs' \in [HeadNames -> Svc] /\ \A h \in HeadNames : svcs'[h].ip <= minted'.ip
            /\ vms' \in [Names -> Vm] /\ \A n \in Names : vms'[n].boot = vms[n].boot
        BY <2>1, <2>3 DEF TypeOK
      <3> QED
        BY <2>1, <2>3, <3>1, ContentStep
    <2> QED
      BY <1>0, <2>1, <2>2, <2>4, TypeFromParts
  <1>3. CASE UserEdit
    <2>1. cr' \in Cluster
      BY <1>0, <1>3 DEF UserEdit, Cluster
    <2> QED
      BY <1>0, <1>3, <2>1, ContentUnchanged, TypeFromParts, SpendEffect DEF UserEdit
  <1>4. CASE UserDelete
    <2>1. cr' \in Cluster
      BY <1>0, <1>4 DEF UserDelete, Cluster
    <2> QED
      BY <1>0, <1>4, <2>1, ContentUnchanged, TypeFromParts DEF UserDelete
  <1>5. CASE DockerSecret
    <2>1. docker' \in {"missing", "incomplete", "complete"}
      BY <1>5 DEF DockerSecret
    <2> QED
      BY <1>0, <1>5, <2>1, ContentUnchanged, TypeFromParts DEF DockerSecret
  <1>6. CASE Tick
    <2>1. clock' \in 0..MaxClock /\ clock <= clock'
      BY <1>0, <1>6 DEF Tick
    <2> QED
      BY <1>0, <1>6, <2>1, ContentUnchanged, TypeFromParts DEF Tick
  <1>7. ASSUME NEW w \in Workers, AutoscalerPatch(w)
        PROVE  TypeOK'
    <2>1. cr' \in Cluster
      BY <1>0, <1>7 DEF AutoscalerPatch, Cluster
    <2> QED
      BY <1>0, <1>7, <2>1, ContentUnchanged, TypeFromParts DEF AutoscalerPatch
  <1>8. ASSUME NEW h \in HeadNames, SvcReady(h)
        PROVE  TypeOK'
    <2>1. /\ UNCHANGED <<cr, ca, ssh, hsecret, wsecret, sa, vms, docker, clock, budget>>
          /\ minted' = [minted EXCEPT !.ip = minted.ip + 1]
          /\ svcs' = [svcs EXCEPT ![h].state = "ready", ![h].ip = minted.ip + 1]
      BY <1>8 DEF SvcReady, creds
    <2>2. minted \in [ca : Nat, ssh : Nat, sa : Nat, ip : Nat]
      BY DEF TypeOK
    <2>3. Grows /\ minted'.ip = minted.ip + 1 /\ minted'.ca = minted.ca
          /\ minted'.ssh = minted.ssh /\ minted'.sa = minted.sa
      BY <1>0, <2>1, <2>2 DEF Grows
    <2>4. svcs' \in [HeadNames -> Svc] /\ \A g \in HeadNames : svcs'[g].ip <= minted'.ip
      <3>1. /\ svcs \in [HeadNames -> Svc] /\ minted.ip \in Nat
            /\ \A g \in HeadNames : svcs[g].ip \in Nat /\ svcs[g].ip <= minted.ip
        BY <2>2 DEF TypeOK, Svc
      <3>2. svcs' \in [HeadNames -> Svc]
        BY <2>1, <3>1 DEF Svc
      <3>3. ASSUME NEW g \in HeadNames
            PROVE  svcs'[g].ip <= minted'.ip
        <4>1. svcs'[g].ip \in {minted.ip + 1, svcs[g].ip}
          BY <2>1, <3>1 DEF Svc
        <4> QED
          BY <2>3, <3>1, <4>1
      <3> QED
        BY <3>2, <3>3
    <2>5. /\ ca' \in 0..minted'.ca /\ ssh' \in 0..minted'.ssh /\ sa' \in 0..minted'.sa
          /\ vms' \in [Names -> Vm] /\ \A n \in Names : vms'[n].boot = vms[n].boot
      BY <2>1, <2>3 DEF TypeOK
    <2>6. ContentTypeOK'
      BY <2>1, <2>3, <2>4, <2>5, ContentStep
    <2> QED
      BY <1>0, <2>1, <2>6, TypeFromParts
  <1>9. ASSUME NEW n \in Names, VmBoot(n)
        PROVE  TypeOK'
    <2>1. SecretOf(n) \in {hsecret, wsecret} /\ SecretOf(n) \in CloudInit
      BY DEF SecretOf, TypeOK
    <2>2. /\ vms' \in [Names -> Vm]
          /\ \A m \in Names : vms'[m].boot \in {vms[m].boot, SecretOf(n)}
      BY <1>9, <2>1 DEF VmBoot, TypeOK, Vm
    <2> QED
      BY <1>0, <1>9, <2>1, <2>2, ContentVms, TypeFromParts DEF VmBoot
  <1>10. ASSUME NEW n \in Names, VmGone(n)
         PROVE  TypeOK'
    <2>1. /\ vms' \in [Names -> Vm]
          /\ \A m \in Names : vms'[m].boot \in {vms[m].boot, NoCloudInit}
      BY <1>10, NothingType DEF VmGone, TypeOK
    <2> QED
      BY <1>0, <1>10, <2>1, ContentVms, TypeFromParts DEF VmGone
  <1>11. ASSUME NEW n \in Names, VmOutage(n)
         PROVE  TypeOK'
    <2>1. /\ vms' \in [Names -> Vm]
          /\ \A m \in Names : vms'[m].boot \in {vms[m].boot, NoCloudInit}
      BY <1>11, TerminateType DEF VmOutage, TypeOK
    <2> QED
      BY <1>0, <1>11, <2>1, ContentVms, TypeFromParts, SpendEffect DEF VmOutage
  <1> QED
    BY <1>1, <1>2, <1>3, <1>4, <1>5, <1>6, <1>7, <1>8, <1>9, <1>10, <1>11


-----------------------------------------------------------------------------
(* Steps that give nobody anything new.                                    *)

\* The parts of the invariant besides TypeOK.
RestInv ==
    /\ ObjectSane /\ CleanStart /\ DeleteCallsReach /\ OneOrigin
    /\ OwnToken /\ ServiceMatches /\ GoodContents /\ HeadVmAge

\* VMs only go, or boot with the secret that they name.
VmsFade ==
    \A n \in Names :
        /\ Alive(n)' => Alive(n)
        /\ Up(n)' => \/ Up(n) /\ vms'[n].boot = vms[n].boot
                     \/ SecretOf(n) # NoCloudInit /\ vms'[n].boot = SecretOf(n)
        /\ vms'[n].inc \in {0, vms[n].inc}

\* What the object tells about the provisioning stays as it is.
SameObject ==
    /\ cr'.life = cr.life /\ cr'.inc = cr.inc /\ cr'.nounce = cr.nounce /\ cr'.fin = cr.fin
    /\ cr'.labelled = cr.labelled /\ cr'.requestor = cr.requestor /\ cr'.port = cr.port
    /\ cr.desired \subseteq cr'.desired
    /\ ~cr.fin => cr'.head = cr.head

\* If secrets stay or go and VMs fade, nothing new is in use.
LEMMA FadeInUse ==
    ASSUME VmsFade, hsecret' \in {hsecret, NoCloudInit}, wsecret' \in {wsecret, NoCloudInit}
    PROVE  /\ InUse' \subseteq InUse
           /\ HeadUse' \subseteq HeadUse
           /\ \A w \in Workers : Up(w)' => \/ Up(w) /\ vms'[w].boot = vms[w].boot
                                           \/ wsecret # NoCloudInit /\ vms'[w].boot = wsecret
  <1>1. ASSUME NEW s \in InUse'
        PROVE  s \in InUse
    <2>1. CASE s \in {hsecret', wsecret'} /\ s # NoCloudInit
      BY <2>1 DEF InUse
    <2>2. CASE \E n \in Names : Up(n)' /\ s = vms'[n].boot
      <3>1. PICK n \in Names : Up(n)' /\ s = vms'[n].boot
        BY <2>2
      <3>2. CASE Up(n) /\ s = vms[n].boot
        BY <3>2 DEF InUse
      <3>3. CASE SecretOf(n) # NoCloudInit /\ s = SecretOf(n)
        BY <3>3 DEF InUse, SecretOf
      <3> QED
        BY <3>1, <3>2, <3>3 DEF VmsFade
    <2> QED
      BY <1>1, <2>1, <2>2 DEF InUse
  <1>2. ASSUME NEW s \in HeadUse'
        PROVE  s \in HeadUse
    <2>1. CASE s = hsecret' /\ s # NoCloudInit
      BY <2>1 DEF HeadUse
    <2>2. CASE \E n \in HeadNames : Up(n)' /\ s = vms'[n].boot
      <3>1. PICK n \in HeadNames : Up(n)' /\ s = vms'[n].boot
        BY <2>2
      <3>2. CASE Up(n) /\ s = vms[n].boot
        BY <3>2 DEF HeadUse
      <3>3. CASE SecretOf(n) # NoCloudInit /\ s = SecretOf(n)
        BY <3>3 DEF HeadUse, SecretOf
      <3> QED
        BY <3>1, <3>2, <3>3, NamesFacts DEF VmsFade
    <2> QED
      BY <1>2, <2>1, <2>2 DEF HeadUse
  <1>3. ASSUME NEW w \in Workers, Up(w)'
        PROVE  \/ Up(w) /\ vms'[w].boot = vms[w].boot
               \/ wsecret # NoCloudInit /\ vms'[w].boot = wsecret
    BY <1>3, NamesFacts DEF VmsFade, SecretOf
  <1> QED
    BY <1>1, <1>2, <1>3

\* A step that changes no secret and no service, and lets VMs fade.
LEMMA FadeRest ==
    ASSUME TypeOK, RestInv, VmsFade, SameObject, UNCHANGED <<creds, svcs>>,
           budget'.edits = budget.edits
    PROVE  RestInv'
  <1>1. /\ hsecret' = hsecret /\ wsecret' = wsecret /\ ca' = ca /\ ssh' = ssh /\ sa' = sa
        /\ svcs' = svcs
    BY DEF creds
  <1>2. /\ InUse' \subseteq InUse /\ HeadUse' \subseteq HeadUse
        /\ \A w \in Workers : Up(w)' => \/ Up(w) /\ vms'[w].boot = vms[w].boot
                                        \/ wsecret # NoCloudInit /\ vms'[w].boot = wsecret
    BY <1>1, FadeInUse
  <1>3. ObjectSane'
    BY DEF RestInv, ObjectSane, SameObject
  <1>4. CleanStart'
    <2>1. Clean => Clean'
      BY <1>1 DEF Clean, VmsFade
    <2> QED
      BY <2>1 DEF RestInv, CleanStart, SameObject
  <1>5. DeleteCallsReach'
    BY <1>1 DEF RestInv, DeleteCallsReach, SameObject, VmsFade
  <1>6. OneOrigin'
    BY <1>1, <1>2 DEF RestInv, OneOrigin, SameObject
  <1>7. OwnToken'
    BY <1>1, <1>2 DEF RestInv, OwnToken, SameObject
  <1>8. ServiceMatches'
    BY <1>1, <1>2 DEF RestInv, ServiceMatches, SameObject
  <1>9. GoodContents'
    BY <1>1, <1>2 DEF RestInv, GoodContents, GoodNode, GoodWorker
  <1>10. HeadVmAge'
    BY NamesFacts DEF RestInv, HeadVmAge, SameObject, VmsFade
  <1> QED
    BY <1>3, <1>4, <1>5, <1>6, <1>7, <1>8, <1>9, <1>10 DEF RestInv

\* VMs that stay as they are fade, too.
LEMMA VmsStay ==
    ASSUME vms' = vms
    PROVE  VmsFade
  BY DEF VmsFade, Alive, Up

\* Those steps.
LEMMA FadeSteps ==
    ASSUME TypeOK, RestInv,
           \/ FetchHead \/ DockerSecret \/ Tick
           \/ \E w \in Workers : FetchWorker(w) \/ AutoscalerPatch(w)
           \/ \E n \in Names : VmBoot(n) \/ VmGone(n) \/ VmOutage(n)
           \/ UNCHANGED vars
    PROVE  RestInv'
  <1>0. cr \in Cluster /\ vms \in [Names -> Vm]
    BY DEF TypeOK
  <1>1. CASE FetchHead
    <2>1. PICK ans : AfterHead(ans)
      BY <1>1 DEF FetchHead
    <2>2. PICK st \in VMRayNodeStatus : cr' = [cr EXCEPT !.head = st]
      BY <2>1, AfterHeadEffect
    <2>3. SameObject
      BY <1>0, <1>1, <2>2 DEF FetchHead, Prepared, SameObject, Cluster
    <2> QED
      BY <1>1, <2>3, VmsStay, FadeRest DEF FetchHead
  <1>2. CASE DockerSecret
    <2>1. SameObject
      BY <1>2 DEF DockerSecret, SameObject
    <2> QED
      BY <1>2, <2>1, VmsStay, FadeRest DEF DockerSecret
  <1>3. CASE Tick
    <2>1. SameObject
      BY <1>3 DEF Tick, SameObject
    <2> QED
      BY <1>3, <2>1, VmsStay, FadeRest DEF Tick
  <1>4. ASSUME NEW w \in Workers, FetchWorker(w)
        PROVE  RestInv'
    <2>1. PICK ans : AfterWorker(w, ans)
      BY <1>4 DEF FetchWorker
    <2>2. PICK st \in [Workers -> VMRayNodeStatus] : cr' = [cr EXCEPT !.workers = st]
      BY <2>1, AfterWorkerEffect
    <2>3. SameObject
      BY <1>0, <2>2 DEF SameObject, Cluster
    <2> QED
      BY <1>4, <2>3, VmsStay, FadeRest DEF FetchWorker
  <1>5. ASSUME NEW w \in Workers, AutoscalerPatch(w)
        PROVE  RestInv'
    <2>1. SameObject
      BY <1>0, <1>5 DEF AutoscalerPatch, SameObject, Cluster
    <2> QED
      BY <1>5, <2>1, VmsStay, FadeRest DEF AutoscalerPatch
  <1>6. ASSUME NEW n \in Names, VmBoot(n)
        PROVE  RestInv'
    <2>1. VmsFade
      BY <1>0, <1>6 DEF VmBoot, VmsFade, Alive, Up, Vm
    <2>2. SameObject
      BY <1>6 DEF VmBoot, SameObject
    <2> QED
      BY <1>6, <2>1, <2>2, FadeRest DEF VmBoot
  <1>7. ASSUME NEW n \in Names, VmGone(n)
        PROVE  RestInv'
    <2>1. VmsFade
      BY <1>0, <1>7, NothingType DEF VmGone, VmsFade, Alive, Up
    <2>2. SameObject
      BY <1>7 DEF VmGone, SameObject
    <2> QED
      BY <1>7, <2>1, <2>2, FadeRest DEF VmGone
  <1>8. ASSUME NEW n \in Names, VmOutage(n)
        PROVE  RestInv'
    <2>1. VmsFade
      BY <1>0, <1>8, TerminateType DEF VmOutage, VmsFade, Alive, Up
    <2>2. SameObject
      BY <1>8 DEF VmOutage, SameObject
    <2>3. budget'.edits = budget.edits
      BY <1>8, SpendEffect DEF VmOutage
    <2> QED
      BY <1>8, <2>1, <2>2, <2>3, FadeRest DEF VmOutage
  <1>9. CASE UNCHANGED vars
    <2>1. SameObject
      BY <1>9 DEF vars, SameObject
    <2> QED
      BY <1>9, <2>1, VmsStay, FadeRest DEF vars, creds
  <1> QED
    BY <1>1, <1>2, <1>3, <1>4, <1>5, <1>6, <1>7, <1>8, <1>9

-----------------------------------------------------------------------------
(* Steps of the user and of the VM operator.                               *)

\* Where nothing is left, nothing is in use.
LEMMA CleanUse ==
    ASSUME Clean
    PROVE  InUse = {} /\ HeadUse = {} /\ \A n \in Names : ~Up(n)
  BY NamesFacts DEF Clean, InUse, HeadUse, Alive, Up

\* A clean state satisfies what the invariant says of contents.
LEMMA CleanRest ==
    ASSUME TypeOK, TypeOK', Clean', ObjectSane', HeadVmAge'
    PROVE  RestInv'
  <1>1. InUse' = {} /\ HeadUse' = {} /\ \A n \in Names : ~Up(n)'
    BY NamesFacts DEF Clean, InUse, HeadUse, Alive, Up
  <1>2. CleanStart' /\ DeleteCallsReach'
    BY DEF CleanStart, DeleteCallsReach, Clean
  <1>3. OneOrigin' /\ OwnToken'
    BY <1>1 DEF OneOrigin, OwnToken
  <1>4. ServiceMatches'
    <2>1. cr'.fin => cr'.nounce \in HeadNames
      <3>1. cr'.nounce \in 0..MaxLives /\ (cr'.fin => cr'.nounce # 0) /\ MaxLives \in Nat
        BY ProvisioningAssumption DEF TypeOK, Cluster, ObjectSane
      <3> QED
        BY <3>1 DEF HeadNames, Lives
    <2> QED
      BY <1>1, <2>1, NothingType DEF ServiceMatches, Clean
  <1>5. GoodContents'
    BY <1>1, NamesFacts DEF GoodContents, Clean
  <1> QED
    BY <1>2, <1>3, <1>4, <1>5 DEF RestInv

\* The labels and the finalizer.
LEMMA FinalizerRest ==
    ASSUME TypeOK, RestInv, TypeOK', AddFinalizerAndNounce
    PROVE  RestInv'
  <1>1. Clean' /\ HeadVmAge'
    BY DEF AddFinalizerAndNounce, RestInv, CleanStart, Clean, Alive, HeadVmAge, creds, TypeOK, Cluster
  <1>2. ObjectSane'
    BY DEF AddFinalizerAndNounce, RestInv, ObjectSane, CreateRandomNounce, TypeOK, Cluster
  <1> QED
    BY <1>1, <1>2, CleanRest

\* A cluster is submitted where nothing is left.
LEMMA SubmitRest ==
    ASSUME TypeOK, RestInv, TypeOK', Submit
    PROVE  RestInv'
  <1>1. PICK r \in Requestors, p \in Ports, keep \in BOOLEAN :
           /\ keep => cr.nounce # 0
           /\ cr' = [cr EXCEPT !.life = "live", !.inc = @ + 1, !.fin = FALSE,
                               !.nounce = IF keep THEN @ ELSE 0, !.labelled = keep,
                               !.requestor = r, !.port = p, !.desired = {}, !.head = NewNode,
                               !.workers = [w \in Workers |-> NewNode]]
    BY SubmitEffect
  <1>2. /\ cr'.life = "live" /\ cr'.inc = cr.inc + 1 /\ cr'.fin = FALSE
        /\ cr'.nounce = (IF keep THEN cr.nounce ELSE 0) /\ cr'.labelled = keep
        /\ cr'.head = NewNode
    BY <1>1 DEF TypeOK, Cluster
  <1>3. /\ cr.inc \in Nat /\ cr.nounce \in Nat /\ cr.nounce <= cr.inc /\ cr.life = "none"
        /\ UNCHANGED <<ca, hsecret, wsecret, sa, svcs, vms>>
    <2>1. cr.inc \in 0..MaxLives /\ cr.nounce \in 0..MaxLives
      BY DEF TypeOK, Cluster
    <2> QED
      BY <2>1, ProvisioningAssumption DEF RestInv, ObjectSane, Submit
  <1>4. ObjectSane'
    BY <1>2, <1>3 DEF ObjectSane
  <1>5. Clean'
    BY <1>3 DEF RestInv, CleanStart, Clean, Alive
  <1>6. HeadVmAge'
    <2>1. ASSUME NEW h \in HeadNames, vms[h].inc # 0
          PROVE  h <= vms[h].inc /\ vms[h].inc <= cr.inc + 1
      <3>1. h <= vms[h].inc /\ vms[h].inc <= cr.inc
        BY <2>1 DEF RestInv, HeadVmAge
      <3>2. vms[h].inc \in Nat
        BY NamesFacts DEF TypeOK, Vm
      <3> QED
        BY <1>3, <3>1, <3>2
    <2> QED
      BY <1>2, <1>3, <2>1 DEF HeadVmAge
  <1> QED
    BY <1>4, <1>5, <1>6, CleanRest

\* The port is edited.
LEMMA EditRest ==
    ASSUME TypeOK, RestInv, UserEdit
    PROVE  RestInv'
  <1>1. /\ UNCHANGED <<ca, ssh, hsecret, wsecret, sa, svcs, vms>>
        /\ cr'.life = cr.life /\ cr'.inc = cr.inc /\ cr'.nounce = cr.nounce /\ cr'.fin = cr.fin
        /\ cr'.labelled = cr.labelled /\ cr'.desired = cr.desired /\ cr'.head = cr.head
    BY DEF UserEdit, creds, TypeOK, Cluster
  <1>2. budget'.edits # MaxEdits
    <2>1. /\ budget'.edits < budget.edits /\ budget.edits \in 0..MaxEdits
          /\ budget'.edits \in 0..MaxEdits /\ MaxEdits \in Nat
      BY SpendEffect, ProvisioningAssumption DEF UserEdit, TypeOK
    <2> QED
      BY <2>1
  <1>3. UNCHANGED <<InUse, HeadUse>>
    BY <1>1 DEF InUse, HeadUse, Up
  <1>4. ObjectSane' /\ CleanStart' /\ DeleteCallsReach' /\ HeadVmAge'
    BY <1>1 DEF RestInv, ObjectSane, CleanStart, Clean, DeleteCallsReach, HeadVmAge, Alive
  <1>5. OneOrigin' /\ OwnToken' /\ GoodContents'
    BY <1>1, <1>3 DEF RestInv, OneOrigin, OwnToken, GoodContents, Up
  <1>6. ServiceMatches'
    BY <1>2 DEF ServiceMatches
  <1> QED
    BY <1>4, <1>5, <1>6 DEF RestInv

\* The user deletes the object.
LEMMA UserDeleteRest ==
    ASSUME TypeOK, RestInv, TypeOK', UserDelete
    PROVE  RestInv'
  <1>1. /\ UNCHANGED <<ca, ssh, hsecret, wsecret, sa, svcs, vms>> /\ cr.life = "live"
        /\ cr'.life = (IF cr.fin THEN "deleting" ELSE "none")
        /\ cr'.inc = cr.inc /\ cr'.nounce = cr.nounce /\ cr'.fin = cr.fin
        /\ cr'.labelled = cr.labelled /\ cr'.desired = cr.desired /\ cr'.head = cr.head
    BY DEF UserDelete, creds, TypeOK, Cluster
  <1>2. ObjectSane' /\ HeadVmAge'
    BY <1>1 DEF RestInv, ObjectSane, HeadVmAge
  <1>3. CASE ~cr.fin
    <2>1. Clean'
      BY <1>1, <1>3 DEF RestInv, CleanStart, Clean, Alive
    <2> QED
      BY <1>2, <2>1, CleanRest
  <1>4. CASE cr.fin
    <2>1. UNCHANGED <<InUse, HeadUse>>
      BY <1>1 DEF InUse, HeadUse, Up
    <2>2. CleanStart' /\ DeleteCallsReach'
      BY <1>1, <1>4 DEF RestInv, CleanStart, DeleteCallsReach, Alive
    <2>3. OneOrigin' /\ OwnToken' /\ ServiceMatches' /\ GoodContents'
      BY <1>1, <1>4, <2>1 DEF RestInv, OneOrigin, OwnToken, ServiceMatches, GoodContents, Up
    <2> QED
      BY <1>2, <2>2, <2>3 DEF RestInv
  <1> QED
    BY <1>3, <1>4

\* A service that gets its address is that of the cluster, which has no head yet.
LEMMA SvcReadyRest ==
    ASSUME TypeOK, RestInv, NEW h \in HeadNames, SvcReady(h)
    PROVE  RestInv'
  <1>1. /\ UNCHANGED <<cr, ca, ssh, hsecret, wsecret, sa, vms, budget>>
        /\ svcs[h].state = "pending"
        /\ svcs \in [HeadNames -> Svc]
        /\ svcs' = [svcs EXCEPT ![h].state = "ready", ![h].ip = minted.ip + 1]
    BY DEF SvcReady, creds, TypeOK
  <1>2. svcs[h] # NoSvc
    BY <1>1, NothingType
  <1>3. h = cr.nounce /\ cr.life # "none" /\ cr.fin
    BY <1>2 DEF RestInv, DeleteCallsReach, CleanStart, Clean
  <1>4. svcs'[h].port = svcs[h].port /\ \A g \in HeadNames : g # h => svcs'[g] = svcs[g]
    BY <1>1 DEF Svc
  <1>5. UNCHANGED <<InUse, HeadUse>>
    BY <1>1 DEF InUse, HeadUse, Up
  <1>6. ObjectSane' /\ CleanStart' /\ DeleteCallsReach' /\ HeadVmAge'
    BY <1>1, <1>3, <1>4 DEF RestInv, ObjectSane, CleanStart, DeleteCallsReach, HeadVmAge, Alive
  <1>7. OneOrigin' /\ OwnToken' /\ GoodContents'
    BY <1>1, <1>5 DEF RestInv, OneOrigin, OwnToken, GoodContents, Up
  <1>8. ServiceMatches'
    BY <1>1, <1>3, <1>4, <1>5 DEF RestInv, ServiceMatches
  <1> QED
    BY <1>6, <1>7, <1>8 DEF RestInv

-----------------------------------------------------------------------------
(* The steps that make and delete things.                                  *)

\* The root CA is made when no node has a configuration.
LEMMA RootSecretRest ==
    ASSUME TypeOK, RestInv, CreateVMRayClusterRootSecret
    PROVE  RestInv'
  <1>1. /\ UNCHANGED <<cr, ssh, hsecret, wsecret, sa, svcs, vms, budget>>
        /\ cr.life = "live" /\ cr.fin /\ ca = 0
    BY DEF CreateVMRayClusterRootSecret, RootSecretMissing
  <1>2. InUse = {}
    BY <1>1 DEF RestInv, OneOrigin
  <1>3. UNCHANGED <<InUse, HeadUse>>
    BY <1>1 DEF InUse, HeadUse, Up
  <1>4. ObjectSane' /\ CleanStart' /\ DeleteCallsReach' /\ HeadVmAge'
    BY <1>1 DEF RestInv, ObjectSane, CleanStart, DeleteCallsReach, HeadVmAge, Alive
  <1>5. OneOrigin' /\ OwnToken' /\ ServiceMatches' /\ GoodContents'
    BY <1>1, <1>2, <1>3 DEF RestInv, OneOrigin, OwnToken, ServiceMatches, GoodContents, Up
  <1> QED
    BY <1>4, <1>5 DEF RestInv

\* The service is made when no head has a configuration.
LEMMA VmServiceRest ==
    ASSUME TypeOK, RestInv, DeployVmService
    PROVE  RestInv'
  <1>1. /\ UNCHANGED <<ca, ssh, hsecret, wsecret, sa, vms, budget>>
        /\ cr.life = "live" /\ cr.fin /\ svcs[cr.nounce].state = "absent"
        /\ svcs' = [svcs EXCEPT ![cr.nounce] = [NoSvc EXCEPT !.state = "pending", !.port = cr.port]]
    BY DEF DeployVmService, creds, ServicePort, Prepared
  <1>2. PICK st \in VMRayNodeStatus : cr' = [cr EXCEPT !.head = st]
    BY AfterHeadEffect DEF DeployVmService
  <1>3. SameObject
    BY <1>1, <1>2 DEF TypeOK, Cluster, SameObject
  <1>4. /\ svcs'[cr.nounce].port = cr.port
        /\ \A h \in HeadNames : h # cr.nounce => svcs'[h] = svcs[h]
    <2>1. cr.nounce \in HeadNames
      <3>1. cr.nounce \in 0..MaxLives
        BY DEF TypeOK, Cluster
      <3> QED
        BY <1>1, <3>1, ProvisioningAssumption DEF RestInv, ObjectSane, HeadNames, Lives
    <2> QED
      BY <1>1, <2>1 DEF TypeOK, NoSvc
  <1>5. UNCHANGED <<InUse, HeadUse>>
    BY <1>1 DEF InUse, HeadUse, Up
  <1>6. ObjectSane' /\ CleanStart' /\ HeadVmAge'
    BY <1>1, <1>3 DEF RestInv, ObjectSane, CleanStart, HeadVmAge, SameObject
  <1>7. DeleteCallsReach'
    BY <1>1, <1>3, <1>4 DEF RestInv, DeleteCallsReach, SameObject, Alive
  <1>8. OneOrigin' /\ OwnToken' /\ GoodContents'
    BY <1>1, <1>3, <1>5 DEF RestInv, OneOrigin, OwnToken, GoodContents, Up, SameObject
  <1>9. ServiceMatches'
    BY <1>1, <1>3, <1>4, <1>5 DEF RestInv, ServiceMatches, SameObject
  <1> QED
    BY <1>6, <1>7, <1>8, <1>9 DEF RestInv

\* The head is deployed, or as much of it as the calls get done: what its
\* configuration holds is what the nodes that run hold.
LEMMA DeployHeadRest ==
    ASSUME TypeOK, RestInv, DeployHead
    PROVE  RestInv'
  <1>1. /\ Prepared /\ cr.nounce \in HeadNames /\ svcs[cr.nounce].state = "ready"
        /\ \E st \in VMRayNodeStatus : cr' = [cr EXCEPT !.head = st] /\ cr' \in Cluster
        /\ budget'.edits = budget.edits
        /\ UNCHANGED <<ca, wsecret, svcs>>
        /\ sa' \in Nat /\ (sa' = sa \/ (sa = 0 /\ sa' # 0))
        /\ ssh' \in Nat /\ (ssh' = ssh \/ (ssh = 0 /\ ssh' # 0))
        /\ \/ hsecret' = hsecret
           \/ hsecret = NoCloudInit /\ sa' # 0 /\ ssh' # 0 /\ hsecret' = HeadCloudInit(sa', ssh')
        /\ vms' = vms \/ CreateVm(cr.nounce)
    BY DeployHeadEffect DEF RestInv
  <1>2. SameObject
    BY <1>1 DEF TypeOK, Cluster, SameObject, Prepared
  <1>3. cr.life = "live" /\ cr.fin /\ ca # 0
    BY <1>1 DEF Prepared
  <1>4. /\ \A m \in Names : m # cr.nounce => vms'[m] = vms[m]
        /\ \/ vms'[cr.nounce] = vms[cr.nounce]
           \/ vms'[cr.nounce].state = "booting" /\ vms'[cr.nounce].inc = cr.inc
    BY <1>1, CreateVmEffect, NamesFacts
  <1>5. \A n \in Names : Up(n)' => Up(n) /\ vms'[n].boot = vms[n].boot
    BY <1>4 DEF Up
  <1>6. \/ hsecret' = hsecret
        \/ /\ hsecret'.ca = ca /\ hsecret'.ssh = ssh' /\ ssh' # 0
           /\ hsecret'.token.sa = sa' /\ sa' # 0
           /\ hsecret'.ip = svcs[cr.nounce].ip /\ GoodNode(hsecret')
           /\ cr.requestor = K8S => /\ hsecret'.bootstrap.port = cr.port
                                    /\ "svc-account-token.env" \in hsecret'.mounts
    BY <1>1, HeadCloudInitType DEF GoodNode
  <1>7. /\ InUse' \subseteq InUse \cup {hsecret'} /\ HeadUse' \subseteq HeadUse \cup {hsecret'}
        /\ hsecret' = hsecret => InUse' \subseteq InUse /\ HeadUse' \subseteq HeadUse
    BY <1>1, <1>5, NamesFacts DEF InUse, HeadUse
  <1>8. (InUse # {} => ssh' = ssh) /\ (HeadUse # {} => sa' = sa)
    BY <1>1, <1>3 DEF RestInv, OneOrigin, OwnToken
  <1>9. ObjectSane' /\ CleanStart'
    BY <1>2, <1>3 DEF RestInv, ObjectSane, CleanStart, SameObject
  <1>10. DeleteCallsReach'
    BY <1>1, <1>2, <1>4 DEF RestInv, DeleteCallsReach, SameObject, Alive
  <1>11. OneOrigin'
    <2>1. \A s \in InUse' : s.ca = ca /\ s.ssh = ssh' /\ s.ca # 0 /\ s.ssh # 0
      BY <1>3, <1>6, <1>7, <1>8 DEF RestInv, OneOrigin
    <2> QED
      BY <1>1, <2>1 DEF OneOrigin
  <1>12. OwnToken'
    BY <1>3, <1>6, <1>7, <1>8 DEF RestInv, OwnToken
  <1>13. ServiceMatches'
    BY <1>1, <1>2, <1>6, <1>7 DEF RestInv, ServiceMatches, SameObject
  <1>14. GoodContents'
    BY <1>1, <1>5, <1>6, <1>7, NamesFacts DEF RestInv, GoodContents
  <1>15. HeadVmAge'
    <2>1. ASSUME NEW h \in HeadNames, vms'[h].inc # 0
          PROVE  h <= vms'[h].inc /\ vms'[h].inc <= cr.inc
      <3>1. CASE vms'[h] = vms[h]
        BY <2>1, <3>1 DEF RestInv, HeadVmAge
      <3>2. CASE h = cr.nounce /\ vms'[h].inc = cr.inc
        <4>1. cr.inc \in Nat /\ cr.nounce <= cr.inc
          BY ProvisioningAssumption DEF TypeOK, Cluster, RestInv, ObjectSane
        <4> QED
          BY <3>2, <4>1
      <3> QED
        BY <1>4, <3>1, <3>2, NamesFacts
    <2> QED
      BY <1>2, <2>1 DEF HeadVmAge, SameObject
  <1> QED
    BY <1>9, <1>10, <1>11, <1>12, <1>13, <1>14, <1>15 DEF RestInv

\* A worker is deployed, or its secret made.
LEMMA DeployWorkerRest ==
    ASSUME TypeOK, RestInv, NEW w \in Workers, DeployWorker(w)
    PROVE  RestInv'
  <1>1. /\ Prepared /\ w \in cr.desired
        /\ \E st \in [Workers -> VMRayNodeStatus] :
              cr' = [cr EXCEPT !.workers = st] /\ cr' \in Cluster
        /\ budget'.edits = budget.edits
        /\ UNCHANGED <<ca, ssh, hsecret, sa, svcs>>
        /\ \/ wsecret' = wsecret
           \/ wsecret = NoCloudInit /\ ssh # 0 /\ wsecret' = WorkerCloudInit
        /\ vms' = vms \/ CreateVm(w)
    BY DeployWorkerEffect
  <1>2. SameObject
    BY <1>1 DEF TypeOK, Cluster, SameObject
  <1>3. cr.life = "live" /\ cr.fin /\ ca # 0
    BY <1>1 DEF Prepared
  <1>4. /\ \A m \in Names : m # w => vms'[m] = vms[m]
        /\ vms'[w] = vms[w] \/ vms'[w].state = "booting"
    BY <1>1, CreateVmEffect, NamesFacts
  <1>5. \A n \in Names : Up(n)' => Up(n) /\ vms'[n].boot = vms[n].boot
    BY <1>4 DEF Up
  <1>6. \/ wsecret' = wsecret
        \/ /\ wsecret'.ca = ca /\ wsecret'.ssh = ssh /\ ssh # 0
           /\ GoodNode(wsecret') /\ GoodWorker(wsecret')
    BY <1>1, WorkerCloudInitType DEF GoodNode, GoodWorker
  <1>7. /\ InUse' \subseteq InUse \cup {wsecret'} /\ HeadUse' \subseteq HeadUse
        /\ wsecret' = wsecret => InUse' \subseteq InUse
    BY <1>1, <1>5, NamesFacts DEF InUse, HeadUse
  <1>8. ObjectSane' /\ CleanStart'
    BY <1>2, <1>3 DEF RestInv, ObjectSane, CleanStart, SameObject
  <1>9. DeleteCallsReach'
    BY <1>1, <1>2, <1>4 DEF RestInv, DeleteCallsReach, SameObject, Alive
  <1>10. OneOrigin'
    <2>1. \A s \in InUse' : s.ca = ca /\ s.ssh = ssh /\ s.ca # 0 /\ s.ssh # 0
      BY <1>3, <1>6, <1>7 DEF RestInv, OneOrigin
    <2> QED
      BY <1>1, <2>1 DEF OneOrigin
  <1>11. OwnToken' /\ ServiceMatches'
    BY <1>1, <1>2, <1>7 DEF RestInv, OwnToken, ServiceMatches, SameObject
  <1>12. GoodContents'
    BY <1>5, <1>6, <1>7, NamesFacts DEF RestInv, GoodContents
  <1>13. HeadVmAge'
    BY <1>2, <1>4, NamesFacts DEF RestInv, HeadVmAge, SameObject
  <1> QED
    BY <1>8, <1>9, <1>10, <1>11, <1>12, <1>13 DEF RestInv

\* The delete loop, to its end or until a call fails.
LEMMA DeleteRest ==
    ASSUME TypeOK, RestInv, TypeOK', VMRayClusterDelete
    PROVE  RestInv'
  <1>1. cr.life = "deleting" /\ cr.fin /\ cr.nounce \in HeadNames
    <2>1. cr.nounce \in 0..MaxLives /\ cr.life = "deleting"
      BY DEF TypeOK, Cluster, VMRayClusterDelete
    <2> QED
      BY <2>1, ProvisioningAssumption DEF RestInv, ObjectSane, HeadNames, Lives
  <1>2. ASSUME NEW done \in 0..8, DeleteCalls(done)
        PROVE  /\ wsecret' \in {NoCloudInit, wsecret} /\ hsecret' \in {NoCloudInit, hsecret}
               /\ \A h \in HeadNames : svcs'[h] \in {NoSvc, svcs[h]}
               /\ VmsFade
    <2>1. /\ wsecret' \in {NoCloudInit, wsecret} /\ hsecret' \in {NoCloudInit, hsecret}
          /\ \A h \in HeadNames : svcs'[h] \in {NoSvc, svcs[h]}
          /\ \A n \in Names : vms'[n] \in {Terminate(n), vms[n]}
      BY <1>1, <1>2, DeleteCallsEffect
    <2>2. VmsFade
      BY <2>1, TerminateType DEF VmsFade, Alive, Up
    <2> QED
      BY <2>1, <2>2
  <1>3. CASE DeleteCalls(8) /\ cr' = [cr EXCEPT !.life = "none"]
    <2>1. /\ cr'.life = "none" /\ cr'.inc = cr.inc /\ cr'.nounce = cr.nounce /\ cr'.fin = cr.fin
          /\ cr'.labelled = cr.labelled /\ cr'.head = cr.head
      BY <1>3 DEF TypeOK, Cluster
    <2>2. ObjectSane'
      BY <2>1, <1>1 DEF RestInv, ObjectSane
    <2>3. HeadVmAge'
      <3>1. VmsFade
        BY <1>2, <1>3
      <3> QED
        BY <2>1, <3>1, NamesFacts DEF RestInv, HeadVmAge, VmsFade
    <2>4. /\ hsecret' = NoCloudInit /\ wsecret' = NoCloudInit /\ ca' = 0 /\ sa' = 0
          /\ svcs' = [svcs EXCEPT ![cr.nounce] = NoSvc]
          /\ vms' = [n \in Names |-> IF n = cr.nounce \/ n \in cr.desired
                                     THEN Terminate(n) ELSE vms[n]]
      BY <1>3 DEF DeleteCalls, WithoutHeadSecret
    <2>5. \A h \in HeadNames : svcs'[h] = NoSvc
      BY <1>1, <2>4 DEF RestInv, DeleteCallsReach, TypeOK
    <2>6. \A n \in Names : ~Alive(n)'
      BY <2>4, TerminateType DEF RestInv, DeleteCallsReach, Alive
    <2>7. Clean'
      BY <2>4, <2>5, <2>6 DEF Clean
    <2> QED
      BY <2>2, <2>3, <2>7, CleanRest
  <1>4. CASE (\E done \in 0..8 : DeleteCalls(done)) /\ UNCHANGED cr
    <2>1. /\ wsecret' \in {NoCloudInit, wsecret} /\ hsecret' \in {NoCloudInit, hsecret}
          /\ \A h \in HeadNames : svcs'[h] \in {NoSvc, svcs[h]}
          /\ VmsFade /\ cr' = cr
      BY <1>2, <1>4
    <2>2. /\ InUse' \subseteq InUse
          /\ \A w \in Workers : Up(w)' => \/ Up(w) /\ vms'[w].boot = vms[w].boot
                                          \/ wsecret # NoCloudInit /\ vms'[w].boot = wsecret
      BY <2>1, FadeInUse
    <2>3. ObjectSane' /\ CleanStart' /\ DeleteCallsReach'
      BY <1>1, <2>1 DEF RestInv, ObjectSane, CleanStart, DeleteCallsReach, VmsFade
    <2>4. OneOrigin' /\ OwnToken' /\ ServiceMatches'
      BY <1>1, <2>1, <2>2 DEF RestInv, OneOrigin, OwnToken, ServiceMatches
    <2>5. GoodContents'
      BY <2>1, <2>2 DEF RestInv, GoodContents, GoodNode, GoodWorker
    <2>6. HeadVmAge'
      BY <2>1, NamesFacts DEF RestInv, HeadVmAge, VmsFade
    <2> QED
      BY <2>3, <2>4, <2>5, <2>6 DEF RestInv
  <1> QED
    BY <1>3, <1>4 DEF VMRayClusterDelete

-----------------------------------------------------------------------------
(* The theorems.                                                           *)

\* Before the first cluster of the name there is nothing.
LEMMA ProvInit == Init => ProvInv
  <1> SUFFICES ASSUME Init
               PROVE  ProvInv
    OBVIOUS
  <1>0. /\ cr.life = "none" /\ cr.inc = 0 /\ cr.nounce = 0 /\ ~cr.labelled /\ ~cr.fin
        /\ cr.head = NewNode
        /\ ca = 0 /\ ssh = 0 /\ sa = 0 /\ hsecret = NoCloudInit /\ wsecret = NoCloudInit
        /\ \A h \in HeadNames : svcs[h] = NoSvc
        /\ \A n \in Names : vms[n] = NoVm
        /\ minted = [ca |-> 0, ssh |-> 0, sa |-> 0, ip |-> 0]
    BY DEF Init
  <1>1. TypeOK
    <2>1. cr \in Cluster
      <3>1. [w \in Workers |-> NewNode] \in [Workers -> VMRayNodeStatus] /\ NewNode \in VMRayNodeStatus
        BY NewNodeType
      <3>2. 0 \in 0..MaxLives
        BY ProvisioningAssumption
      <3> QED
        BY <3>1, <3>2 DEF Init, Cluster, Requestors, Ports
    <2>2. Made(NoCloudInit)
      BY <1>0 DEF Init, Made, NoCloudInit, NoToken
    <2>3. svcs \in [HeadNames -> Svc] /\ vms \in [Names -> Vm]
      BY NothingType DEF Init
    <2>4. /\ minted \in [ca : Nat, ssh : Nat, sa : Nat, ip : Nat]
          /\ ca \in 0..minted.ca /\ ssh \in 0..minted.ssh /\ sa \in 0..minted.sa
          /\ \A h \in HeadNames : svcs[h].ip <= minted.ip
      BY <1>0, NothingType
    <2>5. \A n \in Names : Made(vms[n].boot)
      BY <1>0, <2>2, NothingType
    <2>6. clock \in 0..MaxClock /\ budget \in [edits : 0..MaxEdits, faults : Nat]
      BY ProvisioningAssumption DEF Init
    <2> QED
      BY <1>0, <2>1, <2>2, <2>3, <2>4, <2>5, <2>6, NoCloudInitType DEF TypeOK, Init
  <1>2. ObjectSane
    BY <1>0 DEF ObjectSane
  <1>3. Clean
    BY <1>0, NothingType DEF Clean, Alive
  <1>4. InUse = {} /\ HeadUse = {} /\ \A n \in Names : ~Up(n)
    BY <1>3, CleanUse
  <1>5. CleanStart /\ DeleteCallsReach
    BY <1>3 DEF CleanStart, DeleteCallsReach, Clean
  <1>6. OneOrigin /\ OwnToken /\ ServiceMatches
    BY <1>0, <1>4 DEF OneOrigin, OwnToken, ServiceMatches
  <1>7. GoodContents
    BY <1>0, <1>4, NamesFacts DEF GoodContents
  <1>8. HeadVmAge
    BY <1>0, NothingType, NamesFacts DEF HeadVmAge
  <1> QED
    BY <1>1, <1>2, <1>5, <1>6, <1>7, <1>8 DEF ProvInv

\* Every step of the operator, of the VM operator and of the user keeps it.
LEMMA ProvStep == ProvInv /\ [Next]_vars => ProvInv'
  <1> SUFFICES ASSUME ProvInv, [Next]_vars
               PROVE  ProvInv'
    OBVIOUS
  <1>0. TypeOK /\ RestInv /\ ObjectSane
    BY DEF ProvInv, RestInv
  <1>1. SUFFICES TypeOK' /\ RestInv'
    BY DEF ProvInv, RestInv
  <1>2. CASE \/ AddFinalizerAndNounce \/ CreateVMRayClusterRootSecret \/ ReconcileHead
             \/ \E w \in Workers : ReconcileWorker(w)
    <2>1. TypeOK'
      BY <1>0, <1>2, ReconcileType
    <2>2. RestInv'
      BY <1>0, <1>2, <2>1, FinalizerRest, RootSecretRest, VmServiceRest, DeployHeadRest,
         DeployWorkerRest, FadeSteps
      DEF ReconcileHead, ReconcileWorker
    <2> QED
      BY <2>1, <2>2
  <1>3. CASE \/ VMRayClusterDelete
             \/ Submit \/ UserEdit \/ UserDelete \/ DockerSecret \/ Tick
             \/ \E w \in Workers : AutoscalerPatch(w)
             \/ \E h \in HeadNames : SvcReady(h)
             \/ \E n \in Names : VmBoot(n) \/ VmGone(n) \/ VmOutage(n)
    <2>1. TypeOK'
      BY <1>0, <1>3, OthersType
    <2>2. RestInv'
      BY <1>0, <1>3, <2>1, DeleteRest, SubmitRest, EditRest, UserDeleteRest, SvcReadyRest, FadeSteps
    <2> QED
      BY <2>1, <2>2
  <1>4. CASE UNCHANGED vars
    <2>1. TypeOK'
      BY <1>0, <1>4 DEF vars, TypeOK, Made
    <2> QED
      BY <1>0, <1>4, <2>1, FadeSteps
  <1> QED
    BY <1>2, <1>3, <1>4 DEF Next

\* ProvInv holds in every state that any sequence of reconciles, failed calls,
\* edits, deletions and new clusters of the same name can lead to.
THEOREM ProvisioningInvariance == Spec => []ProvInv
  BY ProvInit, ProvStep, PTL DEF Spec

\* Contents of the objects have the shape the code gives them, and nothing
\* refers to a key, account or address that was never made.
THEOREM ProvisioningTypeCorrect == Spec => []TypeOK
  <1>1. ProvInv => TypeOK
    BY DEF ProvInv
  <1> QED
    BY <1>1, ProvisioningInvariance, PTL

\* Nodes that run at the same time have their certificate authority and their ssh
\* key in common, however many clusters of the name there were and whatever
\* calls of Deploy or of the delete loop failed in between.
THEOREM NodesTrust == Spec => []NodesTrustEachOther
  <1>1. ProvInv => NodesTrustEachOther
    <2> SUFFICES ASSUME ProvInv, NEW m \in Names, NEW n \in Names, Up(m), Up(n)
                 PROVE  /\ RayTLSConfig(vms[m].boot).issuer = vms[n].boot.ca
                        /\ vms[m].boot.ssh = vms[n].boot.ssh
      BY DEF NodesTrustEachOther
    <2>1. vms[m].boot \in InUse /\ vms[n].boot \in InUse
      BY DEF InUse
    <2>2. vms[m].boot.ca = vms[n].boot.ca /\ vms[m].boot.ssh = vms[n].boot.ssh
      BY <2>1 DEF ProvInv, OneOrigin
    <2> QED
      BY <2>2 DEF RayTLSConfig
  <1> QED
    BY <1>1, ProvisioningInvariance, PTL

\* The token on a head that runs belongs to the service account that exists,
\* never to the one of an earlier cluster.
THEOREM TokenIsOwn == Spec => []TokenOfOwnAccount
  <1>1. ProvInv => TokenOfOwnAccount
    <2> SUFFICES ASSUME ProvInv, cr.life = "live", cr.fin, Up(cr.nounce)
                 PROVE  vms[cr.nounce].boot.token.sa = sa
      BY DEF TokenOfOwnAccount
    <2>1. cr.nounce \in HeadNames
      <3>1. cr.nounce \in 0..MaxLives /\ cr.nounce # 0
        BY DEF ProvInv, TypeOK, Cluster, ObjectSane
      <3> QED
        BY <3>1, ProvisioningAssumption DEF HeadNames, Lives
    <2>2. vms[cr.nounce].boot \in HeadUse
      BY <2>1 DEF HeadUse
    <2> QED
      BY <2>2 DEF ProvInv, OwnToken
  <1> QED
    BY <1>1, ProvisioningInvariance, PTL

\* Until somebody edits the port, the VM service forwards to the port that the
\* head's start command has and the head's certificate names its address.
THEOREM ServiceFitsHead == Spec => []ServiceReachesHead
  <1>1. ProvInv => ServiceReachesHead
    <2> SUFFICES ASSUME ProvInv, cr.life = "live", cr.fin, cr.requestor = K8S,
                        budget.edits = MaxEdits, Up(cr.nounce)
                 PROVE  /\ svcs[cr.nounce].port = vms[cr.nounce].boot.bootstrap.port
                        /\ svcs[cr.nounce].ip = RayTLSConfig(vms[cr.nounce].boot).ip
      BY DEF ServiceReachesHead
    <2>1. cr.nounce \in HeadNames
      <3>1. cr.nounce \in 0..MaxLives /\ cr.nounce # 0
        BY DEF ProvInv, TypeOK, Cluster, ObjectSane
      <3> QED
        BY <3>1, ProvisioningAssumption DEF HeadNames, Lives
    <2>2. vms[cr.nounce].boot \in HeadUse
      BY <2>1 DEF HeadUse
    <2> QED
      BY <2>2 DEF ProvInv, ServiceMatches, RayTLSConfig
  <1> QED
    BY <1>1, ProvisioningInvariance, PTL

\* A head that is reported to run under a nounce of its own is never the VM of
\* an earlier cluster of the same name.
THEOREM HeadsAreOwn == Spec => []HeadIsOwn
  <1>1. ProvInv => HeadIsOwn
    <2> SUFFICES ASSUME ProvInv, cr.life = "live", cr.head.vm = RUNNING, ~cr.labelled,
                        vms[cr.nounce].inc # 0
                 PROVE  vms[cr.nounce].inc = cr.inc
      BY DEF HeadIsOwn
    <2>1. cr.fin
      <3>1. EMPTY # RUNNING
        BY Zenon DEF EMPTY, RUNNING
      <3> QED
        BY <3>1 DEF ProvInv, ObjectSane, NewNode
    <2>2. cr.nounce = cr.inc
      BY <2>1 DEF ProvInv, ObjectSane
    <2>3. cr.inc \in 0..MaxLives /\ cr.inc # 0 /\ MaxLives \in Nat
      BY ProvisioningAssumption DEF ProvInv, TypeOK, Cluster, ObjectSane
    <2>4. cr.nounce \in HeadNames
      BY <2>2, <2>3 DEF HeadNames, Lives
    <2>5. cr.inc <= vms[cr.nounce].inc /\ vms[cr.nounce].inc <= cr.inc
      BY <2>2, <2>4 DEF ProvInv, HeadVmAge
    <2>6. vms[cr.nounce].inc \in Nat
      BY <2>4, NamesFacts DEF ProvInv, TypeOK, Vm
    <2> QED
      BY <2>3, <2>5, <2>6
  <1> QED
    BY <1>1, ProvisioningInvariance, PTL

\* What a node's container mounts is on the node, and a node that pulls its
\* image from a private registry is logged in there.
THEOREM ContainersStart == Spec => []ContainersCanStart
  <1>1. ProvInv => ContainersCanStart
    <2>1. ASSUME ProvInv, NEW n \in Names, Up(n)
          PROVE  vms[n].boot.mounts \subseteq vms[n].boot.files /\ (AuthSecret => vms[n].boot.login)
      <3>1. vms[n].boot \in InUse
        BY <2>1 DEF InUse
      <3> QED
        BY <2>1, <3>1 DEF ProvInv, GoodContents, GoodNode
    <2>2. ASSUME ProvInv, NEW h \in HeadNames, NEW w \in Workers, Up(h), Up(w)
          PROVE  vms[h].boot.bootstrap.options \subseteq vms[w].boot.files
      <3>1. CommonFiles \subseteq vms[w].boot.files
        BY <2>2 DEF ProvInv, GoodContents, GoodWorker
      <3>2. vms[h].boot.bootstrap.options \subseteq DockerFlags
        BY <2>2, NamesFacts DEF ProvInv, TypeOK, Vm, CloudInit
      <3> QED
        BY <3>1, <3>2 DEF CommonFiles, DockerFlags
    <2> QED
      BY <2>1, <2>2 DEF ContainersCanStart
  <1> QED
    BY <1>1, ProvisioningInvariance, PTL
=============================================================================

------------------------------ MODULE Rotation ------------------------------
(***************************************************************************)
(* heph infra rotate credentials and heph infra rotate certs: the          *)
(* controller's users and certificates, what terraform was told, the       *)
(* credentials each worker was made with, and the operator's docker trust, *)
(* changed one after the other by commands that may fail or be killed      *)
(* between any two steps.                                                  *)
(*                                                                         *)
(*   cmd/heph/cmd_infra_rotate.go   the commands                           *)
(*   internal/infra/*_rotation.go   what they run on the controller        *)
(*   internal/infra/rotation_state.go, cert_state.go, registry_trust.go    *)
(*   deployments/hetzner, deployments/selfhosted/controller                *)
(*                                                                         *)
(* One rotation runs at a time; other commands may apply terraform at any  *)
(* moment.  A generation stands for the names, passwords, keys or          *)
(* certificates made by one command; generation 0 is what the controller   *)
(* module made.  The passwords, PEM texts, backups and the installation of *)
(* the three certificate files are not told apart, nor is mutual TLS.      *)
(***************************************************************************)
EXTENDS Integers, FiniteSets

CONSTANTS
  Slots,         \* how many worker machines there may be
  DefaultCount,  \* worker_count of variables.tf
  MaxGen,        \* bound: how many rotations are run
  Kinds,         \* the components rotated
  TLS            \* the services that speak TLS (controller_security_mode)

Service == {"nats", "minio", "registry"}

ASSUME RotationAssumption ==
  /\ Slots \in Nat /\ MaxGen \in Nat
  /\ DefaultCount \in 1..Slots
  /\ Kinds \subseteq Service \union {"controller", "ca"}
  /\ TLS \subseteq Service

Gen == 0..MaxGen
Worker == 0..(Slots - 1)
User == {"operator", "worker"} \X Gen
Pair(g) == {<<"operator", g>>, <<"worker", g>>}
Creds == [Service -> Gen]
Dir == {"default", "flag"}   \* the docker certs directory: the default one, or --docker-certs-dir

VARIABLES
  file,     \* per service: the users in its configuration on the controller
  live,     \* per service: the users the running service accepts
  shown,    \* per service: the CA that signed the certificate it presents
  disk,     \* the CA of /data/tls: of ca.crt and of the certificate beside it
  made,     \* what the controller was created for, or Lost
  auto,     \* heph_rotation.auto.tfvars.json: 0 where it has no override
  out,      \* terraform's outputs; count 0: none
  worker,   \* per slot: what the machine was created with, or Gone
  trust,    \* the CA in each docker certs directory
  pc, cmd,  \* the running rotation: its next step and what it holds
  next,     \* the next generation
  done      \* the rotation that has just reported success

vars == <<file, live, shown, disk, made, auto, out, worker, trust, pc, cmd, next, done>>
controller == <<file, live, shown, disk, made>>
remote == <<controller, auto, out, worker, trust>>

(* Overrides of the rotations: credentials, the CA with its key, and the   *)
(* server certificate.                                                     *)
Vars == [creds : Creds, ca : Gen, key : Gen, cert : Gen]
NoCount == 0
Gone == [creds |-> [s \in Service |-> 0], ca |-> 0, there |-> FALSE]
Machine(v) == [creds |-> v.creds, ca |-> v.ca, there |-> TRUE]
Alive == {w \in Worker : worker[w].there}

(* The user data of the controller carries the certificate overrides and   *)
(* none of the credentials.  overtaken: it was created with the module's   *)
(* own users when rotated credentials were already in the variables, or    *)
(* on their way there; or with a CA when another was on its way.           *)
Lost == [up |-> FALSE, ca |-> 0, cert |-> 0, overtaken |-> {}]
Rotated(v) == \E s \in Service : v.creds[s] # 0
Made(v, rotating) ==
  [up |-> TRUE, ca |-> v.ca, cert |-> v.cert,
   overtaken |-> rotating \union (IF Rotated(v) THEN {"users"} ELSE {})]

NoCmd == [kind |-> "none", gen |-> 0, ca |-> 0, count |-> 0, oldOp |-> 0, prevWk |-> 0,
          dir |-> "default", seen |-> [creds |-> [s \in Service |-> 0], ca |-> 0, count |-> 0]]

RotationTypeOK ==
  /\ file \in [Service -> SUBSET User] /\ live \in [Service -> SUBSET User]
  /\ shown \in [Service -> Gen] /\ disk \in Gen
  /\ made \in [up : BOOLEAN, ca : Gen, cert : Gen, overtaken : SUBSET {"users", "ca"}]
  /\ auto \in Vars
  /\ out \in [creds : Creds, ca : Gen, count : 0..Slots]
  /\ worker \in [Worker -> [creds : Creds, ca : Gen, there : BOOLEAN]]
  /\ trust \in [Dir -> Gen]
  /\ pc \in {"idle", "grace", "ssh", "trust", "key", "install", "merge", "replace", "read",
             "verify", "wait", "final", "finalWait"}
  /\ cmd \in [kind : Service \union {"none", "controller", "ca"}, gen : Gen, ca : Gen,
              count : 0..Slots, oldOp : Gen, prevWk : Gen, dir : Dir,
              seen : [creds : Creds, ca : Gen, count : 0..Slots]]
  /\ next \in 1..(MaxGen + 1)
  /\ done \in Service \union {"none", "controller", "ca"}

(* heph infra deploy has made a controller and its workers. *)
Init ==
  /\ file = [s \in Service |-> Pair(0)] /\ live = file
  /\ shown = [s \in Service |-> 0] /\ disk = 0
  /\ auto = [creds |-> [s \in Service |-> 0], ca |-> 0, key |-> 0, cert |-> 0]
  /\ made = Made(auto, {})
  /\ \E n \in 1..Slots :
       /\ out = [creds |-> auto.creds, ca |-> 0, count |-> n]
       /\ worker = [w \in Worker |-> IF w < n THEN Machine(auto) ELSE Gone]
  /\ trust = [d \in Dir |-> 0]
  /\ pc = "idle" /\ cmd = NoCmd /\ next = 1 /\ done = "none"

-----------------------------------------------------------------------------
(* Terraform loads the auto variables in every run of the directory.       *)

(* A server whose user data changed is replaced by the provider.           *)
ControllerChanged == ~made.up \/ made.ca # auto.ca \/ made.cert # auto.cert
Changed(w, n) == worker[w] # (IF w < n THEN Machine(auto) ELSE Gone)

Rotating == (IF cmd.kind \in Service THEN {"users"} ELSE {}) \union
            (IF cmd.kind = "ca" /\ pc = "merge" THEN {"ca"} ELSE {})

(* Cloud-init: the module's users, the certificates of the variables.      *)
NewController ==
  /\ made' = Made(auto, Rotating)
  /\ file' = [s \in Service |-> Pair(0)] /\ live' = file'
  /\ shown' = [s \in Service |-> auto.ca] /\ disk' = auto.ca

Outputs(n) == [creds |-> auto.creds, ca |-> auto.ca, count |-> n]

Applied(n) ==
  /\ IF ControllerChanged THEN NewController ELSE UNCHANGED controller
  /\ worker' = [w \in Worker |-> IF w < n THEN Machine(auto) ELSE Gone]
  /\ out' = Outputs(n)

NoController ==
  /\ made' = Lost
  /\ live' = [s \in Service |-> {}] /\ UNCHANGED <<file, shown, disk>>

(* Whatever it was to change may be as before, destroyed or done.  Workers *)
(* depend on the controller (depends_on): those to go go before it, and    *)
(* new ones come after it.                                                 *)
ApplyStopped(n, replace) ==
  /\ out' \in {out, Outputs(n)}
  /\ LET touched == {w \in Worker : Changed(w, n)} \union replace
     IN \E lost \in SUBSET touched : \E new \in SUBSET {w \in lost : w < n} :
          /\ worker' = [w \in Worker |->
               IF w \in new THEN Machine(auto) ELSE IF w \in lost THEN Gone ELSE worker[w]]
          /\ \/ UNCHANGED controller /\ (ControllerChanged => new = {})
             \/ /\ ControllerChanged /\ (made.up => lost = touched)
                /\ NewController \/ (NoController /\ new = {})

(* heph infra deploy, a scan that deploys, fleet repair: an apply of       *)
(* another command, with a worker count of its own.                        *)
OtherApply(n) ==
  /\ Applied(n) \/ ApplyStopped(n, {})
  /\ UNCHANGED <<auto, trust, pc, cmd, next, done>>

(* heph infra destroy, --destroy-after: the auto variables stay.           *)
Destroy ==
  /\ pc = "idle"
  /\ NoController
  /\ worker' = [w \in Worker |-> Gone]
  /\ out' = [creds |-> [s \in Service |-> 0], ca |-> 0, count |-> NoCount]
  /\ done' = "none"
  /\ UNCHANGED <<auto, trust, pc, cmd, next>>

(* The controller reboots and its services read their configuration.       *)
Reboot ==
  /\ made.up
  /\ live' = file
  /\ shown' = [s \in Service |-> IF s \in TLS THEN disk ELSE shown[s]]
  /\ UNCHANGED <<file, disk, made, auto, out, worker, trust, pc, cmd, next, done>>

-----------------------------------------------------------------------------
(* The steps of a rotation. *)

Goto(label) == pc' = label

(* Any step may fail, or the command be killed before it. *)
Abort ==
  /\ pc # "idle"
  /\ Goto("idle") /\ cmd' = NoCmd
  /\ UNCHANGED <<remote, next, done>>

(* The command reports success. *)
Report == Goto("idle") /\ done' = cmd.kind /\ cmd' = NoCmd

(* Probe finds the outputs of a fleet. *)
Probed == out.count > 0

(* The plan and the posture checks pass, the prompt is answered and the    *)
(* new material made.  Of the outputs the command keeps the worker count   *)
(* and the CA.                                                             *)
Begin(kind, held) ==
  /\ pc = "idle" /\ next <= MaxGen
  /\ Probed
  /\ cmd' = [held EXCEPT !.kind = kind, !.gen = next, !.count = out.count, !.seen = out]
  /\ next' = next + 1
  /\ done' = "none"
  /\ UNCHANGED remote

(* For MinIO also the operator's key of the outputs, and the worker's key  *)
(* of the variables.                                                       *)
StartCredentials(kind) ==
  /\ Begin(kind, [NoCmd EXCEPT !.oldOp = out.creds["minio"], !.prevWk = auto.creds["minio"]])
  /\ Goto("grace")

(* A new CA is signed here; a server certificate is to be signed by the CA *)
(* of the outputs.                                                         *)
StartCerts(kind, dir) ==
  /\ Begin(kind, [NoCmd EXCEPT !.ca = IF kind = "ca" THEN next ELSE out.ca, !.dir = dir])
  /\ Goto(IF kind = "ca" THEN "ssh" ELSE "key")

(* mc trusts /data/tls/ca.crt. *)
VerifyOk(s) == s \in TLS => shown[s] = disk

(* systemctl restart: the service reads its users and its certificate. *)
Restart(s) ==
  /\ live' = [live EXCEPT ![s] = file'[s]]
  /\ shown' = IF s \in TLS THEN [shown EXCEPT ![s] = disk] ELSE shown

(* Users of NATS and of the registry are in a file the service reads when  *)
(* it starts; the registry's are added one by one.                         *)
Configure(s, stages) ==
  /\ \E users \in stages : file' = [file EXCEPT ![s] = users]
  /\ Restart(s) \/ UNCHANGED <<live, shown>>

GraceStages(s, g) ==
  {file[s], file[s] \union Pair(g)} \union
  (IF s = "nats" THEN {} ELSE {file[s] \union {<<"operator", g>>}})

(* The operator's key of the outputs, and the worker's key a previous      *)
(* rotation left in the variables.                                         *)
OldUsers ==
  {<<"operator", cmd.oldOp>>} \union (IF cmd.prevWk = 0 THEN {} ELSE {<<"worker", cmd.prevWk>>})

MinioUsers(users) ==
  /\ file' = [file EXCEPT !["minio"] = users]
  /\ live' = [live EXCEPT !["minio"] = users]
  /\ UNCHANGED shown
MinioSame == UNCHANGED <<file, live, shown>>

RestartedAs(s, users) ==
  /\ file' = [file EXCEPT ![s] = users]
  /\ Restart(s)

(* Mutant: the new users instead of the old ones. *)
MutGraceDone(s) ==
  IF s = "minio" THEN VerifyOk(s) /\ MinioUsers(Pair(cmd.gen)) ELSE RestartedAs(s, Pair(cmd.gen))

(* The new users beside the old ones.  Every use of mc trusts the ca.crt   *)
(* of /data/tls, and so do the registry's checks after its restart, which  *)
(* shows the certificate beside it.                                        *)
GraceDone(s) ==
  IF s = "minio" THEN VerifyOk(s) /\ MinioUsers(file[s] \union Pair(cmd.gen))
  ELSE RestartedAs(s, file[s] \union Pair(cmd.gen))

GraceStopped(s) ==
  IF s = "minio"
  THEN \/ MinioSame
       \/ VerifyOk(s) /\ \E some \in {{<<"operator", cmd.gen>>}, Pair(cmd.gen)} :
            MinioUsers(file[s] \union some)
  ELSE Configure(s, GraceStages(s, cmd.gen))

(* Mutant: the old users stay. *)
MutFinalDone(s) ==
  IF s = "minio" THEN VerifyOk(s) /\ MinioUsers(file[s] \union Pair(cmd.gen))
  ELSE RestartedAs(s, file[s] \union Pair(cmd.gen))

(* NATS and the registry are left with the new users; from MinIO the old   *)
(* ones it knows are removed, and a removal that fails is ignored.         *)
FinalDone(s) ==
  IF s = "minio"
  THEN VerifyOk(s) /\ \E kept \in SUBSET OldUsers :
         MinioUsers((file[s] \union Pair(cmd.gen)) \ (OldUsers \ kept))
  ELSE RestartedAs(s, Pair(cmd.gen))

FinalStopped(s) ==
  IF s = "minio"
  THEN \/ MinioSame
       \/ VerifyOk(s) /\ \E gone \in SUBSET OldUsers :
            MinioUsers((file[s] \union Pair(cmd.gen)) \ gone)
  ELSE Configure(s, {file[s], Pair(cmd.gen)})

Grace ==
  /\ pc = "grace" /\ made.up
  /\ \/ GraceDone(cmd.kind) /\ Goto("merge") /\ UNCHANGED cmd
     \/ GraceStopped(cmd.kind) /\ Goto("idle") /\ cmd' = NoCmd
  /\ UNCHANGED <<disk, made, auto, out, worker, trust, next, done>>

(* MergeRotationAutoVars: the variables of this component over the others. *)
Overrides ==
  CASE cmd.kind \in Service -> [auto EXCEPT !.creds[cmd.kind] = cmd.gen]
    [] cmd.kind = "controller" -> [auto EXCEPT !.ca = cmd.ca, !.cert = cmd.gen]
    [] OTHER -> [auto EXCEPT !.ca = cmd.gen, !.key = cmd.gen, !.cert = cmd.gen]

Merge ==
  /\ pc = "merge"
  /\ auto' = Overrides
  /\ Goto(IF cmd.kind = "controller" THEN "wait" ELSE "replace")
  /\ UNCHANGED <<controller, out, worker, trust, cmd, next, done>>

(* Every index below the count read at the start, and no worker_count: the *)
(* default of the module.                                                  *)
Replace ==
  /\ pc = "replace"
  /\ \/ Applied(DefaultCount) /\ Goto("read") /\ UNCHANGED cmd
     \/ /\ ApplyStopped(DefaultCount, {w \in Worker : w < cmd.count})
        /\ Goto("idle") /\ cmd' = NoCmd
  /\ UNCHANGED <<auto, trust, next, done>>

Read ==
  /\ pc = "read"
  /\ cmd' = [cmd EXCEPT !.seen = out]
  /\ Goto(IF cmd.kind = "ca" THEN "verify" ELSE "wait")
  /\ UNCHANGED <<remote, next, done>>

(* Who reaches NATS: an accepted user, and trust in the certificate shown. *)
Reaches(role, g, ca) ==
  /\ <<role, g>> \in live["nats"]
  /\ "nats" \in TLS => ca = shown["nats"]
Heard == {w \in Alive : Reaches("worker", worker[w].creds["nats"], worker[w].ca)}

(* waitForProviderNativeFleet with the outputs in hand: the manager        *)
(* connects as the operator and hears as many workers as are wanted.       *)
FleetReady ==
  /\ Reaches("operator", cmd.seen.creds["nats"], cmd.seen.ca)
  /\ Cardinality(Heard) >= (IF cmd.seen.count = 0 THEN 1 ELSE cmd.seen.count)

Wait ==
  /\ pc = "wait" /\ FleetReady
  /\ \/ cmd.kind \in Service /\ Goto("final") /\ UNCHANGED <<cmd, done>>
     \/ cmd.kind \notin Service /\ Report
  /\ UNCHANGED <<remote, next>>

(* Only the NATS rotation waits for the fleet again. *)
Final ==
  /\ pc = "final" /\ made.up
  /\ \/ cmd.kind = "nats" /\ FinalDone("nats") /\ Goto("finalWait") /\ UNCHANGED <<cmd, done>>
     \/ cmd.kind # "nats" /\ FinalDone(cmd.kind) /\ Report
     \/ FinalStopped(cmd.kind) /\ Goto("idle") /\ cmd' = NoCmd /\ UNCHANGED done
  /\ UNCHANGED <<disk, made, auto, out, worker, trust, next>>

FinalWait ==
  /\ pc = "finalWait" /\ FleetReady
  /\ Report
  /\ UNCHANGED <<remote, next>>

-----------------------------------------------------------------------------
(* Certificates. *)

CheckSSH ==
  /\ pc = "ssh" /\ made.up
  /\ Goto("trust")
  /\ UNCHANGED <<remote, cmd, next, done>>

(* Docker on the operator's machine trusts the new CA before the           *)
(* controller shows it, when the registry is an HTTPS one.                 *)
InstallTrust ==
  /\ pc = "trust"
  /\ trust' = IF "registry" \in TLS THEN [trust EXCEPT ![cmd.dir] = cmd.ca] ELSE trust
  /\ Goto("install")
  /\ UNCHANGED <<controller, auto, out, worker, cmd, next, done>>

(* controllerCAPrivateKeyForRotation: the override, or else the key in     *)
(* terraform's state, which is that of the module's CA.  It must match the *)
(* CA of the outputs.                                                      *)
SignerMatches == auto.key = cmd.ca

TakeKey ==
  /\ pc = "key" /\ SignerMatches
  /\ Goto("install")
  /\ UNCHANGED <<remote, cmd, next, done>>

(* Mutant: the key of terraform's state, whatever the override. *)
MutSignedBy == IF cmd.kind = "ca" THEN cmd.gen ELSE 0

SignedBy == IF cmd.kind = "ca" THEN cmd.gen ELSE auto.key

(* The files, then a restart of each TLS service in turn. *)
ShowNew(services) ==
  /\ disk' = SignedBy
  /\ shown' = [s \in Service |-> IF s \in services THEN SignedBy ELSE shown[s]]
  /\ live' = [s \in Service |-> IF s \in services THEN file[s] ELSE live[s]]

InstallCert ==
  /\ pc = "install" /\ made.up
  /\ \/ ShowNew(TLS) /\ Goto("merge") /\ UNCHANGED cmd
     \/ /\ \E services \in SUBSET TLS : ShowNew(services)
        /\ Goto("idle") /\ cmd' = NoCmd
  /\ UNCHANGED <<file, made, auto, out, worker, trust, next, done>>

(* EnsureProviderRegistryTrust looks in the default directory, and only    *)
(* for an HTTPS registry.                                                  *)
Trusted == "registry" \in TLS => trust["default"] = cmd.seen.ca

VerifyTrust ==
  /\ pc = "verify" /\ Trusted
  /\ Goto("wait")
  /\ UNCHANGED <<remote, cmd, next, done>>

-----------------------------------------------------------------------------
(* The commands: their steps, in the order pc takes them. *)
RotateNATS == cmd.kind = "nats" /\ (Grace \/ Merge \/ Replace \/ Read \/ Wait \/ Final \/ FinalWait)
RotateMinIO == cmd.kind = "minio" /\ (Grace \/ Merge \/ Replace \/ Read \/ Wait \/ Final)
RotateRegistry == cmd.kind = "registry" /\ (Grace \/ Merge \/ Replace \/ Read \/ Wait \/ Final)
RotateController == cmd.kind = "controller" /\ (TakeKey \/ InstallCert \/ Merge \/ Wait)
RotateCA ==
  /\ cmd.kind = "ca"
  /\ CheckSSH \/ InstallTrust \/ InstallCert \/ Merge \/ Replace \/ Read \/ VerifyTrust \/ Wait

Next ==
  \/ \E kind \in Kinds \intersect Service : StartCredentials(kind)
  \/ \E kind \in Kinds \ Service, dir \in Dir : StartCerts(kind, dir)
  \/ RotateNATS \/ RotateMinIO \/ RotateRegistry \/ RotateController \/ RotateCA
  \/ Abort
  \/ \E n \in 1..Slots : OtherApply(n)
  \/ Destroy
  \/ Reboot

Spec == Init /\ [][Next]_vars
-----------------------------------------------------------------------------
(* In every state, between any two steps of the credential rotations and   *)
(* whatever other commands apply, each service accepts, now and after a    *)
(* reboot, the credentials every worker was created with, those of the     *)
(* outputs, and those the next worker would be created with.  Grace before *)
(* anything uses the new users, final when nothing uses the old ones.      *)
(* (Not of a controller created over rotated credentials.)                 *)
NotLockedOut ==
  made.up /\ "users" \notin made.overtaken =>
    \A s \in Service : \A users \in {file[s], live[s]} :
      /\ \A w \in Alive : <<"worker", worker[w].creds[s]>> \in users
      /\ <<"worker", auto.creds[s]>> \in users
      /\ out.count # 0 => <<"operator", out.creds[s]>> \in users

(* A new server certificate never loses a worker: no step of the           *)
(* controller rotation takes from a worker a service it could trust        *)
(* before.  cert_state.go: "without changing the CA that workers already   *)
(* trust".  (Not on a controller that an apply of another command made     *)
(* between a CA rotation's installation and its variables: it shows the    *)
(* old CA, the outputs and the key may be of the new one.)                 *)
CertKeepsTrust ==
  [][InstallCert /\ cmd.kind = "controller" /\ "ca" \notin made.overtaken =>
       \A w \in Alive, s \in TLS :
         worker[w].ca = shown[s] => worker[w].ca = shown'[s]]_vars

(* What success means.  After a credential rotation every worker and the   *)
(* outputs have the newest generation, and NATS and the registry accept no *)
(* other; after a CA rotation workers, services, outputs and docker's      *)
(* default directory agree on the CA.                                      *)
SuccessMeansCurrent ==
  /\ done \in Service =>
       /\ \A w \in Alive : worker[w].creds[done] = auto.creds[done]
       /\ out.creds[done] = auto.creds[done]
       /\ done # "minio" => live[done] = Pair(auto.creds[done])
  /\ done = "ca" =>
       /\ \A w \in Alive : worker[w].ca = auto.ca
       /\ out.ca = auto.ca
       /\ "registry" \in TLS => trust["default"] = auto.ca

(* A worker can log in to NATS wherever terraform made it and its          *)
(* controller.  README.md, "Provider-Native VPS Paths": "Terraform         *)
(* provisions the controller and worker VMs, ... workers self-register     *)
(* with the fleet manager".                                                *)
WorkersCanLogIn ==
  made.up => \A w \in Alive : <<"worker", worker[w].creds["nats"]>> \in live["nats"]
=============================================================================

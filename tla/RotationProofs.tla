--------------------------- MODULE RotationProofs ---------------------------
(***************************************************************************)
(* Theorems about Rotation, for any number of machines and of rotations    *)
(* one after the other, any services on TLS, and steps that stop, commands *)
(* that are killed, other applies and reboots anywhere between: no machine *)
(* is locked out, success means that everything is of the new generation,  *)
(* and a new certificate is one the workers trust.                         *)
(***************************************************************************)
EXTENDS Rotation, TLAPS

(* The steps of a rotation of credentials, from the first that may find    *)
(* the new users, the new variables and the new machines.                  *)
Remade == {"read", "wait", "final", "finalWait"}
Merged == Remade \union {"replace"}
Graced == Merged \union {"merge"}

(* What users a service has to accept. *)
Accepts(s, users) ==
  /\ \A w \in Alive : <<"worker", worker[w].creds[s]>> \in users
  /\ Pair(auto.creds[s]) \subseteq users
  /\ out.count # 0 => <<"operator", out.creds[s]>> \in users
Own == made.up /\ "users" \notin made.overtaken
Serving == Own => \A s \in Service : Accepts(s, file[s]) /\ Accepts(s, live[s])

(* Generations are new when they are made; nothing was made of overrides   *)
(* that are not there.                                                     *)
Fresh ==
  /\ \A s \in Service : auto.creds[s] < next /\ out.creds[s] < next
  /\ auto.ca < next /\ cmd.gen < next
Unrotated ==
  \A s \in Service : auto.creds[s] = 0 =>
    out.creds[s] = 0 /\ \A w \in Alive : worker[w].creds[s] = 0

Settled == made.up /\ ~ControllerChanged
Remakes(s) == out.creds[s] = auto.creds[s] /\ \A w \in Alive : worker[w].creds[s] = auto.creds[s]
Only(s) == file[s] = Pair(auto.creds[s]) /\ live[s] = Pair(auto.creds[s])

ServiceStage ==
  cmd.kind \in Service =>
    /\ pc \in Graced \union {"grace"} /\ cmd.gen # 0
    /\ cmd.oldOp < cmd.gen /\ cmd.prevWk < cmd.gen
    /\ pc \in Graced /\ Own =>
         Pair(cmd.gen) \subseteq file[cmd.kind] /\ Pair(cmd.gen) \subseteq live[cmd.kind]
    /\ pc \in Merged => auto.creds[cmd.kind] = cmd.gen
    /\ pc \in Remade => Settled /\ Remakes(cmd.kind)
    /\ pc = "finalWait" => cmd.kind = "nats" /\ Only(cmd.kind)

RemadeCA == out.ca = auto.ca /\ \A w \in Alive : worker[w].ca = auto.ca
OwnCA == made.up /\ "ca" \notin made.overtaken
Trusts == "registry" \in TLS => trust["default"] = auto.ca
CAStage ==
  cmd.kind = "ca" =>
    /\ pc \in {"ssh", "trust", "install", "merge", "replace", "read", "verify", "wait"}
    /\ cmd.ca = cmd.gen
    /\ pc \in {"ssh", "trust", "install", "merge"} => auto.ca < cmd.gen
    /\ pc = "merge" /\ OwnCA => disk = cmd.gen /\ \A s \in TLS : shown[s] = cmd.gen
    /\ pc \in {"read", "verify", "wait"} => RemadeCA
    /\ pc \in {"verify", "wait"} => cmd.seen.ca = auto.ca
    /\ pc = "wait" => Trusts
CertStage ==
  cmd.kind = "controller" =>
    /\ pc \in {"key", "install", "merge", "wait"}
    /\ pc \in {"install", "merge"} => cmd.ca = auto.ca

(* No worker trusts a CA later than that of the variables, and none of the *)
(* services shows an earlier one.                                          *)
CAOrder ==
  /\ auto.key = auto.ca
  /\ \A w \in Alive : worker[w].ca <= auto.ca
  /\ OwnCA => disk >= auto.ca /\ \A s \in TLS : shown[s] >= auto.ca

Reported ==
  /\ done # "none" => pc = "idle"
  /\ done \in Service => Settled /\ Remakes(done) /\ (done # "minio" => Only(done))
  /\ done = "ca" => RemadeCA /\ Trusts

RotationInv ==
  /\ RotationTypeOK /\ (cmd.kind = "none" <=> pc = "idle")
  /\ Fresh /\ Unrotated /\ Serving /\ CAOrder
  /\ ServiceStage /\ CAStage /\ CertStage /\ Reported

-----------------------------------------------------------------------------
LEMMA Constants ==
  /\ Slots \in Nat /\ MaxGen \in Nat /\ DefaultCount \in 1..Slots /\ TLS \subseteq Service
  /\ Kinds \subseteq Service \union {"controller", "ca"} /\ 0 \in Gen
BY RotationAssumption DEF Gen

LEMMA Pairs ==
  ASSUME NEW g \in Gen
  PROVE  /\ Pair(g) \subseteq User /\ <<"worker", g>> \in Pair(g) /\ <<"operator", g>> \in Pair(g)
         /\ \A h \in Gen : h # g => <<"worker", h>> \notin Pair(g) /\ <<"operator", h>> \notin Pair(g)
BY DEF Pair, User

(* Whoever reads the outputs or was made of the variables is accepted with *)
(* them.                                                                   *)
LEMMA AcceptsNew ==
  ASSUME RotationTypeOK, NEW s \in Service, Remakes(s), NEW users, Pair(auto.creds[s]) \subseteq users
  PROVE  Accepts(s, users)
<1>1. auto.creds[s] \in Gen
  BY DEF RotationTypeOK, Vars, Creds
<1>2. <<"worker", auto.creds[s]>> \in users /\ <<"operator", auto.creds[s]>> \in users
  BY <1>1, Pairs
<1> QED BY <1>2 DEF Accepts, Remakes

LEMMA StutterInv == RotationInv /\ UNCHANGED vars => RotationInv'
<1> SUFFICES ASSUME RotationInv, UNCHANGED vars PROVE RotationInv'
  OBVIOUS
<1> USE DEF vars
<1>1. RotationTypeOK' /\ Fresh' /\ Unrotated' /\ (cmd'.kind = "none" <=> pc' = "idle")
  BY DEF RotationInv, RotationTypeOK, Fresh, Unrotated, Alive
<1>2. Serving' /\ CAOrder'
  BY DEF RotationInv, Serving, Own, Accepts, CAOrder, OwnCA, Alive
<1>3. ServiceStage' /\ CAStage' /\ CertStage' /\ Reported'
  BY DEF RotationInv, ServiceStage, CAStage, CertStage, Reported, Own, OwnCA, Settled, ControllerChanged,
         Remakes, Only, RemadeCA, Trusts, Alive
<1> QED BY <1>1, <1>2, <1>3 DEF RotationInv

LEMMA InitInv == Init => RotationInv
<1> SUFFICES ASSUME Init PROVE RotationInv
  OBVIOUS
<1> USE Constants
<1>1. /\ auto.creds = [s \in Service |-> 0] /\ auto.ca = 0 /\ auto.key = 0 /\ auto \in Vars
      /\ made = [up |-> TRUE, ca |-> 0, cert |-> 0, overtaken |-> {}]
  BY DEF Init, Made, Rotated, Vars, Creds
<1>2. /\ out.creds = auto.creds /\ out.ca = 0
      /\ out \in [creds : Creds, ca : Gen, count : 0..Slots]
      /\ worker \in [Worker -> [creds : Creds, ca : Gen, there : BOOLEAN]]
      /\ \A w \in Alive : worker[w].creds = auto.creds /\ worker[w].ca = 0
  BY <1>1 DEF Init, Machine, Gone, Creds, Alive
<1>3. NoCmd \in [kind : Service \union {"none", "controller", "ca"}, gen : Gen, ca : Gen,
                 count : 0..Slots, oldOp : Gen, prevWk : Gen, dir : Dir,
                 seen : [creds : Creds, ca : Gen, count : 0..Slots]]
  BY DEF NoCmd, Creds, Dir
<1>4. RotationTypeOK
  <2>1. file \in [Service -> SUBSET User] /\ live \in [Service -> SUBSET User]
    BY Pairs DEF Init
  <2>2. /\ shown \in [Service -> Gen] /\ disk \in Gen /\ trust \in [Dir -> Gen]
        /\ next \in 1..(MaxGen + 1) /\ pc = "idle" /\ done = "none" /\ cmd = NoCmd
    BY DEF Init
  <2>3. made \in [up : BOOLEAN, ca : Gen, cert : Gen, overtaken : SUBSET {"users", "ca"}]
    BY <1>1
  <2> QED BY <1>1, <1>2, <1>3, <2>1, <2>2, <2>3 DEF RotationTypeOK
<1>5. Serving
  <2>1. \A s \in Service : Remakes(s) /\ file[s] = Pair(auto.creds[s]) /\ live[s] = Pair(auto.creds[s])
    BY <1>1, <1>2 DEF Init, Remakes
  <2> QED BY <1>4, <2>1, AcceptsNew DEF Serving
<1>6. Fresh /\ Unrotated /\ CAOrder
  BY <1>1, <1>2 DEF Init, Fresh, Unrotated, CAOrder, NoCmd
<1>7. pc = "idle" /\ cmd.kind = "none" /\ done = "none"
  BY DEF Init, NoCmd
<1>8. ServiceStage /\ CAStage /\ CertStage /\ Reported
  BY <1>7 DEF ServiceStage, CAStage, CertStage, Reported, Service
<1> QED BY <1>4, <1>5, <1>6, <1>7, <1>8 DEF RotationInv

(* What an apply of terraform may have done when it ends or stops. *)
Redeployed(n) ==
  /\ out' \in {out, Outputs(n)}
  /\ worker' \in [Worker -> [creds : Creds, ca : Gen, there : BOOLEAN]]
  /\ \A w \in Worker : worker'[w] \in {worker[w], Machine(auto), Gone}
  /\ UNCHANGED controller \/ (ControllerChanged /\ (NewController \/ NoController))

LEMMA Machines ==
  ASSUME RotationTypeOK
  PROVE  /\ Machine(auto) \in [creds : Creds, ca : Gen, there : BOOLEAN]
         /\ Gone \in [creds : Creds, ca : Gen, there : BOOLEAN]
         /\ Machine(auto).creds = auto.creds /\ Machine(auto).ca = auto.ca /\ ~Gone.there
         /\ auto.creds \in Creds /\ auto.ca \in Gen /\ auto.key \in Gen /\ auto.cert \in Gen
BY Constants DEF RotationTypeOK, Machine, Gone, Vars, Creds

LEMMA TerraformSteps ==
  ASSUME RotationInv, NEW n \in 0..Slots, NEW replace \in SUBSET Worker,
         Applied(n) \/ ApplyStopped(n, replace)
  PROVE  /\ Redeployed(n)
         /\ Applied(n) => out' = Outputs(n) /\ \A w \in Worker : worker'[w] \in {Machine(auto), Gone}
<1>0. RotationTypeOK /\ worker \in [Worker -> [creds : Creds, ca : Gen, there : BOOLEAN]]
  BY DEF RotationInv, RotationTypeOK
<1>1. CASE Applied(n)
  <2>1. worker' \in [Worker -> [creds : Creds, ca : Gen, there : BOOLEAN]]
    BY <1>0, <1>1, Machines DEF Applied
  <2>2. \A w \in Worker : worker'[w] \in {Machine(auto), Gone}
    BY <1>1 DEF Applied
  <2>3. UNCHANGED controller \/ (ControllerChanged /\ NewController)
    BY <1>1 DEF Applied
  <2>4. out' = Outputs(n)
    BY <1>1 DEF Applied
  <2> QED BY <2>1, <2>2, <2>3, <2>4 DEF Redeployed
<1>2. CASE ApplyStopped(n, replace)
  <2>1. PICK lost \in SUBSET Worker, new \in SUBSET Worker :
          /\ worker' = [w \in Worker |->
               IF w \in new THEN Machine(auto) ELSE IF w \in lost THEN Gone ELSE worker[w]]
          /\ UNCHANGED controller \/ (ControllerChanged /\ (NewController \/ NoController))
    BY <1>2 DEF ApplyStopped
  <2>2. worker' \in [Worker -> [creds : Creds, ca : Gen, there : BOOLEAN]]
    BY <1>0, <2>1, Machines
  <2>3. \A w \in Worker : worker'[w] \in {worker[w], Machine(auto), Gone}
    BY <2>1
  <2>4. out' \in {out, Outputs(n)}
    BY <1>2 DEF ApplyStopped
  <2>5. Applied(n) => out' = Outputs(n) /\ \A w \in Worker : worker'[w] \in {Machine(auto), Gone}
    BY DEF Applied
  <2> QED BY <2>1, <2>2, <2>3, <2>4, <2>5 DEF Redeployed
<1> QED BY <1>1, <1>2

(* A controller anew has the module's users, and the CA of the variables.  *)
LEMMA Controllers ==
  ASSUME RotationInv, UNCHANGED auto, UNCHANGED controller \/ NewController \/ NoController
  PROVE  /\ file' \in [Service -> SUBSET User] /\ live' \in [Service -> SUBSET User]
         /\ shown' \in [Service -> Gen] /\ disk' \in Gen
         /\ made' \in [up : BOOLEAN, ca : Gen, cert : Gen, overtaken : SUBSET {"users", "ca"}]
         /\ NewController => /\ Settled'
                             /\ "users" \in made'.overtaken <=> cmd.kind \in Service \/ Rotated(auto)
                             /\ "ca" \in made'.overtaken <=> cmd.kind = "ca" /\ pc = "merge"
                             /\ \A s \in Service : /\ file'[s] = Pair(0) /\ live'[s] = Pair(0)
                                                   /\ shown'[s] = auto.ca
                             /\ disk' = auto.ca
         /\ NoController => ~made'.up
<1>0. RotationTypeOK
  BY DEF RotationInv
<1>1. CASE UNCHANGED controller /\ ~NewController /\ ~NoController
  BY <1>0, <1>1 DEF controller, RotationTypeOK
<1>2. CASE NoController
  <2>1. made' = Lost /\ live' = [s \in Service |-> {}] /\ UNCHANGED <<file, shown, disk>>
    BY <1>2 DEF NoController
  <2>2. ~NewController
    BY <2>1 DEF NewController, Made, Lost
  <2> QED BY <1>0, <1>2, <2>1, <2>2, Constants DEF RotationTypeOK, Lost
<1>3. CASE NewController
  <2>1. /\ made' = Made(auto, Rotating)
        /\ file' = [s \in Service |-> Pair(0)] /\ live' = [s \in Service |-> Pair(0)]
        /\ shown' = [s \in Service |-> auto.ca] /\ disk' = auto.ca
    BY <1>3 DEF NewController
  <2>2. /\ made'.up /\ made'.ca = auto.ca /\ made'.cert = auto.cert
        /\ made'.overtaken = Rotating \union (IF Rotated(auto) THEN {"users"} ELSE {})
        /\ made' \in [up : BOOLEAN, ca : Gen, cert : Gen, overtaken : SUBSET {"users", "ca"}]
    BY <1>0, <2>1, Machines DEF Made, Rotating
  <2>3. Settled'
    BY <2>2 DEF Settled, ControllerChanged
  <2>4. ~NoController
    BY <2>1 DEF NoController, Made, Lost
  <2>5. /\ "users" \in made'.overtaken <=> cmd.kind \in Service \/ Rotated(auto)
        /\ "ca" \in made'.overtaken <=> cmd.kind = "ca" /\ pc = "merge"
    BY <2>2 DEF Rotating
  <2> QED BY <1>0, <2>1, <2>2, <2>3, <2>4, <2>5, Pairs, Constants, Machines
<1> QED BY <1>1, <1>2, <1>3

LEMMA RedeployedInv ==
  ASSUME RotationInv, NEW n \in 0..Slots, Redeployed(n), UNCHANGED auto
  PROVE  /\ out' \in [creds : Creds, ca : Gen, count : 0..Slots]
         /\ Unrotated' /\ Serving' /\ CAOrder'
         /\ \A s \in Service : out'.creds[s] \in {out.creds[s], auto.creds[s]}
         /\ \A s \in Service : Remakes(s) => Remakes(s)'
         /\ RemadeCA => RemadeCA'
         /\ Settled => UNCHANGED controller
         /\ Own' => UNCHANGED controller \/ cmd.kind \notin Service
         /\ OwnCA' => UNCHANGED controller \/ ~(cmd.kind = "ca" /\ pc = "merge")
<1>0. /\ RotationTypeOK /\ out \in [creds : Creds, ca : Gen, count : 0..Slots]
      /\ worker \in [Worker -> [creds : Creds, ca : Gen, there : BOOLEAN]]
  BY DEF RotationInv, RotationTypeOK
<1>1. /\ out' \in {out, Outputs(n)} /\ Outputs(n).creds = auto.creds /\ Outputs(n).ca = auto.ca
      /\ Outputs(n) \in [creds : Creds, ca : Gen, count : 0..Slots]
  BY <1>0, Machines DEF Redeployed, Outputs
<1>2. \A w \in Worker : worker'[w].there =>
        \/ worker[w].there /\ worker'[w] = worker[w]
        \/ worker'[w].creds = auto.creds /\ worker'[w].ca = auto.ca
  BY <1>0, Machines DEF Redeployed
<1>3. ASSUME NEW w \in Alive'
      PROVE  \/ w \in Alive /\ worker'[w] = worker[w]
             \/ worker'[w].creds = auto.creds /\ worker'[w].ca = auto.ca
  <2>1. w \in Worker /\ worker'[w].there /\ (worker[w].there => w \in Alive)
    BY DEF Alive
  <2> QED BY <1>2, <2>1
<1>4. \/ out' = out
      \/ out'.creds = auto.creds /\ out'.ca = auto.ca
  <2>1. CASE out' = Outputs(n)
    BY <1>1, <2>1
  <2> QED BY <1>1, <2>1
<1>5. UNCHANGED controller \/ (ControllerChanged /\ (NewController \/ NoController))
  BY DEF Redeployed
<1>6. Unrotated'
  BY <1>3, <1>4 DEF RotationInv, Unrotated
<1>7. \A s \in Service : Remakes(s) => Remakes(s)'
  BY <1>3, <1>4 DEF Remakes
<1>8. RemadeCA => RemadeCA'
  BY <1>3, <1>4 DEF RemadeCA
<1>9. CAOrder'
  <2>1. \A w \in Alive' : worker'[w].ca <= auto.ca
    BY <1>0, <1>3, Machines DEF RotationInv, CAOrder, Gen
  <2>2. CASE UNCHANGED controller
    BY <2>1, <2>2 DEF RotationInv, CAOrder, OwnCA, controller
  <2>3. CASE NewController \/ NoController
    <3>1. OwnCA' => disk' = auto.ca /\ \A s \in Service : shown'[s] = auto.ca
      BY <2>3, Controllers DEF OwnCA
    <3>2. auto.ca >= auto.ca
      BY <1>0, Machines DEF Gen
    <3> QED BY <2>1, <3>1, <3>2, Constants DEF RotationInv, CAOrder
  <2> QED BY <1>5, <2>2, <2>3
<1>10. Serving'
  <2>1. CASE UNCHANGED controller
    <3>1. ASSUME NEW s \in Service, NEW users, Accepts(s, users) PROVE Accepts(s, users)'
      <4>1. <<"worker", auto.creds[s]>> \in users /\ <<"operator", auto.creds[s]>> \in users
        BY <1>0, <3>1, Machines, Pairs DEF Accepts, Creds
      <4> QED BY <1>3, <1>4, <3>1, <4>1 DEF Accepts
    <3> QED BY <2>1, <3>1 DEF RotationInv, Serving, Own, controller
  <2>2. CASE NewController \/ NoController
    <3> SUFFICES ASSUME Own', NEW s \in Service
                 PROVE  Accepts(s, file[s])' /\ Accepts(s, live[s])'
      BY DEF Serving
    <3>1. ~Rotated(auto) /\ file'[s] = Pair(0) /\ live'[s] = Pair(0)
      BY <2>2, Controllers DEF Own
    <3>2. auto.creds[s] = 0
      BY <3>1 DEF Rotated
    <3>3. out'.creds[s] = 0 /\ \A w \in Alive' : worker'[w].creds[s] = 0
      BY <1>6, <3>2 DEF Unrotated
    <3>4. <<"worker", 0>> \in Pair(0) /\ <<"operator", 0>> \in Pair(0)
      BY Pairs, Constants
    <3> QED BY <3>1, <3>2, <3>3, <3>4 DEF Accepts
  <2> QED BY <1>5, <2>1, <2>2
<1>11. Own' => UNCHANGED controller \/ cmd.kind \notin Service
  BY <1>5, Controllers DEF Own
<1>12. OwnCA' => UNCHANGED controller \/ ~(cmd.kind = "ca" /\ pc = "merge")
  BY <1>5, Controllers DEF OwnCA
<1>13. Settled => UNCHANGED controller
  BY <1>5 DEF Settled
<1>14. \A s \in Service : out'.creds[s] \in {out.creds[s], auto.creds[s]}
  BY <1>4
<1>15. out' \in [creds : Creds, ca : Gen, count : 0..Slots]
  BY <1>0, <1>1
<1> QED BY <1>14, <1>15, <1>6, <1>7, <1>8, <1>9, <1>10, <1>11, <1>12, <1>13

-----------------------------------------------------------------------------
(* The invariant without what concerns the running command. *)
SiteOK ==
  /\ file \in [Service -> SUBSET User] /\ live \in [Service -> SUBSET User]
  /\ shown \in [Service -> Gen] /\ disk \in Gen
  /\ made \in [up : BOOLEAN, ca : Gen, cert : Gen, overtaken : SUBSET {"users", "ca"}]
  /\ auto \in Vars /\ out \in [creds : Creds, ca : Gen, count : 0..Slots]
  /\ worker \in [Worker -> [creds : Creds, ca : Gen, there : BOOLEAN]]
  /\ trust \in [Dir -> Gen]
SiteInv ==
  /\ SiteOK /\ Unrotated /\ Serving /\ CAOrder
  /\ \A s \in Service : auto.creds[s] < next /\ out.creds[s] < next
  /\ auto.ca < next

Labels == {"idle", "grace", "ssh", "trust", "key", "install", "merge", "replace", "read",
           "verify", "wait", "final", "finalWait"}
Commands == [kind : Service \union {"none", "controller", "ca"}, gen : Gen, ca : Gen,
             count : 0..Slots, oldOp : Gen, prevWk : Gen, dir : Dir,
             seen : [creds : Creds, ca : Gen, count : 0..Slots]]
StepInv ==
  /\ pc \in Labels /\ cmd \in Commands
  /\ next \in 1..(MaxGen + 1) /\ done \in Service \union {"none", "controller", "ca"}
  /\ (cmd.kind = "none" <=> pc = "idle") /\ cmd.gen < next

LEMMA Parts == RotationInv => SiteInv /\ StepInv
BY DEF RotationInv, RotationTypeOK, SiteInv, SiteOK, StepInv, Labels, Commands, Fresh

(* While a command runs nothing is reported yet. *)
LEMMA Running == ASSUME RotationInv, pc # "idle" PROVE done = "none"
BY DEF RotationInv, Reported

LEMMA IdleCmd == NoCmd \in Commands /\ NoCmd.kind = "none" /\ NoCmd.gen = 0
BY Constants DEF NoCmd, Commands, Creds, Dir

LEMMA IdleInv ==
  ASSUME RotationInv, SiteInv', pc' = "idle", cmd' = NoCmd, UNCHANGED <<next, done>>,
         done = "none"
  PROVE  RotationInv'
<1>1. StepInv' /\ cmd'.kind = "none"
  BY Parts, IdleCmd DEF StepInv, Labels
<1>2. ServiceStage' /\ CAStage' /\ CertStage' /\ Reported'
  BY <1>1 DEF ServiceStage, CAStage, CertStage, Reported, Service
<1> QED BY <1>1, <1>2 DEF RotationInv, RotationTypeOK, SiteInv, SiteOK, StepInv, Labels, Commands, Fresh

(* A step of a command that does nothing but look. *)
LEMMA SameSite ==
  ASSUME RotationInv, UNCHANGED remote
  PROVE  /\ SiteOK' /\ Unrotated' /\ Serving' /\ CAOrder'
         /\ \A s \in Service : auto'.creds[s] = auto.creds[s] /\ out'.creds[s] = out.creds[s]
         /\ auto'.ca = auto.ca
         /\ (Own' <=> Own) /\ (OwnCA' <=> OwnCA) /\ (Settled' <=> Settled) /\ (RemadeCA' <=> RemadeCA)
         /\ (Trusts' <=> Trusts)
         /\ \A s \in Service : (Remakes(s)' <=> Remakes(s)) /\ (Only(s)' <=> Only(s))
<1> USE DEF remote, controller
<1>1. SiteOK' /\ Alive' = Alive
  BY Parts DEF SiteInv, SiteOK, Alive
<1>2. Unrotated' /\ Serving' /\ CAOrder'
  BY <1>1 DEF RotationInv, Unrotated, Serving, Own, Accepts, CAOrder, OwnCA
<1>3. /\ (Own' <=> Own) /\ (OwnCA' <=> OwnCA) /\ (Settled' <=> Settled) /\ (RemadeCA' <=> RemadeCA)
      /\ (Trusts' <=> Trusts)
  BY <1>1 DEF Own, OwnCA, Settled, ControllerChanged, RemadeCA, Trusts
<1>4. \A s \in Service : (Remakes(s)' <=> Remakes(s)) /\ (Only(s)' <=> Only(s))
  BY <1>1 DEF Remakes, Only
<1> QED BY <1>1, <1>2, <1>3, <1>4

LEMMA AbortInv == ASSUME RotationInv, Abort PROVE RotationInv'
<1>1. SiteInv'
  BY SameSite, Parts DEF Abort, SiteInv
<1> QED BY <1>1, IdleInv, Running DEF Abort, Goto

LEMMA StartInv ==
  ASSUME RotationInv,
         \/ \E kind \in Kinds \intersect Service : StartCredentials(kind)
         \/ \E kind \in Kinds \ Service, dir \in Dir : StartCerts(kind, dir)
  PROVE  RotationInv'
<1>0. SiteInv /\ StepInv /\ cmd.kind = "none" /\ pc = "idle"
  BY Parts DEF StartCredentials, StartCerts, Begin, RotationInv
<1>1. ASSUME UNCHANGED remote, next \in Gen, next' = next + 1, done' = "none",
             pc' \in Labels, cmd' \in Commands, cmd'.gen = next, (cmd'.kind = "none" <=> pc' = "idle"),
             ServiceStage', CAStage', CertStage'
      PROVE  RotationInv'
  <2>1. next' \in 1..(MaxGen + 1) /\ next > 0 /\ cmd'.gen < next'
    BY <1>0, <1>1, Constants DEF StepInv, Gen
  <2>2. (\A s \in Service : auto'.creds[s] < next' /\ out'.creds[s] < next') /\ auto'.ca < next'
    <3>1. \A s \in Service : auto.creds[s] \in Gen /\ out.creds[s] \in Gen
      BY <1>0, Parts DEF SiteInv, SiteOK, Vars, Creds
    <3>2. auto.ca \in Gen
      BY <1>0 DEF SiteInv, SiteOK, Vars
    <3> QED BY <1>0, <1>1, <3>1, <3>2, SameSite, Constants DEF SiteInv, Gen
  <2>3. Reported'
    BY <1>1 DEF Reported, Service
  <2>4. SiteInv' /\ StepInv'
    BY <1>1, <2>1, <2>2, SameSite DEF SiteInv, StepInv
  <2> QED BY <1>1, <2>3, <2>4
          DEF RotationInv, RotationTypeOK, SiteInv, SiteOK, StepInv, Labels, Commands, Fresh
<1>2. next <= MaxGen => next \in Gen /\ next # 0
  BY <1>0, Constants DEF StepInv, Gen
<1>3. /\ out.count \in 0..Slots /\ out \in [creds : Creds, ca : Gen, count : 0..Slots]
      /\ out.creds["minio"] \in Gen /\ auto.creds["minio"] \in Gen /\ out.ca \in Gen
      /\ out.creds["minio"] < next /\ auto.creds["minio"] < next /\ auto.ca < next
  BY <1>0 DEF SiteInv, SiteOK, Vars, Creds, Service
<1>4. ASSUME NEW kind \in Kinds \intersect Service, StartCredentials(kind)
      PROVE  RotationInv'
  <2> DEFINE c == [NoCmd EXCEPT !.oldOp = out.creds["minio"], !.prevWk = auto.creds["minio"]]
  <2>1. c \in Commands /\ c.oldOp = out.creds["minio"] /\ c.prevWk = auto.creds["minio"]
    BY <1>3, IdleCmd DEF Commands
  <2> HIDE DEF c
  <2>2. Begin(kind, c) /\ pc' = "grace"
    BY <1>4 DEF StartCredentials, Goto, c
  <2>3. /\ cmd' = [c EXCEPT !.kind = kind, !.gen = next, !.count = out.count, !.seen = out]
        /\ next \in Gen /\ next # 0 /\ next' = next + 1 /\ done' = "none" /\ UNCHANGED remote
    BY <1>2, <2>2 DEF Begin
  <2>4. /\ cmd' \in Commands /\ cmd'.kind = kind /\ cmd'.gen = next
        /\ cmd'.oldOp = c.oldOp /\ cmd'.prevWk = c.prevWk
    BY <1>3, <2>1, <2>3 DEF Commands
  <2>5. ServiceStage' /\ CAStage' /\ CertStage'
    BY <1>3, <2>1, <2>2, <2>3, <2>4 DEF ServiceStage, CAStage, CertStage, Service, Graced, Merged, Remade
  <2> QED BY <1>1, <2>2, <2>3, <2>4, <2>5 DEF Labels, Service
<1>5. ASSUME NEW kind \in Kinds \ Service, NEW dir \in Dir, StartCerts(kind, dir)
      PROVE  RotationInv'
  <2> DEFINE ca == IF kind = "ca" THEN next ELSE out.ca
             c == [NoCmd EXCEPT !.ca = ca, !.dir = dir]
  <2>1. next \in Gen /\ next # 0 /\ kind \in {"controller", "ca"}
    BY <1>2, <1>5, Constants DEF StartCerts, Begin
  <2>2. c \in Commands /\ c.ca = ca
    BY <1>3, <2>1, IdleCmd DEF Commands
  <2>3. Begin(kind, c) /\ pc' = (IF kind = "ca" THEN "ssh" ELSE "key")
    BY <1>5 DEF StartCerts, Goto
  <2> HIDE DEF c
  <2>4. /\ cmd' = [c EXCEPT !.kind = kind, !.gen = next, !.count = out.count, !.seen = out]
        /\ next' = next + 1 /\ done' = "none" /\ UNCHANGED remote
    BY <2>3 DEF Begin
  <2>5. cmd' \in Commands /\ cmd'.kind = kind /\ cmd'.gen = next /\ cmd'.ca = ca
    BY <1>3, <2>1, <2>2, <2>4 DEF Commands
  <2>6. ServiceStage' /\ CAStage' /\ CertStage'
    <3>1. auto'.ca = auto.ca
      BY <2>4, SameSite
    <3> QED BY <1>3, <2>1, <2>3, <2>4, <2>5, <3>1 DEF ServiceStage, CAStage, CertStage, Service
  <2> QED BY <1>1, <2>1, <2>3, <2>4, <2>5, <2>6 DEF Labels
<1> QED BY <1>4, <1>5

LEMMA Whole ==
  ASSUME SiteInv', StepInv', ServiceStage', CAStage', CertStage', Reported'
  PROVE  RotationInv'
BY DEF RotationInv, RotationTypeOK, SiteInv, SiteOK, StepInv, Labels, Commands, Fresh

-----------------------------------------------------------------------------
(* The users of one service change. *)
Changes(k, F, L) ==
  /\ F \subseteq User /\ L \subseteq User
  /\ file' = [file EXCEPT ![k] = F] /\ live' = [live EXCEPT ![k] = L]
  /\ shown' \in {shown, [shown EXCEPT ![k] = disk]}

LEMMA GenUsers ==
  ASSUME RotationInv, cmd.kind \in Service
  PROVE  /\ file[cmd.kind] \subseteq User /\ live[cmd.kind] \subseteq User
         /\ cmd.gen \in Gen /\ Pair(cmd.gen) \subseteq User
         /\ <<"operator", cmd.gen>> \in User /\ {<<"operator", cmd.gen>>} \subseteq Pair(cmd.gen)
         /\ OldUsers \intersect Pair(cmd.gen) = {}
<1>1. /\ file[cmd.kind] \subseteq User /\ live[cmd.kind] \subseteq User
      /\ cmd.gen \in Gen /\ cmd.oldOp \in Gen /\ cmd.prevWk \in Gen
  BY Parts DEF SiteInv, SiteOK, StepInv, Commands
<1>2. cmd.oldOp # cmd.gen /\ cmd.prevWk # cmd.gen
  BY <1>1 DEF RotationInv, ServiceStage, Gen
<1>3. OldUsers \intersect Pair(cmd.gen) = {}
  BY <1>1, <1>2, Pairs DEF OldUsers
<1> QED BY <1>1, <1>3, Pairs

LEMMA UsersMinio ==
  ASSUME RotationInv, NEW U \in SUBSET User, MinioUsers(U)
  PROVE  Changes("minio", U, U)
BY DEF MinioUsers, Changes

LEMMA UsersFile ==
  ASSUME RotationInv, NEW s \in Service, NEW U \in SUBSET User, RestartedAs(s, U)
  PROVE  Changes(s, U, U)
<1>1. file \in [Service -> SUBSET User]
  BY Parts DEF SiteInv, SiteOK
<1> QED BY <1>1 DEF RestartedAs, Restart, Changes

LEMMA UsersConfigured ==
  ASSUME RotationInv, NEW s \in Service, NEW stages \in SUBSET (SUBSET User), Configure(s, stages)
  PROVE  \E U \in stages : Changes(s, U, U) \/ Changes(s, U, live[s])
<1>1. file \in [Service -> SUBSET User] /\ live \in [Service -> SUBSET User]
  BY Parts DEF SiteInv, SiteOK
<1>2. PICK U \in stages : file' = [file EXCEPT ![s] = U] /\ (Restart(s) \/ UNCHANGED <<live, shown>>)
  BY DEF Configure
<1>3. CASE Restart(s)
  BY <1>1, <1>2, <1>3 DEF Restart, Changes
<1>4. CASE UNCHANGED <<live, shown>>
  <2>1. live = [live EXCEPT ![s] = live[s]] /\ live[s] \subseteq User
    BY <1>1
  <2> QED BY <1>1, <1>2, <1>4, <2>1 DEF Changes
<1> QED BY <1>2, <1>3, <1>4

LEMMA UsersSame ==
  ASSUME RotationInv, NEW s \in Service, MinioSame
  PROVE  Changes(s, file[s], live[s])
<1>1. file \in [Service -> SUBSET User] /\ live \in [Service -> SUBSET User]
  BY Parts DEF SiteInv, SiteOK
<1> QED BY <1>1 DEF MinioSame, Changes

(* Grace adds users, and has added the new ones when it is done. *)
LEMMA GraceSteps ==
  ASSUME RotationInv, NEW k \in Service, cmd.kind = k
  PROVE  /\ GraceDone(k) => \E F \in SUBSET User :
              Changes(k, F, F) /\ file[k] \subseteq F /\ Pair(cmd.gen) \subseteq F
         /\ GraceStopped(k) => \E F, L \in SUBSET User :
              Changes(k, F, L) /\ file[k] \subseteq F /\ (file[k] \subseteq L \/ live[k] \subseteq L)
<1> DEFINE G == Pair(cmd.gen)
           O == {<<"operator", cmd.gen>>}
<1>1. /\ file[k] \subseteq User /\ live[k] \subseteq User /\ G \subseteq User /\ O \subseteq G
  BY GenUsers
<1> HIDE DEF G, O
<1>2. ASSUME GraceDone(k)
      PROVE  \E F \in SUBSET User : Changes(k, F, F) /\ file[k] \subseteq F /\ G \subseteq F
  <2>1. file[k] \union G \in SUBSET User
    BY <1>1
  <2>2. CASE k = "minio"
    <3>1. MinioUsers(file[k] \union G)
      BY <1>2, <2>2 DEF GraceDone, G
    <3> QED BY <2>1, <2>2, <3>1, UsersMinio
  <2>3. CASE k # "minio"
    <3>1. RestartedAs(k, file[k] \union G)
      BY <1>2, <2>3 DEF GraceDone, G
    <3> QED BY <2>1, <3>1, UsersFile
  <2> QED BY <2>2, <2>3
<1>3. ASSUME GraceStopped(k)
      PROVE  \E F, L \in SUBSET User :
               Changes(k, F, L) /\ file[k] \subseteq F /\ (file[k] \subseteq L \/ live[k] \subseteq L)
  <2>1. CASE k = "minio"
    <3>1. MinioSame \/ \E some \in {O, G} : MinioUsers(file[k] \union some)
      BY <1>3, <2>1 DEF GraceStopped, G, O
    <3>2. file[k] \union G \in SUBSET User /\ file[k] \union O \in SUBSET User
      BY <1>1
    <3> QED BY <1>1, <2>1, <3>1, <3>2, UsersMinio, UsersSame
  <2>2. CASE k # "minio"
    <3> DEFINE stages == GraceStages(k, cmd.gen)
    <3>1. Configure(k, stages) /\ stages \subseteq {file[k], file[k] \union G, file[k] \union O}
      BY <1>3, <2>2 DEF GraceStopped, GraceStages, G, O
    <3>2. stages \in SUBSET (SUBSET User)
      BY <1>1, <3>1
    <3> HIDE DEF stages
    <3>3. PICK U \in stages : Changes(k, U, U) \/ Changes(k, U, live[k])
      BY <3>1, <3>2, UsersConfigured
    <3>4. U \in SUBSET User /\ file[k] \subseteq U
      BY <1>1, <3>1, <3>3
    <3> QED BY <1>1, <3>3, <3>4
  <2> QED BY <2>1, <2>2
<1> QED BY <1>2, <1>3 DEF G

(* Final removes users, but the new ones stay; those of NATS and of the    *)
(* registry are the only ones when it is done.                             *)
LEMMA FinalSteps ==
  ASSUME RotationInv, NEW k \in Service, cmd.kind = k
  PROVE  /\ FinalDone(k) => \E F \in SUBSET User :
              Changes(k, F, F) /\ Pair(cmd.gen) \subseteq F /\ (k # "minio" => F = Pair(cmd.gen))
         /\ FinalStopped(k) => \E F, L \in SUBSET User :
              /\ Changes(k, F, L) /\ (file[k] \subseteq F \/ Pair(cmd.gen) \subseteq F)
              /\ file[k] \subseteq L \/ live[k] \subseteq L \/ Pair(cmd.gen) \subseteq L
<1> DEFINE G == Pair(cmd.gen)
<1>1. /\ file[k] \subseteq User /\ live[k] \subseteq User /\ G \subseteq User
      /\ OldUsers \intersect G = {}
  BY GenUsers
<1> HIDE DEF G
<1>2. ASSUME FinalDone(k)
      PROVE  \E F \in SUBSET User : Changes(k, F, F) /\ G \subseteq F /\ (k # "minio" => F = G)
  <2>1. CASE k = "minio"
    <3>1. PICK kept \in SUBSET OldUsers : MinioUsers((file[k] \union G) \ (OldUsers \ kept))
      BY <1>2, <2>1 DEF FinalDone, G
    <3> DEFINE F == (file[k] \union G) \ (OldUsers \ kept)
    <3>2. F \in SUBSET User /\ G \subseteq F /\ MinioUsers(F)
      BY <1>1, <3>1
    <3> HIDE DEF F
    <3> QED BY <2>1, <3>2, UsersMinio
  <2>2. CASE k # "minio"
    <3>1. RestartedAs(k, G)
      BY <1>2, <2>2 DEF FinalDone, G
    <3> QED BY <1>1, <3>1, UsersFile
  <2> QED BY <2>1, <2>2
<1>3. ASSUME FinalStopped(k)
      PROVE  \E F, L \in SUBSET User :
               /\ Changes(k, F, L) /\ (file[k] \subseteq F \/ G \subseteq F)
               /\ file[k] \subseteq L \/ live[k] \subseteq L \/ G \subseteq L
  <2>1. CASE k = "minio"
    <3>1. CASE MinioSame
      BY <1>1, <3>1, UsersSame
    <3>2. CASE \E gone \in SUBSET OldUsers : MinioUsers((file[k] \union G) \ gone)
      <4>1. PICK gone \in SUBSET OldUsers : MinioUsers((file[k] \union G) \ gone)
        BY <3>2
      <4> DEFINE F == (file[k] \union G) \ gone
      <4>2. F \in SUBSET User /\ G \subseteq F /\ MinioUsers(F)
        BY <1>1, <4>1
      <4> HIDE DEF F
      <4> QED BY <2>1, <4>2, UsersMinio
    <3> QED BY <1>3, <2>1, <3>1, <3>2 DEF FinalStopped, G
  <2>2. CASE k # "minio"
    <3> DEFINE stages == {file[k], G}
    <3>1. Configure(k, stages) /\ stages \in SUBSET (SUBSET User)
      BY <1>1, <1>3, <2>2 DEF FinalStopped, G
    <3>2. PICK U \in stages : Changes(k, U, U) \/ Changes(k, U, live[k])
      BY <3>1, UsersConfigured
    <3>3. U \in SUBSET User /\ (U = file[k] \/ U = G)
      BY <1>1, <3>2
    <3> QED BY <1>1, <3>2, <3>3
  <2> QED BY <2>1, <2>2
<1> QED BY <1>2, <1>3 DEF G

(* What such a change leaves of the invariant. *)
LEMMA ChangesInv ==
  ASSUME RotationInv, NEW k \in Service, NEW F, NEW L, Changes(k, F, L),
         UNCHANGED <<disk, made, auto, out, worker, trust, next>>,
         Own => Accepts(k, F) /\ Accepts(k, L)
  PROVE  /\ SiteInv' /\ file'[k] = F /\ live'[k] = L
         /\ (Own' <=> Own) /\ (Settled' <=> Settled)
         /\ \A s \in Service : Remakes(s)' <=> Remakes(s)
<1>1. SiteInv /\ SiteOK /\ RotationTypeOK
  BY Parts DEF SiteInv, RotationInv
<1>2. SiteOK' /\ file'[k] = F /\ live'[k] = L /\ Alive' = Alive
  BY <1>1 DEF SiteOK, Changes, Alive
<1>3. (Own' <=> Own) /\ (OwnCA' <=> OwnCA) /\ (Settled' <=> Settled)
      /\ \A s \in Service : Remakes(s)' <=> Remakes(s)
  BY <1>2 DEF Own, OwnCA, Settled, ControllerChanged, Remakes
<1>4. Serving'
  <2>1. ASSUME Own, NEW s \in Service PROVE Accepts(s, file[s])' /\ Accepts(s, live[s])'
    <3>1. Accepts(s, file'[s]) /\ Accepts(s, live'[s])
      <4>1. CASE s = k
        BY <1>2, <2>1, <4>1
      <4>2. CASE s # k
        <5>1. file'[s] = file[s] /\ live'[s] = live[s]
          BY <1>1, <4>2 DEF Changes, SiteOK
        <5> QED BY <1>1, <2>1, <5>1 DEF SiteInv, Serving
      <4> QED BY <4>1, <4>2
    <3> QED BY <1>2, <3>1 DEF Accepts
  <2> QED BY <1>3, <2>1 DEF Serving
<1>5. CAOrder'
  <2>1. \A s \in Service : shown'[s] \in {shown[s], disk}
    BY <1>1 DEF Changes, SiteOK
  <2> QED BY <1>1, <1>2, <1>3, <2>1, Constants DEF SiteInv, CAOrder
<1>6. Unrotated'
  BY <1>1, <1>2 DEF SiteInv, Unrotated
<1> QED BY <1>1, <1>2, <1>3, <1>4, <1>5, <1>6 DEF SiteInv

LEMMA Widen ==
  ASSUME NEW s, NEW U, NEW V, Accepts(s, U), U \subseteq V
  PROVE  Accepts(s, V)
BY DEF Accepts

LEMMA GraceInv ==
  ASSUME RotationInv, cmd.kind \in Service, Grace
  PROVE  RotationInv'
<1> DEFINE k == cmd.kind
<1>0. /\ pc = "grace" /\ UNCHANGED <<disk, made, auto, out, worker, trust, next, done>>
      /\ done = "none" /\ StepInv
  BY Running, Parts DEF Grace
<1>1. Own => Accepts(k, file[k]) /\ Accepts(k, live[k])
  BY DEF RotationInv, Serving
<1>2. CASE GraceDone(k) /\ Goto("merge") /\ UNCHANGED cmd
  <2>1. PICK F \in SUBSET User : Changes(k, F, F) /\ file[k] \subseteq F /\ Pair(cmd.gen) \subseteq F
    BY <1>2, GraceSteps
  <2>2. /\ SiteInv' /\ file'[k] = F /\ live'[k] = F
    BY <1>0, <1>1, <2>1, Widen, ChangesInv
  <2>3. StepInv' /\ pc' = "merge"
    BY <1>0, <1>2 DEF StepInv, Goto, Labels, Service
  <2>4. ServiceStage' /\ CAStage' /\ CertStage' /\ Reported'
    BY <1>0, <1>2, <2>1, <2>2, <2>3
       DEF RotationInv, ServiceStage, CAStage, CertStage, Reported, Service, Graced, Merged, Remade
  <2> QED BY <2>2, <2>3, <2>4, Whole
<1>3. CASE GraceStopped(k) /\ Goto("idle") /\ cmd' = NoCmd
  <2>1. PICK F, L \in SUBSET User : /\ Changes(k, F, L) /\ file[k] \subseteq F
                                    /\ (file[k] \subseteq L \/ live[k] \subseteq L)
    BY <1>3, GraceSteps
  <2>2. Own => Accepts(k, F) /\ Accepts(k, L)
    BY <1>1, <2>1, Widen
  <2>3. SiteInv'
    BY <1>0, <2>1, <2>2, ChangesInv
  <2> QED BY <1>0, <1>3, <2>3, IdleInv DEF Goto
<1> QED BY <1>2, <1>3 DEF Grace

LEMMA FinalInv ==
  ASSUME RotationInv, NEW k \in Service, cmd.kind = k, Final
  PROVE  RotationInv'
<1> DEFINE G == Pair(cmd.gen)
<1>0. /\ pc = "final" /\ UNCHANGED <<disk, made, auto, out, worker, trust, next>>
      /\ done = "none" /\ StepInv /\ RotationTypeOK
  BY Running, Parts DEF Final, RotationInv
<1>1. /\ auto.creds[k] = cmd.gen /\ Settled /\ Remakes(k)
      /\ (Own => G \subseteq file[k] /\ G \subseteq live[k])
  BY <1>0 DEF RotationInv, ServiceStage, Graced, Merged, Remade
<1>2. ASSUME NEW U, G \subseteq U PROVE Accepts(k, U)
  BY <1>0, <1>1, <1>2, AcceptsNew
<1>3. ASSUME FinalDone(k)
      PROVE  \E F \in SUBSET User : /\ SiteInv' /\ file'[k] = F /\ live'[k] = F /\ G \subseteq F
                                    /\ (k # "minio" => F = G) /\ Settled' /\ Remakes(k)'
  <2>1. PICK F \in SUBSET User : Changes(k, F, F) /\ G \subseteq F /\ (k # "minio" => F = G)
    BY <1>3, FinalSteps
  <2>2. Accepts(k, F)
    BY <1>2, <2>1
  <2>3. /\ SiteInv' /\ file'[k] = F /\ live'[k] = F
        /\ (Settled' <=> Settled) /\ (Remakes(k)' <=> Remakes(k))
    BY <1>0, <2>1, <2>2, ChangesInv
  <2> QED BY <1>1, <2>1, <2>3
<1>4. CASE cmd.kind = "nats" /\ FinalDone("nats") /\ Goto("finalWait") /\ UNCHANGED <<cmd, done>>
  <2>1. SiteInv' /\ file'[k] = G /\ live'[k] = G /\ Settled' /\ Remakes(k)'
    BY <1>3, <1>4
  <2>2. StepInv' /\ pc' = "finalWait" /\ auto'.creds = auto.creds
    BY <1>0, <1>4 DEF StepInv, Goto, Labels, Service
  <2>3. ServiceStage' /\ CAStage' /\ CertStage' /\ Reported'
    BY <1>0, <1>1, <1>4, <2>1, <2>2
       DEF RotationInv, ServiceStage, CAStage, CertStage, Reported, Service, Only, Graced, Merged, Remade
  <2> QED BY <2>1, <2>2, <2>3, Whole
<1>5. CASE cmd.kind # "nats" /\ FinalDone(cmd.kind) /\ Report
  <2>1. SiteInv' /\ Settled' /\ Remakes(k)' /\ (k # "minio" => file'[k] = G /\ live'[k] = G)
    BY <1>3, <1>5
  <2>2. pc' = "idle" /\ cmd' = NoCmd /\ done' = k
    BY <1>5 DEF Report, Goto
  <2>3. StepInv'
    BY <1>0, <2>2, IdleCmd DEF StepInv, Labels
  <2>4. Reported'
    BY <1>0, <1>1, <2>1, <2>2 DEF Reported, Only, Service
  <2>5. ServiceStage' /\ CAStage' /\ CertStage'
    BY <2>2, IdleCmd DEF ServiceStage, CAStage, CertStage, Service
  <2> QED BY <2>1, <2>3, <2>4, <2>5, Whole
<1>6. CASE FinalStopped(k) /\ Goto("idle") /\ cmd' = NoCmd /\ UNCHANGED done
  <2>1. PICK F, L \in SUBSET User :
               /\ Changes(k, F, L) /\ (file[k] \subseteq F \/ G \subseteq F)
               /\ file[k] \subseteq L \/ live[k] \subseteq L \/ G \subseteq L
    BY <1>6, FinalSteps
  <2>2. Own => G \subseteq F /\ G \subseteq L
    BY <1>1, <2>1
  <2>3. SiteInv'
    BY <1>0, <1>2, <2>1, <2>2, ChangesInv
  <2> QED BY <1>0, <1>6, <2>3, IdleInv DEF Goto
<1> QED BY <1>4, <1>5, <1>6 DEF Final

LEMMA MergeInv ==
  ASSUME RotationInv, Merge
  PROVE  RotationInv'
<1>0. /\ pc = "merge" /\ auto' = Overrides /\ SiteInv /\ StepInv /\ RotationTypeOK
      /\ done = "none" /\ UNCHANGED <<controller, out, worker, trust, cmd, next, done>>
      /\ Alive' = Alive /\ cmd.gen \in Gen
  BY Running, Parts DEF Merge, Alive, RotationInv, StepInv, Commands
<1>1. cmd.kind \in Service \union {"controller", "ca"}
  BY <1>0 DEF RotationInv, StepInv, Commands
<1>2. CASE cmd.kind \in Service
  <2> DEFINE k == cmd.kind
  <2>1. auto' = [auto EXCEPT !.creds[k] = cmd.gen]
    BY <1>0, <1>2 DEF Overrides, Service
  <2>2. /\ auto' \in Vars /\ auto'.creds[k] = cmd.gen /\ auto'.ca = auto.ca /\ auto'.key = auto.key
        /\ \A s \in Service \ {k} : auto'.creds[s] = auto.creds[s]
    BY <1>0, <1>2, <2>1 DEF SiteInv, SiteOK, Vars, Creds
  <2>3. cmd.gen # 0 /\ (Own => Pair(cmd.gen) \subseteq file[k] /\ Pair(cmd.gen) \subseteq live[k])
    BY <1>0, <1>2 DEF RotationInv, ServiceStage, Graced
  <2>4. (Own' <=> Own) /\ (OwnCA' <=> OwnCA)
    BY <1>0 DEF Own, OwnCA, controller
  <2>5. Serving'
    <3>1. ASSUME Own, NEW s \in Service PROVE Accepts(s, file[s])' /\ Accepts(s, live[s])'
      BY <1>0, <2>2, <2>3, <3>1 DEF SiteInv, Serving, Accepts, controller
    <3> QED BY <2>4, <3>1 DEF Serving
  <2>6. CAOrder' /\ Unrotated' /\ SiteOK'
    BY <1>0, <2>2, <2>3, <2>4 DEF SiteInv, SiteOK, CAOrder, Unrotated, controller
  <2>7. SiteInv'
    BY <1>0, <2>2, <2>5, <2>6 DEF SiteInv, StepInv
  <2>8. StepInv' /\ pc' = "replace"
    BY <1>0, <1>2 DEF Merge, StepInv, Goto, Labels, Service
  <2>9. ServiceStage' /\ CAStage' /\ CertStage' /\ Reported'
    BY <1>0, <1>2, <2>2, <2>3, <2>4, <2>8
       DEF RotationInv, ServiceStage, CAStage, CertStage, Reported, controller, Service, Graced, Merged, Remade
  <2> QED BY <2>7, <2>8, <2>9, Whole
<1>3. CASE cmd.kind \in {"controller", "ca"}
  <2> DEFINE ca == IF cmd.kind = "ca" THEN cmd.gen ELSE auto.ca
  <2>1. /\ cmd.kind = "controller" => cmd.ca = auto.ca
        /\ cmd.kind = "ca" => /\ auto.ca < cmd.gen
                              /\ (OwnCA => disk = cmd.gen /\ \A s \in TLS : shown[s] = cmd.gen)
    BY <1>0 DEF RotationInv, CAStage, CertStage
  <2>2. /\ auto' \in Vars /\ auto'.creds = auto.creds /\ auto'.ca = ca /\ auto'.key = ca
    BY <1>0, <1>3, <2>1 DEF Overrides, SiteInv, SiteOK, CAOrder, Vars, Service
  <2>3. (Own' <=> Own) /\ (OwnCA' <=> OwnCA)
    BY <1>0 DEF Own, OwnCA, controller
  <2>4. Serving'
    BY <1>0, <2>2, <2>3 DEF SiteInv, Serving, Accepts, controller
  <2>5. CAOrder'
    <3>1. ca \in Gen /\ auto.ca \in Gen /\ ca >= auto.ca
      BY <1>0, <2>1, Machines DEF Gen
    <3>2. \A w \in Alive : worker[w].ca \in Gen /\ worker[w].ca <= auto.ca
      BY <1>0 DEF SiteInv, SiteOK, CAOrder, Alive
    <3>3. \A w \in Alive : worker[w].ca <= ca
      BY <3>1, <3>2 DEF Gen
    <3>4. OwnCA => disk >= ca /\ \A s \in TLS : shown[s] >= ca
      BY <1>0, <2>1, <3>1 DEF SiteInv, CAOrder, Gen
    <3> QED BY <1>0, <2>2, <2>3, <3>3, <3>4 DEF CAOrder, controller
  <2>6. Unrotated' /\ SiteOK'
    BY <1>0, <2>2 DEF SiteInv, SiteOK, Unrotated, controller
  <2>7. SiteInv'
    BY <1>0, <2>2, <2>4, <2>5, <2>6 DEF SiteInv, StepInv
  <2>8. StepInv' /\ pc' = (IF cmd.kind = "controller" THEN "wait" ELSE "replace")
    BY <1>0, <1>3 DEF Merge, StepInv, Goto, Labels
  <2>9. ServiceStage' /\ CAStage' /\ CertStage' /\ Reported'
    BY <1>0, <1>3, <2>8 DEF RotationInv, ServiceStage, CAStage, CertStage, Reported, Service
  <2> QED BY <2>7, <2>8, <2>9, Whole
<1> QED BY <1>1, <1>2, <1>3

(* A step that looks, and goes on. *)
LEMMA LookInv ==
  ASSUME RotationInv, UNCHANGED <<remote, next>>, pc # "idle",
         CheckSSH \/ TakeKey \/ VerifyTrust \/ Read \/ Wait \/ FinalWait
  PROVE  RotationInv'
<1>0. /\ SiteInv /\ StepInv /\ SiteInv' /\ cmd.kind \in Service \union {"controller", "ca"}
      /\ done = "none" /\ ServiceStage /\ CAStage /\ CertStage
  BY Running, Parts, SameSite DEF SiteInv, RotationInv, StepInv, Commands
<1>1. CASE (CheckSSH \/ TakeKey \/ VerifyTrust) /\ cmd.kind \notin Service
  <2>1. /\ UNCHANGED <<cmd, next, done>>
        /\ \/ pc = "ssh" /\ pc' = "trust"
           \/ pc = "key" /\ pc' = "install" /\ auto.key = cmd.ca
           \/ pc = "verify" /\ pc' = "wait" /\ ("registry" \in TLS => trust["default"] = cmd.seen.ca)
    BY <1>1 DEF CheckSSH, TakeKey, VerifyTrust, SignerMatches, Trusted, Goto
  <2>2. StepInv' /\ Reported'
    BY <1>0, <2>1 DEF StepInv, Labels, Reported, Service
  <2>3. ServiceStage' /\ CAStage' /\ CertStage'
    BY <1>0, <1>1, <2>1, SameSite DEF ServiceStage, CAStage, CertStage, SiteInv, CAOrder, Trusts
  <2> QED BY <1>0, <2>2, <2>3, Whole
<1>2. CASE Read
  <2>1. /\ pc = "read" /\ cmd' = [cmd EXCEPT !.seen = out] /\ UNCHANGED done
        /\ pc' = (IF cmd.kind = "ca" THEN "verify" ELSE "wait")
    BY <1>2 DEF Read, Goto
  <2>2. cmd' \in Commands /\ cmd'.seen = out
    BY <1>0, <2>1 DEF SiteInv, SiteOK, StepInv, Commands
  <2>3. /\ cmd'.kind = cmd.kind /\ cmd'.gen = cmd.gen /\ cmd'.ca = cmd.ca
        /\ cmd'.oldOp = cmd.oldOp /\ cmd'.prevWk = cmd.prevWk
    BY <1>0, <2>1 DEF StepInv, Commands
  <2>4. StepInv' /\ Reported'
    BY <1>0, <2>1, <2>2, <2>3 DEF StepInv, Labels, Reported, Service
  <2>5. CAStage' /\ CertStage'
    BY <1>0, <2>1, <2>2, <2>3, SameSite DEF ServiceStage, CAStage, CertStage, RemadeCA
  <2>6. ServiceStage'
    <3>1. ASSUME cmd.kind \in Service
          PROVE  file' = file /\ live' = live /\ pc' = "wait" /\ auto' = auto
      BY <2>1, <3>1 DEF remote, controller, Service
    <3> QED BY <1>0, <2>1, <2>3, <3>1, SameSite DEF ServiceStage, Graced, Merged, Remade
  <2> QED BY <1>0, <2>4, <2>5, <2>6, Whole
<1>3. CASE Wait /\ cmd.kind \in Service
  <2>1. pc = "wait" /\ pc' = "final" /\ UNCHANGED <<cmd, done>>
    BY <1>3 DEF Wait, Goto, Report
  <2>2. StepInv' /\ Reported'
    BY <1>0, <1>3, <2>1 DEF StepInv, Labels, Reported, Service
  <2>3. file' = file /\ live' = live /\ auto' = auto
    BY DEF remote, controller
  <2>4. ServiceStage' /\ CAStage' /\ CertStage'
    BY <1>0, <1>3, <2>1, <2>3, SameSite
       DEF ServiceStage, CAStage, CertStage, Service, Graced, Merged, Remade
  <2> QED BY <1>0, <2>2, <2>4, Whole
<1>4. ASSUME Report, pc # "final", cmd.kind \in Service => pc = "finalWait",
             cmd.kind = "ca" => pc = "wait"
      PROVE  RotationInv'
  <2>1. pc' = "idle" /\ cmd' = NoCmd /\ done' = cmd.kind
    BY <1>4 DEF Report, Goto
  <2>2. StepInv'
    BY <1>0, <2>1, IdleCmd DEF StepInv, Labels
  <2>3. ServiceStage' /\ CAStage' /\ CertStage'
    BY <2>1, IdleCmd DEF ServiceStage, CAStage, CertStage, Service
  <2>4. Reported'
    <3>1. ASSUME NEW k \in Service, cmd.kind = k PROVE Settled' /\ Remakes(k)' /\ Only(k)'
      BY <1>0, <1>4, <3>1, SameSite DEF ServiceStage, Remade
    <3>2. cmd.kind = "ca" => RemadeCA' /\ Trusts'
      BY <1>0, <1>4, SameSite DEF CAStage
    <3> QED BY <2>1, <3>1, <3>2 DEF Reported
  <2> QED BY <1>0, <2>2, <2>3, <2>4, Whole
<1>5. CASE Wait /\ cmd.kind \notin Service
  BY <1>4, <1>5 DEF Wait
<1>6. CASE FinalWait
  BY <1>0, <1>4, <1>6 DEF FinalWait, CAStage
<1>7. CASE cmd.kind \in Service
  BY <1>0, <1>2, <1>3, <1>6, <1>7
     DEF ServiceStage, Graced, Merged, Remade, CheckSSH, TakeKey, VerifyTrust
<1> QED BY <1>1, <1>2, <1>5, <1>6, <1>7

LEMMA CertificateInv ==
  ASSUME RotationInv, InstallTrust \/ InstallCert
  PROVE  RotationInv'
<1>0. /\ SiteInv /\ StepInv /\ RotationTypeOK /\ pc \in {"trust", "install"} /\ done = "none"
      /\ ServiceStage /\ CAStage /\ CertStage
      /\ cmd.kind \in Service \union {"controller", "ca"}
  BY Running, Parts DEF InstallTrust, InstallCert, RotationInv, StepInv, Commands
<1>1. cmd.kind \in {"controller", "ca"} /\ cmd.kind \notin Service
  BY <1>0 DEF ServiceStage, Graced, Merged, Remade
<1>2. CASE InstallTrust
  <2>1. /\ pc = "trust" /\ pc' = "install" /\ UNCHANGED <<controller, auto, out, worker, cmd, next, done>>
        /\ trust' = (IF "registry" \in TLS THEN [trust EXCEPT ![cmd.dir] = cmd.ca] ELSE trust)
    BY <1>2 DEF InstallTrust, Goto
  <2>2. trust' \in [Dir -> Gen]
    BY <1>0, <2>1 DEF SiteInv, SiteOK, StepInv, Commands
  <2>3. SiteInv'
    BY <1>0, <2>1, <2>2 DEF SiteInv, SiteOK, Unrotated, Serving, Own, Accepts, CAOrder, OwnCA, Alive, controller
  <2>4. StepInv' /\ Reported'
    BY <1>0, <2>1 DEF StepInv, Labels, Reported, Service
  <2>5. ServiceStage' /\ CAStage' /\ CertStage'
    BY <1>0, <1>1, <2>1 DEF ServiceStage, CAStage, CertStage
  <2> QED BY <2>3, <2>4, <2>5, Whole
<1>3. CASE InstallCert
  <2>1. PICK services \in SUBSET TLS :
          /\ ShowNew(services)
          /\ \/ services = TLS /\ pc' = "merge" /\ UNCHANGED cmd
             \/ pc' = "idle" /\ cmd' = NoCmd
    BY <1>3 DEF InstallCert, Goto
  <2>2. /\ pc = "install" /\ made.up /\ UNCHANGED <<file, made, auto, out, worker, trust, next, done>>
        /\ Alive' = Alive
    BY <1>3 DEF InstallCert, Alive
  <2>3. /\ SignedBy \in Gen /\ SignedBy >= auto.ca
        /\ cmd.kind = "ca" => SignedBy = cmd.gen /\ auto.ca < cmd.gen
    <3>1. cmd.gen \in Gen
      BY <1>0 DEF StepInv, Commands
    <3> QED BY <1>0, <2>2, <3>1, Machines DEF SignedBy, CAStage, SiteInv, CAOrder, Gen
  <2>4. /\ shown' \in [Service -> Gen] /\ disk' = SignedBy /\ live' \in [Service -> SUBSET User]
        /\ \A s \in Service : live'[s] \in {live[s], file[s]} /\ shown'[s] \in {shown[s], SignedBy}
        /\ \A s \in services : shown'[s] = SignedBy
    BY <1>0, <2>1, <2>3, Constants DEF ShowNew, SiteInv, SiteOK
  <2>5. (Own' <=> Own) /\ (OwnCA' <=> OwnCA)
    BY <2>2 DEF Own, OwnCA
  <2>6. Serving'
    <3>1. ASSUME Own, NEW s \in Service PROVE Accepts(s, file[s])' /\ Accepts(s, live[s])'
      <4>1. Accepts(s, file[s]) /\ Accepts(s, live'[s])
        BY <1>0, <2>4, <3>1 DEF SiteInv, Serving
      <4> QED BY <2>2, <4>1 DEF Accepts
    <3> QED BY <2>5, <3>1 DEF Serving
  <2>7. CAOrder'
    BY <1>0, <2>2, <2>3, <2>4, <2>5, Constants DEF SiteInv, CAOrder
  <2>8. Unrotated' /\ SiteOK'
    BY <1>0, <2>2, <2>3, <2>4 DEF SiteInv, SiteOK, Unrotated
  <2>9. SiteInv'
    BY <1>0, <2>2, <2>6, <2>7, <2>8 DEF SiteInv
  <2>10. CASE services = TLS /\ pc' = "merge" /\ UNCHANGED cmd
    <3>1. StepInv' /\ Reported'
      BY <1>0, <2>2, <2>10 DEF StepInv, Labels, Reported, Service
    <3>2. ServiceStage' /\ CAStage' /\ CertStage'
      BY <1>0, <1>1, <2>2, <2>3, <2>4, <2>10 DEF ServiceStage, CAStage, CertStage
    <3> QED BY <2>9, <3>1, <3>2, Whole
  <2>11. CASE pc' = "idle" /\ cmd' = NoCmd
    BY <1>0, <2>2, <2>9, <2>11, IdleInv
  <2> QED BY <2>1, <2>10, <2>11
<1> QED BY <1>2, <1>3

LEMMA OtherApplyInv ==
  ASSUME RotationInv, NEW n \in 1..Slots, OtherApply(n)
  PROVE  RotationInv'
<1>0. /\ SiteInv /\ StepInv /\ UNCHANGED <<auto, trust, pc, cmd, next, done>> /\ n \in 0..Slots
      /\ ServiceStage /\ CAStage /\ CertStage /\ Reported
  BY Parts, Constants DEF OtherApply, RotationInv
<1>1. Redeployed(n)
  BY <1>0, TerraformSteps DEF OtherApply
<1>2. SiteOK'
  BY <1>0, <1>1, Controllers, RedeployedInv DEF Redeployed, SiteInv, SiteOK
<1>3. SiteInv'
  BY <1>0, <1>1, <1>2, RedeployedInv DEF SiteInv
<1>4. Settled => Settled' /\ UNCHANGED <<file, live>>
  BY <1>0, <1>1, RedeployedInv DEF Settled, ControllerChanged, controller
<1>5. StepInv' /\ CertStage'
  BY <1>0 DEF StepInv, CertStage
<1>6. Reported'
  <2>1. ASSUME NEW s \in Service, done = s PROVE Settled' /\ Remakes(s)' /\ (s # "minio" => Only(s)')
    BY <1>0, <1>1, <1>4, <2>1, RedeployedInv DEF Reported, Only
  <2>2. done = "ca" => RemadeCA' /\ Trusts'
    BY <1>0, <1>1, RedeployedInv DEF Reported, Trusts
  <2> QED BY <1>0, <2>1, <2>2 DEF Reported
<1>7. ServiceStage'
  <2>1. ASSUME NEW k \in Service, cmd.kind = k
        PROVE  /\ pc \in Graced /\ Own' => Pair(cmd.gen) \subseteq file'[k] /\ Pair(cmd.gen) \subseteq live'[k]
               /\ pc \in Remade => Settled' /\ Remakes(k)'
               /\ pc = "finalWait" => Only(k)'
    <3>1. Own' => Own /\ UNCHANGED <<file, live>>
      BY <1>0, <1>1, <2>1, RedeployedInv DEF Own, controller
    <3>2. pc = "finalWait" => pc \in Remade
      BY DEF Remade
    <3> QED BY <1>0, <1>1, <1>4, <2>1, <3>1, <3>2, RedeployedInv DEF ServiceStage, Only
  <2> QED BY <1>0, <2>1 DEF ServiceStage
<1>8. CAStage'
  <2>1. pc = "merge" /\ cmd.kind = "ca" /\ OwnCA' => OwnCA /\ UNCHANGED <<disk, shown>>
    BY <1>0, <1>1, RedeployedInv DEF OwnCA, controller
  <2> QED BY <1>0, <1>1, <2>1, RedeployedInv DEF CAStage, Trusts
<1> QED BY <1>3, <1>5, <1>6, <1>7, <1>8, Whole

LEMMA ReplaceInv ==
  ASSUME RotationInv, Replace
  PROVE  RotationInv'
<1>0. /\ SiteInv /\ StepInv /\ pc = "replace" /\ done = "none" /\ UNCHANGED <<auto, trust, next, done>>
      /\ DefaultCount \in 0..Slots /\ ServiceStage /\ CAStage /\ CertStage
  BY Running, Parts, Constants DEF Replace, RotationInv
<1>1. Redeployed(DefaultCount)
  <2>1. {w \in Worker : w < cmd.count} \in SUBSET Worker
    OBVIOUS
  <2> QED BY <1>0, <2>1, TerraformSteps DEF Replace
<1>2. SiteInv'
  <2>1. SiteOK'
    BY <1>0, <1>1, Controllers, RedeployedInv DEF Redeployed, SiteInv, SiteOK
  <2> QED BY <1>0, <1>1, <2>1, RedeployedInv DEF SiteInv
<1>3. CASE Applied(DefaultCount) /\ Goto("read") /\ UNCHANGED cmd
  <2>1. out' = Outputs(DefaultCount) /\ \A w \in Worker : worker'[w] \in {Machine(auto), Gone}
    BY <1>0, <1>3, TerraformSteps
  <2>2. /\ out'.creds = auto.creds /\ out'.ca = auto.ca
        /\ \A w \in Worker : worker'[w].there => worker'[w].creds = auto.creds /\ worker'[w].ca = auto.ca
    BY <1>0, <2>1, Parts, Machines DEF Outputs, RotationInv
  <2>3. RemadeCA' /\ \A s \in Service : Remakes(s)'
    BY <1>0, <2>2 DEF RemadeCA, Remakes, Alive
  <2>4. Settled'
    <3>1. CASE ControllerChanged
      BY <1>0, <1>3, <3>1, Controllers DEF Applied
    <3>2. CASE ~ControllerChanged
      BY <1>0, <1>3, <3>2 DEF Applied, Settled, ControllerChanged, controller
    <3> QED BY <3>1, <3>2
  <2>5. pc' = "read" /\ UNCHANGED cmd
    BY <1>3 DEF Goto
  <2>6. StepInv' /\ CertStage' /\ Reported'
    BY <1>0, <2>5 DEF StepInv, CertStage, Reported, Labels, Service
  <2>7. ServiceStage'
    <3>1. ASSUME NEW k \in Service, cmd.kind = k, Own'
          PROVE  Pair(cmd.gen) \subseteq file'[k] /\ Pair(cmd.gen) \subseteq live'[k]
      <4>1. Own /\ UNCHANGED <<file, live>>
        BY <1>0, <1>1, <3>1, RedeployedInv DEF Own, controller
      <4> QED BY <1>0, <3>1, <4>1 DEF ServiceStage, Graced, Merged
    <3> QED BY <1>0, <2>3, <2>4, <2>5, <3>1 DEF ServiceStage, Graced, Merged, Remade
  <2>8. CAStage'
    BY <1>0, <2>3, <2>5 DEF CAStage
  <2> QED BY <1>2, <2>6, <2>7, <2>8, Whole
<1>4. CASE Goto("idle") /\ cmd' = NoCmd
  BY <1>0, <1>2, <1>4, IdleInv DEF Goto
<1> QED BY <1>3, <1>4 DEF Replace

LEMMA DestroyInv ==
  ASSUME RotationInv, Destroy
  PROVE  RotationInv'
<1>0. /\ SiteInv /\ StepInv /\ pc = "idle" /\ UNCHANGED <<auto, trust, pc, cmd, next>> /\ done' = "none"
      /\ NoController /\ cmd.kind = "none"
  BY Parts DEF Destroy, NoController, RotationInv
<1>1. /\ out' = [creds |-> [s \in Service |-> 0], ca |-> 0, count |-> NoCount]
      /\ worker' = [w \in Worker |-> Gone] /\ Alive' = {}
  BY DEF Destroy, Alive, Gone
<1>2. ~made'.up
  BY <1>0, Controllers
<1>3. SiteOK'
  BY <1>0, <1>1, Controllers, Machines, Constants, Parts DEF SiteInv, SiteOK, Creds, NoCount, RotationInv
<1>4. Unrotated' /\ Serving' /\ CAOrder'
  BY <1>0, <1>1, <1>2 DEF SiteInv, Unrotated, Serving, Own, CAOrder, OwnCA
<1>5. SiteInv'
  <2>1. next > 0 /\ \A s \in Service : out'.creds[s] = 0
    BY <1>0, <1>1, Constants DEF StepInv
  <2> QED BY <1>0, <1>3, <1>4, <2>1 DEF SiteInv
<1>6. StepInv' /\ ServiceStage' /\ CAStage' /\ CertStage' /\ Reported'
  BY <1>0 DEF StepInv, ServiceStage, CAStage, CertStage, Reported, Service
<1> QED BY <1>5, <1>6, Whole

LEMMA RebootInv ==
  ASSUME RotationInv, Reboot
  PROVE  RotationInv'
<1>0. /\ SiteInv /\ StepInv /\ ServiceStage /\ CAStage /\ CertStage /\ Reported
      /\ UNCHANGED <<file, disk, made, auto, out, worker, trust, pc, cmd, next, done>>
      /\ live' = file /\ Alive' = Alive
  BY Parts DEF Reboot, RotationInv, Alive
<1>1. /\ shown' \in [Service -> Gen] /\ \A s \in Service : shown'[s] \in {shown[s], disk}
  BY <1>0 DEF Reboot, SiteInv, SiteOK
<1>2. SiteOK' /\ Unrotated' /\ Serving'
  BY <1>0, <1>1 DEF SiteInv, SiteOK, Unrotated, Serving, Own, Accepts
<1>3. CAOrder'
  BY <1>0, <1>1, Constants DEF SiteInv, CAOrder, OwnCA
<1>4. SiteInv' /\ StepInv'
  BY <1>0, <1>2, <1>3 DEF SiteInv, StepInv
<1>5. ServiceStage'
  BY <1>0 DEF ServiceStage, Own, Settled, ControllerChanged, Remakes, Only, Graced, Merged, Remade
<1>6. CAStage' /\ CertStage'
  BY <1>0, <1>1, Constants DEF CAStage, CertStage, OwnCA, RemadeCA, Trusts
<1>7. Reported'
  BY <1>0 DEF Reported, Settled, ControllerChanged, Remakes, Only, RemadeCA, Trusts
<1> QED BY <1>4, <1>5, <1>6, <1>7, Whole

LEMMA NextInv == RotationInv /\ [Next]_vars => RotationInv'
<1> SUFFICES ASSUME RotationInv, [Next]_vars PROVE RotationInv'
  OBVIOUS
<1>1. ASSUME cmd.kind \in Service, Grace \/ Merge \/ Replace \/ Read \/ Wait \/ Final \/ FinalWait
      PROVE  RotationInv'
  <2>1. CASE Read \/ Wait \/ FinalWait
    <3>1. UNCHANGED <<remote, next>> /\ pc # "idle"
      BY <2>1 DEF Read, Wait, FinalWait
    <3> QED BY <2>1, <3>1, LookInv
  <2> QED BY <1>1, <2>1, GraceInv, MergeInv, ReplaceInv, FinalInv
<1>2. CASE RotateNATS \/ RotateMinIO \/ RotateRegistry
  BY <1>1, <1>2 DEF RotateNATS, RotateMinIO, RotateRegistry, Service
<1>3. CASE RotateController \/ RotateCA
  <2>1. CASE CheckSSH \/ TakeKey \/ VerifyTrust \/ Read \/ Wait
    <3>1. UNCHANGED <<remote, next>> /\ pc # "idle"
      BY <2>1 DEF CheckSSH, TakeKey, VerifyTrust, Read, Wait
    <3> QED BY <2>1, <3>1, LookInv
  <2> QED BY <1>3, <2>1, CertificateInv, MergeInv, ReplaceInv DEF RotateController, RotateCA
<1>4. CASE \/ \E kind \in Kinds \intersect Service : StartCredentials(kind)
           \/ \E kind \in Kinds \ Service, dir \in Dir : StartCerts(kind, dir)
  BY <1>4, StartInv
<1>5. CASE UNCHANGED vars
  BY <1>5, StutterInv
<1> QED BY <1>2, <1>3, <1>4, <1>5, AbortInv, OtherApplyInv, DestroyInv, RebootInv DEF Next

-----------------------------------------------------------------------------
(* The inductive invariant of the rotations. *)
THEOREM RotationInvariant == Spec => []RotationInv
BY InitInv, NextInv, PTL DEF Spec

(* Users, certificates, outputs, machines and the step of the command keep *)
(* their types.                                                            *)
THEOREM RotationTypes == Spec => []RotationTypeOK
<1>1. RotationInv => RotationTypeOK
  BY DEF RotationInv
<1> QED BY <1>1, RotationInvariant, PTL

(* Between any two steps of the rotations every service accepts what the   *)
(* machines and the outputs hold.                                          *)
THEOREM NobodyIsLockedOut == Spec => []NotLockedOut
<1>1. RotationInv => NotLockedOut
  <2> SUFFICES ASSUME RotationInv, Own, NEW s \in Service, NEW users \in {file[s], live[s]}
               PROVE  /\ \A w \in Alive : <<"worker", worker[w].creds[s]>> \in users
                      /\ <<"worker", auto.creds[s]>> \in users
                      /\ out.count # 0 => <<"operator", out.creds[s]>> \in users
    BY DEF NotLockedOut, Own
  <2>1. Accepts(s, users)
    BY DEF RotationInv, Serving
  <2>2. auto.creds[s] \in Gen
    BY DEF RotationInv, RotationTypeOK, Vars, Creds
  <2> QED BY <2>1, <2>2, Pairs DEF Accepts
<1> QED BY <1>1, RotationInvariant, PTL

(* A rotation that reported success has left nothing of the generation     *)
(* before it on machines, in the outputs, in NATS and in the registry.     *)
THEOREM SuccessIsCurrent == Spec => []SuccessMeansCurrent
<1>1. RotationInv => SuccessMeansCurrent
  BY DEF RotationInv, Reported, SuccessMeansCurrent, Remakes, Only, RemadeCA, Trusts
<1> QED BY <1>1, RotationInvariant, PTL

(* A new server certificate is signed by the CA that the workers trust who *)
(* trusted the one before it.                                              *)
THEOREM CertificatesKeepTrust == Spec => CertKeepsTrust
<1>1. RotationInv /\ [Next]_vars =>
        [InstallCert /\ cmd.kind = "controller" /\ "ca" \notin made.overtaken =>
           \A w \in Alive, s \in TLS : worker[w].ca = shown[s] => worker[w].ca = shown'[s]]_vars
  <2> SUFFICES ASSUME RotationInv, InstallCert, cmd.kind = "controller", "ca" \notin made.overtaken,
                      NEW w \in Alive, NEW s \in TLS, worker[w].ca = shown[s]
               PROVE  worker[w].ca = shown'[s]
    OBVIOUS
  <2>1. /\ s \in Service /\ worker[w].ca \in Gen /\ auto.ca \in Gen /\ auto.key = auto.ca
        /\ worker[w].ca <= auto.ca /\ SiteOK
    BY Parts, Constants, Machines DEF RotationInv, CAOrder, SiteInv, SiteOK, Alive
  <2>2. shown[s] >= auto.ca /\ made.up
    BY DEF RotationInv, CAOrder, OwnCA, InstallCert
  <2>3. worker[w].ca = auto.ca
    BY <2>1, <2>2 DEF Gen
  <2>4. shown'[s] \in {shown[s], auto.ca}
    BY <2>1 DEF InstallCert, ShowNew, SignedBy, SiteOK
  <2> QED BY <2>3, <2>4
<1> QED BY <1>1, RotationInvariant, PTL DEF Spec, CertKeepsTrust
=============================================================================

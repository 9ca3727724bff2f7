-------------------------- MODULE LifecycleProofs --------------------------
(***************************************************************************)
(* Theorems about Lifecycle, for any number of commands at once, whatever  *)
(* their flags, and jobs of any size, with every call that may fail and a  *)
(* kill at any step: the record of a run that ended is final, heph status  *)
(* calls a job complete only when it was, and a scan that reports success  *)
(* has delivered and cleaned up.                                           *)
(***************************************************************************)
EXTENDS Lifecycle, TLAPS

USE DEF results

(* The steps a command of each kind goes through, up to its first record,  *)
(* and up to its first task.                                               *)
Deploying == {"apply", "outputs", "publish"}
Final == {"export", "destroy", "ended"}
Steps(kind) ==
  {"start", "ended", "killed"} \union
  CASE kind = "deploy"  -> Deploying
    [] kind = "destroy" -> {"destroy"}
    [] kind = "recover" -> Deploying \union {"recover", "restore"}
    [] OTHER            -> Label \ {"recover", "restore"}
Unrecorded == Deploying \union {"start", "setup", "recover", "restore", "record"}
Taskless == Unrecorded \union {"provider", "plan", "upload", "enqueue"}

(* A command without a record: at these steps, or of these kinds. *)
Blank(s, l) ==
  l \in Unrecorded \/ opt[s].kind \notin Scan \/ (l = "provider" /\ opt[s].kind # "nmap")

(* Results of every task, unless one was stored twice and counted for      *)
(* another.                                                                *)
AllOf(s, n) == n = Tasks \/ s \in again

(* A scan whose run has no error so far: its results are there as long as  *)
(* its storage is, then exported, and at the end delivered and cleaned up. *)
Delivery(s) ==
  /\ pc[s] \in {"export", "destroy"} /\ Reachable(s) => AllOf(s, stored[s])
  /\ pc[s] = "destroy" /\ opt[s].outDir => AllOf(s, run[s].exported)
  /\ run[s].exit = "ok" =>
       /\ opt[s].outDir => AllOf(s, run[s].exported)
       /\ opt[s].destroyAfter /\ cloud # "manual" => ~Reachable(s)

(* What a record may say at any moment, and what it says at the end. *)
Honest(s) ==
  {r \in Record : r.total \in {0, Tasks} /\ (r.phase = "complete" => s \in reached \union again)}
Verdict(s) == IF run[s].err THEN "failed" ELSE "complete"

(* What holds of each command and its job. *)
CommandInv(s) ==
  /\ pc[s] \in Steps(opt[s].kind)
  /\ queue[s] + stored[s] <= Tasks /\ (stored[s] = Tasks => s \in reached)
  /\ pc[s] \in Taskless \/ opt[s].kind \notin Scan => queue[s] = 0 /\ stored[s] = 0
  /\ Blank(s, pc[s]) => record[s] = NoRecord
  /\ extra[s] > 0 => s \in again
  /\ record[s] \in Honest(s)
  /\ pc[s] \in Final /\ run[s].saved => record[s].phase \in {"none", Verdict(s)}
  /\ pc[s] \notin Final \union {"killed"} => run[s] = NewRun
  /\ (run[s].exit # "none" => pc[s] = "ended") /\ (run[s].exit = "ok" => ~run[s].err)
  /\ opt[s].kind \notin Scan => ~run[s].started /\ ~run[s].err
  /\ opt[s].kind \in Scan /\ pc[s] \in {"export", "destroy"} => run[s].err \/ run[s].started
  /\ opt[s].kind \in Scan /\ ~run[s].err => Delivery(s)

LifecycleInv == LifecycleTypeOK /\ \A s \in Session : CommandInv(s)

(* What the other commands see of a step: tasks that move, storage that is *)
(* made anew, or everything destroyed.                                     *)
Seen(t) ==
  /\ UNCHANGED <<cloud, opt, pc[t], out[t], run[t], record[t], reached, again>>
  /\ \/ /\ UNCHANGED <<queue[t], stored[t], extra[t]>>
        /\ infra'.bucket = infra.bucket \/ infra'.bucket # out[t].bucket \/ infra'.bucket = 0
     \/ queue'[t] = 0 /\ stored'[t] = 0 /\ extra'[t] = 0 /\ infra'.bucket = 0

LEMMA Kinds ==
  ASSUME LifecycleTypeOK, NEW s \in Session
  PROVE  /\ opt[s] \in Options[s] /\ opt[s].kind \in Scan \union {"deploy", "destroy", "recover"}
         /\ {opt[s].noDeploy, opt[s].destroyAfter, opt[s].outDir, opt[s].spot} \subseteq BOOLEAN
         /\ opt[s].tool \in Tool /\ Tasks \in Nat \ {0}
BY LifecycleAssumption DEF LifecycleTypeOK, Tool, Flags

LEMMA SeenInv ==
  ASSUME LifecycleInv, NEW t \in Session, Seen(t)
  PROVE  CommandInv(t)'
<1>1. CommandInv(t) /\ Tasks \in Nat \ {0} /\ queue[t] \in Nat /\ stored[t] \in Nat
  BY Kinds DEF LifecycleInv, LifecycleTypeOK
<1>2. Reachable(t)' => Reachable(t) /\ UNCHANGED <<queue[t], stored[t]>>
  BY DEF Seen, Reachable
<1>3. Delivery(t) => Delivery(t)'
  BY <1>2 DEF Delivery, Seen, AllOf
<1>4. /\ queue'[t] + stored'[t] <= Tasks /\ (stored'[t] = Tasks => t \in reached')
      /\ extra'[t] > 0 => t \in again'
  BY <1>1 DEF Seen, CommandInv
<1>5. (queue[t] = 0 /\ stored[t] = 0) => (queue'[t] = 0 /\ stored'[t] = 0)
  BY DEF Seen
<1>6. (record[t] \in Honest(t) => record'[t] \in Honest(t)') /\ UNCHANGED Verdict(t)
  BY DEF Seen, Honest, Verdict
<1> QED BY <1>1, <1>3, <1>4, <1>5, <1>6 DEF Seen, CommandInv, Blank

LEMMA StutterInv == LifecycleInv /\ UNCHANGED vars => LifecycleInv'
<1> SUFFICES ASSUME LifecycleInv, UNCHANGED vars PROVE LifecycleInv'
  OBVIOUS
<1>1. LifecycleTypeOK'
  BY DEF LifecycleInv, LifecycleTypeOK, vars, site
<1>2. \A t \in Session : Seen(t)
  BY DEF Seen, vars, site
<1> QED BY <1>1, <1>2, SeenInv DEF LifecycleInv

LEMMA InitInv == Init => LifecycleInv
<1> SUFFICES ASSUME Init PROVE LifecycleInv
  OBVIOUS
<1>0. Tasks \in Nat \ {0} /\ MaxBuckets \in Nat \ {0} /\ MaxCopies \in Nat
  BY LifecycleAssumption
<1>1. LifecycleTypeOK
  <2>1. infra \in Outputs /\ Absent \in Outputs
    BY <1>0 DEF Init, Outputs, Absent, Bucket
  <2>2. NewRun \in Run /\ NoRecord \in Record /\ "start" \in Label /\ 0 \in 0..Tasks
    BY <1>0 DEF NewRun, NoRecord, Run, Record, Phase, Label
  <2> QED BY <1>0, <2>1, <2>2 DEF Init, LifecycleTypeOK
<1>2. ASSUME NEW s \in Session PROVE CommandInv(s)
  BY <1>0 DEF Init, CommandInv, Blank, Delivery, Honest, Verdict, Record, Phase, Steps, Unrecorded, Taskless, Final, NewRun, NoRecord
<1> QED BY <1>1, <1>2 DEF LifecycleInv

(* A command that returns: with an error, or well if it is no scan.        *)
LEMMA ExitInv ==
  ASSUME LifecycleInv, NEW s \in Session, NEW code \in {"ok", "error"}, Exit(s, code),
         code = "ok" => opt[s].kind \notin Scan,
         run[s].saved => record[s].phase \in {"none", Verdict(s)},
         UNCHANGED <<cloud, opt, queue, results, workers, left, out, record>>,
         images' \subseteq Tool \union Session \union {NoTool}, infra' \in Outputs,
         \A t \in Session : infra'.bucket = infra.bucket \/ infra'.bucket # out[t].bucket
  PROVE  LifecycleInv'
<1> USE DEF Exit, Goto
<1>0. /\ pc \in [Session -> Label] /\ run \in [Session -> Run]
      /\ CommandInv(s) /\ LifecycleTypeOK
  BY DEF LifecycleInv, LifecycleTypeOK
<1>1. /\ pc' \in [Session -> Label] /\ pc'[s] = "ended"
      /\ run' \in [Session -> Run] /\ run'[s] = [run[s] EXCEPT !.exit = code]
  BY <1>0 DEF Label, Run
<1>2. LifecycleTypeOK'
  BY <1>0, <1>1 DEF LifecycleTypeOK
<1>3. CommandInv(s)'
  <2>1. /\ run'[s].started = run[s].started /\ run'[s].err = run[s].err
        /\ run'[s].exit = code /\ run'[s].saved = run[s].saved
    BY <1>0, <1>1 DEF Run
  <2>2. UNCHANGED <<opt, queue, results, record, Honest(s), Verdict(s)>>
    BY <2>1 DEF Honest, Verdict
  <2>3. "ended" \in Final /\ "ended" \notin Taskless \union Unrecorded /\ "ended" \in Steps(opt[s].kind)
    BY DEF Final, Taskless, Unrecorded, Deploying, Steps
  <2>4. opt[s].kind \in Scan => Delivery(s)'
    BY <1>1, <2>1 DEF Delivery
  <2> QED BY <1>0, <1>1, <2>1, <2>2, <2>3, <2>4 DEF CommandInv, Blank
<1>4. \A t \in Session \ {s} : Seen(t)
  BY <1>0 DEF Seen
<1> QED BY <1>2, <1>3, <1>4, SeenInv DEF LifecycleInv

LEMMA QuitInv ==
  ASSUME LifecycleInv, NEW s \in Session, UNCHANGED <<cloud, opt>>, Quit(s),
         run[s].saved => record[s].phase \in {"none", Verdict(s)}
  PROVE  LifecycleInv'
<1>1. images \subseteq Tool \union Session \union {NoTool} /\ infra \in Outputs
  BY DEF LifecycleInv, LifecycleTypeOK
<1> QED BY <1>1, ExitInv DEF Quit, site

(* A step of a command to another one before its run is over: it may send  *)
(* tasks, start workers, deploy, and write its record.                     *)
LEMMA AdvanceInv ==
  ASSUME LifecycleInv, NEW s \in Session, UNCHANGED <<cloud, opt, results, run>>,
         NEW l \in Label, Goto(s, l), l \in Steps(opt[s].kind), pc[s] \notin Final \union {"killed"},
         l \notin {"export", "ended", "killed"}, l = "destroy" => opt[s].kind \notin Scan,
         NEW o \in Outputs, out' = [out EXCEPT ![s] = o],
         NEW r \in Honest(s), record' = [record EXCEPT ![s] = r],
         Blank(s, l) => r = NoRecord,
         NEW n \in 0..Tasks, queue' = [queue EXCEPT ![s] = n], n + stored[s] <= Tasks,
         l \in Taskless \/ opt[s].kind \notin Scan => n = 0 /\ stored[s] = 0,
         infra' \in Outputs,
         \A t \in Session : infra'.bucket = infra.bucket \/ infra'.bucket # out[t].bucket,
         images' \subseteq Tool \union Session \union {NoTool},
         workers' \subseteq Session, left' \subseteq Tool \union {Template}
  PROVE  LifecycleInv'
<1>0. /\ pc \in [Session -> Label] /\ out \in [Session -> Outputs] /\ record \in [Session -> Record]
      /\ queue \in [Session -> 0..Tasks] /\ CommandInv(s) /\ LifecycleTypeOK
  BY DEF LifecycleInv, LifecycleTypeOK
<1>1. /\ pc' \in [Session -> Label] /\ pc'[s] = l
      /\ out' \in [Session -> Outputs] /\ out'[s] = o
      /\ record' \in [Session -> Record] /\ record'[s] = r
      /\ queue' \in [Session -> 0..Tasks] /\ queue'[s] = n
  BY <1>0 DEF Goto, Honest
<1>2. LifecycleTypeOK'
  BY <1>0, <1>1 DEF LifecycleTypeOK
<1>3. CommandInv(s)'
  <2>1. run[s] = NewRun /\ run'[s] = NewRun
    BY <1>0 DEF CommandInv
  <2>2. opt[s].kind \in Scan => Delivery(s)'
    BY <1>1, <2>1 DEF Delivery, NewRun
  <2>3. l = "destroy" => r.phase = "none"
    BY DEF NoRecord, Blank
  <2>4. record'[s] \in Honest(s)'
    BY <1>1 DEF Honest
  <2> QED BY <1>0, <1>1, <2>1, <2>2, <2>3, <2>4 DEF CommandInv, NewRun, Final, Blank
<1>4. \A t \in Session \ {s} : Seen(t)
  BY <1>0 DEF Seen, Goto
<1> QED BY <1>2, <1>3, <1>4, SeenInv DEF LifecycleInv

(* The job is over, with an error or with all its results.                 *)
LEMMA OverInv ==
  ASSUME LifecycleInv, NEW s \in Session, UNCHANGED <<cloud, opt, infra, images, results, out>>,
         NEW started \in BOOLEAN, NEW failed \in BOOLEAN, Over(s, started, failed),
         pc[s] \in {"provider", "plan", "upload", "enqueue", "launch", "poll"},
         failed \/ (started /\ AllOf(s, stored[s])),
         failed \/ s \in reached \union again,
         NEW n \in 0..Tasks, queue' = [queue EXCEPT ![s] = n], n + stored[s] <= Tasks,
         workers' \subseteq Session, left' \subseteq Tool \union {Template}
  PROVE  LifecycleInv'
<1>0. /\ pc \in [Session -> Label] /\ run \in [Session -> Run] /\ record \in [Session -> Record]
      /\ queue \in [Session -> 0..Tasks] /\ CommandInv(s) /\ LifecycleTypeOK
      /\ opt[s].kind \in Scan \union {"deploy", "destroy", "recover"}
  BY Kinds DEF LifecycleInv, LifecycleTypeOK
<1>1. opt[s].kind \in Scan
  BY <1>0 DEF CommandInv, Steps, Deploying
<1>2. run[s] = NewRun
  BY <1>0 DEF CommandInv, Final
<1>3. /\ pc' \in [Session -> Label] /\ pc'[s] = "export"
      /\ queue' \in [Session -> 0..Tasks] /\ queue'[s] = n
  BY <1>0 DEF Over, Goto, Label
<1>4. PICK saved \in BOOLEAN :
        /\ run' = [run EXCEPT ![s].started = started, ![s].err = failed, ![s].saved = saved]
        /\ record' = IF ~saved \/ ~(failed \/ started) THEN record
                     ELSE [record EXCEPT ![s] = SetPhase(@, IF failed THEN "failed" ELSE "complete")]
  BY DEF Over
<1>5. /\ run' \in [Session -> Run] /\ run'[s].started = started /\ run'[s].err = failed
      /\ run'[s].saved = saved /\ run'[s].exit = "none"
  <2> DEFINE e == [run[s] EXCEPT !.started = started, !.err = failed, !.saved = saved]
  <2>1. e \in Run /\ e.started = started /\ e.err = failed /\ e.saved = saved /\ e.exit = run[s].exit
    BY <1>0 DEF Run
  <2>2. run[s].exit = "none"
    BY <1>2 DEF NewRun
  <2>3. run' = [run EXCEPT ![s] = e]
    BY <1>0, <1>4
  <2> HIDE DEF e
  <2> QED BY <1>0, <2>1, <2>2, <2>3
<1>6. /\ record' \in [Session -> Record] /\ record'[s] \in Honest(s)
      /\ saved => record'[s].phase \in {"none", IF failed THEN "failed" ELSE "complete"}
      /\ \A t \in Session \ {s} : record'[t] = record[t]
  <2> DEFINE phase == IF failed THEN "failed" ELSE "complete"
             r == SetPhase(record[s], phase)
  <2>1. phase \in Phase /\ record[s] \in Honest(s) /\ (phase = "complete" => s \in reached \union again)
    BY <1>0 DEF Phase, CommandInv
  <2>2. r \in Honest(s) /\ r.phase \in {"none", phase}
    <3> HIDE DEF phase
    <3> QED BY <2>1 DEF Honest, Record, SetPhase
  <2>3. record' = record \/ record' = [record EXCEPT ![s] = r]
    BY <1>4
  <2>4. saved => record' = [record EXCEPT ![s] = r]
    BY <1>4
  <2>5. Honest(s) \subseteq Record
    BY DEF Honest
  <2> HIDE DEF phase, r
  <2>6. saved => record'[s].phase \in {"none", phase}
    BY <1>0, <2>2, <2>4
  <2>7. /\ record' \in [Session -> Record] /\ record'[s] \in Honest(s)
        /\ \A t \in Session \ {s} : record'[t] = record[t]
    BY <1>0, <2>1, <2>2, <2>3, <2>5
  <2> QED BY <2>6, <2>7 DEF phase
<1>7. LifecycleTypeOK'
  BY <1>0, <1>3, <1>5, <1>6 DEF LifecycleTypeOK
<1>8. CommandInv(s)'
  <2>1. ~failed => Delivery(s)'
    BY <1>3, <1>5 DEF Delivery, AllOf
  <2>2. "export" \in Steps(opt[s].kind)
    BY <1>1 DEF Steps, Scan, Label
  <2>3. record'[s] \in Honest(s)'
    BY <1>6 DEF Honest
  <2>4. Verdict(s)' = IF failed THEN "failed" ELSE "complete"
    BY <1>5 DEF Verdict
  <2> QED BY <1>0, <1>1, <1>3, <1>5, <1>6, <2>1, <2>2, <2>3, <2>4
          DEF CommandInv, Blank, Final, Taskless, Unrecorded, Deploying
<1>9. \A t \in Session \ {s} : Seen(t)
  BY <1>0, <1>4, <1>6 DEF Seen, Over, Goto
<1> QED BY <1>7, <1>8, <1>9, SeenInv DEF LifecycleInv

(* A step that leaves record and queue alone. *)
LEMMA MoveInv ==
  ASSUME LifecycleInv, NEW s \in Session,
         UNCHANGED <<cloud, opt, infra, queue, results, workers, left, run, record>>,
         NEW l \in Label, Goto(s, l), l \in Steps(opt[s].kind), pc[s] \in Taskless,
         l \in Taskless \union {"destroy"}, l = "destroy" => opt[s].kind \notin Scan,
         Blank(s, l) => Blank(s, pc[s]),
         NEW o \in Outputs, out' = [out EXCEPT ![s] = o],
         images' \subseteq Tool \union Session \union {NoTool}
  PROVE  LifecycleInv'
<1>0. /\ record \in [Session -> Record] /\ queue \in [Session -> 0..Tasks]
      /\ stored \in [Session -> 0..Tasks] /\ infra \in Outputs
      /\ workers \subseteq Session /\ left \subseteq Tool \union {Template}
      /\ CommandInv(s)
  BY DEF LifecycleInv, LifecycleTypeOK
<1>1. /\ record' = [record EXCEPT ![s] = record[s]] /\ record[s] \in Record
      /\ queue' = [queue EXCEPT ![s] = queue[s]] /\ queue[s] \in 0..Tasks
  BY <1>0
<1>2. /\ pc[s] \notin Final \union {"killed"} /\ l \notin {"export", "ended", "killed"}
  BY DEF Taskless, Unrecorded, Deploying, Final
<1>3. /\ record[s] \in Honest(s)
      /\ queue[s] = 0 /\ stored[s] = 0 /\ queue[s] + stored[s] <= Tasks
  BY <1>0 DEF CommandInv
<1>4. Blank(s, l) => record[s] = NoRecord
  BY <1>0 DEF CommandInv
<1> QED BY <1>0, <1>1, <1>2, <1>3, <1>4, AdvanceInv

(* A command that has recorded nothing returns with an error. *)
LEMMA QuitBlank ==
  ASSUME LifecycleInv, NEW s \in Session, UNCHANGED <<cloud, opt>>, Quit(s), Blank(s, pc[s])
  PROVE  LifecycleInv'
<1>1. record[s] = NoRecord
  BY DEF LifecycleInv, CommandInv
<1> QED BY <1>1, QuitInv DEF NoRecord

LEMMA Same ==
  ASSUME LifecycleInv, NEW s \in Session
  PROVE  /\ out = [out EXCEPT ![s] = out[s]] /\ out[s] \in Outputs /\ infra \in Outputs
         /\ images \subseteq Tool \union Session \union {NoTool}
         /\ pc[s] \in Steps(opt[s].kind)
         /\ opt[s].kind \in Scan \union {"deploy", "destroy", "recover"}
BY Kinds DEF LifecycleInv, LifecycleTypeOK, CommandInv

LEMMA SetupInv ==
  ASSUME LifecycleInv, NEW s \in Session, Preflight(s) \/ Setup(s)
  PROVE  LifecycleInv'
<1> USE DEF At, site
<1>1. CASE Preflight(s)
  <2> DEFINE l == CASE opt[s].kind = "deploy" -> "apply"
                    [] opt[s].kind = "recover" -> "recover"
                    [] opt[s].kind = "destroy" -> "destroy"
                    [] OTHER -> "setup"
  <2>1. CASE Goto(s, l) /\ UNCHANGED <<site, out, run, record>>
    <3>1. /\ l \in Label /\ l \in Steps(opt[s].kind) /\ l \in Taskless \union {"destroy"}
          /\ (l = "destroy" => opt[s].kind \notin Scan)
      BY Same DEF Label, Steps, Deploying, Taskless, Unrecorded, Scan
    <3>2. pc[s] \in Taskless /\ Blank(s, pc[s])
      BY <1>1 DEF Preflight, Taskless, Unrecorded, Blank
    <3> HIDE DEF l
    <3> QED BY <1>1, <2>1, <3>1, <3>2, Same, MoveInv DEF Preflight
  <2>2. CASE Quit(s)
    BY <1>1, <2>2, QuitBlank DEF Preflight, Blank, Unrecorded
  <2> QED BY <1>1, <2>1, <2>2 DEF Preflight
<1>2. CASE Setup(s)
  <2>0. /\ pc[s] = "setup" /\ pc[s] \in Taskless /\ Blank(s, pc[s]) /\ UNCHANGED <<cloud, opt>>
    BY <1>2 DEF Setup, Taskless, Unrecorded, Blank
  <2>1. opt[s].kind \in Scan
    BY <2>0, Same DEF Steps, Deploying
  <2> DEFINE l == After(s, "setup")
  <2>2. CASE out' = [out EXCEPT ![s] = infra] /\ Goto(s, l) /\ UNCHANGED <<site, run, record>>
    <3>1. l \in Label /\ l \in Steps(opt[s].kind) /\ l \in Taskless /\ l # "destroy"
      BY <2>1 DEF After, NmapOrder, GenericOrder, Label, Steps, Taskless, Unrecorded, Scan
    <3> HIDE DEF l
    <3> QED BY <2>0, <2>2, <3>1, Same, MoveInv
  <2>3. CASE Goto(s, "apply") /\ UNCHANGED <<site, out, run, record>>
    <3>1. "apply" \in Label /\ "apply" \in Steps(opt[s].kind) /\ "apply" \in Taskless
      BY <2>1 DEF Label, Steps, Taskless, Unrecorded, Deploying, Scan
    <3> QED BY <2>0, <2>3, <3>1, Same, MoveInv
  <2>4. CASE Quit(s)
    BY <2>0, <2>4, QuitBlank
  <2> QED BY <1>2, <2>2, <2>3, <2>4 DEF Setup, Reuse
<1> QED BY <1>1, <1>2

(* Storage that is deployed keeps its place; storage made anew is nobody's. *)
LEMMA AppliedBucket ==
  ASSUME LifecycleTypeOK, NEW s \in Session, Room
  PROVE  /\ Applied(s) \in Outputs
         /\ \A t \in Session : Applied(s).bucket = infra.bucket \/ Applied(s).bucket # out[t].bucket
<1>0. /\ infra \in Outputs /\ out \in [Session -> Outputs] /\ MaxBuckets \in Nat \ {0}
  BY LifecycleAssumption DEF LifecycleTypeOK
<1> DEFINE Used == {out[t].bucket : t \in Session} \union {0}
           fresh == CHOOSE n \in Bucket : \A b \in Used : n > b
<1>1. opt[s].tool \in Tool /\ Tag(s) \in Tool \union Session
  BY Kinds DEF Tag
<1>2. ASSUME infra.bucket = 0
      PROVE  fresh \in Bucket /\ \A b \in Used : fresh > b
  <2>1. MaxBuckets \in Bucket /\ \A b \in Used : MaxBuckets > b
    BY <1>0, <1>2 DEF Room, Bucket
  <2> HIDE DEF Used
  <2> QED BY <2>1
<1>3. infra.bucket \in Bucket /\ \A t \in Session : out[t].bucket \in Bucket
  BY <1>0 DEF Outputs
<1>4. Applied(s) = [there |-> TRUE, whole |-> TRUE, tool |-> opt[s].tool, tag |-> Tag(s),
                    bucket |-> IF infra.bucket # 0 THEN infra.bucket ELSE fresh]
  BY DEF Applied
<1> HIDE DEF fresh
<1>5. Applied(s).bucket \in Bucket
  BY <1>2, <1>3, <1>4
<1>6. Applied(s) \in Outputs
  BY <1>1, <1>4, <1>5 DEF Outputs
<1>7. ASSUME NEW t \in Session
      PROVE  Applied(s).bucket = infra.bucket \/ Applied(s).bucket # out[t].bucket
  <2>1. infra.bucket = 0 => fresh > out[t].bucket
    BY <1>2
  <2> QED BY <1>2, <1>3, <1>4, <2>1 DEF Bucket
<1> QED BY <1>6, <1>7

LEMMA DeployInv ==
  ASSUME LifecycleInv, NEW s \in Session, Apply(s) \/ ReadOutputs(s) \/ Publish(s)
  PROVE  LifecycleInv'
<1> USE DEF At, site
<1>0. /\ pc[s] \in Deploying /\ pc[s] \in Taskless /\ Blank(s, pc[s]) /\ UNCHANGED <<cloud, opt>>
  BY DEF Apply, ReadOutputs, Publish, Deploying, Taskless, Unrecorded, Blank
<1>1. opt[s].kind \in Scan \union {"deploy", "recover"} /\ Deploying \subseteq Steps(opt[s].kind)
  BY <1>0, Same DEF Steps, Deploying, Scan, Label
<1>2. record[s] = NoRecord /\ record[s].phase = "none"
  BY <1>0 DEF LifecycleInv, CommandInv, NoRecord
<1>3. LifecycleTypeOK
  BY DEF LifecycleInv
<1>4. CASE Quit(s)
  BY <1>0, <1>4, QuitBlank
<1>5. ASSUME Room, infra' = Applied(s), Goto(s, "outputs"),
             images' = IF Renamed(s) THEN {} ELSE images,
             UNCHANGED <<queue, results, workers, left, out, run, record>>
      PROVE  LifecycleInv'
  <2>1. "outputs" \in Label /\ "outputs" \in Steps(opt[s].kind) /\ "outputs" \in Unrecorded
    BY <1>1 DEF Label, Deploying, Unrecorded
  <2>2. /\ queue[s] = 0 /\ stored[s] = 0 /\ queue = [queue EXCEPT ![s] = 0] /\ 0 \in 0..Tasks
        /\ record = [record EXCEPT ![s] = NoRecord] /\ NoRecord \in Honest(s)
        /\ workers \subseteq Session /\ left \subseteq Tool \union {Template}
    BY <1>0, <1>2, <1>3, Kinds DEF LifecycleInv, CommandInv, LifecycleTypeOK
  <2>3. images' \subseteq Tool \union Session \union {NoTool}
    BY <1>5, Same
  <2>4. pc[s] \notin Final \union {"killed"}
    BY <1>0 DEF Deploying, Final
  <2>5. 0 + stored[s] <= Tasks
    BY <2>2, Kinds, <1>3
  <2> QED BY <1>0, <1>3, <1>5, <2>1, <2>2, <2>3, <2>4, <2>5, Same, AppliedBucket, AdvanceInv
<1>6. ASSUME Room, NEW whole \in BOOLEAN, infra' = [Applied(s) EXCEPT !.whole = whole],
             images' = IF Renamed(s) THEN {} ELSE images, Exit(s, "error"),
             UNCHANGED <<queue, results, workers, left, out, record>>
      PROVE  LifecycleInv'
  <2>1. infra' \in Outputs /\ infra'.bucket = Applied(s).bucket
    BY <1>3, <1>6, AppliedBucket DEF Outputs
  <2>2. images' \subseteq Tool \union Session \union {NoTool}
    BY <1>6, Same
  <2> QED BY <1>0, <1>2, <1>3, <1>6, <2>1, <2>2, AppliedBucket, ExitInv
<1>7. CASE out' = [out EXCEPT ![s] = infra] /\ Goto(s, "publish") /\ UNCHANGED <<site, run, record>>
  <2>1. /\ "publish" \in Label /\ "publish" \in Steps(opt[s].kind) /\ "publish" \in Taskless
    BY <1>1 DEF Label, Deploying, Taskless, Unrecorded
  <2> QED BY <1>0, <1>7, <2>1, Same, MoveInv
<1>8. CASE /\ images' = images \union {out[s].tag} /\ pc[s] = "publish"
           /\ UNCHANGED <<infra, queue, results, workers, left, out, record>>
           /\ IF opt[s].kind = "deploy" THEN Exit(s, "ok")
              ELSE Goto(s, IF opt[s].kind = "recover" THEN "restore" ELSE After(s, "setup"))
                   /\ UNCHANGED run
  <2>1. images' \subseteq Tool \union Session \union {NoTool}
    BY <1>8, Same DEF Outputs
  <2>2. CASE opt[s].kind = "deploy"
    BY <1>0, <1>2, <1>8, <2>1, <2>2, Same, ExitInv DEF Scan
  <2>3. CASE opt[s].kind # "deploy"
    <3> DEFINE l == IF opt[s].kind = "recover" THEN "restore" ELSE After(s, "setup")
    <3>1. l \in Label /\ l \in Steps(opt[s].kind) /\ l \in Taskless /\ l # "destroy"
      BY <1>1, <2>3 DEF After, NmapOrder, GenericOrder, Label, Steps, Taskless, Unrecorded, Scan
    <3>2. Goto(s, l) /\ UNCHANGED run
      BY <1>8, <2>3
    <3> HIDE DEF l
    <3> QED BY <1>0, <1>8, <2>1, <3>1, <3>2, Same, MoveInv
  <2> QED BY <2>2, <2>3
<1> QED BY <1>4, <1>5, <1>6, <1>7, <1>8 DEF Apply, ReadOutputs, Publish

LEMMA RecoverInv ==
  ASSUME LifecycleInv, NEW s \in Session, Recover(s) \/ Restore(s)
  PROVE  LifecycleInv'
<1> USE DEF At, site
<1>0. /\ pc[s] \in {"recover", "restore"} /\ pc[s] \in Taskless /\ Blank(s, pc[s])
      /\ UNCHANGED <<cloud, opt, site, out, record>>
  BY DEF Recover, Restore, Taskless, Unrecorded, Blank
<1>1. opt[s].kind = "recover"
  BY <1>0, Same DEF Steps, Deploying, Scan
<1>2. ASSUME NEW step \in RecoveryActions(s), Goto(s, step), UNCHANGED run
      PROVE  LifecycleInv'
  <2>1. step \in Label /\ step \in Steps(opt[s].kind) /\ step \in Taskless /\ step # "destroy"
    BY <1>1 DEF RecoveryActions, Label, Steps, Deploying, Taskless, Unrecorded
  <2> QED BY <1>0, <1>2, <2>1, Same, MoveInv
<1>3. ASSUME NEW code \in {"ok", "error"}, Exit(s, code)
      PROVE  LifecycleInv'
  <2>1. record[s].phase = "none"
    BY <1>0 DEF LifecycleInv, CommandInv, NoRecord
  <2> QED BY <1>0, <1>1, <1>3, <2>1, Same, ExitInv DEF Scan
<1> QED BY <1>2, <1>3 DEF Recover, Restore

(* What the updates of a record make of it, whether written or not. *)
LEMMA RecordSteps ==
  ASSUME NEW s \in Session, NEW phase \in Phase, phase # "complete",
         NEW recs, recs \subseteq Honest(s), Tasks \in Nat \ {0}
  PROVE  /\ UpdatePhase(s, recs, phase) \subseteq Honest(s)
         /\ UpdateTotal(s, recs) \subseteq Honest(s)
<1>1. ASSUME NEW r \in Honest(s) PROVE SetPhase(r, phase) \in Honest(s)
  BY DEF Honest, Record, SetPhase
<1>2. ASSUME NEW r \in Honest(s) PROVE SetTotal(r) \in Honest(s)
  BY DEF Honest, Record, SetTotal
<1>3. Unwritten(s, recs) \subseteq Honest(s)
  BY DEF Unwritten
<1> QED BY <1>1, <1>2, <1>3 DEF UpdatePhase, UpdateTotal

LEMMA OwnRecord ==
  ASSUME LifecycleInv, NEW s \in Session
  PROVE  {record[s]} \subseteq Honest(s) /\ Tasks \in Nat \ {0}
BY LifecycleAssumption DEF LifecycleInv, CommandInv

(* Steps of the scan that neither send nor start anything.                 *)
LEMMA RecordInv ==
  ASSUME LifecycleInv, NEW s \in Session, UNCHANGED <<cloud, opt, site, out, run>>,
         pc[s] \in {"record", "plan", "upload"},
         NEW l \in {"provider", "plan", "upload", "enqueue"}, Goto(s, l), l \in Steps(opt[s].kind),
         ~Blank(s, l),
         NEW r \in Honest(s), record' = [record EXCEPT ![s] = r]
  PROVE  LifecycleInv'
<1>1. /\ pc[s] \in Taskless /\ pc[s] \notin Final \union {"killed"} /\ l \in Label
      /\ l \notin {"export", "ended", "killed", "destroy"}
  BY DEF Taskless, Unrecorded, Final, Label
<1>2. /\ queue[s] = 0 /\ stored[s] = 0 /\ queue = [queue EXCEPT ![s] = 0] /\ 0 \in 0..Tasks
      /\ 0 + stored[s] <= Tasks
      /\ workers \subseteq Session /\ left \subseteq Tool \union {Template}
  BY <1>1, Kinds DEF LifecycleInv, CommandInv, LifecycleTypeOK
<1> QED BY <1>1, <1>2, Same, AdvanceInv DEF site

LEMMA StopInv ==
  ASSUME LifecycleInv, NEW s \in Session, UNCHANGED <<cloud, opt>>, Stop(s),
         pc[s] \in {"provider", "plan", "upload"}
  PROVE  LifecycleInv'
<1>1. pc[s] \in Taskless
  BY DEF Taskless
<1>2. /\ queue[s] = 0 /\ stored[s] = 0 /\ queue = [queue EXCEPT ![s] = 0] /\ 0 \in 0..Tasks
      /\ 0 + stored[s] <= Tasks
      /\ workers \subseteq Session /\ left \subseteq Tool \union {Template}
  BY <1>1, Kinds DEF LifecycleInv, CommandInv, LifecycleTypeOK
<1> QED BY <1>2, OverInv DEF Stop, site

LEMMA PrepareInv ==
  ASSUME LifecycleInv, NEW s \in Session, BuildProvider(s) \/ CreateJobRecord(s)
  PROVE  LifecycleInv'
<1> USE DEF At
<1>0. pc[s] \in {"provider", "record"} /\ pc[s] \in Taskless /\ UNCHANGED <<cloud, opt>>
  BY DEF BuildProvider, CreateJobRecord, Taskless, Unrecorded
<1>1. opt[s].kind \in Scan
  BY <1>0, Same DEF Steps, Deploying
<1>2. CASE BuildProvider(s)
  <2> DEFINE l == After(s, "provider")
  <2>1. CASE Goto(s, l) /\ UNCHANGED <<site, out, run, record>>
    <3>1. l \in Label /\ l \in Steps(opt[s].kind) /\ l \in Taskless /\ l # "destroy"
      BY <1>1 DEF After, NmapOrder, GenericOrder, Label, Steps, Taskless, Unrecorded, Scan
    <3>2. Blank(s, l) => Blank(s, pc[s])
      BY <1>1, <1>2 DEF BuildProvider, After, NmapOrder, GenericOrder, Blank, Unrecorded, Deploying
    <3> HIDE DEF l
    <3> QED BY <1>0, <2>1, <3>1, <3>2, Same, MoveInv DEF site
  <2>2. CASE opt[s].kind = "nmap" /\ Stop(s)
    BY <1>0, <1>2, <2>2, StopInv DEF BuildProvider
  <2>3. CASE opt[s].kind # "nmap" /\ Quit(s)
    BY <1>0, <1>2, <2>3, QuitBlank DEF BuildProvider, Blank
  <2> QED BY <1>2, <2>1, <2>2, <2>3 DEF BuildProvider
<1>3. CASE CreateJobRecord(s)
  <2> DEFINE l == After(s, "record")
  <2>1. l \in {"provider", "plan", "upload", "enqueue"} /\ l \in Steps(opt[s].kind) /\ ~Blank(s, l)
    BY <1>1 DEF After, NmapOrder, GenericOrder, Label, Steps, Blank, Unrecorded, Deploying, Scan
  <2>2. PICK r \in Honest(s) : record' = [record EXCEPT ![s] = r]
    <3>1. CASE record' = [record EXCEPT ![s] =
                 [phase |-> "enqueuing", total |-> IF opt[s].kind = "nmap" THEN Tasks ELSE 0]]
      <4> DEFINE r == [phase |-> "enqueuing", total |-> IF opt[s].kind = "nmap" THEN Tasks ELSE 0]
      <4>1. r \in Honest(s)
        BY OwnRecord DEF Honest, Record, Phase
      <4> HIDE DEF r
      <4>2. record' = [record EXCEPT ![s] = r]
        BY <3>1 DEF r
      <4> QED BY <4>1, <4>2
    <3>2. CASE UNCHANGED record
      <4>1. record[s] \in Honest(s) /\ record' = [record EXCEPT ![s] = record[s]]
        BY <3>2, OwnRecord DEF LifecycleInv, LifecycleTypeOK
      <4> QED BY <4>1
    <3> QED BY <1>3, <3>1, <3>2 DEF CreateJobRecord
  <2>3. Goto(s, l) /\ UNCHANGED <<site, out, run>> /\ pc[s] = "record"
    BY <1>3 DEF CreateJobRecord
  <2> HIDE DEF l
  <2> QED BY <1>0, <2>1, <2>2, <2>3, RecordInv
<1> QED BY <1>2, <1>3

LEMMA PlanInv ==
  ASSUME LifecycleInv, NEW s \in Session,
         PlanFails(s) \/ TargetListScan(s) \/ WordlistScan(s) \/ UploadChunks(s)
  PROVE  LifecycleInv'
<1> USE DEF At
<1>0. pc[s] \in {"plan", "upload"} /\ UNCHANGED <<cloud, opt>>
  BY DEF PlanFails, TargetListScan, WordlistScan, UploadChunks
<1>1. opt[s].kind \in Scan
  BY <1>0, Same DEF Steps, Deploying
<1>2. /\ "upload" \in Steps(opt[s].kind) /\ "enqueue" \in Steps(opt[s].kind)
      /\ ~Blank(s, "upload") /\ ~Blank(s, "enqueue")
      /\ {"uploading", "enqueuing"} \subseteq Phase \ {"complete"}
  BY <1>1 DEF Steps, Blank, Unrecorded, Deploying, Scan, Label, Phase
<1>3. CASE Stop(s)
  BY <1>0, <1>3, StopInv
<1>4. ASSUME NEW l \in {"upload", "enqueue"}, Goto(s, l), UNCHANGED <<site, out, run>>,
             NEW recs, recs \subseteq Honest(s), Store(s, recs)
      PROVE  LifecycleInv'
  <2>1. PICK r \in Honest(s) : record' = [record EXCEPT ![s] = r]
    BY <1>4 DEF Store
  <2> QED BY <1>0, <1>2, <1>4, <2>1, RecordInv
<1>5. ASSUME NEW recs, recs \subseteq Honest(s), NEW phase \in {"uploading", "enqueuing"}
      PROVE  UpdatePhase(s, recs, phase) \subseteq Honest(s) /\ UpdateTotal(s, recs) \subseteq Honest(s)
  BY <1>2, <1>5, OwnRecord, RecordSteps
<1>6. {record[s]} \subseteq Honest(s)
  BY OwnRecord
<1>7. CASE TargetListScan(s)
  <2>1. UpdatePhase(s, UpdateTotal(s, {record[s]}), "enqueuing") \subseteq Honest(s)
    BY <1>5, <1>6
  <2>2. UpdatePhase(s, {record[s]}, "uploading") \subseteq Honest(s)
    BY <1>5, <1>6
  <2> QED BY <1>4, <1>7, <2>1, <2>2 DEF TargetListScan
<1>8. CASE WordlistScan(s)
  <2>1. UpdateTotal(s, UpdatePhase(s, {record[s]}, "uploading")) \subseteq Honest(s)
    BY <1>5, <1>6
  <2> QED BY <1>4, <1>8, <2>1 DEF WordlistScan
<1>9. CASE UploadChunks(s)
  <2> DEFINE counted == IF opt[s].kind = "chunks" THEN UpdateTotal(s, {record[s]}) ELSE {record[s]}
  <2>1. counted \subseteq Honest(s)
    BY <1>5, <1>6
  <2>2. UpdatePhase(s, counted, "enqueuing") \subseteq Honest(s)
    <3> HIDE DEF counted
    <3> QED BY <1>5, <2>1
  <2> QED BY <1>3, <1>4, <1>9, <2>2 DEF UploadChunks
<1> QED BY <1>3, <1>7, <1>8, <1>9 DEF PlanFails

LEMMA EnqueueInv ==
  ASSUME LifecycleInv, NEW s \in Session, EnqueueTasks(s)
  PROVE  LifecycleInv'
<1> USE DEF At
<1>0. pc[s] = "enqueue" /\ pc[s] \in Taskless /\ UNCHANGED <<cloud, opt>>
  BY DEF EnqueueTasks, Taskless
<1>1. opt[s].kind \in Scan
  BY <1>0, Same DEF Steps, Deploying
<1>2. /\ queue \in [Session -> 0..Tasks] /\ stored[s] = 0 /\ Tasks \in Nat
      /\ workers \subseteq Session /\ left \subseteq Tool \union {Template}
  BY <1>0, Kinds DEF LifecycleInv, CommandInv, LifecycleTypeOK
<1>3. CASE /\ queue' = [queue EXCEPT ![s] = Tasks]
           /\ Goto(s, "launch") /\ Store(s, UpdatePhase(s, {record[s]}, "launching"))
           /\ UNCHANGED <<infra, images, results, workers, left, out, run>>
  <2>1. "launching" \in Phase /\ "launching" # "complete"
    BY DEF Phase
  <2>2. PICK r \in Honest(s) : record' = [record EXCEPT ![s] = r]
    BY <1>3, <2>1, OwnRecord, RecordSteps DEF Store
  <2>3. /\ "launch" \in Label /\ "launch" \in Steps(opt[s].kind) /\ ~Blank(s, "launch")
        /\ "launch" \notin Taskless /\ "launch" \notin {"export", "ended", "killed", "destroy"}
        /\ pc[s] \notin Final \union {"killed"}
    BY <1>0, <1>1 DEF Label, Steps, Blank, Taskless, Unrecorded, Deploying, Scan, Final
  <2>4. Tasks \in 0..Tasks /\ Tasks + stored[s] <= Tasks
    BY <1>2
  <2> QED BY <1>0, <1>1, <1>2, <1>3, <2>2, <2>3, <2>4, Same, AdvanceInv
<1>4. ASSUME NEW n \in 0..Tasks, queue' = [queue EXCEPT ![s] = n], Over(s, FALSE, TRUE),
             UNCHANGED <<infra, images, results, workers, left, out>>
      PROVE  LifecycleInv'
  <2>1. n + stored[s] <= Tasks
    BY <1>2
  <2> QED BY <1>0, <1>2, <1>4, <2>1, OverInv
<1>5. CASE /\ \E n \in 0..(IF Reachable(s) THEN Tasks ELSE 0) : queue' = [queue EXCEPT ![s] = n]
           /\ Over(s, FALSE, TRUE)
           /\ UNCHANGED <<infra, images, results, workers, left, out>>
  <2>1. PICK n \in 0..(IF Reachable(s) THEN Tasks ELSE 0) : queue' = [queue EXCEPT ![s] = n]
    BY <1>5
  <2>2. n \in 0..Tasks
    BY <1>2, <2>1
  <2> QED BY <1>4, <1>5, <2>1, <2>2
<1> QED BY <1>3, <1>5 DEF EnqueueTasks

LEMMA LaunchInv ==
  ASSUME LifecycleInv, NEW s \in Session, LaunchWorkers(s)
  PROVE  LifecycleInv'
<1>0. /\ pc[s] = "launch" /\ UNCHANGED <<cloud, opt, infra, images, queue, results, out>>
  BY DEF LaunchWorkers, At
<1>1. opt[s].kind \in Scan
  BY <1>0, Same DEF Steps, Deploying
<1>2. /\ queue = [queue EXCEPT ![s] = queue[s]] /\ queue[s] \in 0..Tasks
      /\ queue[s] + stored[s] <= Tasks /\ opt[s].tool \in Tool
      /\ workers \subseteq Session /\ left \subseteq Tool \union {Template}
  BY Kinds DEF LifecycleInv, CommandInv, LifecycleTypeOK
<1>3. /\ workers' \subseteq Session /\ left' \subseteq Tool \union {Template}
      /\ \E failed \in BOOLEAN : LaunchOver(s, failed)
  <2>1. CASE UseFleet(s)
    BY <1>2, <2>1 DEF UseFleet
  <2>2. CASE RunFargate(s)
    BY <1>2, <2>2 DEF RunFargate, Started
  <2>3. CASE RunSpotInstances(s)
    BY <1>2, <2>3 DEF RunSpotInstances, Started
  <2>4. CASE RunDocker(s)
    BY <1>2, <2>4 DEF RunDocker
  <2> QED BY <2>1, <2>2, <2>3, <2>4 DEF LaunchWorkers
<1>4. PICK failed \in BOOLEAN : LaunchOver(s, failed)
  BY <1>3
<1>5. CASE failed
  <2>1. Over(s, FALSE, TRUE)
    BY <1>4, <1>5 DEF LaunchOver
  <2> QED BY <1>0, <1>2, <1>3, <2>1, OverInv
<1>6. CASE ~failed
  <2>1. Goto(s, "poll") /\ Store(s, UpdatePhase(s, {record[s]}, "scanning")) /\ UNCHANGED run
    BY <1>4, <1>6 DEF LaunchOver
  <2>2. "scanning" \in Phase /\ "scanning" # "complete"
    BY DEF Phase
  <2>3. PICK r \in Honest(s) : record' = [record EXCEPT ![s] = r]
    BY <2>1, <2>2, OwnRecord, RecordSteps DEF Store
  <2>4. /\ "poll" \in Label /\ "poll" \in Steps(opt[s].kind) /\ ~Blank(s, "poll")
        /\ "poll" \notin Taskless /\ "poll" \notin {"export", "ended", "killed", "destroy"}
        /\ pc[s] \notin Final \union {"killed"}
    BY <1>0, <1>1 DEF Label, Steps, Blank, Taskless, Unrecorded, Deploying, Scan, Final
  <2> QED BY <1>0, <1>1, <1>2, <1>3, <2>1, <2>3, <2>4, Same, AdvanceInv
<1> QED BY <1>5, <1>6

LEMMA PollInv ==
  ASSUME LifecycleInv, NEW s \in Session, PollAndRender(s)
  PROVE  LifecycleInv'
<1>1. /\ pc[s] = "poll" /\ UNCHANGED <<cloud, opt, site, out>> /\ stored[s] + extra[s] >= Tasks
      /\ \E failed \in BOOLEAN : Over(s, TRUE, failed)
  BY DEF PollAndRender, At, Enough, Count
<1>2. /\ queue = [queue EXCEPT ![s] = queue[s]] /\ queue[s] \in 0..Tasks
      /\ queue[s] + stored[s] <= Tasks /\ stored[s] \in 0..Tasks /\ Tasks \in Nat
      /\ extra[s] \in 0..MaxCopies /\ MaxCopies \in Nat
      /\ (stored[s] = Tasks => s \in reached) /\ (extra[s] > 0 => s \in again)
      /\ workers \subseteq Session /\ left \subseteq Tool \union {Template}
  BY Kinds, LifecycleAssumption DEF LifecycleInv, CommandInv, LifecycleTypeOK
<1>3. AllOf(s, stored[s]) /\ s \in reached \union again
  BY <1>1, <1>2 DEF AllOf
<1> QED BY <1>1, <1>2, <1>3, OverInv DEF site

(* A task that is run moves from the queue to the results, unless a worker *)
(* of another tool has taken it or its deliveries are used up.             *)
LEMMA WorkersInv ==
  ASSUME LifecycleInv, WorkerStep \/ \E s \in Session : RunAgain(s) \/ WorkersLeave(s)
  PROVE  LifecycleInv'
<1>0. /\ queue \in [Session -> 0..Tasks] /\ stored \in [Session -> 0..Tasks] /\ LifecycleTypeOK
      /\ \A t \in Session : CommandInv(t)
  BY DEF LifecycleInv, LifecycleTypeOK
<1>1. ASSUME NEW s \in Session, WorkersLeave(s)
      PROVE  LifecycleInv'
  <2>1. \A t \in Session : Seen(t)
    BY <1>1 DEF WorkersLeave, Seen
  <2>2. LifecycleTypeOK'
    BY <1>0, <1>1 DEF WorkersLeave, LifecycleTypeOK
  <2> QED BY <2>1, <2>2, SeenInv DEF LifecycleInv
<1>2. ASSUME NEW tool \in Running, NEW s \in Session, RunTask(tool, s)
      PROVE  LifecycleInv'
  <2>1. /\ queue[s] \in 1..Tasks /\ queue[s] + stored[s] <= Tasks /\ stored[s] \in Nat /\ Tasks \in Nat \ {0}
        /\ (stored[s] = Tasks => s \in reached)
    BY <1>0, <1>2, Kinds DEF RunTask, CommandInv
  <2>2. /\ queue' \in [Session -> 0..Tasks] /\ queue'[s] = queue[s] - 1
        /\ stored' \in [Session -> 0..Tasks] /\ stored'[s] \in {stored[s], stored[s] + 1}
        /\ (stored'[s] = Tasks => s \in reached') /\ reached \subseteq reached' /\ reached' \subseteq reached \union {s}
        /\ UNCHANGED <<cloud, opt, infra, images, extra, again, workers, left, pc, out, run, record>>
    <3>1. PICK n \in 0..1 : stored' = [stored EXCEPT ![s] = @ + n]
      <4>1. (tool = opt[s].tool \/ tool # opt[s].tool) /\ 0 \in 0..1 /\ \A n \in 0..0 : n \in 0..1
        OBVIOUS
      <4> QED BY <1>2, <4>1 DEF RunTask
    <3>2. stored[s] + n \in 0..Tasks /\ stored[s] + n \in {stored[s], stored[s] + 1}
      BY <1>2, <2>1, <3>1 DEF RunTask
    <3> QED BY <1>0, <1>2, <2>1, <3>1, <3>2 DEF RunTask
  <2>3. LifecycleTypeOK'
    BY <1>0, <2>2 DEF LifecycleTypeOK
  <2>4. CommandInv(s)'
    <3>1. pc[s] \notin Taskless /\ opt[s].kind \in Scan
      BY <1>0, <2>1 DEF CommandInv
    <3>2. Delivery(s) => Delivery(s)'
      BY <2>1, <2>2 DEF Delivery, Reachable, AllOf
    <3>3. (record[s] \in Honest(s) => record'[s] \in Honest(s)') /\ UNCHANGED Verdict(s)
      BY <2>2 DEF Honest, Verdict
    <3> QED BY <1>0, <2>1, <2>2, <3>1, <3>2, <3>3 DEF CommandInv, Blank
  <2>5. ASSUME NEW t \in Session \ {s} PROVE CommandInv(t)'
    <3>1. UNCHANGED <<queue[t], stored[t]>> /\ (t \in reached <=> t \in reached')
      BY <1>0, <1>2, <2>2 DEF RunTask
    <3>2. Delivery(t) => Delivery(t)'
      BY <2>2, <3>1 DEF Delivery, Reachable, AllOf
    <3>3. (record[t] \in Honest(t) => record'[t] \in Honest(t)') /\ UNCHANGED Verdict(t)
      BY <2>2 DEF Honest, Verdict
    <3> QED BY <1>0, <2>2, <3>1, <3>2, <3>3 DEF CommandInv, Blank
  <2> QED BY <2>3, <2>4, <2>5 DEF LifecycleInv
<1>3. ASSUME NEW s \in Session, RunAgain(s)
      PROVE  LifecycleInv'
  <2>1. /\ extra \in [Session -> 0..MaxCopies] /\ extra[s] < MaxCopies /\ MaxCopies \in Nat
        /\ again \subseteq Session
    BY <1>0, <1>3, LifecycleAssumption DEF RunAgain, LifecycleTypeOK
  <2>2. /\ extra' \in [Session -> 0..MaxCopies] /\ again' = again \union {s}
        /\ \A t \in Session \ {s} : extra'[t] = extra[t]
        /\ UNCHANGED <<cloud, opt, infra, images, queue, stored, reached, workers, left, pc, out, run, record>>
    BY <1>3, <2>1 DEF RunAgain
  <2>3. LifecycleTypeOK'
    BY <1>0, <2>1, <2>2 DEF LifecycleTypeOK
  <2>4. ASSUME NEW t \in Session PROVE CommandInv(t)'
    <3>1. extra'[t] > 0 => t \in again \/ t = s
      BY <1>0, <2>2 DEF CommandInv
    <3>2. Delivery(t) => Delivery(t)'
      BY <2>2 DEF Delivery, Reachable, AllOf
    <3>3. (record[t] \in Honest(t) => record'[t] \in Honest(t)') /\ UNCHANGED Verdict(t)
      BY <2>2 DEF Honest, Verdict
    <3> QED BY <1>0, <2>2, <3>1, <3>2, <3>3 DEF CommandInv, Blank
  <2> QED BY <2>3, <2>4 DEF LifecycleInv
<1> QED BY <1>1, <1>2, <1>3 DEF WorkerStep

(* Finalize exports what is due, and stops when that fails. *)
LEMMA ExportInv ==
  ASSUME LifecycleInv, NEW s \in Session, Export(s)
  PROVE  LifecycleInv'
<1>0. /\ pc[s] = "export" /\ UNCHANGED <<cloud, opt>>
      /\ pc \in [Session -> Label] /\ run \in [Session -> Run] /\ stored \in [Session -> 0..Tasks]
      /\ CommandInv(s) /\ LifecycleTypeOK
  BY DEF Export, At, LifecycleInv, LifecycleTypeOK
<1>1. opt[s].kind \in Scan /\ (run[s].saved => record[s].phase \in {"none", Verdict(s)})
  BY <1>0, Same DEF CommandInv, Steps, Deploying, Final
<1>2. CASE Quit(s)
  BY <1>0, <1>1, <1>2, QuitInv
<1>3. ASSUME NEW n \in 0..Tasks, run' = [run EXCEPT ![s].exported = n], Goto(s, "destroy"),
             UNCHANGED <<site, out, record>>,
             ~run[s].err /\ opt[s].outDir => AllOf(s, n)
      PROVE  LifecycleInv'
  <2>1. pc' \in [Session -> Label] /\ pc'[s] = "destroy"
    BY <1>0, <1>3 DEF Goto, Label
  <2>2. /\ run' \in [Session -> Run] /\ run'[s].exported = n /\ run'[s].exit = run[s].exit
        /\ run'[s].started = run[s].started /\ run'[s].err = run[s].err /\ run'[s].saved = run[s].saved
    BY <1>0, <1>3 DEF Run
  <2>3. LifecycleTypeOK'
    BY <1>0, <1>3, <2>1, <2>2 DEF LifecycleTypeOK, site
  <2>4. run[s].exit = "none"
    BY <1>0 DEF CommandInv, LifecycleTypeOK, Run
  <2>5. ~run[s].err => Delivery(s)'
    <3>1. Reachable(s)' => Reachable(s) /\ UNCHANGED stored
      BY <1>3 DEF Reachable, site
    <3> QED BY <1>0, <1>1, <1>3, <2>1, <2>2, <2>4, <3>1 DEF CommandInv, Delivery, AllOf, site
  <2>6. CommandInv(s)'
    <3>1. "destroy" \in Steps(opt[s].kind) /\ "destroy" \in Final /\ "destroy" \notin Taskless \union Unrecorded
      BY <1>1 DEF Steps, Scan, Label, Final, Taskless, Unrecorded, Deploying
    <3>2. pc[s] \notin Taskless /\ UNCHANGED <<queue, results>>
      BY <1>0, <1>3 DEF Taskless, Unrecorded, Deploying, site
    <3>3. UNCHANGED <<Honest(s), Verdict(s)>>
      BY <2>2, <3>2 DEF Honest, Verdict
    <3> QED BY <1>0, <1>1, <1>3, <2>1, <2>2, <2>4, <2>5, <3>1, <3>2, <3>3 DEF CommandInv, Blank
  <2>7. \A t \in Session \ {s} : Seen(t)
    BY <1>0, <1>3 DEF Seen, Goto, site
  <2> QED BY <2>3, <2>6, <2>7, SeenInv DEF LifecycleInv
<1>4. CASE /\ ExportDue(s)
           /\ \E n \in Download(s) : run' = [run EXCEPT ![s].exported = n]
           /\ Goto(s, "destroy") /\ UNCHANGED <<site, out, record>>
  <2>1. Reachable(s) /\ run' = [run EXCEPT ![s].exported = stored[s]]
    BY <1>4 DEF Download
  <2>2. AllOf(s, stored[s]) /\ stored[s] \in 0..Tasks
    BY <1>0, <1>1, <1>4, <2>1 DEF CommandInv, Delivery, ExportDue
  <2> QED BY <1>3, <1>4, <2>1, <2>2
<1>5. CASE ~ExportDue(s) /\ Goto(s, "destroy") /\ UNCHANGED <<site, out, run, record>>
  <2>1. run[s] \in Run /\ run[s].exported \in 0..Tasks
    BY <1>0 DEF Run
  <2>2. run' = [run EXCEPT ![s].exported = run[s].exported]
    BY <1>0, <1>5, <2>1 DEF Run
  <2>3. run[s].err \/ ~opt[s].outDir
    BY <1>0, <1>1, <1>5 DEF CommandInv, ExportDue
  <2> QED BY <1>3, <1>5, <2>1, <2>2, <2>3
<1> QED BY <1>2, <1>4, <1>5 DEF Export

(* What a destroy leaves: nothing that can be reached any more, or all of  *)
(* it, and then the command has failed or had nothing to destroy.          *)
LEMMA DestroyInv ==
  ASSUME LifecycleInv, NEW s \in Session, Destroy(s)
  PROVE  LifecycleInv'
<1>0. /\ pc[s] = "destroy" /\ UNCHANGED <<cloud, opt, out, record>>
      /\ pc \in [Session -> Label] /\ run \in [Session -> Run] /\ infra \in Outputs
      /\ CommandInv(s) /\ LifecycleTypeOK
  BY DEF Destroy, At, LifecycleInv, LifecycleTypeOK
<1>1. Tasks \in Nat \ {0} /\ MaxBuckets \in Nat
  BY LifecycleAssumption
<1>2. /\ Absent \in Outputs /\ Absent.bucket = 0
      /\ [infra EXCEPT !.whole = FALSE, !.bucket = 0] \in Outputs
      /\ [infra EXCEPT !.whole = FALSE, !.bucket = 0].bucket = 0
  <2>1. 0 \in Bucket
    BY <1>1 DEF Bucket
  <2>2. Absent \in Outputs /\ Absent.bucket = 0
    BY <2>1 DEF Absent, Outputs
  <2> DEFINE rest == [infra EXCEPT !.whole = FALSE, !.bucket = 0]
  <2>3. rest \in Outputs /\ rest.bucket = 0
    BY <1>0, <2>1 DEF Outputs
  <2> QED BY <2>2, <2>3
<1>3. PICK code \in {"ok", "error"} :
        /\ Exit(s, code) /\ (code = "ok" => ~run[s].err)
        /\ \/ Clear /\ infra' \in Outputs /\ infra'.bucket = 0
           \/ UNCHANGED site /\ (code = "ok" => ~DestroyDue(s))
  BY <1>0, <1>2 DEF Destroy, RunDestroy, Code
<1>4. /\ pc' \in [Session -> Label] /\ pc'[s] = "ended"
      /\ run' \in [Session -> Run] /\ run'[s].exit = code
      /\ run'[s].started = run[s].started /\ run'[s].err = run[s].err
      /\ run'[s].exported = run[s].exported /\ run'[s].saved = run[s].saved
  BY <1>0, <1>3 DEF Exit, Goto, Label, Run
<1>5. LifecycleTypeOK'
  BY <1>0, <1>1, <1>3, <1>4, LifecycleAssumption DEF LifecycleTypeOK, Clear, site
<1>6. opt[s].kind \in Scan /\ ~run[s].err => Delivery(s)'
  <2> SUFFICES ASSUME opt[s].kind \in Scan, ~run[s].err, code = "ok"
               PROVE  /\ opt[s].outDir => AllOf(s, run[s].exported)
                      /\ opt[s].destroyAfter /\ cloud # "manual" => ~Reachable(s)'
    BY <1>0, <1>3, <1>4 DEF Delivery, AllOf, Clear, site
  <2>1. opt[s].outDir => AllOf(s, run[s].exported)
    BY <1>0 DEF CommandInv, Delivery
  <2>2. run[s].started
    BY <1>0 DEF CommandInv
  <2>3. CASE infra'.bucket = 0
    BY <2>1, <2>3 DEF Reachable
  <2>4. CASE ~DestroyDue(s)
    BY <2>1, <2>2, <2>4 DEF DestroyDue
  <2> QED BY <1>3, <2>3, <2>4
<1>7. CommandInv(s)'
  <2>1. "ended" \in Final /\ "ended" \notin Taskless \union Unrecorded /\ "ended" \in Steps(opt[s].kind)
    BY DEF Final, Taskless, Unrecorded, Deploying, Steps
  <2>2. /\ queue'[s] + stored'[s] <= Tasks /\ (stored'[s] = Tasks => s \in reached')
        /\ (queue[s] = 0 /\ stored[s] = 0 => queue'[s] = 0 /\ stored'[s] = 0)
        /\ (extra'[s] > 0 => s \in again') /\ UNCHANGED <<reached, again>>
    BY <1>0, <1>1, <1>3 DEF Clear, site, CommandInv
  <2>3. run[s].saved => record[s].phase \in {"none", Verdict(s)}
    BY <1>0 DEF CommandInv, Final
  <2>4. run'[s].exit = "ok" => ~run'[s].err
    BY <1>3, <1>4
  <2>5. UNCHANGED <<Honest(s), Verdict(s)>>
    BY <1>4, <2>2 DEF Honest, Verdict
  <2> QED BY <1>0, <1>4, <1>6, <2>1, <2>2, <2>3, <2>4, <2>5 DEF CommandInv, Blank
<1>8. \A t \in Session \ {s} : Seen(t)
  BY <1>0, <1>3 DEF Seen, Exit, Goto, Clear, site
<1> QED BY <1>5, <1>7, <1>8, SeenInv DEF LifecycleInv

LEMMA KillInv ==
  ASSUME LifecycleInv, NEW s \in Session, Kill(s)
  PROVE  LifecycleInv'
<1>0. /\ pc \in [Session -> Label] /\ run \in [Session -> Run] /\ CommandInv(s) /\ LifecycleTypeOK
  BY DEF LifecycleInv, LifecycleTypeOK
<1>1. pc' \in [Session -> Label] /\ pc'[s] = "killed" /\ pc[s] # "ended"
  BY <1>0 DEF Kill, Goto, Label
<1>2. LifecycleTypeOK'
  BY <1>0, <1>1 DEF Kill, LifecycleTypeOK, site
<1>3. CommandInv(s)'
  <2>1. run[s].exit = "none"
    BY <1>0, <1>1 DEF CommandInv, Run
  <2>2. "killed" \in Steps(opt[s].kind) /\ "killed" \notin Final \union Taskless \union Unrecorded
    BY DEF Steps, Final, Taskless, Unrecorded, Deploying
  <2>3. UNCHANGED <<cloud, opt, site, out, run, record>>
    BY DEF Kill
  <2>4. Delivery(s)'
    BY <1>1, <2>1, <2>3 DEF Delivery
  <2>5. UNCHANGED <<Honest(s), Verdict(s)>>
    BY <2>3 DEF Honest, Verdict, site
  <2> QED BY <1>0, <1>1, <2>1, <2>2, <2>3, <2>4, <2>5 DEF CommandInv, Blank, site
<1>4. \A t \in Session \ {s} : Seen(t)
  BY <1>0 DEF Kill, Goto, Seen, site
<1> QED BY <1>2, <1>3, <1>4, SeenInv DEF LifecycleInv

LEMMA NextInv == LifecycleInv /\ [Next]_vars => LifecycleInv'
<1> SUFFICES ASSUME LifecycleInv, [Next]_vars PROVE LifecycleInv'
  OBVIOUS
<1>1. ASSUME NEW s \in Session, Step(s) PROVE LifecycleInv'
  <2>1. CASE Preflight(s) \/ Setup(s)
    BY <2>1, SetupInv
  <2>2. CASE Apply(s) \/ ReadOutputs(s) \/ Publish(s)
    BY <2>2, DeployInv
  <2>3. CASE Recover(s) \/ Restore(s)
    BY <2>3, RecoverInv
  <2>4. CASE BuildProvider(s) \/ CreateJobRecord(s)
    BY <2>4, PrepareInv
  <2>5. CASE PlanFails(s) \/ TargetListScan(s) \/ WordlistScan(s) \/ UploadChunks(s)
    BY <2>5, PlanInv
  <2>6. CASE EnqueueTasks(s)
    BY <2>6, EnqueueInv
  <2>7. CASE LaunchWorkers(s)
    BY <2>7, LaunchInv
  <2>8. CASE PollAndRender(s)
    BY <2>8, PollInv
  <2>9. CASE Export(s)
    BY <2>9, ExportInv
  <2>10. CASE Destroy(s)
    BY <2>10, DestroyInv
  <2> QED BY <1>1, <2>1, <2>2, <2>3, <2>4, <2>5, <2>6, <2>7, <2>8, <2>9, <2>10 DEF Step
<1>2. ASSUME NEW s \in Session, Kill(s) PROVE LifecycleInv'
  BY <1>2, KillInv
<1>3. CASE WorkerStep \/ \E s \in Session : RunAgain(s) \/ WorkersLeave(s)
  BY <1>3, WorkersInv
<1>4. CASE UNCHANGED vars
  BY <1>4, StutterInv
<1> QED BY <1>1, <1>2, <1>3, <1>4 DEF Next

(* The inductive invariant of the lifecycle. *)
THEOREM LifecycleInvariant == Spec => []LifecycleInv
BY InitInv, NextInv, PTL DEF Spec

(* Every variable keeps its type: in particular no deployment needs more   *)
(* storage than there was room for, and no count leaves 0..Tasks.          *)
THEOREM LifecycleTypes == Spec => []LifecycleTypeOK
<1>1. LifecycleInv => LifecycleTypeOK
  BY DEF LifecycleInv
<1> QED BY <1>1, LifecycleInvariant, PTL

(* heph status never shows "complete" before every task had a result, for  *)
(* a job none of whose tasks was stored twice, whatever writes of the      *)
(* record failed (buildSnapshot with record and count of any moment).      *)
THEOREM StatusIsHonest == Spec => []StatusHonest
<1>1. LifecycleInv => StatusHonest
  <2> SUFFICES ASSUME LifecycleInv, NEW s \in Session \ again, record[s].phase # "none",
                      Snapshot(record[s], Count(s)) = "complete"
               PROVE  s \in reached
    BY DEF StatusHonest
  <2>1. /\ stored[s] \in 0..Tasks /\ record[s].total \in {0, Tasks} /\ Tasks \in Nat \ {0}
        /\ (stored[s] = Tasks => s \in reached) /\ (record[s].phase = "complete" => s \in reached)
        /\ extra[s] \in 0..MaxCopies /\ ~(extra[s] > 0) /\ MaxCopies \in Nat
    BY Kinds, LifecycleAssumption DEF LifecycleInv, LifecycleTypeOK, CommandInv, Honest
  <2>2. Count(s) = stored[s]
    BY <2>1 DEF Count
  <2> QED BY <2>1, <2>2 DEF Snapshot
<1> QED BY <1>1, LifecycleInvariant, PTL

(* The record of a run that ended, and whose last write succeeded, says    *)
(* how it ended, whatever other calls and earlier writes failed.           *)
THEOREM EndedRunsAreRecorded == Spec => []EndedIsRecorded
<1>1. LifecycleInv => EndedIsRecorded
  BY DEF LifecycleInv, CommandInv, EndedIsRecorded, Final, Verdict
<1> QED BY <1>1, LifecycleInvariant, PTL

(* A scan that reports success has all results it was to export on disk,   *)
(* if none of its tasks was stored twice.                                  *)
THEOREM SuccessIsDelivery == Spec => []SuccessDelivers
<1>1. LifecycleInv => SuccessDelivers
  <2> SUFFICES ASSUME LifecycleInv, NEW s \in Session \ again, run[s].exit = "ok",
                      opt[s].kind \in Scan, opt[s].outDir
               PROVE  run[s].exported = Tasks
    BY DEF SuccessDelivers
  <2>1. ~run[s].err => Delivery(s)
    BY DEF LifecycleInv, CommandInv
  <2>2. ~run[s].err
    BY DEF LifecycleInv, CommandInv
  <2> QED BY <2>1, <2>2 DEF Delivery, AllOf
<1> QED BY <1>1, LifecycleInvariant, PTL

(* A scan that reports success and was to destroy has destroyed.           *)
THEOREM SuccessIsClean == Spec => []SuccessCleansUp
<1>1. LifecycleInv => SuccessCleansUp
  <2> SUFFICES ASSUME LifecycleInv, NEW s \in Session, run[s].exit = "ok",
                      opt[s].kind \in Scan, opt[s].destroyAfter, cloud # "manual"
               PROVE  ~Reachable(s)
    BY DEF SuccessCleansUp
  <2>1. Delivery(s)
    BY DEF LifecycleInv, CommandInv
  <2> QED BY <2>1 DEF Delivery
<1> QED BY <1>1, LifecycleInvariant, PTL

(* No step of a scan without an error destroys results not yet exported,   *)
(* if none of its tasks was stored twice.                                  *)
THEOREM ExportComesFirst == Spec => ExportedFirst
<1>1. LifecycleInv /\ [Next]_vars =>
        [\A s \in Session \ again :
           Destroy(s) /\ infra'.bucket # infra.bucket /\ ~run[s].err /\ opt[s].outDir
             => run[s].exported >= stored[s]]_vars
  <2> SUFFICES ASSUME LifecycleInv, NEW s \in Session \ again, Destroy(s), ~run[s].err, opt[s].outDir
               PROVE  run[s].exported >= stored[s]
    OBVIOUS
  <2>1. /\ pc[s] = "destroy" /\ CommandInv(s) /\ stored[s] \in 0..Tasks /\ run[s].exported \in 0..Tasks
        /\ Tasks \in Nat
    BY Kinds DEF LifecycleInv, LifecycleTypeOK, Run, Destroy, At
  <2>2. CASE opt[s].kind \in Scan
    BY <2>1, <2>2 DEF CommandInv, Delivery, AllOf
  <2>3. CASE opt[s].kind \notin Scan
    BY <2>1, <2>3 DEF CommandInv
  <2> QED BY <2>2, <2>3
<1> QED BY <1>1, LifecycleInvariant, PTL DEF Spec, ExportedFirst
=============================================================================

----------------------------- MODULE Lifecycle ------------------------------
(***************************************************************************)
(* heph scan and heph nmap from the flags to the exit code: probe what is  *)
(* deployed, deploy or reuse it, record the job, enqueue, launch, poll,    *)
(* export and destroy.  Several commands of one operator run at once on    *)
(* one terraform directory; heph infra deploy, destroy and recover are     *)
(* commands of their own.                                                  *)
(*                                                                         *)
(*   internal/scanapp/scanapp.go          RunGeneric, RunNmap              *)
(*   internal/scanruntime/runtime.go      Setup, Finalize                  *)
(*   internal/infra/lifecycle.go          Probe, Decide                    *)
(*   internal/infra/pipeline.go           RunDeploy, RunDestroy            *)
(*   internal/operator                    the job record and the export    *)
(*   internal/cloud                       what a launch starts and leaves  *)
(*                                                                         *)
(* Any call may fail and any command may be killed between two of them.    *)
(* Enqueue and ScanPipeline tell what happens inside EnqueueTasks and the  *)
(* workers: here a batch of tasks is sent, and a task gets a result, more  *)
(* than one when it is redelivered, or none when its deliveries are used   *)
(* up.  The plan of wordlists and target lists is Splitting's.             *)
(***************************************************************************)
EXTENDS Integers, FiniteSets

CONSTANTS
  Session,     \* the commands the operator runs, each of them once
  Tasks,       \* how many tasks the job of a scan has
  Options,     \* per command, what its flags may say: records of kind, tool, noDeploy, ...
  Clouds,      \* the clouds the instance starts in, one at a time
  MaxBuckets,  \* bound: how often the storage is created
  MaxCopies,   \* bound: further results of tasks that have one, per job
  Faulty       \* bound: the commands whose tasks are redelivered and whose
               \* writes of the record fail

Scan == {"nmap", "targets", "chunks", "wordlist"}

ASSUME LifecycleAssumption ==
  /\ Tasks \in Nat \ {0} /\ MaxBuckets \in Nat \ {0} /\ MaxCopies \in Nat
  /\ Faulty \subseteq Session
  /\ Clouds \subseteq {"aws", "native", "manual"}
  /\ \A s \in Session : \A o \in Options[s] :
       /\ o.kind \in Scan \union {"deploy", "destroy", "recover"}
       /\ {o.noDeploy, o.destroyAfter, o.outDir, o.spot} \subseteq BOOLEAN

VARIABLES
  cloud,    \* aws, native (hetzner, linode, vultr) or manual
  opt,      \* the flags of each command
  infra,    \* what terraform's state says is deployed
  images,   \* the worker images the registry holds
  queue,    \* per job: tasks nobody has run
  stored,   \* per job: tasks that have a result under its prefix
  extra,    \* per job: further results there, of tasks that were redelivered
  reached,  \* the jobs all of whose tasks had a result once
  again,    \* the jobs one of whose tasks got a second result
  workers,  \* the scans whose containers or spot instances run
  left,     \* what launches leave behind: names of containers, the launch template
  pc,       \* the next step of each command
  out,      \* the outputs it goes by
  run,      \* what it remembers and the exit code it gave
  record    \* the job records of ~/.config/heph4estus/jobs

results == <<stored, extra, reached, again>>
site == <<infra, images, queue, results, workers, left>>   \* all that is in the cloud
vars == <<cloud, opt, site, pc, out, run, record>>

Flags == UNION {Options[s] : s \in Session}
Tool == {o.tool : o \in Flags}
NoTool == "none"
Template == "template"
Bucket == 0..MaxBuckets
Absent == [there |-> FALSE, whole |-> FALSE, tool |-> NoTool, tag |-> NoTool, bucket |-> 0]
NoRecord == [phase |-> "none", total |-> 0]
NewRun == [started |-> FALSE, err |-> FALSE, exported |-> 0, saved |-> TRUE, exit |-> "none"]

(* An image tag is made anew for every deployment on AWS and is the name   *)
(* of the tool elsewhere.                                                  *)
Tag(s) == IF cloud = "aws" THEN s ELSE opt[s].tool

Label == {"start", "setup", "apply", "outputs", "publish", "recover", "restore", "provider",
          "record", "plan", "upload", "enqueue", "launch", "poll", "export", "destroy", "ended", "killed"}
Phase == {"none", "enqueuing", "uploading", "launching", "scanning", "complete", "failed"}

Outputs == [there : BOOLEAN, whole : BOOLEAN, tool : Tool \union {NoTool},
            tag : Tool \union Session \union {NoTool}, bucket : Bucket]
(* exported are the tasks whose results are on disk, saved is whether the  *)
(* last write of the record succeeded, which the command does not look at. *)
Run == [started : BOOLEAN, err : BOOLEAN, exported : 0..Tasks, saved : BOOLEAN,
        exit : {"none", "ok", "error"}]
Record == [phase : Phase, total : 0..Tasks]

LifecycleTypeOK ==
  /\ cloud \in Clouds /\ opt \in [Session -> Flags] /\ (\A s \in Session : opt[s] \in Options[s])
  /\ infra \in Outputs /\ out \in [Session -> Outputs]
  /\ images \subseteq Tool \union Session \union {NoTool}
  /\ queue \in [Session -> 0..Tasks] /\ stored \in [Session -> 0..Tasks]
  /\ extra \in [Session -> 0..MaxCopies]
  /\ reached \subseteq Session /\ again \subseteq Session /\ workers \subseteq Session /\ left \subseteq Tool \union {Template}
  /\ pc \in [Session -> Label] /\ run \in [Session -> Run] /\ record \in [Session -> Record]

(* The operator of the manual cloud keeps its controller himself. *)
Init ==
  /\ cloud \in Clouds
  /\ opt \in [Session -> Flags]
  /\ \A s \in Session : /\ opt[s] \in Options[s]
                       /\ (cloud = "manual" => opt[s].kind \in Scan)
                       /\ (opt[s].kind = "recover" => cloud = "native")
  /\ infra = IF cloud = "manual"
             THEN [there |-> TRUE, whole |-> TRUE, tool |-> NoTool, tag |-> NoTool, bucket |-> 1]
             ELSE Absent
  /\ images = {} /\ workers = {} /\ reached = {} /\ again = {} /\ left = {}
  /\ queue = [s \in Session |-> 0] /\ stored = [s \in Session |-> 0] /\ extra = [s \in Session |-> 0]
  /\ pc = [s \in Session |-> "start"]
  /\ out = [s \in Session |-> Absent]
  /\ run = [s \in Session |-> NewRun]
  /\ record = [s \in Session |-> NoRecord]

-----------------------------------------------------------------------------
(* Moving on. *)

Goto(s, label) == pc' = [pc EXCEPT ![s] = label]
At(s, label) == pc[s] = label /\ UNCHANGED <<cloud, opt>>

(* The command returns. *)
Exit(s, code) ==
  /\ Goto(s, "ended") /\ run' = [run EXCEPT ![s].exit = code]
Quit(s) == Exit(s, "error") /\ UNCHANGED <<site, out, record>>

(* The job record.  Updates of one that was never created change nothing,  *)
(* and the error of a write that fails is ignored.                         *)
SetPhase(rec, phase) == IF rec.phase = "none" THEN rec ELSE [rec EXCEPT !.phase = phase]
(* Mutant: an empty last chunk is counted. *)
MutSetTotal(rec) == IF rec.phase = "none" THEN rec ELSE [rec EXCEPT !.total = Tasks + 1]

SetTotal(rec) == IF rec.phase = "none" THEN rec ELSE [rec EXCEPT !.total = Tasks]

(* What is stored after a write, by the records it may start from. *)
Unwritten(s, recs) == IF s \in Faulty THEN recs ELSE {}
UpdatePhase(s, recs, phase) == Unwritten(s, recs) \union {SetPhase(r, phase) : r \in recs}
UpdateTotal(s, recs) == Unwritten(s, recs) \union {SetTotal(r) : r \in recs}
Store(s, recs) == record' \in {[record EXCEPT ![s] = r] : r \in recs}

(* Mutant: only a job whose workers were launched can fail. *)
MutOver(s, started, failed) ==
  /\ \E saved \in {TRUE, s \notin Faulty} :
       /\ run' = [run EXCEPT ![s].started = started, ![s].err = failed, ![s].saved = saved]
       /\ record' = IF ~saved \/ ~started THEN record
                    ELSE [record EXCEPT ![s] = SetPhase(@, IF failed THEN "failed" ELSE "complete")]
  /\ Goto(s, "export")

(* The job is over: the first lines of Finalize.                           *)
Over(s, started, failed) ==
  /\ \E saved \in {TRUE, s \notin Faulty} :
       /\ run' = [run EXCEPT ![s].started = started, ![s].err = failed, ![s].saved = saved]
       /\ record' = IF ~saved \/ ~(failed \/ started) THEN record
                    ELSE [record EXCEPT ![s] = SetPhase(@, IF failed THEN "failed" ELSE "complete")]
  /\ Goto(s, "export")
Stop(s) == Over(s, FALSE, TRUE) /\ UNCHANGED <<site, out>>

(* The queue and the storage of its outputs are still those deployed.      *)
Reachable(s) == out[s].bucket # 0 /\ infra.bucket = out[s].bucket

-----------------------------------------------------------------------------
(* Setup. *)

(* The flags and the input are checked.  A scan goes on to the probe, the  *)
(* infra commands to their own step (and their prompt).                    *)
Preflight(s) ==
  /\ At(s, "start")
  /\ \/ Goto(s, CASE opt[s].kind = "deploy" -> "apply"
                  [] opt[s].kind = "recover" -> "recover"
                  [] opt[s].kind = "destroy" -> "destroy"
                  [] OTHER -> "setup")
        /\ UNCHANGED <<site, out, run, record>>
     \/ Quit(s)

(* The two commands do the same things in another order. *)
GenericOrder == [setup |-> "provider", provider |-> "record", record |-> "plan"]
NmapOrder == [setup |-> "record", record |-> "provider", provider |-> "enqueue"]
After(s, step) == (IF opt[s].kind = "nmap" THEN NmapOrder ELSE GenericOrder)[step]

(* What Probe makes of the outputs. *)
Status(s) ==
  CASE ~infra.there              -> "missing"
    [] infra.tool # opt[s].tool  -> "mismatch"
    [] ~infra.whole              -> "stale"
    [] OTHER                     -> "ready"

Decide(s, status) ==
  CASE status = "ready"                                           -> "reuse"
    [] status \in {"missing", "stale", "mismatch"} /\ ~opt[s].noDeploy -> "deploy"
    [] OTHER                                                      -> "block"

Reuse(s) ==
  /\ pc[s] = "setup" /\ Decide(s, Status(s)) = "reuse"
  /\ out' = [out EXCEPT ![s] = infra] /\ Goto(s, After(s, "setup"))
  /\ UNCHANGED <<site, run, record>>

Setup(s) ==
  /\ At(s, "setup")
  /\ \/ /\ cloud = "manual"
        /\ out' = [out EXCEPT ![s] = infra] /\ Goto(s, After(s, "setup"))
        /\ UNCHANGED <<site, run, record>>
     \/ cloud # "manual" /\ Reuse(s)
     \/ /\ cloud # "manual" /\ Decide(s, Status(s)) = "deploy"
        /\ Goto(s, "apply") /\ UNCHANGED <<site, out, run, record>>
     \/ Quit(s)    \* blocked, or the probe failed

(* Deployed in place: queue, storage and registry stay, but the image      *)
(* repository on AWS is named after the tool.                              *)
Applied(s) ==
  [there |-> TRUE, whole |-> TRUE, tool |-> opt[s].tool, tag |-> Tag(s),
   bucket |-> IF infra.bucket # 0 THEN infra.bucket
              ELSE CHOOSE n \in Bucket : \A b \in {out[t].bucket : t \in Session} \union {0} : n > b]
Renamed(s) == cloud = "aws" /\ infra.tool # opt[s].tool
Room == infra.bucket # 0 \/ \A s \in Session : out[s].bucket < MaxBuckets

(* Init, plan, the prompt and apply.  An apply that stops half way may     *)
(* leave outputs that lack a key.                                          *)
Apply(s) ==
  /\ At(s, "apply")
  /\ \/ /\ Room /\ infra' = Applied(s) /\ Goto(s, "outputs")
        /\ images' = IF Renamed(s) THEN {} ELSE images
        /\ UNCHANGED <<queue, results, workers, left, out, run, record>>
     \/ /\ Room /\ \E whole \in BOOLEAN : infra' = [Applied(s) EXCEPT !.whole = whole]
        /\ images' = IF Renamed(s) THEN {} ELSE images
        /\ Exit(s, "error")
        /\ UNCHANGED <<queue, results, workers, left, out, record>>
     \/ Quit(s)   \* cancelled, or failed before anything changed

(* The outputs may be those of another command's apply by now. *)
ReadOutputs(s) ==
  /\ At(s, "outputs")
  /\ \/ /\ infra.there /\ infra.whole
        /\ out' = [out EXCEPT ![s] = infra] /\ Goto(s, "publish")
        /\ UNCHANGED <<site, run, record>>
     \/ Quit(s)

(* Registry trust, docker build, login, push. *)
Publish(s) ==
  /\ At(s, "publish")
  /\ \/ /\ infra.there /\ (cloud = "aws" => infra.tool = out[s].tool)
        /\ images' = images \union {out[s].tag}
        /\ IF opt[s].kind = "deploy" THEN Exit(s, "ok")
           ELSE Goto(s, IF opt[s].kind = "recover" THEN "restore" ELSE After(s, "setup"))
                /\ UNCHANGED run
        /\ UNCHANGED <<infra, queue, results, workers, left, out, record>>
     \/ Quit(s)

(* heph infra recover deploys again what is missing, and also what is not  *)
(* of the generation or the size that its manifest tells.                  *)
RecoveryActions(s) == IF Status(s) = "ready" THEN {"restore", "apply"} ELSE {"apply"}
Recover(s) ==
  /\ At(s, "recover") /\ UNCHANGED <<site, out, record>>
  /\ \/ \E step \in RecoveryActions(s) : Goto(s, step) /\ UNCHANGED run
     \/ Exit(s, "error")    \* another tool's or cloud's manifest, or none

(* Reputation and rollout records are written back, one after the other.   *)
Restore(s) ==
  /\ At(s, "restore") /\ UNCHANGED <<site, out, record>>
  /\ \E code \in {"ok", "error"} : Exit(s, code)

(* No record is left of a generic scan whose provider cannot be built. *)
BuildProvider(s) ==
  /\ At(s, "provider")
  /\ \/ Goto(s, After(s, "provider")) /\ UNCHANGED <<site, out, run, record>>
     \/ IF opt[s].kind = "nmap" THEN Stop(s) ELSE Quit(s)

(* A failure to write the record is ignored: the run goes on without one.  *)
CreateJobRecord(s) ==
  /\ At(s, "record")
  /\ Goto(s, After(s, "record"))
  /\ \/ record' = [record EXCEPT ![s] =
          [phase |-> "enqueuing", total |-> IF opt[s].kind = "nmap" THEN Tasks ELSE 0]]
     \/ UNCHANGED record
  /\ UNCHANGED <<site, out, run>>

-----------------------------------------------------------------------------
(* The scan. *)

PlanFails(s) == At(s, "plan") /\ Stop(s)

(* Tasks for single targets are known at once.  Chunk files are uploaded   *)
(* first, and only then the number of tasks is recorded.                   *)
TargetListScan(s) ==
  /\ At(s, "plan")
  /\ \/ /\ opt[s].kind = "targets" /\ Goto(s, "enqueue")
        /\ Store(s, UpdatePhase(s, UpdateTotal(s, {record[s]}), "enqueuing"))
     \/ /\ opt[s].kind = "chunks" /\ Goto(s, "upload")
        /\ Store(s, UpdatePhase(s, {record[s]}, "uploading"))
  /\ UNCHANGED <<site, out, run>>

WordlistScan(s) ==
  /\ At(s, "plan") /\ opt[s].kind = "wordlist"
  /\ Goto(s, "upload") /\ Store(s, UpdateTotal(s, UpdatePhase(s, {record[s]}, "uploading")))
  /\ UNCHANGED <<site, out, run>>

UploadChunks(s) ==
  /\ At(s, "upload")
  /\ \/ /\ Reachable(s)
        /\ Goto(s, "enqueue")
        /\ LET counted == IF opt[s].kind = "chunks" THEN UpdateTotal(s, {record[s]}) ELSE {record[s]}
           IN Store(s, UpdatePhase(s, counted, "enqueuing"))
        /\ UNCHANGED <<site, out, run>>
     \/ Stop(s)

(* An error leaves whatever was sent in the queue. *)
EnqueueTasks(s) ==
  /\ At(s, "enqueue")
  /\ \/ /\ Reachable(s)
        /\ queue' = [queue EXCEPT ![s] = Tasks]
        /\ Goto(s, "launch") /\ Store(s, UpdatePhase(s, {record[s]}, "launching"))
        /\ UNCHANGED <<infra, images, results, workers, left, out, run>>
     \/ /\ \E n \in 0..(IF Reachable(s) THEN Tasks ELSE 0) : queue' = [queue EXCEPT ![s] = n]
        /\ Over(s, FALSE, TRUE)
        /\ UNCHANGED <<infra, images, results, workers, left, out>>

(* The machines of a provider-native fleet run the image of the variables  *)
(* and try again until they can pull it; the wait admits only workers of   *)
(* the version of the outputs.                                             *)
FleetUp == cloud = "native" /\ infra.whole /\ infra.tag \in images
FleetAdmitted(s) == FleetUp /\ Reachable(s) /\ infra.tag = out[s].tag

LaunchOver(s, failed) ==
  IF failed THEN Over(s, FALSE, TRUE)
  ELSE Goto(s, "poll") /\ Store(s, UpdatePhase(s, {record[s]}, "scanning")) /\ UNCHANGED run

UseFleet(s) ==
  /\ cloud = "native" /\ UNCHANGED <<workers, left>>
  /\ \E failed \in BOOLEAN : (failed \/ FleetAdmitted(s)) /\ LaunchOver(s, failed)

(* What may run afterwards: nothing when the image does not exist or the   *)
(* cloud has no machine to spare, which it reports without an error.       *)
Started(s) ==
  {workers} \union (IF out[s].tag \in images THEN {workers \union {s}} ELSE {})

(* Fargate tasks are started ten at a time. *)
RunFargate(s) ==
  /\ cloud = "aws" /\ ~opt[s].spot /\ UNCHANGED left
  /\ workers' \in Started(s)
  /\ \E failed \in BOOLEAN : LaunchOver(s, failed)

(* The name of a launch template is made of the number of workers, so that *)
(* there is one of all scans of a size.  It is deleted, when that works,   *)
(* if its fleet fails, and stays otherwise.                                *)
RunSpotInstances(s) ==
  /\ cloud = "aws" /\ opt[s].spot
  /\ \/ LaunchOver(s, TRUE) /\ UNCHANGED <<workers, left>>
     \/ /\ Template \notin left /\ left' = left \union {Template}
        /\ \/ workers' \in Started(s) /\ LaunchOver(s, FALSE)
           \/ UNCHANGED workers /\ LaunchOver(s, TRUE)

(* The containers on the hosts of the manual cloud have the name of the    *)
(* tool and are never removed; docker refuses a name that is taken.        *)
RunDocker(s) ==
  /\ cloud = "manual"
  /\ \/ LaunchOver(s, TRUE) /\ UNCHANGED <<workers, left>>
     \/ /\ opt[s].tool \notin left /\ left' = left \union {opt[s].tool}
        /\ workers' = workers \union {s}
        /\ \E failed \in BOOLEAN : LaunchOver(s, failed)

LaunchWorkers(s) ==
  /\ At(s, "launch")
  /\ UseFleet(s) \/ RunFargate(s) \/ RunSpotInstances(s) \/ RunDocker(s)
  /\ UNCHANGED <<infra, images, queue, results, out>>

(* A worker takes any task of the queue and runs its own tool on it; the   *)
(* result goes under the prefix of that tool.  There is none when the      *)
(* deliveries of the task are used up.                                     *)
Running == IF FleetUp THEN {infra.tool} ELSE {opt[w].tool : w \in workers}

RunTask(tool, s) ==
  /\ queue[s] > 0
  /\ queue' = [queue EXCEPT ![s] = @ - 1]
  /\ \E n \in 0..(IF tool = opt[s].tool THEN 1 ELSE 0) :
       (n = 0 => tool # opt[s].tool \/ s \in Faulty) /\ stored' = [stored EXCEPT ![s] = @ + n]
  /\ reached' = IF stored'[s] = Tasks THEN reached \union {s} ELSE reached
  /\ UNCHANGED <<cloud, opt, infra, images, extra, again, workers, left, pc, out, run, record>>
WorkerStep == \E tool \in Running, s \in Session : RunTask(tool, s)

(* A task that has a result is redelivered, and in another second its      *)
(* result has another key.                                                 *)
RunAgain(s) ==
  /\ s \in Faulty /\ opt[s].tool \in Running /\ stored[s] > 0 /\ extra[s] < MaxCopies
  /\ extra' = [extra EXCEPT ![s] = @ + 1] /\ again' = again \union {s}
  /\ UNCHANGED <<cloud, opt, infra, images, queue, stored, reached, workers, left, pc, out, run, record>>

(* "Queue empty, exiting". *)
WorkersLeave(s) ==
  /\ s \in workers /\ \A t \in Session : queue[t] = 0
  /\ workers' = workers \ {s}
  /\ UNCHANGED <<cloud, opt, infra, images, queue, results, left, pc, out, run, record>>

(* Storage.Count: the objects under the prefix. *)
Count(s) == stored[s] + extra[s]

(* Mutant: one result too many is waited for. *)
MutEnough(s) == Count(s) > Tasks

Enough(s) == Count(s) >= Tasks

(* The count has reached the number of tasks and the results are printed,  *)
(* or cannot be.  A count that fails is tried again, for ever.             *)
PollAndRender(s) ==
  /\ At(s, "poll")
  /\ Reachable(s) /\ Enough(s)
  /\ \E failed \in BOOLEAN : Over(s, TRUE, failed)
  /\ UNCHANGED <<site, out>>

-----------------------------------------------------------------------------
(* The rest of Finalize, and destroying. *)

ExportDue(s) == opt[s].outDir /\ ~run[s].err /\ run[s].started

(* Mutant: only a run that exported cleans up. *)
MutDestroyDue(s) == ExportDue(s) /\ opt[s].destroyAfter /\ cloud # "manual"

DestroyDue(s) == opt[s].destroyAfter /\ run[s].started /\ cloud # "manual"

(* Mutant: a listing that fails is taken for an empty one. *)
MutDownload(s) == IF Reachable(s) THEN {stored[s]} ELSE {0}

(* What a download may bring: it is an error when anything is missing.     *)
Download(s) == IF Reachable(s) THEN {stored[s]} ELSE {}

(* Mutant: an export that fails is only reported. *)
MutExport(s) ==
  /\ At(s, "export")
  /\ \/ /\ ExportDue(s)
        /\ \E n \in Download(s) : run' = [run EXCEPT ![s].exported = n]
     \/ UNCHANGED run
  /\ Goto(s, "destroy") /\ UNCHANGED <<site, out, record>>

Export(s) ==
  /\ At(s, "export")
  /\ \/ /\ ExportDue(s)
        /\ \E n \in Download(s) : run' = [run EXCEPT ![s].exported = n]
        /\ Goto(s, "destroy") /\ UNCHANGED <<site, out, record>>
     \/ ExportDue(s) /\ Quit(s)
     \/ ~ExportDue(s) /\ Goto(s, "destroy") /\ UNCHANGED <<site, out, run, record>>

Code(s) == IF run[s].err THEN "error" ELSE "ok"

(* Whatever is deployed in the directory is destroyed.  A destroy that     *)
(* stops may already have deleted the storage.                             *)
Clear ==
  /\ images' = {} /\ workers' = {}
  /\ queue' = [s \in Session |-> 0]
  /\ stored' = [s \in Session |-> 0] /\ extra' = [s \in Session |-> 0]
  /\ UNCHANGED <<reached, again, left>>

RunDestroy(s) ==
  \/ infra' = Absent /\ Clear /\ Exit(s, Code(s))
  \/ infra' = [infra EXCEPT !.whole = FALSE, !.bucket = 0] /\ Clear /\ Exit(s, "error")
  \/ UNCHANGED site /\ Exit(s, "error")

Destroy(s) ==
  /\ At(s, "destroy")
  /\ IF DestroyDue(s) \/ opt[s].kind = "destroy" THEN RunDestroy(s)
     ELSE UNCHANGED site /\ Exit(s, Code(s))
  /\ UNCHANGED <<out, record>>

(* The process dies; what it started goes on. *)
Kill(s) ==
  /\ pc[s] \notin {"start", "ended", "killed"}
  /\ Goto(s, "killed")
  /\ UNCHANGED <<cloud, opt, site, out, run, record>>

-----------------------------------------------------------------------------
Step(s) ==
  \/ Preflight(s) \/ Setup(s) \/ Apply(s) \/ ReadOutputs(s) \/ Publish(s)
  \/ Recover(s) \/ Restore(s)
  \/ BuildProvider(s) \/ CreateJobRecord(s)
  \/ PlanFails(s) \/ TargetListScan(s) \/ WordlistScan(s) \/ UploadChunks(s)
  \/ EnqueueTasks(s) \/ LaunchWorkers(s) \/ PollAndRender(s)
  \/ Export(s) \/ Destroy(s)

Next ==
  \/ \E s \in Session : Step(s) \/ Kill(s) \/ RunAgain(s) \/ WorkersLeave(s)
  \/ WorkerStep

Spec == Init /\ [][Next]_vars

(* The process of a command runs, and a running worker takes its tasks. *)
Fairness == /\ \A s \in Session : WF_vars(Step(s))
            /\ WF_vars(WorkerStep)
FairSpec == Spec /\ Fairness

-----------------------------------------------------------------------------
(* heph status: the phase shown is that of the record, or what the live    *)
(* count tells.                                                            *)

(* Mutant: the number of tasks is taken as known. *)
MutSnapshot(rec, count) ==
  IF rec.phase \in {"complete", "failed"} THEN rec.phase
  ELSE IF count > 0 /\ count < rec.total THEN "scanning"
  ELSE IF count >= rec.total THEN "complete" ELSE rec.phase

Snapshot(rec, count) ==
  IF rec.phase \in {"complete", "failed"} THEN rec.phase
  ELSE IF count > 0 /\ count < rec.total THEN "scanning"
  ELSE IF count >= rec.total /\ rec.total > 0 THEN "complete" ELSE rec.phase

(* Duplicates of one task can stand in for the missing result of another   *)
(* wherever results are counted: see CompleteMeansEveryTask, which fails,  *)
(* in ScanPipeline.  The properties about counts say what holds for a job  *)
(* none of whose tasks was stored twice.                                   *)

(* heph status never calls a job complete before each of its tasks had a   *)
(* result, whichever of the phases, the recorded total and the live count  *)
(* it reads in the middle of a run, and whichever writes of them failed    *)
(* (buildSnapshot).                                                        *)
StatusHonest ==
  \A s \in Session \ again :
    record[s].phase # "none" /\ Snapshot(record[s], Count(s)) = "complete" => s \in reached

(* However a run ends, short of being killed, the record it made says      *)
(* failed if it failed and else complete, unless the last write of it      *)
(* failed: a run stopped at any step, after any earlier writes that failed *)
(* or not, is not left "scanning".                                         *)
EndedIsRecorded ==
  \A s \in Session :
    pc[s] = "ended" /\ record[s].phase # "none" /\ run[s].saved
      => record[s].phase = IF run[s].err THEN "failed" ELSE "complete"

(* A scan with --out that reports success has every result on disk, even   *)
(* when another command destroyed or redeployed the storage meanwhile.     *)
SuccessDelivers ==
  \A s \in Session \ again :
    run[s].exit = "ok" /\ opt[s].kind \in Scan /\ opt[s].outDir => run[s].exported = Tasks

(* A scan with --destroy-after that reports success leaves nothing of what *)
(* it ran on deployed: neither queue nor storage.                          *)
SuccessCleansUp ==
  \A s \in Session :
    run[s].exit = "ok" /\ opt[s].kind \in Scan /\ opt[s].destroyAfter /\ cloud # "manual"
      => ~Reachable(s)

(* A scan without an error never destroys, by its own step, storage that   *)
(* still holds results it was to export and has not: an export that fails  *)
(* stops Finalize before the destroy.                                      *)
ExportedFirst ==
  [][\A s \in Session \ again :
       Destroy(s) /\ infra'.bucket # infra.bucket /\ ~run[s].err /\ opt[s].outDir
         => run[s].exported >= stored[s]]_vars

(* A run polls for ever only when the storage or the queue it was given is *)
(* gone, its containers had no image, or too few of its tasks can get a    *)
(* result: a worker of another tool ran one of them, or its deliveries are *)
(* used up.  Nothing else keeps PollAndRender from ending.                 *)
Doomed(s) ==
  \/ ~Reachable(s)
  \/ queue[s] > 0 /\ Running = {}
  \/ Count(s) + queue[s] < Tasks
EndlessPollHasCause ==
  \A s \in Session : <>[](pc[s] = "poll") => <>[]Doomed(s)

(* "RunSpotInstances creates an ephemeral launch template" (ec2.go): a     *)
(* scan that goes to launch spot instances after every other scan ended    *)
(* and its instances terminated can create its template.                   *)
Alone(s) == workers = {} /\ \A t \in Session \ {s} : pc[t] = "ended"
TemplatesAreEphemeral ==
  \A s \in Session :
    cloud = "aws" /\ opt[s].spot /\ pc[s] = "launch" /\ Alone(s) => Template \notin left
=============================================================================

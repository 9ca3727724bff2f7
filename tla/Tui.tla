-------------------------------- MODULE Tui ---------------------------------
(***************************************************************************)
(* The terminal interface: one view is active, commands run beside it, and *)
(* a command's message is handled by whatever view is active when it       *)
(* arrives.  Messages carry no job and no view: a view handles every       *)
(* message of its own package.                                             *)
(*                                                                         *)
(*   internal/tui/app.go                  the active view, navigation      *)
(*   internal/tui/views/deploy/model.go   check, plan, approve, apply      *)
(*   internal/tui/views/{generic,nmap,naabu}/config.go   the forms         *)
(*   internal/tui/views/{generic,nmap}/status.go         a running job     *)
(*   internal/tui/views/{generic,nmap}/results.go        its results       *)
(*   internal/tui/statuscore/status.go    what ends a job                  *)
(*                                                                         *)
(* A command takes effect and delivers its message in one step; which of   *)
(* the running commands is next is open.  Commands that are equal are one. *)
(* The keys of the forms and lists change nothing modelled.                *)
(***************************************************************************)
EXTENDS Integers, FiniteSets

CONSTANTS
  Tools,     \* "nmap" has its own views, "naabu" its own form, the others share theirs
  Uploads,   \* the tools whose input is uploaded in chunks before it is enqueued
  Clouds,    \* the clouds the instance starts in, one at a time
  Sizes,     \* how many tasks a job may have
  Patience,  \* whether the operator waits for running commands before the next key
  Faults,    \* whether tasks are redelivered or lost and writes of the record fail
  MaxJobs,   \* bound: jobs a patient operator submits
  HastyJobs, \* bound: jobs the other one submits, or any with Faults
  MaxCopies, \* bound: further results of tasks that have one, per job
  MaxGen     \* bound: how often the storage is created

ASSUME TuiAssumption ==
  /\ Uploads \subseteq Tools /\ "nmap" \notin Uploads
  /\ Clouds \subseteq {"aws", "native", "manual"}
  /\ Sizes \subseteq Nat \ {0} /\ Patience \subseteq BOOLEAN /\ Faults \subseteq BOOLEAN
  /\ HastyJobs \in Nat \ {0} /\ MaxJobs \in Nat /\ MaxJobs >= HastyJobs
  /\ MaxCopies \in Nat /\ MaxGen \in Nat \ {0}

VARIABLES
  config,   \* cloud, cleanup policy destroy-after, output directory set, patience, faults
  view,     \* the active view
  cmds,     \* the commands running beside it
  infra,    \* what is deployed: storage, tool, the tools whose launched workers run
  images,   \* the tools whose worker image the registry holds
  jobs,     \* per job: tool, tasks queued, tasks with a result, further results
            \* (now, and ever), tasks whose results were exported
  record    \* the phase of each job's record

vars == <<config, view, cmds, infra, images, jobs, record>>

Job == 1..MaxJobs
Gen == 0..MaxGen
NoTool == "none"
StatusOf(tool) == IF tool = "nmap" THEN "nmap" ELSE "generic"
ConfigOf(tool) == IF tool \in {"nmap", "naabu"} THEN tool ELSE "generic"

At == {"menu", "config", "deploy", "status", "results"}
Work == {"read", "check", "plan", "apply", "publish", "toStatus", "upload", "enqueue",
         "launch", "poll", "export", "destroy", "toResults", "kill"}
Phase == {"none", "enqueuing", "uploading", "launching", "scanning", "complete", "failed"}

Show(at, tool) ==
  [at |-> at, tool |-> tool, stage |-> "", job |-> 0, gen |-> 0, total |-> 0, seen |-> 0,
   exported |-> FALSE, destroyed |-> FALSE]
Menu == Show("menu", NoTool)
NoJob ==
  [tool |-> NoTool, size |-> 0, queue |-> 0, stored |-> 0, extra |-> 0, again |-> FALSE, exported |-> 0]
Absent == [gen |-> 0, tool |-> NoTool, up |-> {}]
Free(j) ==
  /\ jobs[j] = NoJob /\ \A i \in Job : i < j => jobs[i] # NoJob
  /\ (config.patient /\ ~config.faulty) \/ j <= HastyJobs
Manual == config.cloud = "manual"

TuiTypeOK ==
  /\ config \in [cloud : Clouds, destroyAfter : BOOLEAN, outDir : BOOLEAN,
                 patient : Patience, faulty : Faults]
  /\ view \in [at : At, tool : Tools \union {NoTool}, job : 0..MaxJobs, gen : Gen,
               stage : {"", "check", "plan", "approve", "apply", "publish", "done", "stopped",
                        "error", "destroying", "tried"},
               total : Sizes \union {0}, seen : Nat,
               exported : BOOLEAN, destroyed : BOOLEAN]
  /\ \A c \in cmds : c.what \in Work /\ c.tool \in Tools /\ c.job \in 0..MaxJobs /\ c.gen \in Gen
  /\ infra \in [gen : Gen, tool : Tools \union {NoTool}, up : SUBSET Tools] /\ images \subseteq Tools
  /\ \A j \in Job : /\ jobs[j].queue + jobs[j].stored <= jobs[j].size
                    /\ jobs[j].exported <= jobs[j].size /\ jobs[j].extra <= MaxCopies
  /\ record \in [Job -> Phase]

Init ==
  /\ config \in [cloud : Clouds, destroyAfter : BOOLEAN, outDir : BOOLEAN,
                 patient : Patience, faulty : Faults]
  /\ view = Menu /\ cmds = {} /\ images = {}
  /\ infra = IF Manual THEN [Absent EXCEPT !.gen = 1] ELSE Absent
  /\ jobs = [j \in Job |-> NoJob] /\ record = [j \in Job |-> "none"]

-----------------------------------------------------------------------------
(* Commands and their messages. *)

(* A command remembers what its view knew when it was started. *)
Command(what, job, v) ==
  [what |-> what, job |-> job, tool |-> v.tool, gen |-> v.gen,
   exported |-> v.exported, destroyed |-> v.destroyed]

(* The message goes to the active view; pack says whose messages it takes. *)
Heard(c, at, pack(_)) == view.at = at /\ pack(view.tool) = pack(c.tool)
Any(tool) == "any"
Running(what) == {c \in cmds : c.what = what}

Answer(c, v, new) == view' = v /\ cmds' = (cmds \ {c}) \union new
Drop(c) == Answer(c, view, {})
Quiet == UNCHANGED <<config, infra, images, jobs, record>>

Live(c) == c.gen # 0 /\ c.gen = infra.gen

(* The error of a write of the record is ignored, and there is none to     *)
(* update when the first of them failed.                                   *)
Written == {TRUE, ~config.faulty}
Track(job, phase) ==
  \E written \in Written :
    record' = [j \in Job |-> IF written /\ j = job /\ record[j] # "none" THEN phase ELSE record[j]]

(* Mutant: the view shows the error and records nothing. *)
MutFailed(c) == Answer(c, [view EXCEPT !.stage = "error"], {}) /\ UNCHANGED record

Failed(c) == Answer(c, [view EXCEPT !.stage = "error"], {}) /\ Track(view.job, "failed")
Navigate(c) == Answer(c, view, {Command("toResults", view.job, view)})

-----------------------------------------------------------------------------
(* Keys. *)

MayPress == config.patient => cmds = {}
Press(v, new) == MayPress /\ view' = v /\ cmds' = cmds \union new /\ Quiet

OpenConfig(tool) == view.at = "menu" /\ Press(Show("config", tool), {})

(* The form is submitted: its file is read, as often as enter is pressed.  *)
Submit ==
  /\ view.at = "config" /\ \E j \in Job : Free(j)
  /\ Press(view, {Command("read", 0, view)})

Esc ==
  \/ view.at \in {"config", "status", "results"} /\ Press(Menu, {})
  \/ view.at = "deploy" /\ view.stage = "stopped" /\ Press(Show("config", view.tool), {})

Approve ==
  /\ view.at = "deploy" /\ view.stage = "approve"
  /\ \/ Press([view EXCEPT !.stage = "apply"], {Command("apply", 0, view)})
     \/ Press([view EXCEPT !.stage = "stopped"], {})

(* The d key of the results. *)
MayDestroy ==
  /\ view.stage # "destroying" /\ ~view.destroyed /\ ~Manual
  /\ config.destroyAfter => view.exported
Destroy ==
  /\ view.at = "results" /\ MayDestroy
  /\ Press([view EXCEPT !.stage = "destroying"], {Command("kill", view.job, view)})

(* The program is left and started again: its commands are gone. *)
Quit ==
  /\ MayPress /\ view # Menu
  /\ view' = Menu /\ cmds' = {} /\ Quiet

Key == (\E tool \in Tools : OpenConfig(tool)) \/ Submit \/ Esc \/ Approve \/ Destroy \/ Quit

-----------------------------------------------------------------------------
(* The forms and the deployment. *)

(* A manual cloud has nothing to deploy: queue and bucket are known.       *)
Bypass(c) == Answer(c, view, {Command("toStatus", 0, [view EXCEPT !.gen = 1])})

Deploy(c) ==
  Answer(c, [Show("deploy", view.tool) EXCEPT !.stage = "check"], {Command("check", 0, view)})

(* The file was read: the tool is that of the form now shown. *)
Read(c) ==
  /\ c \in Running("read") /\ Quiet
  /\ IF ~Heard(c, "config", ConfigOf) THEN Drop(c)
     ELSE \/ Drop(c)      \* unreadable, or refused
          \/ Manual /\ Bypass(c)
          \/ ~Manual /\ Deploy(c)

(* What is deployed for this tool is used without a look at its image.     *)
Ready(tool) == infra.gen # 0 /\ infra.tool = tool
(* The queue and the bucket the outputs name go with the navigation.       *)
Outputs(v) == [v EXCEPT !.gen = infra.gen]
ToStatus(v) == {Command("toStatus", 0, Outputs(v))}
Stop(c) == Answer(c, [view EXCEPT !.stage = "stopped"], {})

Check(c) ==
  /\ c \in Running("check") /\ Quiet
  /\ IF ~Heard(c, "deploy", Any) THEN Drop(c)
     ELSE \/ Stop(c)      \* the probe failed
          \/ /\ Ready(c.tool) /\ Answer(c, [view EXCEPT !.stage = "done"], ToStatus(view))
          \/ /\ ~Ready(c.tool)
             /\ Answer(c, [view EXCEPT !.stage = "plan"], {Command("plan", 0, view)})

Plan(c) ==
  /\ c \in Running("plan") /\ Quiet
  /\ IF ~Heard(c, "deploy", Any) THEN Drop(c)
     ELSE Stop(c) \/ Answer(c, [view EXCEPT !.stage = "approve"], {})

(* On AWS every deployment has an image tag of its own. *)
Apply(c) ==
  /\ c \in Running("apply") /\ UNCHANGED <<config, jobs, record>>
  /\ \/ /\ infra.gen # 0 \/ \E g \in Gen : \A d \in cmds : g # 0 /\ g > d.gen /\ g > view.gen
        /\ \E g \in Gen :
             /\ IF infra.gen # 0 THEN g = infra.gen
                ELSE g # 0 /\ g > view.gen /\ \A d \in cmds : g > d.gen
             /\ infra' = [infra EXCEPT !.gen = g, !.tool = c.tool]
        /\ images' = IF config.cloud = "aws" THEN {} ELSE images
        /\ IF ~Heard(c, "deploy", Any) THEN Drop(c)
           ELSE \/ Stop(c)     \* stopped half way, its outputs all there
                \/ Answer(c, [view EXCEPT !.stage = "publish"], {Command("publish", 0, view)})
     \/ UNCHANGED <<infra, images>> /\ IF Heard(c, "deploy", Any) THEN Stop(c) ELSE Drop(c)

(* Read outputs, build, log in, push. *)
Publish(c) ==
  /\ c \in Running("publish") /\ UNCHANGED <<config, infra, jobs, record>>
  /\ \/ /\ infra.gen # 0 /\ images' = images \union {c.tool}
        /\ IF Heard(c, "deploy", Any)
           THEN Answer(c, [view EXCEPT !.stage = "done"], ToStatus(view)) ELSE Drop(c)
     \/ UNCHANGED images /\ IF Heard(c, "deploy", Any) THEN Stop(c) ELSE Drop(c)

-----------------------------------------------------------------------------
(* A job. *)

FirstWork(tool) == IF tool \in Uploads THEN "upload" ELSE "enqueue"

(* trackCreate. *)
Create(j, tool) ==
  \E written \in Written :
    record' = IF written
              THEN [record EXCEPT ![j] = IF tool \in Uploads THEN "uploading" ELSE "enqueuing"]
              ELSE record

(* A plan that fails leaves no record. *)
Unplanned(c, v) == Answer(c, [v EXCEPT !.total = 0, !.stage = "error"], {}) /\ UNCHANGED record

(* The job gets its ID and is planned when its view is shown. *)
Begin(c, j, n) ==
  LET v == [Show("status", c.tool) EXCEPT !.job = j, !.gen = c.gen, !.total = n] IN
  /\ Free(j)
  /\ jobs' = [jobs EXCEPT ![j].tool = c.tool, ![j].size = n]
  /\ \/ Answer(c, v, {Command(FirstWork(c.tool), j, v)}) /\ Create(j, c.tool)
     \/ Unplanned(c, v)

(* The navigation replaces whatever view is shown. *)
ToStatusView(c) ==
  /\ c \in Running("toStatus") /\ UNCHANGED <<config, infra, images>>
  /\ \/ /\ Answer(c, IF c.tool = "nmap" THEN Show("config", "nmap") ELSE Menu, {})
        /\ UNCHANGED <<jobs, record>>      \* the provider cannot be built
     \/ \E j \in Job, n \in Sizes : Begin(c, j, n)

(* The tasks of the message are sent to the queue of the view. *)
Upload(c) ==
  /\ c \in Running("upload") /\ UNCHANGED <<config, infra, images, jobs>>
  /\ IF ~Heard(c, "status", StatusOf) THEN Drop(c) /\ UNCHANGED record
     ELSE \/ /\ Live(c)
             /\ Answer(c, [view EXCEPT !.total = jobs[c.job].size], {Command("enqueue", c.job, view)})
             /\ Track(view.job, "enqueuing")
          \/ Failed(c)

(* Mutant: a batch that was sent is sent again. *)
MutSent(c) == 2 * jobs[c.job].size

Sent(c) == jobs[c.job].size

Enqueue(c) ==
  /\ c \in Running("enqueue") /\ UNCHANGED <<config, infra, images>>
  /\ \/ /\ Live(c) /\ jobs' = [jobs EXCEPT ![c.job].queue = Sent(c)]
        /\ IF Heard(c, "status", StatusOf)
           THEN Answer(c, view, {Command("launch", view.job, view)}) /\ Track(view.job, "launching")
           ELSE Drop(c) /\ UNCHANGED record
     \/ /\ \E n \in 0..(IF Live(c) THEN jobs[c.job].size ELSE 0) :
             jobs' = [jobs EXCEPT ![c.job].queue = n]
        /\ IF Heard(c, "status", StatusOf) THEN Failed(c) ELSE Drop(c) /\ UNCHANGED record

(* Workers whose image is missing are launched and never run, a cloud that *)
(* has no machine to spare reports no error, and the workers of a          *)
(* provider's fleet are not waited for.  A launch may fail half way.       *)
Started(c) ==
  IF Manual \/ (config.cloud = "aws" /\ Live(c) /\ c.tool \in images) THEN {c.tool} ELSE {}
Launched(c) == IF Manual THEN {Started(c)} ELSE {{}, Started(c)}
Launch(c) ==
  /\ c \in Running("launch") /\ UNCHANGED <<config, images, jobs>>
  /\ \/ /\ \E up \in Launched(c) : infra' = [infra EXCEPT !.up = @ \union up]
        /\ IF Heard(c, "status", StatusOf)
           THEN Answer(c, view, {Command("poll", view.job, view)}) /\ Track(view.job, "scanning")
           ELSE Drop(c) /\ UNCHANGED record
     \/ /\ \E up \in {{}, Started(c)} : infra' = [infra EXCEPT !.up = @ \union up]
        /\ IF Heard(c, "status", StatusOf) THEN Failed(c) ELSE Drop(c) /\ UNCHANGED record

(* CompleteScan. *)
AfterScan == IF config.destroyAfter /\ config.outDir THEN "export" ELSE "toResults"

(* Mutant: one result too many is waited for. *)
MutCompleteBeyond(total, seen) == seen > total

(* The count of the message or, when it failed, the last one known. *)
Complete(total, seen) == seen >= total
Counted(c, n) ==
  LET v == [view EXCEPT !.seen = n] IN
  IF Complete(view.total, n)
  THEN Track(view.job, "complete") /\ Answer(c, v, {Command(AfterScan, view.job, v)})
  ELSE UNCHANGED record /\ Answer(c, v, {Command("poll", view.job, v)})

(* Storage.Count: the objects under the prefix. *)
Count(j) == jobs[j].stored + jobs[j].extra

PollOk(c) ==
  /\ c \in Running("poll") /\ UNCHANGED <<config, infra, images, jobs>>
  /\ Live(c)
  /\ IF Heard(c, "status", StatusOf) THEN Counted(c, Count(c.job))
     ELSE Drop(c) /\ UNCHANGED record
PollFails(c) ==
  /\ c \in Running("poll") /\ UNCHANGED <<config, infra, images, jobs>>
  /\ IF Heard(c, "status", StatusOf) THEN Counted(c, view.seen)
     ELSE Drop(c) /\ UNCHANGED record

(* Mutant: the results stay those of the storage. *)
MutExported(v) == v

Exported(v) == [v EXCEPT !.exported = TRUE]

(* CompleteExport. *)
Export(c) ==
  /\ c \in Running("export") /\ UNCHANGED <<config, infra, images, record>>
  /\ \/ /\ Live(c) /\ jobs' = [jobs EXCEPT ![c.job].exported = jobs[c.job].stored]
        /\ LET v == Exported(view) IN
           IF Heard(c, "status", StatusOf)
           THEN Answer(c, v, {Command(IF Manual THEN "toResults" ELSE "destroy", view.job, v)})
           ELSE Drop(c)
     \/ UNCHANGED jobs /\ IF Heard(c, "status", StatusOf) THEN Navigate(c) ELSE Drop(c)

(* Whatever is deployed is destroyed, with all that is stored there.  A    *)
(* destroy that fails may have come that far.                              *)
Cleared == /\ infra' = Absent /\ images' = {}
           /\ jobs' = [j \in Job |-> [jobs[j] EXCEPT !.queue = 0, !.stored = 0, !.extra = 0]]

AutoDestroy(c) ==
  /\ c \in Running("destroy") /\ UNCHANGED <<config, record>>
  /\ Cleared \/ UNCHANGED <<infra, images, jobs>>
  /\ \E ok \in BOOLEAN :
       /\ ok => infra' = Absent
       /\ LET v == [view EXCEPT !.destroyed = ok] IN
          IF Heard(c, "status", StatusOf)
          THEN Answer(c, v, {Command("toResults", view.job, v)}) ELSE Drop(c)

-----------------------------------------------------------------------------
(* Its results, read from the export or from the storage. *)

Listed(v) ==
  IF v.exported THEN jobs[v.job].exported
  ELSE IF v.gen = infra.gen THEN jobs[v.job].stored ELSE 0

ToResultsView(c) ==
  /\ c \in Running("toResults") /\ Quiet
  /\ Answer(c, [Show("results", c.tool) EXCEPT !.job = c.job, !.gen = c.gen,
                  !.exported = c.exported, !.destroyed = c.destroyed], {})

Kill(c) ==
  /\ c \in Running("kill") /\ UNCHANGED <<config, record>>
  /\ Cleared \/ UNCHANGED <<infra, images, jobs>>
  /\ \E ok \in BOOLEAN :
       /\ ok => infra' = Absent
       /\ IF Heard(c, "results", StatusOf)
          THEN Answer(c, [view EXCEPT !.stage = "tried", !.destroyed = ok], {}) ELSE Drop(c)

-----------------------------------------------------------------------------
(* The workers: every job's tasks are in one queue.  A worker runs its own *)
(* tool on any of them; the result goes under the prefix of that tool.     *)

Workers == IF config.cloud = "native" THEN {infra.tool} \intersect images ELSE infra.up

(* The results a task may get: none when its deliveries are used up. *)
Results(tool, job) ==
  IF tool # job.tool THEN {0} ELSE IF config.faulty THEN {0, 1} ELSE {1}
WorkerStep ==
  /\ \E tool \in Workers, j \in Job :
       /\ jobs[j].queue > 0
       /\ \E n \in Results(tool, jobs[j]) :
            jobs' = [jobs EXCEPT ![j].queue = @ - 1, ![j].stored = @ + n]
  /\ UNCHANGED <<config, view, cmds, infra, images, record>>

(* A task that has a result is redelivered, and in another second its      *)
(* result has another key.                                                 *)
RunAgain ==
  /\ config.faulty
  /\ \E j \in Job :
       /\ jobs[j].tool \in Workers /\ jobs[j].stored > 0 /\ jobs[j].extra < MaxCopies
       /\ jobs' = [jobs EXCEPT ![j].extra = @ + 1, ![j].again = TRUE]
  /\ UNCHANGED <<config, view, cmds, infra, images, record>>
WorkersLeave ==
  /\ \E tool \in infra.up : infra' = [infra EXCEPT !.up = @ \ {tool}]
  /\ \A j \in Job : jobs[j].queue = 0
  /\ UNCHANGED <<config, view, cmds, images, jobs, record>>

Deliver ==
  \E c \in cmds :
    \/ Read(c) \/ Check(c) \/ Plan(c) \/ Apply(c) \/ Publish(c)
    \/ ToStatusView(c) \/ Upload(c) \/ Enqueue(c) \/ Launch(c)
    \/ PollOk(c) \/ PollFails(c) \/ Export(c) \/ AutoDestroy(c)
    \/ ToResultsView(c) \/ Kill(c)

Next == Key \/ Deliver \/ WorkerStep \/ RunAgain \/ WorkersLeave
Spec == Init /\ [][Next]_vars

(* Commands run by themselves, workers take their tasks, and a count does  *)
(* not fail for ever.  Nothing is assumed of the operator.                 *)
Fairness == WF_vars(Deliver) /\ WF_vars(\E c \in cmds : PollOk(c)) /\ WF_vars(WorkerStep)
FairSpec == Spec /\ Fairness

-----------------------------------------------------------------------------
(* An operator is careful who waits for running commands before the next   *)
(* key, or submits one job only.                                           *)

(* "auto-destroying infrastructure after export" (the views' phases): a    *)
(* job whose view destroys the infrastructure has every one of its results *)
(* on disk by then.  It holds for a careful operator and not for another:  *)
(* the export of one job ends when the view of the next is shown, and this *)
(* one destroys.                                                           *)
OwnExportFirst ==
  \A c \in Running("destroy") : jobs[c.job].again \/ jobs[c.job].exported = jobs[c.job].size

(* The results a job ends with can be read: from its export once the       *)
(* infrastructure is destroyed or may be half, else from a storage that    *)
(* still has them.  For a careful operator, until he destroys it himself,  *)
(* and if no task was stored twice and counted for another.                *)
ResultsReadable ==
  view.at = "results" /\ view.stage = "" /\ ~jobs[view.job].again
    => Listed(view) = jobs[view.job].size

(* The record tells heph status what the operator of the interface saw: a  *)
(* job whose view stopped with an error is recorded as failed and one      *)
(* whose results are shown as complete, whichever command of it failed and *)
(* whatever was exported or destroyed, if no write failed.  For a careful  *)
(* operator.                                                               *)
RecordTellsOutcome ==
  ~config.faulty =>
    /\ view.at = "status" /\ view.stage = "error" => record[view.job] \in {"none", "failed"}
    /\ view.at = "results" => record[view.job] = "complete"

(* A job whose view is shown comes to its results or to an error, unless   *)
(* no worker was started for it, as on infrastructure whose image was      *)
(* never published, or too few of its tasks can get a result: a worker     *)
(* that another job left behind ran one, or its deliveries are used up.    *)
Polling(j) == \E c \in Running("poll") : c.job = j
Idle(j) == Polling(j) /\ jobs[j].queue > 0 /\ Workers = {}
Robbed(j) == Polling(j) /\ Count(j) + jobs[j].queue < jobs[j].size
ScanEnds ==
  view.at = "status" ~>
    (view.at # "status" \/ view.stage = "error" \/ Idle(view.job) \/ Robbed(view.job))
=============================================================================

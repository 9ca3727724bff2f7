----------------------------- MODULE TuiProofs ------------------------------
(***************************************************************************)
(* Theorems about Tui, for any tools, clouds, sizes of jobs and number of  *)
(* jobs, whatever the operator presses and whichever command's message is  *)
(* next.  The operator either waits for running commands before the next   *)
(* key, or submits one job (Careful): an impatient one with two jobs can   *)
(* bring the message of one job's command to the view of another.          *)
(***************************************************************************)
EXTENDS Tui, TLAPS

Careful == HastyJobs = 1 \/ FALSE \notin Patience

(* The commands that carry a job on; the others come before it, or kill.   *)
JobWork == {"upload", "enqueue", "launch", "poll", "export", "destroy", "toResults"}
Doing(c) == c.what \in JobWork

ViewType ==
  [at : At, tool : Tools \union {NoTool}, job : 0..MaxJobs, gen : Gen,
   stage : {"", "check", "plan", "approve", "apply", "publish", "done", "stopped",
            "error", "destroying", "tried"},
   total : Sizes \union {0}, seen : Nat, exported : BOOLEAN, destroyed : BOOLEAN]
CommandType ==
  [what : Work, job : 0..MaxJobs, tool : Tools, gen : Gen,
   exported : BOOLEAN, destroyed : BOOLEAN]
JobType ==
  [tool : Tools \union {NoTool}, size : Sizes \union {0}, queue : Nat, stored : Nat,
   extra : 0..MaxCopies, again : BOOLEAN, exported : Nat]

Types ==
  /\ config \in [cloud : Clouds, destroyAfter : BOOLEAN, outDir : BOOLEAN, patient : Patience,
                 faulty : Faults]
  /\ view \in ViewType /\ (view.at # "menu" => view.tool \in Tools)
  /\ cmds \subseteq CommandType
  /\ infra \in [gen : Gen, tool : Tools \union {NoTool}, up : SUBSET Tools]
  /\ images \subseteq Tools
  /\ jobs \in [Job -> JobType]
  /\ record \in [Job -> Phase]

JobsAccount ==
  \A j \in Job :
    /\ jobs[j].queue + jobs[j].stored <= jobs[j].size
    /\ jobs[j].exported <= jobs[j].size
    /\ jobs[j].extra > 0 => jobs[j].again

(* A patient operator has one command running at a time; the other one has *)
(* one job, and at most one command that carries it on.                    *)
OneAtATime ==
  /\ config.patient => \A c, d \in cmds : c = d
  /\ ~config.patient => \A j \in Job : jobs[j].size > 0 => j = 1
  /\ \A c, d \in cmds : Doing(c) /\ Doing(d) => c = d

(* A job that has not begun has no record. *)
Recorded == \A j \in Job : jobs[j].size = 0 => record[j] = "none"

(* Where the results of job j are for whoever has this generation of the   *)
(* storage and did or did not see the export, unless a task of it was      *)
(* stored twice.                                                           *)
Delivered(j, gen, exported) ==
  \/ jobs[j].again
  \/ IF exported
     THEN jobs[j].exported = jobs[j].size
     ELSE gen # 0 /\ gen = infra.gen /\ jobs[j].stored = jobs[j].size

CommandKnows(c) ==
  /\ c.job \in Job /\ jobs[c.job].size > 0
  /\ view.at # "results"
  /\ view.at = "status" =>
       /\ view.job = c.job /\ view.gen = c.gen /\ view.exported = c.exported
       /\ view.total = jobs[c.job].size
  /\ c.what \in {"upload", "enqueue"} => jobs[c.job].queue = 0 /\ jobs[c.job].stored = 0
  /\ c.what \in {"upload", "enqueue", "launch", "poll"} =>
       ~c.exported /\ (view.at = "status" => view.seen < view.total)
  /\ c.what = "export" => ~c.exported
  /\ c.what = "destroy" => c.exported
  /\ c.what \in {"export", "destroy", "toResults"} => Delivered(c.job, c.gen, c.exported)
CommandsKnow == \A c \in cmds : Doing(c) => CommandKnows(c)

KillsLate ==
  \A k \in cmds : k.what = "kill" =>
    /\ k.job \in Job /\ jobs[k.job].size > 0
    /\ \A c \in cmds : ~Doing(c)
    /\ ~(view.at = "results" /\ view.stage = "")

ViewKnows ==
  /\ view.at \in {"status", "results"} => view.job \in Job /\ jobs[view.job].size > 0
  /\ view.at = "results" /\ view.stage = "" => Delivered(view.job, view.gen, view.exported)

TuiInv ==
  /\ Types /\ JobsAccount /\ OneAtATime /\ CommandsKnow /\ KillsLate /\ ViewKnows
  /\ Recorded

-----------------------------------------------------------------------------
(* Types. *)

LEMMA ShowTyped ==
  ASSUME NEW at \in At, NEW tool \in Tools \union {NoTool}
  PROVE  Show(at, tool) \in ViewType
  BY TuiAssumption DEF Show, ViewType, Gen

LEMMA CommandTyped ==
  ASSUME NEW what \in Work, NEW job \in 0..MaxJobs, NEW v \in ViewType, v.tool \in Tools
  PROVE  Command(what, job, v) \in CommandType
  BY DEF Command, CommandType, ViewType

LEMMA TypesInit == Init => Types
<1> SUFFICES ASSUME Init PROVE Types
  OBVIOUS
<1> USE TuiAssumption
<1>1. view \in ViewType /\ view.at = "menu"
  <2>1. "menu" \in At /\ view = Show("menu", NoTool)
    BY DEF Init, Menu, At
  <2> QED BY <2>1, ShowTyped DEF Show
<1>2. infra \in [gen : Gen, tool : Tools \union {NoTool}, up : SUBSET Tools]
  BY DEF Init, Absent, Gen
<1>3. jobs \in [Job -> JobType]
  BY DEF Init, NoJob, JobType
<1>4. record \in [Job -> Phase]
  BY DEF Init, Phase
<1> QED BY <1>1, <1>2, <1>3, <1>4 DEF Init, Types

(* A step that shows a well-formed view and starts well-formed commands. *)
LEMMA TypesQuiet ==
  ASSUME Types, Quiet, view' \in ViewType, view'.at # "menu" => view'.tool \in Tools,
         cmds' \subseteq CommandType
  PROVE  Types'
  BY DEF Types, Quiet

-----------------------------------------------------------------------------
(* Steps that do nothing for a job: keys, forms and the deployment, and    *)
(* messages that no view takes.                                            *)

Aside ==
  /\ UNCHANGED <<config, jobs, record>>
  /\ infra.gen # 0 => infra'.gen = infra.gen
  /\ view' = view \/ view'.at \notin {"status", "results"}
  /\ \A c \in cmds' : Doing(c) \/ c.what = "kill" => c \in cmds
  /\ config.patient => \A c, d \in cmds' : c = d

LEMMA AsideInv ==
  ASSUME TuiInv, Aside, Types'
  PROVE  TuiInv'
<1> USE DEF TuiInv, Aside
<1>1. JobsAccount' /\ Recorded'
  BY DEF JobsAccount, Recorded
<1>2. OneAtATime'
  BY DEF OneAtATime, Doing, JobWork
<1>3. \A j \in Job : \A g, x : Delivered(j, g, x) => Delivered(j, g, x)'
  BY DEF Delivered
<1>4. ASSUME NEW c \in cmds', Doing(c) PROVE CommandKnows(c)'
  <2>1. c \in cmds /\ CommandKnows(c)
    BY <1>4 DEF CommandsKnow
  <2> QED BY <1>3, <2>1 DEF CommandKnows
<1>5. ASSUME NEW k \in cmds', k.what = "kill"
      PROVE  /\ k.job \in Job /\ jobs'[k.job].size > 0
             /\ \A c \in cmds' : ~Doing(c)
             /\ ~(view'.at = "results" /\ view'.stage = "")
  BY <1>5 DEF KillsLate
<1>6. ViewKnows'
  BY <1>3 DEF ViewKnows
<1> QED BY <1>1, <1>2, <1>4, <1>5, <1>6 DEF CommandsKnow, KillsLate, Doing

LEMMA KeysAside ==
  ASSUME TuiInv, (\E tool \in Tools : OpenConfig(tool)) \/ Submit \/ Esc \/ Approve \/ Quit
  PROVE  Aside /\ Types'
<1> USE DEF TuiInv, Types
<1>1. ASSUME NEW tool \in Tools, OpenConfig(tool) PROVE Aside /\ Types'
  <2>1. Show("config", tool) \in ViewType
    BY ShowTyped DEF At
  <2>2. Aside
    BY <1>1 DEF OpenConfig, Press, MayPress, Quiet, Aside, Show
  <2>3. Types'
    BY <1>1, <2>1 DEF OpenConfig, Press, Quiet, Show
  <2> QED BY <2>2, <2>3
<1>2. CASE Submit
  <2> DEFINE n == Command("read", 0, view)
  <2>1. n \in CommandType /\ n.what = "read"
    BY <1>2, CommandTyped, TuiAssumption DEF Submit, Work, Command
  <2>2. view' = view /\ cmds' = cmds \union {n} /\ MayPress /\ Quiet
    BY <1>2 DEF Submit, Press
  <2> HIDE DEF n
  <2>3. Aside
    BY <2>1, <2>2 DEF MayPress, Quiet, Aside, Doing, JobWork
  <2> QED BY <2>1, <2>2, <2>3 DEF Quiet
<1>3. CASE Esc
  <2>1. Menu \in ViewType /\ Menu.at = "menu"
    BY ShowTyped DEF Menu, At, Show
  <2>2. view.at = "deploy" => Show("config", view.tool) \in ViewType /\ view.tool \in Tools
    BY ShowTyped DEF At
  <2>3. CASE view' = Menu /\ cmds' = cmds /\ MayPress /\ Quiet
    <3>1. Aside
      BY <2>1, <2>3 DEF MayPress, Quiet, Aside
    <3> QED BY <2>1, <2>3, <3>1 DEF Quiet
  <2>4. CASE /\ view.at = "deploy" /\ view' = Show("config", view.tool)
             /\ cmds' = cmds /\ MayPress /\ Quiet
    <3> DEFINE v == Show("config", view.tool)
    <3>1. v \in ViewType /\ v.at = "config" /\ v.tool \in Tools
      BY <2>2, <2>4 DEF Show
    <3>2. view' = v
      BY <2>4
    <3> HIDE DEF v
    <3>3. Aside
      BY <2>4, <3>1, <3>2 DEF MayPress, Quiet, Aside
    <3> QED BY <2>4, <3>1, <3>2, <3>3 DEF Quiet
  <2> QED BY <1>3, <2>3, <2>4 DEF Esc, Press
<1>4. CASE Approve
  <2> DEFINE n == Command("apply", 0, view)
             v1 == [view EXCEPT !.stage = "apply"]
             v2 == [view EXCEPT !.stage = "stopped"]
  <2>1. /\ v1 \in ViewType /\ v1.at = view.at /\ v1.tool = view.tool
        /\ v2 \in ViewType /\ v2.at = view.at /\ v2.tool = view.tool
    BY DEF ViewType
  <2>2. n \in CommandType /\ n.what = "apply"
    BY <1>4, CommandTyped, TuiAssumption DEF Approve, Work, Command
  <2>3. /\ view.at = "deploy" /\ MayPress /\ Quiet
        /\ view' = v1 \/ view' = v2
        /\ cmds' = cmds \union {n} \/ cmds' = cmds
    BY <1>4 DEF Approve, Press
  <2> HIDE DEF n, v1, v2
  <2>4. Aside
    BY <2>1, <2>2, <2>3 DEF MayPress, Quiet, Aside, Doing, JobWork
  <2> QED BY <2>1, <2>2, <2>3, <2>4 DEF Quiet
<1>5. CASE Quit
  <2>1. Menu \in ViewType /\ Menu.at = "menu"
    BY ShowTyped DEF Menu, At, Show
  <2> QED BY <1>5, <2>1 DEF Quit, Quiet, Aside
<1> QED BY <1>1, <1>2, <1>3, <1>4, <1>5

(* A message that shows a view of no job, or leaves the one shown, and     *)
(* starts no command that carries a job on.                                *)
Moves(c) ==
  \E v \in ViewType, new \in SUBSET CommandType :
    /\ Answer(c, v, new)
    /\ v = view \/ v.at \notin {"status", "results"}
    /\ v.at # "menu" => v.tool \in Tools
    /\ \A d \in new : ~Doing(d) /\ d.what # "kill"
    /\ \A d, e \in new : d = e

LEMMA MovesAside ==
  ASSUME TuiInv, NEW c \in cmds, Moves(c), UNCHANGED <<config, jobs, record>>,
         infra' \in [gen : Gen, tool : Tools \union {NoTool}, up : SUBSET Tools],
         infra.gen # 0 => infra'.gen = infra.gen,
         images' \subseteq Tools
  PROVE  Aside /\ Types'
<1> USE DEF TuiInv, Types
<1>1. PICK v \in ViewType, new \in SUBSET CommandType :
        /\ view' = v /\ cmds' = (cmds \ {c}) \union new
        /\ v = view \/ v.at \notin {"status", "results"}
        /\ v.at # "menu" => v.tool \in Tools
        /\ \A d \in new : ~Doing(d) /\ d.what # "kill"
        /\ \A d, e \in new : d = e
  BY DEF Moves, Answer
<1>2. config.patient => cmds = {c}
  BY DEF OneAtATime
<1>3. Aside
  BY <1>1, <1>2 DEF Aside
<1> QED BY <1>1, <1>3

LEMMA DropMoves ==
  ASSUME Types, NEW c \in cmds, Drop(c)
  PROVE  Moves(c)
BY DEF Drop, Moves, Types

LEMMA ShowMoves ==
  ASSUME Types, NEW c \in cmds, NEW v \in ViewType, Answer(c, v, {}),
         v.at \notin {"status", "results"}, v.at # "menu" => v.tool \in Tools
  PROVE  Moves(c)
BY DEF Moves

LEMMA StopMoves ==
  ASSUME Types, NEW c \in cmds, Stop(c), view.at = "deploy"
  PROVE  Moves(c)
<1> DEFINE v == [view EXCEPT !.stage = "stopped"]
<1>1. v \in ViewType /\ v.at = "deploy" /\ v.tool \in Tools
  BY DEF Types, ViewType
<1>2. Answer(c, v, {})
  BY DEF Stop
<1> HIDE DEF v
<1> QED BY <1>1, <1>2, ShowMoves

LEMMA StartMoves ==
  ASSUME Types, NEW c \in cmds, NEW v \in ViewType, NEW w \in ViewType,
         NEW what \in {"check", "plan", "publish", "toStatus"},
         Answer(c, v, {Command(what, 0, w)}), w.tool \in Tools,
         v = view \/ v.at \notin {"status", "results"}, v.at # "menu" => v.tool \in Tools
  PROVE  Moves(c)
<1> DEFINE d == Command(what, 0, w)
<1>1. d \in CommandType
  BY CommandTyped, TuiAssumption DEF Work
<1>2. d.what = what
  BY DEF Command
<1>3. Answer(c, v, {d})
  OBVIOUS
<1> HIDE DEF d
<1> QED BY <1>1, <1>2, <1>3 DEF Moves, Doing, JobWork

LEMMA MessagesMove ==
  ASSUME TuiInv, NEW c \in cmds, Read(c) \/ Check(c) \/ Plan(c)
  PROVE  Aside /\ Types'
<1> USE DEF TuiInv
<1>1. CASE Read(c)
  <2>1. ASSUME Drop(c)
       PROVE  Moves(c)
    BY <2>1, DropMoves
  <2>2. ASSUME view.at = "config" /\ Bypass(c)
       PROVE  Moves(c)
    <3> DEFINE w == [view EXCEPT !.gen = 1]
    <3>1. w \in ViewType /\ w.tool \in Tools
      <4>1. 1 \in Gen
        BY TuiAssumption DEF Gen
      <4>2. view \in ViewType /\ view.tool \in Tools
        BY <2>2 DEF Types
      <4> QED BY <4>1, <4>2 DEF ViewType
    <3>2. Answer(c, view, {Command("toStatus", 0, w)})
      BY <2>2 DEF Bypass
    <3> HIDE DEF w
    <3> QED BY <3>1, <3>2, <2>2, StartMoves DEF Types
  <2>3. ASSUME view.at = "config" /\ Deploy(c)
       PROVE  Moves(c)
    <3> DEFINE v == [Show("deploy", view.tool) EXCEPT !.stage = "check"]
    <3>1. v \in ViewType /\ v.at = "deploy" /\ v.tool = view.tool /\ view.tool \in Tools
      <4>1. view.tool \in Tools /\ "deploy" \in At
        BY <2>3 DEF Types, At
      <4>2. Show("deploy", view.tool) \in ViewType
        BY <4>1, ShowTyped
      <4> QED BY <4>1, <4>2 DEF Show, ViewType
    <3>2. Answer(c, v, {Command("check", 0, view)})
      BY <2>3 DEF Deploy
    <3> HIDE DEF v
    <3> QED BY <3>1, <3>2, StartMoves DEF Types
  <2>4. Moves(c) /\ Quiet
    BY <1>1, <2>1, <2>2, <2>3 DEF Read, Heard
  <2> QED BY <2>4, MovesAside DEF Quiet, Types
<1>2. CASE Check(c)
  <2>1. ASSUME Drop(c)
       PROVE  Moves(c)
    BY <2>1, DropMoves
  <2>2. ASSUME view.at = "deploy" /\ Stop(c)
       PROVE  Moves(c)
    BY <2>2, StopMoves
  <2>3. ASSUME view.at = "deploy" /\ Answer(c, [view EXCEPT !.stage = "done"], ToStatus(view))
       PROVE  Moves(c)
    <3> DEFINE v == [view EXCEPT !.stage = "done"]
               w == Outputs(view)
    <3>1. /\ v \in ViewType /\ v.at = "deploy" /\ v.tool \in Tools
          /\ w \in ViewType /\ w.tool \in Tools
      BY <2>3 DEF Types, ViewType, Outputs, TuiInv
    <3>2. Answer(c, v, {Command("toStatus", 0, w)})
      BY <2>3 DEF ToStatus
    <3> HIDE DEF v, w
    <3> QED BY <3>1, <3>2, StartMoves
  <2>4. ASSUME /\ view.at = "deploy"
             /\ Answer(c, [view EXCEPT !.stage = "plan"], {Command("plan", 0, view)})
       PROVE  Moves(c)
    <3> DEFINE v == [view EXCEPT !.stage = "plan"]
    <3>1. v \in ViewType /\ v.at = "deploy" /\ v.tool \in Tools
          /\ view \in ViewType /\ view.tool \in Tools
      BY <2>4 DEF Types, ViewType
    <3>2. Answer(c, v, {Command("plan", 0, view)})
      BY <2>4
    <3> HIDE DEF v
    <3> QED BY <3>1, <3>2, StartMoves
  <2>5. Moves(c) /\ Quiet
    BY <1>2, <2>1, <2>2, <2>3, <2>4 DEF Check, Heard
  <2> QED BY <2>5, MovesAside DEF Quiet, Types
<1>3. CASE Plan(c)
  <2>1. ASSUME Drop(c)
       PROVE  Moves(c)
    BY <2>1, DropMoves
  <2>2. ASSUME view.at = "deploy" /\ Stop(c)
       PROVE  Moves(c)
    BY <2>2, StopMoves
  <2>3. ASSUME view.at = "deploy" /\ Answer(c, [view EXCEPT !.stage = "approve"], {})
       PROVE  Moves(c)
    <3> DEFINE v == [view EXCEPT !.stage = "approve"]
    <3>1. v \in ViewType /\ v.at = "deploy" /\ v.tool \in Tools
      BY <2>3 DEF Types, ViewType
    <3>2. Answer(c, v, {})
      BY <2>3
    <3> HIDE DEF v
    <3> QED BY <3>1, <3>2, ShowMoves
  <2>4. Moves(c) /\ Quiet
    BY <1>3, <2>1, <2>2, <2>3 DEF Plan, Heard
  <2> QED BY <2>4, MovesAside DEF Quiet, Types
<1> QED BY <1>1, <1>2, <1>3

LEMMA DeploymentMoves ==
  ASSUME TuiInv, NEW c \in cmds, Apply(c) \/ Publish(c)
  PROVE  Aside /\ Types'
<1> USE DEF TuiInv
<1>0. c.tool \in Tools
  BY DEF Types, CommandType
<1>1. ASSUME Drop(c)
      PROVE  Moves(c)
  BY <1>1, DropMoves
<1>2. ASSUME view.at = "deploy" /\ Stop(c)
      PROVE  Moves(c)
  BY <1>2, StopMoves
<1>3. CASE Apply(c)
  <2>1. ASSUME view.at = "deploy",
               Answer(c, [view EXCEPT !.stage = "publish"], {Command("publish", 0, view)})
        PROVE  Moves(c)
    <3> DEFINE v == [view EXCEPT !.stage = "publish"]
    <3>1. /\ v \in ViewType /\ v.at = "deploy" /\ v.tool \in Tools
          /\ view \in ViewType /\ view.tool \in Tools
      BY <2>1 DEF Types, ViewType
    <3>2. Answer(c, v, {Command("publish", 0, view)})
      BY <2>1
    <3> HIDE DEF v
    <3> QED BY <3>1, <3>2, StartMoves
  <2>2. Moves(c)
    BY <1>3, <1>1, <1>2, <2>1 DEF Apply, Heard
  <2>3. /\ infra' \in [gen : Gen, tool : Tools \union {NoTool}, up : SUBSET Tools]
        /\ infra.gen # 0 => infra'.gen = infra.gen
        /\ images' \subseteq Tools
    <3>1. CASE /\ \E g \in Gen :
                    /\ infra.gen # 0 => g = infra.gen
                    /\ infra' = [infra EXCEPT !.gen = g, !.tool = c.tool]
               /\ images' = {} \/ images' = images
      BY <1>0, <3>1 DEF Types
    <3>2. CASE UNCHANGED <<infra, images>>
      BY <3>2 DEF Types
    <3> QED BY <1>3, <3>1, <3>2 DEF Apply
  <2> QED BY <1>3, <2>2, <2>3, MovesAside DEF Apply
<1>4. CASE Publish(c)
  <2>1. ASSUME view.at = "deploy", Answer(c, [view EXCEPT !.stage = "done"], ToStatus(view))
        PROVE  Moves(c)
    <3> DEFINE v == [view EXCEPT !.stage = "done"]
               w == Outputs(view)
    <3>1. /\ v \in ViewType /\ v.at = "deploy" /\ v.tool \in Tools
          /\ w \in ViewType /\ w.tool \in Tools
      BY <2>1 DEF Types, ViewType, Outputs
    <3>2. Answer(c, v, {Command("toStatus", 0, w)})
      BY <2>1 DEF ToStatus
    <3> HIDE DEF v, w
    <3> QED BY <3>1, <3>2, StartMoves
  <2>2. Moves(c)
    BY <1>4, <1>1, <1>2, <2>1 DEF Publish, Heard
  <2>3. /\ UNCHANGED <<config, jobs, record, infra>>
        /\ images' = images \union {c.tool} \/ images' = images
    BY <1>4 DEF Publish
  <2>4. images' \subseteq Tools
    BY <1>0, <2>3 DEF Types
  <2> QED BY <2>2, <2>3, <2>4, MovesAside DEF Types
<1> QED BY <1>3, <1>4

-----------------------------------------------------------------------------
(* Steps that carry a job on. *)

(* The step of a command that carries a job on leaves at most the one that *)
(* follows it.                                                             *)
LEMMA JobTurn ==
  ASSUME TuiInv, NEW c \in cmds, Doing(c),
         NEW v, NEW new, Answer(c, v, new), UNCHANGED config,
         \A d \in new : Doing(d), \A d, e \in new : d = e,
         \A j \in Job : jobs'[j].size = jobs[j].size,
         Types', JobsAccount', Recorded', ViewKnows',
         \A d \in new : CommandKnows(d)'
  PROVE  TuiInv'
<1>1. view' = v /\ cmds' = (cmds \ {c}) \union new
  BY DEF Answer
<1>2. \A d \in cmds' : Doing(d) => d \in new
  BY <1>1 DEF TuiInv, OneAtATime
<1>3. OneAtATime'
  <2>1. config.patient => cmds' = new
    BY <1>1 DEF TuiInv, OneAtATime
  <2> QED BY <1>2, <2>1 DEF TuiInv, OneAtATime
<1>4. \A k \in cmds' : k.what # "kill"
  BY <1>1 DEF TuiInv, KillsLate, Doing, JobWork
<1> QED BY <1>2, <1>3, <1>4 DEF TuiInv, CommandsKnow, KillsLate, Doing

(* One that leaves none, and the view as it was but for what it displays.  *)
LEMMA JobSilent ==
  ASSUME TuiInv, NEW c \in cmds, Doing(c),
         NEW v \in ViewType, Answer(c, v, {}), UNCHANGED config,
         v.at = view.at, v.job = view.job, v.tool = view.tool,
         \A j \in Job : jobs'[j].size = jobs[j].size,
         infra' \in [gen : Gen, tool : Tools \union {NoTool}, up : SUBSET Tools],
         images' \subseteq Tools, jobs' \in [Job -> JobType], record' \in [Job -> Phase],
         JobsAccount', Recorded'
  PROVE  TuiInv'
<1>1. view' = v /\ cmds' \subseteq cmds
  BY DEF Answer
<1>2. Types'
  BY <1>1 DEF TuiInv, Types
<1>3. view.at # "results"
  BY DEF TuiInv, CommandsKnow, CommandKnows
<1>4. ViewKnows'
  BY <1>1, <1>3 DEF TuiInv, ViewKnows
<1> QED BY <1>2, <1>4, JobTurn

LEMMA Tracked ==
  ASSUME TuiInv, NEW job, NEW phase \in Phase, Track(job, phase),
         \A j \in Job : jobs'[j].size = jobs[j].size
  PROVE  record' \in [Job -> Phase] /\ Recorded'
BY DEF TuiInv, Types, Track, Recorded

(* A message the view does not take, or an error it shows. *)
LEMMA DropOrFail ==
  ASSUME TuiInv, NEW c \in cmds, Doing(c), UNCHANGED config,
         (Drop(c) /\ UNCHANGED record) \/ Failed(c),
         infra' \in [gen : Gen, tool : Tools \union {NoTool}, up : SUBSET Tools],
         images' \subseteq Tools, jobs' \in [Job -> JobType],
         \A j \in Job : jobs'[j].size = jobs[j].size,
         JobsAccount'
  PROVE  TuiInv'
<1>1. CASE Drop(c) /\ UNCHANGED record
  <2>1. view \in ViewType /\ record' \in [Job -> Phase] /\ Recorded'
    BY <1>1 DEF TuiInv, Types, Recorded
  <2> QED BY <1>1, <2>1, JobSilent DEF Drop
<1>2. CASE Failed(c)
  <2> DEFINE v == [view EXCEPT !.stage = "error"]
  <2>1. v \in ViewType /\ v.at = view.at /\ v.job = view.job /\ v.tool = view.tool
    BY DEF TuiInv, Types, ViewType
  <2>2. Answer(c, v, {}) /\ Track(view.job, "failed")
    BY <1>2 DEF Failed
  <2>3. record' \in [Job -> Phase] /\ Recorded'
    BY <2>2, Tracked DEF Phase
  <2> HIDE DEF v
  <2> QED BY <2>1, <2>2, <2>3, JobSilent
<1> QED BY <1>1, <1>2

(* The message of a job's command comes to the view of the job, and the    *)
(* next command is started from what that view now knows.                  *)
LEMMA JobForward ==
  ASSUME TuiInv, NEW c \in cmds, Doing(c), view.at = "status", UNCHANGED config,
         NEW v \in ViewType, NEW w \in ViewType, NEW what \in JobWork,
         NEW d, d = Command(what, view.job, w), Answer(c, v, {d}),
         v.at = "status", v.job = view.job, v.tool = view.tool, w.tool = view.tool,
         \A j \in Job : jobs'[j].size = jobs[j].size,
         infra' \in [gen : Gen, tool : Tools \union {NoTool}, up : SUBSET Tools],
         images' \subseteq Tools, jobs' \in [Job -> JobType], record' \in [Job -> Phase],
         JobsAccount', Recorded',
         CommandKnows(d)'
  PROVE  TuiInv'
<1>1. view.tool \in Tools /\ view.job \in Job /\ jobs[view.job].size > 0
  BY DEF TuiInv, Types, ViewKnows
<1>2. d \in CommandType /\ d.what = what
  <2>1. what \in Work /\ view.job \in 0..MaxJobs
    BY <1>1 DEF JobWork, Work, Job
  <2> QED BY <1>1, <2>1, CommandTyped DEF Command
<1>3. view' = v /\ cmds' = (cmds \ {c}) \union {d}
  BY DEF Answer
<1>4. Types'
  BY <1>1, <1>2, <1>3 DEF TuiInv, Types
<1>5. ViewKnows'
  BY <1>1, <1>3 DEF ViewKnows
<1>6. \A e \in {d} : Doing(e) /\ CommandKnows(e)'
  BY <1>2 DEF Doing
<1> QED BY <1>4, <1>5, <1>6, JobTurn DEF TuiInv

LEMMA SizesAreNumbers == Sizes \union {0} \subseteq Nat
BY TuiAssumption

LEMMA JobNumbers ==
  ASSUME Types, NEW j \in Job
  PROVE  /\ jobs[j].size \in Nat /\ jobs[j].queue \in Nat
         /\ jobs[j].stored \in Nat /\ jobs[j].exported \in Nat /\ jobs[j].extra \in Nat
<1>1. jobs[j] \in JobType
  BY DEF Types
<1> QED BY <1>1, SizesAreNumbers DEF JobType

LEMMA ViewNumbers ==
  ASSUME Types
  PROVE  view.seen \in Nat /\ view.total \in Nat
<1>1. view \in ViewType
  BY DEF Types
<1> QED BY <1>1, SizesAreNumbers DEF ViewType

LEMMA UploadStep ==
  ASSUME TuiInv, NEW c \in cmds, Upload(c)
  PROVE  TuiInv'
<1>1. Doing(c) /\ c.what = "upload" /\ CommandKnows(c)
  BY DEF Upload, Running, Doing, JobWork, TuiInv, CommandsKnow
<1>2. UNCHANGED <<config, infra, images, jobs>>
  BY DEF Upload
<1>3. /\ infra' \in [gen : Gen, tool : Tools \union {NoTool}, up : SUBSET Tools]
      /\ images' \subseteq Tools /\ jobs' \in [Job -> JobType] /\ JobsAccount'
      /\ \A j \in Job : jobs'[j].size = jobs[j].size
  BY <1>2 DEF TuiInv, Types, JobsAccount
<1>4. CASE (Drop(c) /\ UNCHANGED record) \/ Failed(c)
  BY <1>1, <1>2, <1>3, <1>4, DropOrFail
<1>5. CASE /\ view.at = "status" /\ Track(view.job, "enqueuing")
           /\ Answer(c, [view EXCEPT !.total = jobs[c.job].size], {Command("enqueue", c.job, view)})
  <2> DEFINE v == [view EXCEPT !.total = jobs[c.job].size]
  <2>1. /\ view \in ViewType /\ v \in ViewType /\ v.at = "status"
        /\ v.job = view.job /\ v.tool = view.tool
        /\ v.gen = view.gen /\ v.exported = view.exported /\ v.seen = view.seen
        /\ v.total = jobs[c.job].size /\ view.total = v.total
    BY <1>1, <1>5 DEF TuiInv, Types, ViewType, CommandKnows, JobType
  <2>2. view.job = c.job
    BY <1>1, <1>5 DEF CommandKnows
  <2>3. PICK d : d = Command("enqueue", view.job, view)
    OBVIOUS
  <2>4. Answer(c, v, {d})
    BY <1>5, <2>2, <2>3
  <2>5. record' \in [Job -> Phase] /\ Recorded'
    BY <1>3, <1>5, Tracked DEF Phase
  <2> HIDE DEF v
  <2>6. view' = v
    BY <2>4 DEF Answer
  <2>7. /\ d.what = "enqueue" /\ d.job = view.job
        /\ d.gen = view.gen /\ d.exported = view.exported
    BY <2>3 DEF Command
  <2>8. CommandKnows(d)'
    BY <1>1, <1>2, <1>5, <2>1, <2>2, <2>6, <2>7 DEF CommandKnows
  <2> QED BY <1>1, <1>2, <1>3, <1>5, <2>1, <2>3, <2>4, <2>5, <2>8, JobForward DEF JobWork
<1> QED BY <1>4, <1>5 DEF Upload, Heard

LEMMA EnqueueStep ==
  ASSUME TuiInv, NEW c \in cmds, Enqueue(c)
  PROVE  TuiInv'
<1>1. Doing(c) /\ c.what = "enqueue" /\ CommandKnows(c)
  BY DEF Enqueue, Running, Doing, JobWork, TuiInv, CommandsKnow
<1>2. UNCHANGED <<config, infra, images>>
  BY DEF Enqueue
<1>3. PICK n \in 0..jobs[c.job].size : jobs' = [jobs EXCEPT ![c.job].queue = n]
  <2>1. jobs[c.job].size \in Nat
    BY <1>1, JobNumbers DEF CommandKnows, TuiInv
  <2>2. CASE jobs' = [jobs EXCEPT ![c.job].queue = jobs[c.job].size]
    <3>1. jobs[c.job].size \in 0..jobs[c.job].size
      BY <2>1
    <3> QED BY <2>2, <3>1
  <2>3. CASE \E n \in 0..(IF Live(c) THEN jobs[c.job].size ELSE 0) :
               jobs' = [jobs EXCEPT ![c.job].queue = n]
    <3>1. 0..(IF Live(c) THEN jobs[c.job].size ELSE 0) \subseteq 0..jobs[c.job].size
      BY <2>1
    <3> QED BY <2>3, <3>1
  <2> QED BY <2>2, <2>3 DEF Enqueue, Sent
<1>4. /\ infra' \in [gen : Gen, tool : Tools \union {NoTool}, up : SUBSET Tools]
      /\ images' \subseteq Tools
  BY <1>2 DEF TuiInv, Types
<1>5. jobs' \in [Job -> JobType]
  <2>1. jobs \in [Job -> JobType] /\ n \in Nat
    BY <1>1, TuiAssumption DEF CommandKnows, TuiInv, Types, JobType
  <2> QED BY <1>3, <2>1 DEF JobType
<1>6. \A j \in Job : /\ jobs'[j].size = jobs[j].size /\ jobs'[j].stored = jobs[j].stored
                     /\ jobs'[j].extra = jobs[j].extra /\ jobs'[j].again = jobs[j].again
                     /\ jobs'[j].exported = jobs[j].exported
                     /\ j # c.job => jobs'[j] = jobs[j]
                     /\ j = c.job => jobs'[j].queue = n
  BY <1>3 DEF TuiInv, Types, JobType
<1>7. JobsAccount'
  <2>1. jobs[c.job].stored = 0 /\ n <= jobs[c.job].size /\ n \in Nat
    BY <1>1, TuiAssumption DEF CommandKnows, TuiInv, Types, JobType
  <2>2. \A j \in Job : j # c.job => jobs'[j].queue = jobs[j].queue
    BY <1>6
  <2> QED BY <1>6, <2>1, <2>2 DEF JobsAccount, TuiInv
<1>8. CASE (Drop(c) /\ UNCHANGED record) \/ Failed(c)
  BY <1>1, <1>2, <1>4, <1>5, <1>6, <1>7, <1>8, DropOrFail
<1>9. CASE /\ view.at = "status" /\ Track(view.job, "launching")
           /\ Answer(c, view, {Command("launch", view.job, view)})
  <2>1. PICK d : d = Command("launch", view.job, view)
    OBVIOUS
  <2>2. view' = view /\ Answer(c, view, {d}) /\ view \in ViewType
    BY <1>9, <2>1 DEF Answer, TuiInv, Types
  <2>3. record' \in [Job -> Phase] /\ Recorded'
    BY <1>6, <1>9, Tracked DEF Phase
  <2>4. /\ d.what = "launch" /\ d.job = view.job
        /\ d.gen = view.gen /\ d.exported = view.exported
    BY <2>1 DEF Command
  <2>5. CommandKnows(d)'
    BY <1>1, <1>6, <1>9, <2>2, <2>4 DEF CommandKnows
  <2> QED BY <1>1, <1>2, <1>4, <1>5, <1>6, <1>7, <1>9, <2>1, <2>2, <2>3, <2>5, JobForward
          DEF JobWork
<1> QED BY <1>8, <1>9 DEF Enqueue, Heard

LEMMA LaunchStep ==
  ASSUME TuiInv, NEW c \in cmds, Launch(c)
  PROVE  TuiInv'
<1>1. Doing(c) /\ c.what = "launch" /\ CommandKnows(c)
  BY DEF Launch, Running, Doing, JobWork, TuiInv, CommandsKnow
<1>2. UNCHANGED <<config, images, jobs>>
  BY DEF Launch
<1>3. infra' \in [gen : Gen, tool : Tools \union {NoTool}, up : SUBSET Tools]
  <2>1. c.tool \in Tools
    BY DEF TuiInv, Types, CommandType
  <2>2. PICK up \in {{}, {c.tool}} : infra' = [infra EXCEPT !.up = @ \union up]
    BY DEF Launch, Launched, Started
  <2> QED BY <2>1, <2>2 DEF TuiInv, Types
<1>4. /\ images' \subseteq Tools /\ jobs' \in [Job -> JobType] /\ JobsAccount'
      /\ \A j \in Job : jobs'[j].size = jobs[j].size
  BY <1>2 DEF TuiInv, Types, JobsAccount
<1>5. CASE (Drop(c) /\ UNCHANGED record) \/ Failed(c)
  BY <1>1, <1>2, <1>3, <1>4, <1>5, DropOrFail
<1>6. CASE /\ view.at = "status" /\ Track(view.job, "scanning")
           /\ Answer(c, view, {Command("poll", view.job, view)})
  <2>1. PICK d : d = Command("poll", view.job, view)
    OBVIOUS
  <2>2. view' = view /\ Answer(c, view, {d}) /\ view \in ViewType
    BY <1>6, <2>1 DEF Answer, TuiInv, Types
  <2>3. record' \in [Job -> Phase] /\ Recorded'
    BY <1>4, <1>6, Tracked DEF Phase
  <2>4. /\ d.what = "poll" /\ d.job = view.job
        /\ d.gen = view.gen /\ d.exported = view.exported
    BY <2>1 DEF Command
  <2>5. CommandKnows(d)'
    BY <1>1, <1>2, <1>6, <2>2, <2>4 DEF CommandKnows
  <2> QED BY <1>1, <1>2, <1>3, <1>4, <1>6, <2>1, <2>2, <2>3, <2>5, JobForward DEF JobWork
<1> QED BY <1>5, <1>6 DEF Launch, Heard

(* A count that is not yet the number of tasks is asked for again; the one *)
(* that is comes from a storage that has every result.                     *)
LEMMA PollStep ==
  ASSUME TuiInv, NEW c \in cmds, PollOk(c) \/ PollFails(c)
  PROVE  TuiInv'
<1>1. Doing(c) /\ c.what = "poll" /\ CommandKnows(c)
  BY DEF PollOk, PollFails, Running, Doing, JobWork, TuiInv, CommandsKnow
<1>2. UNCHANGED <<config, infra, images, jobs>>
  BY DEF PollOk, PollFails
<1>3. /\ infra' \in [gen : Gen, tool : Tools \union {NoTool}, up : SUBSET Tools]
      /\ images' \subseteq Tools /\ jobs' \in [Job -> JobType] /\ JobsAccount'
      /\ \A j \in Job : jobs'[j].size = jobs[j].size
  BY <1>2 DEF TuiInv, Types, JobsAccount
<1>4. CASE Drop(c) /\ UNCHANGED record
  BY <1>1, <1>2, <1>3, <1>4, DropOrFail
<1>5. ASSUME view.at = "status", NEW n \in Nat, Counted(c, n),
             n = view.seen \/ (Live(c) /\ n = Count(c.job))
      PROVE  TuiInv'
  <2> DEFINE v == [view EXCEPT !.seen = n]
  <2>1. /\ v \in ViewType /\ v.at = "status" /\ v.seen = n
        /\ v.job = view.job /\ v.tool = view.tool /\ v.total = view.total
        /\ v.gen = view.gen /\ v.exported = view.exported
    BY <1>5 DEF TuiInv, Types, ViewType
  <2>2. /\ view.job = c.job /\ c.job \in Job /\ view.gen = c.gen /\ ~view.exported
        /\ view.total = jobs[c.job].size /\ view.seen < view.total
        /\ view.seen \in Nat /\ view.total \in Nat
    BY <1>1, <1>5, ViewNumbers DEF CommandKnows, TuiInv
  <2>3. CASE n >= view.total
    <3>1. Live(c) /\ n = jobs[c.job].stored + jobs[c.job].extra
      BY <1>5, <2>2, <2>3 DEF Count
    <3>2. jobs[c.job].stored = jobs[c.job].size \/ jobs[c.job].again
      <4>1. /\ jobs[c.job].queue \in Nat /\ jobs[c.job].stored \in Nat /\ jobs[c.job].extra \in Nat
            /\ jobs[c.job].size \in Nat
        BY <2>2, JobNumbers DEF TuiInv
      <4> QED BY <1>1, <2>2, <2>3, <3>1, <4>1 DEF TuiInv, JobsAccount, CommandKnows
    <3>3. PICK d : d = Command(AfterScan, view.job, v)
      OBVIOUS
    <3>4. Track(view.job, "complete") /\ Answer(c, v, {d})
      BY <1>5, <2>1, <2>3, <3>3 DEF Counted, Complete
    <3> HIDE DEF v
    <3>5. record' \in [Job -> Phase] /\ Recorded'
      BY <1>2, <2>2, <3>2, <3>4, Tracked DEF Phase
    <3>6. /\ d.what \in {"export", "toResults"} /\ d.job = view.job
          /\ d.gen = view.gen /\ d.exported = view.exported
      BY <2>1, <3>3 DEF Command, AfterScan
    <3>7. Delivered(d.job, d.gen, d.exported)'
      BY <1>2, <2>2, <3>1, <3>2, <3>6 DEF Delivered, Live
    <3>8. view' = v
      BY <3>4 DEF Answer
    <3>9. CommandKnows(d)'
      BY <1>1, <1>2, <1>5, <2>1, <2>2, <3>6, <3>7, <3>8 DEF CommandKnows
    <3>10. AfterScan \in JobWork
      BY DEF AfterScan, JobWork
    <3> QED BY <1>1, <1>2, <1>3, <1>5, <2>1, <3>3, <3>4, <3>5, <3>9, <3>10, JobForward
  <2>4. CASE ~(n >= view.total)
    <3>1. PICK d : d = Command("poll", view.job, v)
      OBVIOUS
    <3>2. UNCHANGED record /\ Answer(c, v, {d})
      BY <1>5, <2>1, <2>4, <3>1 DEF Counted, Complete
    <3> HIDE DEF v
    <3>3. record' \in [Job -> Phase] /\ Recorded'
      BY <1>2, <3>2 DEF TuiInv, Types, Recorded
    <3>4. /\ d.what = "poll" /\ d.job = view.job
          /\ d.gen = view.gen /\ d.exported = view.exported
      BY <2>1, <3>1 DEF Command
    <3>5. view' = v /\ n < view.total
      BY <2>2, <2>4, <3>2 DEF Answer
    <3>6. CommandKnows(d)'
      BY <1>1, <1>2, <1>5, <2>1, <2>2, <3>4, <3>5 DEF CommandKnows
    <3> QED BY <1>1, <1>2, <1>3, <1>5, <2>1, <3>1, <3>2, <3>3, <3>6, JobForward DEF JobWork
  <2> QED BY <2>3, <2>4
<1>6. view.seen \in Nat /\ Count(c.job) \in Nat
  BY <1>1, JobNumbers, ViewNumbers DEF CommandKnows, TuiInv, Count
<1> QED BY <1>4, <1>5, <1>6 DEF PollOk, PollFails, Heard

(* The job's command of the results and its own view know the same.        *)
LEMMA ExportStep ==
  ASSUME TuiInv, NEW c \in cmds, Export(c)
  PROVE  TuiInv'
<1>1. Doing(c) /\ c.what = "export" /\ CommandKnows(c)
  BY DEF Export, Running, Doing, JobWork, TuiInv, CommandsKnow
<1>2. UNCHANGED <<config, infra, images, record>>
  BY DEF Export
<1>3. /\ infra' \in [gen : Gen, tool : Tools \union {NoTool}, up : SUBSET Tools]
      /\ images' \subseteq Tools /\ record' \in [Job -> Phase] /\ view \in ViewType
  BY <1>2 DEF TuiInv, Types
<1>4. /\ c.job \in Job /\ ~c.exported
      /\ jobs[c.job].stored = jobs[c.job].size \/ jobs[c.job].again
      /\ jobs[c.job].stored \in Nat /\ jobs[c.job].queue \in Nat /\ jobs[c.job].size \in Nat
      /\ Delivered(c.job, c.gen, FALSE)
  BY <1>1, JobNumbers DEF CommandKnows, Delivered, TuiInv
<1>5. ASSUME jobs' = [jobs EXCEPT ![c.job].exported = jobs[c.job].stored]
      PROVE  /\ jobs' \in [Job -> JobType]
             /\ \A j \in Job : /\ jobs'[j].size = jobs[j].size
                               /\ jobs'[j].queue = jobs[j].queue
                               /\ jobs'[j].stored = jobs[j].stored
                               /\ jobs'[j].extra = jobs[j].extra /\ jobs'[j].again = jobs[j].again
                               /\ j # c.job => jobs'[j] = jobs[j]
                               /\ j = c.job => jobs'[j].exported = jobs[c.job].stored
             /\ JobsAccount' /\ Recorded'
  <2>1. /\ jobs' \in [Job -> JobType]
        /\ \A j \in Job : /\ jobs'[j].size = jobs[j].size /\ jobs'[j].queue = jobs[j].queue
                          /\ jobs'[j].stored = jobs[j].stored
                          /\ jobs'[j].extra = jobs[j].extra /\ jobs'[j].again = jobs[j].again
                          /\ j # c.job => jobs'[j] = jobs[j]
                          /\ j = c.job => jobs'[j].exported = jobs[c.job].stored
    BY <1>4, <1>5 DEF TuiInv, Types, JobType
  <2>2. Recorded'
    BY <1>2, <2>1 DEF TuiInv, Recorded
  <2>3. \A j \in Job : j # c.job => jobs'[j].exported = jobs[j].exported
    BY <2>1
  <2>4. JobsAccount'
    BY <1>4, <2>1, <2>3 DEF TuiInv, JobsAccount
  <2> QED BY <2>1, <2>2, <2>4
<1>6. ASSUME jobs' = [jobs EXCEPT ![c.job].exported = jobs[c.job].stored], Drop(c)
      PROVE  TuiInv'
  BY <1>1, <1>2, <1>3, <1>5, <1>6, DropOrFail
<1>7. ASSUME jobs' = [jobs EXCEPT ![c.job].exported = jobs[c.job].stored],
             view.at = "status", NEW what \in {"toResults", "destroy"},
             Answer(c, Exported(view), {Command(what, view.job, Exported(view))})
      PROVE  TuiInv'
  <2> DEFINE v == Exported(view)
  <2>1. /\ v \in ViewType /\ v.at = "status" /\ v.job = view.job /\ v.tool = view.tool
        /\ v.total = view.total /\ v.gen = view.gen /\ v.seen = view.seen
        /\ v.exported = TRUE
    BY <1>3, <1>7 DEF ViewType, Exported
  <2>2. PICK d : d = Command(what, view.job, v)
    OBVIOUS
  <2>3. Answer(c, v, {d})
    BY <1>7, <2>2
  <2> HIDE DEF v
  <2>4. d.what = what /\ d.job = view.job /\ d.gen = view.gen /\ d.exported = TRUE
    BY <2>1, <2>2 DEF Command
  <2>5. view' = v /\ view.job = c.job /\ view.total = jobs[c.job].size /\ jobs[c.job].size > 0
    BY <1>1, <1>7, <2>3 DEF Answer, CommandKnows
  <2>6. jobs'[d.job].exported = jobs'[d.job].size \/ jobs'[d.job].again
    BY <1>4, <1>5, <1>7, <2>4, <2>5
  <2>7. CommandKnows(d)'
    BY <1>4, <1>5, <1>7, <2>1, <2>4, <2>5, <2>6 DEF CommandKnows, Delivered
  <2>8. what \in JobWork
    BY DEF JobWork
  <2> QED BY <1>1, <1>2, <1>3, <1>5, <1>7, <2>1, <2>2, <2>3, <2>7, <2>8, JobForward
<1>8. ASSUME UNCHANGED jobs
      PROVE  /\ jobs' \in [Job -> JobType] /\ JobsAccount' /\ Recorded'
             /\ \A j \in Job : jobs'[j].size = jobs[j].size
  BY <1>2, <1>8 DEF TuiInv, Types, JobsAccount, Recorded
<1>9. ASSUME UNCHANGED jobs, Drop(c)
      PROVE  TuiInv'
  BY <1>1, <1>2, <1>3, <1>8, <1>9, DropOrFail
<1>10. ASSUME UNCHANGED jobs, view.at = "status", Navigate(c)
       PROVE  TuiInv'
  <2>1. view.job = c.job /\ view.gen = c.gen /\ ~view.exported
    BY <1>1, <1>4, <1>10 DEF CommandKnows
  <2>2. PICK d : d = Command("toResults", view.job, view)
    OBVIOUS
  <2>3. Answer(c, view, {d}) /\ view' = view
    BY <1>10, <2>2 DEF Navigate, Answer
  <2>4. /\ d.what = "toResults" /\ d.job = view.job
        /\ d.gen = view.gen /\ d.exported = view.exported
    BY <2>2 DEF Command
  <2>5. CommandKnows(d)'
    BY <1>1, <1>2, <1>4, <1>10, <2>1, <2>3, <2>4 DEF CommandKnows, Delivered
  <2> QED BY <1>1, <1>2, <1>3, <1>8, <1>10, <2>2, <2>3, <2>5, JobForward DEF JobWork
<1> QED BY <1>6, <1>7, <1>9, <1>10 DEF Export, Heard

LEMMA ClearedJobs ==
  ASSUME TuiInv, UNCHANGED record, Cleared \/ UNCHANGED <<infra, images, jobs>>
  PROVE  /\ infra' \in [gen : Gen, tool : Tools \union {NoTool}, up : SUBSET Tools]
         /\ images' \subseteq Tools /\ jobs' \in [Job -> JobType] /\ record' \in [Job -> Phase]
         /\ \A j \in Job : /\ jobs'[j].size = jobs[j].size
                           /\ jobs'[j].exported = jobs[j].exported
                           /\ jobs'[j].again = jobs[j].again
         /\ JobsAccount' /\ Recorded'
<1>1. CASE Cleared
  <2>1. /\ infra' \in [gen : Gen, tool : Tools \union {NoTool}, up : SUBSET Tools]
        /\ images' \subseteq Tools
    <3>1. 0 \in Gen
      BY TuiAssumption DEF Gen
    <3> QED BY <1>1, <3>1 DEF Cleared, Absent
  <2>2. /\ jobs' \in [Job -> JobType]
        /\ \A j \in Job : /\ jobs'[j].size = jobs[j].size
                          /\ jobs'[j].exported = jobs[j].exported
                          /\ jobs'[j].again = jobs[j].again
                          /\ jobs'[j].queue = 0 /\ jobs'[j].stored = 0 /\ jobs'[j].extra = 0
    <3>1. jobs \in [Job -> JobType]
      BY DEF TuiInv, Types
    <3>2. jobs' = [j \in Job |-> [jobs[j] EXCEPT !.queue = 0, !.stored = 0, !.extra = 0]]
      BY <1>1 DEF Cleared
    <3>3. 0 \in 0..MaxCopies /\ \A j \in Job : jobs[j] \in JobType
      BY <3>1, TuiAssumption
    <3> QED BY <3>2, <3>3 DEF JobType
  <2>3. \A j \in Job : jobs[j].size \in Nat
    BY JobNumbers DEF TuiInv
  <2> QED BY <2>1, <2>2, <2>3 DEF TuiInv, Types, JobsAccount, Recorded
<1>2. CASE UNCHANGED <<infra, images, jobs>>
  BY <1>2 DEF TuiInv, Types, JobsAccount, Recorded
<1> QED BY <1>1, <1>2

LEMMA AutoDestroyStep ==
  ASSUME TuiInv, NEW c \in cmds, AutoDestroy(c)
  PROVE  TuiInv'
<1>1. Doing(c) /\ c.what = "destroy" /\ CommandKnows(c)
  BY DEF AutoDestroy, Running, Doing, JobWork, TuiInv, CommandsKnow
<1>2. UNCHANGED <<config, record>> /\ (Cleared \/ UNCHANGED <<infra, images, jobs>>)
  BY DEF AutoDestroy
<1>3. CASE Drop(c)
  BY <1>1, <1>2, <1>3, ClearedJobs, DropOrFail
<1>4. ASSUME view.at = "status", NEW ok \in BOOLEAN,
             Answer(c, [view EXCEPT !.destroyed = ok],
                    {Command("toResults", view.job, [view EXCEPT !.destroyed = ok])})
      PROVE  TuiInv'
  <2> DEFINE v == [view EXCEPT !.destroyed = ok]
  <2>1. /\ v \in ViewType /\ v.at = "status" /\ v.job = view.job /\ v.tool = view.tool
        /\ v.total = view.total /\ v.gen = view.gen /\ v.exported = view.exported
    BY <1>4 DEF TuiInv, Types, ViewType
  <2>2. PICK d : d = Command("toResults", view.job, v)
    OBVIOUS
  <2>3. Answer(c, v, {d})
    BY <1>4, <2>2
  <2> HIDE DEF v
  <2>4. view' = v
    BY <2>3 DEF Answer
  <2>5. /\ d.what = "toResults" /\ d.job = view.job
        /\ d.gen = view.gen /\ d.exported = view.exported
    BY <2>1, <2>2 DEF Command
  <2>6. /\ view.job = c.job /\ c.job \in Job /\ view.total = jobs[c.job].size
        /\ view.exported /\ jobs[c.job].size > 0
        /\ jobs[c.job].exported = jobs[c.job].size \/ jobs[c.job].again
    BY <1>1, <1>4 DEF CommandKnows, Delivered
  <2>7. \A j \in Job : /\ jobs'[j].size = jobs[j].size /\ jobs'[j].exported = jobs[j].exported
                       /\ jobs'[j].again = jobs[j].again
    BY <1>2, ClearedJobs
  <2>8. Delivered(d.job, d.gen, d.exported)'
    BY <2>5, <2>6, <2>7 DEF Delivered
  <2>9. CommandKnows(d)'
    BY <1>4, <2>1, <2>4, <2>5, <2>6, <2>7, <2>8 DEF CommandKnows
  <2> QED BY <1>1, <1>2, <1>4, <2>1, <2>2, <2>3, <2>9, ClearedJobs, JobForward DEF JobWork
<1> QED BY <1>3, <1>4 DEF AutoDestroy, Heard

LEMMA ToResultsStep ==
  ASSUME TuiInv, NEW c \in cmds, ToResultsView(c)
  PROVE  TuiInv'
<1> DEFINE v == [Show("results", c.tool) EXCEPT !.job = c.job, !.gen = c.gen,
                   !.exported = c.exported, !.destroyed = c.destroyed]
<1>1. Doing(c) /\ c.what = "toResults" /\ CommandKnows(c)
  BY DEF ToResultsView, Running, Doing, JobWork, TuiInv, CommandsKnow
<1>2. c \in CommandType
  BY DEF TuiInv, Types
<1>3. /\ v \in ViewType /\ v.at = "results" /\ v.tool \in Tools /\ v.job = c.job
      /\ v.gen = c.gen /\ v.exported = c.exported
  <2>1. c.tool \in Tools /\ "results" \in At
    BY <1>2 DEF CommandType, At
  <2>2. Show("results", c.tool) \in ViewType
    BY <2>1, ShowTyped
  <2> QED BY <1>2, <2>1, <2>2 DEF Show, ViewType, CommandType
<1>4. Answer(c, v, {}) /\ Quiet
  BY DEF ToResultsView
<1> HIDE DEF v
<1>5. view' = v /\ cmds' \subseteq cmds
  BY <1>4 DEF Answer
<1>6. Types' /\ JobsAccount' /\ Recorded'
  BY <1>3, <1>4, <1>5 DEF TuiInv, Types, Quiet, JobsAccount, Recorded
<1>7. ViewKnows'
  BY <1>1, <1>3, <1>4, <1>5 DEF ViewKnows, CommandKnows, Delivered, Quiet
<1>8. UNCHANGED config /\ \A j \in Job : jobs'[j].size = jobs[j].size
  BY <1>4 DEF Quiet
<1> QED BY <1>1, <1>4, <1>6, <1>7, <1>8, JobTurn

-----------------------------------------------------------------------------
(* The operator's own destroy. *)

LEMMA DestroyStep ==
  ASSUME TuiInv, Destroy
  PROVE  TuiInv'
<1> DEFINE v == [view EXCEPT !.stage = "destroying"]
<1>1. /\ view.at = "results" /\ MayPress /\ Quiet
      /\ view' = v /\ cmds' = cmds \union {Command("kill", view.job, view)}
  BY DEF Destroy, Press
<1>2. view.tool \in Tools /\ view.job \in Job /\ jobs[view.job].size > 0 /\ view \in ViewType
  BY <1>1 DEF TuiInv, Types, ViewKnows
<1>3. /\ v \in ViewType /\ v.at = "results" /\ v.tool = view.tool /\ v.job = view.job
      /\ v.stage = "destroying"
  BY <1>1, <1>2 DEF ViewType
<1>4. PICK d : d = Command("kill", view.job, view)
  OBVIOUS
<1>5. d \in CommandType /\ d.what = "kill" /\ d.job = view.job /\ ~Doing(d)
  <2>1. "kill" \in Work /\ view.job \in 0..MaxJobs
    BY <1>2 DEF Work, Job
  <2> QED BY <1>2, <1>4, <2>1, CommandTyped DEF Command, Doing, JobWork
<1>6. \A c \in cmds : ~Doing(c)
  BY <1>1 DEF TuiInv, CommandsKnow, CommandKnows
<1>7. cmds' = cmds \union {d}
  BY <1>1, <1>4
<1> HIDE DEF v
<1>8. Types' /\ JobsAccount' /\ Recorded'
  BY <1>1, <1>2, <1>3, <1>5, <1>7 DEF TuiInv, Types, Quiet, JobsAccount, Recorded
<1>9. OneAtATime'
  BY <1>1, <1>5, <1>7 DEF TuiInv, OneAtATime, MayPress, Quiet
<1>10. CommandsKnow' /\ ViewKnows'
  BY <1>1, <1>2, <1>3, <1>5, <1>6, <1>7 DEF CommandsKnow, ViewKnows, Quiet, Doing
<1>11. KillsLate'
  BY <1>1, <1>2, <1>3, <1>5, <1>6, <1>7 DEF TuiInv, KillsLate, Quiet, Doing
<1> QED BY <1>8, <1>9, <1>10, <1>11 DEF TuiInv

LEMMA KillStep ==
  ASSUME TuiInv, NEW c \in cmds, Kill(c)
  PROVE  TuiInv'
<1>1. c.what = "kill" /\ \A d \in cmds : ~Doing(d)
  BY DEF Kill, Running, TuiInv, KillsLate
<1>2. UNCHANGED <<config, record>> /\ (Cleared \/ UNCHANGED <<infra, images, jobs>>)
  BY DEF Kill
<1>3. PICK v \in ViewType : /\ Answer(c, v, {}) /\ v.at = view.at /\ v.job = view.job
                            /\ v.tool = view.tool
                            /\ v.at = "results" => v.stage # ""
  <2>1. CASE Drop(c)
    BY <1>1, <2>1 DEF Drop, TuiInv, Types, KillsLate
  <2>2. ASSUME view.at = "results", NEW ok \in BOOLEAN,
               Answer(c, [view EXCEPT !.stage = "tried", !.destroyed = ok], {})
        PROVE  \E v \in ViewType : /\ Answer(c, v, {}) /\ v.at = view.at /\ v.job = view.job
                                   /\ v.tool = view.tool
                                   /\ v.at = "results" => v.stage # ""
    <3> DEFINE v == [view EXCEPT !.stage = "tried", !.destroyed = ok]
    <3>1. /\ v \in ViewType /\ v.at = view.at /\ v.job = view.job /\ v.tool = view.tool
          /\ v.stage # ""
      BY <2>2 DEF TuiInv, Types, ViewType
    <3>2. Answer(c, v, {})
      BY <2>2
    <3> HIDE DEF v
    <3> QED BY <3>1, <3>2
  <2> QED BY <2>1, <2>2 DEF Kill, Heard
<1>4. view' = v /\ cmds' \subseteq cmds
  BY <1>3 DEF Answer
<1>5. Types' /\ JobsAccount' /\ Recorded'
  BY <1>2, <1>3, <1>4, ClearedJobs DEF TuiInv, Types
<1>6. \A j \in Job : jobs'[j].size = jobs[j].size
  BY <1>2, ClearedJobs
<1>7. OneAtATime' /\ CommandsKnow'
  BY <1>1, <1>2, <1>4, <1>6 DEF TuiInv, OneAtATime, CommandsKnow, Doing
<1>8. KillsLate'
  BY <1>1, <1>3, <1>4, <1>6 DEF TuiInv, KillsLate, Doing
<1>9. ViewKnows'
  BY <1>3, <1>4, <1>6 DEF TuiInv, ViewKnows
<1> QED BY <1>5, <1>7, <1>8, <1>9 DEF TuiInv

-----------------------------------------------------------------------------
(* A job begins, and its tasks are run. *)

(* The job a navigation begins is the only one of an operator in a hurry.  *)
LEMMA NothingDoing ==
  ASSUME Careful, TuiInv, NEW c \in cmds, c.what = "toStatus", NEW j \in Job, Free(j)
  PROVE  \A d \in cmds : ~Doing(d) /\ d.what # "kill"
<1>1. ~Doing(c) /\ jobs[j].size = 0
  BY DEF Doing, JobWork, Free, NoJob
<1>2. CASE config.patient
  BY <1>1, <1>2 DEF TuiInv, OneAtATime
<1>3. CASE ~config.patient
  <2>1. HastyJobs = 1
    BY <1>3, TuiAssumption DEF Careful, TuiInv, Types
  <2>2. j = 1
    BY <1>3, <2>1 DEF Free, Job
  <2>3. \A i \in Job : ~(jobs[i].size > 0)
    BY <1>1, <1>3, <2>2 DEF TuiInv, OneAtATime
  <2> QED BY <2>3 DEF TuiInv, CommandsKnow, CommandKnows, KillsLate
<1> QED BY <1>2, <1>3

LEMMA BeginStep ==
  ASSUME Careful, TuiInv, NEW c \in cmds, c.what = "toStatus",
         UNCHANGED <<config, infra, images>>,
         NEW j \in Job, NEW n \in Sizes, Begin(c, j, n)
  PROVE  TuiInv'
<1> DEFINE v == [Show("status", c.tool) EXCEPT !.job = j, !.gen = c.gen, !.total = n]
           u == [v EXCEPT !.total = 0, !.stage = "error"]
<1>1. Free(j) /\ jobs' = [jobs EXCEPT ![j].tool = c.tool, ![j].size = n]
  BY DEF Begin
<1>2. \A d \in cmds : ~Doing(d) /\ d.what # "kill"
  BY <1>1, NothingDoing
<1>3. c \in CommandType /\ n \in Nat /\ n > 0 /\ jobs[j] = NoJob
  BY <1>1, TuiAssumption DEF TuiInv, Types, Free
<1>4. /\ v \in ViewType /\ v.at = "status" /\ v.tool = c.tool /\ v.job = j
      /\ v.gen = c.gen /\ v.total = n /\ v.seen = 0 /\ v.exported = FALSE
      /\ u \in ViewType /\ u.at = "status" /\ u.tool = c.tool /\ u.job = j
  <2>1. c.tool \in Tools /\ "status" \in At /\ j \in 0..MaxJobs
    BY <1>3 DEF CommandType, At, Job
  <2>2. Show("status", c.tool) \in ViewType
    BY <2>1, ShowTyped
  <2> QED BY <1>3, <2>1, <2>2 DEF Show, ViewType, CommandType
<1>5. /\ jobs' \in [Job -> JobType]
      /\ jobs'[j].size = n /\ jobs'[j].queue = 0 /\ jobs'[j].stored = 0
      /\ jobs'[j].exported = 0 /\ jobs'[j].extra = 0
      /\ \A i \in Job : i # j => jobs'[i] = jobs[i]
  <2>1. c.tool \in Tools
    BY <1>3 DEF CommandType
  <2> QED BY <1>1, <1>3, <2>1 DEF TuiInv, Types, JobType, NoJob
<1>6. JobsAccount'
  BY <1>3, <1>5 DEF TuiInv, JobsAccount
<1>7. ~config.patient => j = 1
  <2>1. ~config.patient => HastyJobs = 1
    BY TuiAssumption DEF Careful, TuiInv, Types
  <2> QED BY <1>1, <2>1 DEF Free, Job
<1>8. config.patient => cmds = {c}
  BY DEF TuiInv, OneAtATime
<1>9. CASE Answer(c, v, {Command(FirstWork(c.tool), j, v)}) /\ Create(j, c.tool)
  <2>1. PICK d : d = Command(FirstWork(c.tool), j, v)
    OBVIOUS
  <2>2. /\ d \in CommandType /\ d.what \in {"upload", "enqueue"} /\ d.job = j
        /\ d.gen = c.gen /\ d.exported = FALSE
    <3>1. FirstWork(c.tool) \in {"upload", "enqueue"}
      BY DEF FirstWork
    <3>2. FirstWork(c.tool) \in Work /\ v.tool \in Tools /\ j \in 0..MaxJobs
      BY <1>3, <1>4, <3>1 DEF Work, CommandType, Job
    <3>3. d \in CommandType
      BY <1>4, <2>1, <3>2, CommandTyped
    <3> QED BY <1>4, <2>1, <3>1, <3>3 DEF Command
  <2>3. Answer(c, v, {d})
    BY <1>9, <2>1
  <2> HIDE DEF v, u
  <2>4. view' = v /\ cmds' = (cmds \ {c}) \union {d}
    BY <2>3 DEF Answer
  <2>5. /\ record' \in [Job -> Phase] /\ Recorded'
    <3>1. \A i \in Job : i # j => record'[i] = record[i]
      BY <1>9 DEF Create, TuiInv, Types
    <3>2. record' \in [Job -> Phase]
      BY <1>9 DEF Create, TuiInv, Types, Phase
    <3> QED BY <1>3, <1>5, <3>1, <3>2 DEF TuiInv, Recorded
  <2>6. Types'
    BY <1>3, <1>4, <1>5, <2>2, <2>4, <2>5 DEF TuiInv, Types, CommandType
  <2>7. \A e \in cmds' : Doing(e) => e = d
    BY <1>2, <2>4
  <2>8. \A e \in cmds' : e.what # "kill"
    BY <1>2, <2>2, <2>4
  <2>9. OneAtATime'
    BY <1>5, <1>7, <1>8, <2>4, <2>7 DEF TuiInv, OneAtATime, Doing
  <2>10. CommandKnows(d)'
    BY <1>3, <1>4, <1>5, <2>2, <2>4 DEF CommandKnows
  <2>11. CommandsKnow' /\ KillsLate' /\ ViewKnows'
    BY <1>3, <1>4, <1>5, <2>4, <2>7, <2>8, <2>10 DEF CommandsKnow, KillsLate, ViewKnows, Doing
  <2> QED BY <1>6, <2>5, <2>6, <2>9, <2>11 DEF TuiInv
<1>10. CASE Unplanned(c, v)
  <2>1. Answer(c, u, {}) /\ UNCHANGED record
    BY <1>10 DEF Unplanned
  <2> HIDE DEF v, u
  <2>2. view' = u /\ cmds' = cmds \ {c}
    BY <2>1 DEF Answer
  <2>3. Types' /\ Recorded'
    BY <1>3, <1>4, <1>5, <2>1, <2>2 DEF TuiInv, Types, CommandType, Recorded
  <2>4. OneAtATime'
    BY <1>2, <1>5, <1>7, <1>8, <2>2 DEF TuiInv, OneAtATime, Doing
  <2>5. CommandsKnow' /\ KillsLate' /\ ViewKnows'
    BY <1>2, <1>3, <1>4, <1>5, <2>2 DEF CommandsKnow, KillsLate, ViewKnows, Doing
  <2> QED BY <1>6, <2>3, <2>4, <2>5 DEF TuiInv
<1> QED BY <1>9, <1>10 DEF Begin

LEMMA ToStatusStep ==
  ASSUME Careful, TuiInv, NEW c \in cmds, ToStatusView(c)
  PROVE  TuiInv'
<1>1. c.what = "toStatus" /\ UNCHANGED <<config, infra, images>>
  BY DEF ToStatusView, Running
<1>2. CASE /\ Answer(c, IF c.tool = "nmap" THEN Show("config", "nmap") ELSE Menu, {})
           /\ UNCHANGED <<jobs, record>>
  <2>1. PICK v \in ViewType : /\ Answer(c, v, {}) /\ v.at \notin {"status", "results"}
                              /\ v.at # "menu" => v.tool \in Tools
    <3>1. /\ Menu \in ViewType /\ Menu.at = "menu"
      BY ShowTyped DEF Menu, At, Show
    <3>2. c.tool = "nmap" => Show("config", "nmap") \in ViewType /\ "nmap" \in Tools
      BY ShowTyped DEF At, TuiInv, Types, CommandType
    <3>3. Show("config", "nmap").at = "config" /\ Show("config", "nmap").tool = "nmap"
      BY DEF Show
    <3> QED BY <1>2, <3>1, <3>2, <3>3
  <2>2. Moves(c)
    BY <2>1, ShowMoves DEF TuiInv
  <2>3. Aside /\ Types'
    BY <1>1, <1>2, <2>2, MovesAside DEF TuiInv, Types
  <2> QED BY <2>3, AsideInv
<1>3. CASE \E j \in Job, n \in Sizes : Begin(c, j, n)
  BY <1>1, <1>3, BeginStep
<1> QED BY <1>2, <1>3 DEF ToStatusView

(* A worker takes a task of a job that still has some: one whose results   *)
(* are all there has none.  A task that has a result may get another.      *)
LEMMA JobRun ==
  ASSUME TuiInv, UNCHANGED <<config, view, cmds, infra, images, record>>,
         NEW j \in Job, NEW r \in JobType, jobs' = [jobs EXCEPT ![j] = r],
         r.size = jobs[j].size, r.exported = jobs[j].exported, jobs[j].again => r.again,
         r.queue + r.stored <= r.size, r.extra > 0 => r.again,
         \/ jobs[j].queue > 0
         \/ r.stored = jobs[j].stored /\ r.queue = jobs[j].queue
  PROVE  TuiInv'
<1>1. /\ jobs[j].queue \in Nat /\ jobs[j].stored \in Nat /\ jobs[j].size \in Nat
  BY JobNumbers DEF TuiInv
<1>2. /\ jobs' \in [Job -> JobType] /\ jobs'[j] = r
      /\ \A i \in Job : i # j => jobs'[i] = jobs[i]
  BY DEF TuiInv, Types
<1>3. \A i \in Job : jobs'[i].size = jobs[i].size /\ jobs'[i].exported = jobs[i].exported
  BY <1>2
<1>4. JobsAccount'
  BY <1>2, <1>3 DEF TuiInv, JobsAccount
<1>5. Types' /\ Recorded' /\ OneAtATime' /\ KillsLate'
  <2>1. Types'
    BY <1>2 DEF TuiInv, Types
  <2>2. Recorded'
    BY <1>3 DEF TuiInv, Recorded
  <2>3. OneAtATime' /\ KillsLate'
    BY <1>3 DEF TuiInv, OneAtATime, KillsLate, Doing
  <2> QED BY <2>1, <2>2, <2>3
<1>6. \A i \in Job : \A g, x : Delivered(i, g, x) => Delivered(i, g, x)'
  <2>1. jobs[j].queue > 0 => jobs[j].stored # jobs[j].size
    BY <1>1 DEF TuiInv, JobsAccount
  <2>2. jobs[j].stored = jobs[j].size => r.stored = r.size
    BY <2>1
  <2> QED BY <1>2, <1>3, <2>2 DEF Delivered
<1>7. ASSUME NEW c \in cmds, Doing(c) PROVE CommandKnows(c)'
  <2>1. CommandKnows(c)
    BY <1>7 DEF TuiInv, CommandsKnow
  <2>2. /\ c.what \in {"upload", "enqueue"} => jobs'[c.job].queue = 0 /\ jobs'[c.job].stored = 0
        /\ c.job \in Job
    BY <1>1, <1>2, <2>1 DEF CommandKnows
  <2> QED BY <1>3, <1>6, <2>1, <2>2 DEF CommandKnows
<1>8. CommandsKnow' /\ ViewKnows'
  BY <1>3, <1>6, <1>7 DEF TuiInv, CommandsKnow, ViewKnows, Doing
<1> QED BY <1>4, <1>5, <1>8 DEF TuiInv

LEMMA WorkerStepInv ==
  ASSUME TuiInv, WorkerStep
  PROVE  TuiInv'
<1>1. PICK tool \in Workers, j \in Job :
        /\ jobs[j].queue > 0
        /\ \E n \in Results(tool, jobs[j]) :
             jobs' = [jobs EXCEPT ![j].queue = @ - 1, ![j].stored = @ + n]
  BY DEF WorkerStep
<1>2. PICK n \in {0, 1} : jobs' = [jobs EXCEPT ![j].queue = @ - 1, ![j].stored = @ + n]
  BY <1>1 DEF Results
<1>3. UNCHANGED <<config, view, cmds, infra, images, record>>
  BY DEF WorkerStep
<1>4. /\ jobs[j] \in JobType /\ jobs[j].queue \in Nat /\ jobs[j].stored \in Nat
      /\ jobs[j].size \in Nat /\ jobs[j].queue + jobs[j].stored <= jobs[j].size
      /\ jobs[j].extra > 0 => jobs[j].again
  BY JobNumbers DEF TuiInv, Types, JobsAccount
<1> DEFINE r == [jobs[j] EXCEPT !.queue = jobs[j].queue - 1, !.stored = jobs[j].stored + n]
<1>5. /\ r \in JobType /\ r.queue = jobs[j].queue - 1 /\ r.stored = jobs[j].stored + n
      /\ r.size = jobs[j].size /\ r.exported = jobs[j].exported
      /\ r.extra = jobs[j].extra /\ r.again = jobs[j].again
  <2>1. jobs[j].queue - 1 \in Nat /\ jobs[j].stored + n \in Nat
    BY <1>1, <1>4
  <2> QED BY <1>4, <2>1 DEF JobType
<1>6. jobs' = [jobs EXCEPT ![j] = r]
  BY <1>2 DEF TuiInv, Types
<1> HIDE DEF r
<1>7. r.queue + r.stored <= r.size
  BY <1>4, <1>5
<1> QED BY <1>1, <1>3, <1>4, <1>5, <1>6, <1>7, JobRun

LEMMA RunAgainStep ==
  ASSUME TuiInv, RunAgain
  PROVE  TuiInv'
<1>1. PICK j \in Job :
        /\ jobs[j].extra < MaxCopies
        /\ jobs' = [jobs EXCEPT ![j].extra = @ + 1, ![j].again = TRUE]
  BY DEF RunAgain
<1>2. UNCHANGED <<config, view, cmds, infra, images, record>>
  BY DEF RunAgain
<1>3. /\ jobs[j] \in JobType /\ jobs[j].queue + jobs[j].stored <= jobs[j].size
      /\ jobs[j].extra \in 0..MaxCopies
  BY DEF TuiInv, Types, JobsAccount, JobType
<1> DEFINE r == [jobs[j] EXCEPT !.extra = jobs[j].extra + 1, !.again = TRUE]
<1>4. /\ r \in JobType /\ r.queue = jobs[j].queue /\ r.stored = jobs[j].stored
      /\ r.size = jobs[j].size /\ r.exported = jobs[j].exported /\ r.again = TRUE
  <2>1. jobs[j].extra + 1 \in 0..MaxCopies
    BY <1>1, <1>3, TuiAssumption
  <2> QED BY <1>3, <2>1 DEF JobType
<1>5. jobs' = [jobs EXCEPT ![j] = r]
  BY <1>1 DEF TuiInv, Types
<1> HIDE DEF r
<1> QED BY <1>2, <1>3, <1>4, <1>5, JobRun

LEMMA WorkersLeaveStep ==
  ASSUME TuiInv, WorkersLeave
  PROVE  TuiInv'
<1>1. UNCHANGED <<config, view, cmds, images, jobs, record>>
  BY DEF WorkersLeave
<1>2. /\ infra' \in [gen : Gen, tool : Tools \union {NoTool}, up : SUBSET Tools]
      /\ infra'.gen = infra.gen
  BY DEF WorkersLeave, TuiInv, Types
<1>3. Types' /\ Aside
  BY <1>1, <1>2 DEF TuiInv, Types, Aside, OneAtATime
<1> QED BY <1>3, AsideInv

-----------------------------------------------------------------------------
(* The theorems. *)

LEMMA TuiInitInv == Init => TuiInv
<1> SUFFICES ASSUME Init PROVE TuiInv
  OBVIOUS
<1>1. cmds = {} /\ view.at = "menu" /\ \A j \in Job : jobs[j] = NoJob /\ record[j] = "none"
  BY DEF Init, Menu, Show
<1>2. JobsAccount
  BY <1>1 DEF JobsAccount, NoJob
<1>3. OneAtATime /\ CommandsKnow /\ KillsLate /\ ViewKnows /\ Recorded
  BY <1>1 DEF OneAtATime, CommandsKnow, KillsLate, ViewKnows, Recorded, NoJob
<1> QED BY <1>2, <1>3, TypesInit DEF TuiInv

LEMMA TuiStep == Careful /\ TuiInv /\ [Next]_vars => TuiInv'
<1> SUFFICES ASSUME Careful, TuiInv, [Next]_vars PROVE TuiInv'
  OBVIOUS
<1>1. CASE Key
  <2>1. CASE (\E tool \in Tools : OpenConfig(tool)) \/ Submit \/ Esc \/ Approve \/ Quit
    BY <2>1, KeysAside, AsideInv
  <2> QED BY <1>1, <2>1, DestroyStep DEF Key
<1>2. ASSUME NEW c \in cmds, Read(c) \/ Check(c) \/ Plan(c) \/ Apply(c) \/ Publish(c)
      PROVE  TuiInv'
  BY <1>2, MessagesMove, DeploymentMoves, AsideInv
<1>3. ASSUME NEW c \in cmds,
             \/ ToStatusView(c) \/ Upload(c) \/ Enqueue(c) \/ Launch(c)
             \/ PollOk(c) \/ PollFails(c) \/ Export(c) \/ AutoDestroy(c)
             \/ ToResultsView(c) \/ Kill(c)
      PROVE  TuiInv'
  BY <1>3, ToStatusStep, UploadStep, EnqueueStep, LaunchStep, PollStep, ExportStep,
     AutoDestroyStep, ToResultsStep, KillStep
<1>4. CASE Deliver
  BY <1>2, <1>3, <1>4 DEF Deliver
<1>5. CASE UNCHANGED vars
  <2>1. Aside /\ Types'
    BY <1>5 DEF vars, TuiInv, Types, Aside, OneAtATime
  <2> QED BY <2>1, AsideInv
<1> QED BY <1>1, <1>4, <1>5, WorkerStepInv, RunAgainStep, WorkersLeaveStep DEF Next

(* A command that carries a job on, wherever the messages of others went   *)
(* and whatever was destroyed meanwhile, knows of the job what its view    *)
(* knows, and there is one of them.                                        *)
THEOREM TuiInvariant == Careful /\ Spec => []TuiInv
<1> SUFFICES ASSUME Careful PROVE Spec => []TuiInv
  OBVIOUS
<1> QED BY TuiInitInv, TuiStep, PTL DEF Spec

LEMMA ToTuiTypes == TuiInv => TuiTypeOK
<1> SUFFICES ASSUME TuiInv PROVE TuiTypeOK
  OBVIOUS
<1>1. \A c \in cmds : c.what \in Work /\ c.tool \in Tools /\ c.job \in 0..MaxJobs /\ c.gen \in Gen
  BY DEF TuiInv, Types, CommandType
<1>2. \A j \in Job : /\ jobs[j].queue + jobs[j].stored <= jobs[j].size
                    /\ jobs[j].exported <= jobs[j].size /\ jobs[j].extra <= MaxCopies
  BY TuiAssumption DEF TuiInv, JobsAccount, Types, JobType
<1> QED BY <1>1, <1>2 DEF TuiInv, Types, ViewType, TuiTypeOK

(* Every variable has its type, and no job has more tasks queued, stored   *)
(* or exported than it began with (generic/status.go, nmap/status.go).     *)
THEOREM TuiTypes == Careful /\ Spec => []TuiTypeOK
BY TuiInvariant, ToTuiTypes, PTL

(* For a careful operator, the results a job ends with are all there to    *)
(* read where its view reads them, from the export or from the storage the *)
(* job ran on, unless one of its tasks was stored twice.                   *)
THEOREM ResultsCanBeRead == Careful /\ Spec => []ResultsReadable
<1>1. TuiInv => ResultsReadable
  BY DEF TuiInv, ResultsReadable, ViewKnows, Delivered, Listed
<1> QED BY <1>1, TuiInvariant, PTL

-----------------------------------------------------------------------------
(* The record of a job whose writes all end well.                          *)

(* A command that carries a job on found a record, one that takes its      *)
(* results home found it complete, and none is left when the view shows an *)
(* error.                                                                  *)
Outcomes ==
  /\ RecordTellsOutcome
  /\ ~config.faulty => \A c \in cmds : Doing(c) =>
       /\ record[c.job] # "none"
       /\ c.what \in {"export", "destroy", "toResults"} => record[c.job] = "complete"
       /\ ~(view.at = "status" /\ view.stage = "error")

LEMMA TrackedOutcome ==
  ASSUME ~config.faulty, NEW job \in Job, NEW phase, Track(job, phase), record[job] # "none"
  PROVE  record'[job] = phase
<1>1. Written = {TRUE}
  BY DEF Written
<1> QED BY <1>1 DEF Track

(* Steps that leave the record and the job of the view as they are. *)
LEMMA StillOutcomes ==
  ASSUME Outcomes, UNCHANGED <<config, record>>,
         \A c \in cmds' : Doing(c) => c \in cmds,
         \/ view'.at \notin {"status", "results"}
         \/ /\ view'.at = view.at /\ view'.job = view.job
            /\ view.at = "status" => view'.stage = view.stage
  PROVE  Outcomes'
BY DEF Outcomes, RecordTellsOutcome, Doing

(* A message that its own view does not hear, or that is an error of it.   *)
LEMMA StoppedOutcomes ==
  ASSUME TuiInv, Outcomes, NEW c \in cmds, Doing(c), UNCHANGED config,
         (Drop(c) /\ UNCHANGED record) \/ (view.at = "status" /\ Failed(c))
  PROVE  Outcomes'
<1>1. CASE Drop(c) /\ UNCHANGED record
  BY <1>1, StillOutcomes DEF Drop, Answer
<1>2. ASSUME view.at = "status", Failed(c) PROVE Outcomes'
  <2> DEFINE v == [view EXCEPT !.stage = "error"]
  <2>1. v.at = "status" /\ v.job = view.job /\ view.job = c.job /\ view.job \in Job
    BY <1>2 DEF TuiInv, Types, ViewType, CommandsKnow, CommandKnows
  <2>2. Answer(c, v, {}) /\ Track(view.job, "failed")
    BY <1>2 DEF Failed
  <2> HIDE DEF v
  <2>3. \A d \in cmds' : ~Doing(d)
    BY <2>2 DEF Answer, TuiInv, OneAtATime
  <2>4. ~config.faulty => record'[view.job] = "failed"
    BY <2>1, <2>2, TrackedOutcome DEF Outcomes
  <2>5. view' = v
    BY <2>2 DEF Answer
  <2> QED BY <2>1, <2>3, <2>4, <2>5 DEF Outcomes, RecordTellsOutcome, Doing
<1> QED BY <1>1, <1>2

(* A message that its own view hears and answers with the next command.    *)
LEMMA ForwardOutcomes ==
  ASSUME TuiInv, Outcomes, NEW c \in cmds, Doing(c), UNCHANGED config, view.at = "status",
         NEW v \in ViewType, NEW d, Answer(c, v, {d}),
         v.at = "status", v.stage = view.stage, v.job = view.job, d.job = view.job,
         ~config.faulty => /\ record'[view.job] # "none"
                           /\ d.what \in {"export", "destroy", "toResults"}
                                => record'[view.job] = "complete"
  PROVE  Outcomes'
<1>1. view' = v /\ \A e \in cmds' : Doing(e) => e = d
  BY DEF Answer, TuiInv, OneAtATime
<1>2. ~config.faulty => view.stage # "error"
  BY DEF Outcomes
<1>3. RecordTellsOutcome'
  BY <1>1, <1>2 DEF RecordTellsOutcome
<1> QED BY <1>1, <1>2, <1>3 DEF Outcomes, Doing

LEMMA WorkOutcomes ==
  ASSUME TuiInv, Outcomes, NEW c \in cmds, Upload(c) \/ Enqueue(c) \/ Launch(c)
  PROVE  Outcomes'
<1>1. Doing(c) /\ UNCHANGED config /\ c.job \in Job /\ (view.at = "status" => view.job = c.job)
  BY DEF Upload, Enqueue, Launch, Running, Doing, JobWork, TuiInv, CommandsKnow, CommandKnows
<1>2. CASE (Drop(c) /\ UNCHANGED record) \/ (view.at = "status" /\ Failed(c))
  BY <1>1, <1>2, StoppedOutcomes
<1>3. ASSUME view.at = "status", NEW v \in ViewType,
             v.at = "status", v.stage = view.stage, v.job = view.job,
             NEW what \in {"enqueue", "launch", "poll"},
             Answer(c, v, {Command(what, view.job, view)}),
             NEW phase \in {"enqueuing", "launching", "scanning"}, Track(view.job, phase)
      PROVE  Outcomes'
  <2>1. PICK d : d = Command(what, view.job, view)
    OBVIOUS
  <2>2. d.what = what /\ d.job = view.job /\ Answer(c, v, {d})
    BY <1>3, <2>1 DEF Command
  <2>3. ~config.faulty => record'[view.job] = phase
    BY <1>1, <1>3, TrackedOutcome DEF Outcomes
  <2> QED BY <1>1, <1>3, <2>2, <2>3, ForwardOutcomes
<1>4. CASE /\ view.at = "status" /\ Track(view.job, "enqueuing")
           /\ Answer(c, [view EXCEPT !.total = jobs[c.job].size], {Command("enqueue", view.job, view)})
  <2> DEFINE v == [view EXCEPT !.total = jobs[c.job].size]
  <2>1. v \in ViewType /\ v.at = "status" /\ v.stage = view.stage /\ v.job = view.job
    BY <1>1, <1>4 DEF TuiInv, Types, ViewType, JobType
  <2>2. Answer(c, v, {Command("enqueue", view.job, view)})
    BY <1>4
  <2> HIDE DEF v
  <2> QED BY <1>3, <1>4, <2>1, <2>2
<1>5. CASE /\ view.at = "status"
           /\ \/ Answer(c, view, {Command("launch", view.job, view)}) /\ Track(view.job, "launching")
              \/ Answer(c, view, {Command("poll", view.job, view)}) /\ Track(view.job, "scanning")
  BY <1>3, <1>5 DEF TuiInv, Types
<1> QED BY <1>1, <1>2, <1>4, <1>5 DEF Upload, Enqueue, Launch, Heard

LEMMA PollOutcomes ==
  ASSUME TuiInv, Outcomes, NEW c \in cmds, PollOk(c) \/ PollFails(c)
  PROVE  Outcomes'
<1>1. Doing(c) /\ UNCHANGED config /\ c.job \in Job /\ (view.at = "status" => view.job = c.job)
  BY DEF PollOk, PollFails, Running, Doing, JobWork, TuiInv, CommandsKnow, CommandKnows
<1>2. CASE Drop(c) /\ UNCHANGED record
  BY <1>1, <1>2, StoppedOutcomes
<1>3. ASSUME view.at = "status", NEW n \in Nat, Counted(c, n) PROVE Outcomes'
  <2> DEFINE v == [view EXCEPT !.seen = n]
  <2>1. v \in ViewType /\ v.at = "status" /\ v.stage = view.stage /\ v.job = view.job
    BY <1>3 DEF TuiInv, Types, ViewType
  <2>2. CASE /\ Track(view.job, "complete") /\ Answer(c, v, {Command(AfterScan, view.job, v)})
    <3>1. PICK d : d = Command(AfterScan, view.job, v)
      OBVIOUS
    <3>2. d.job = view.job /\ Answer(c, v, {d})
      BY <2>2, <3>1 DEF Command
    <3>3. ~config.faulty => record'[view.job] = "complete"
      BY <1>1, <1>3, <2>2, TrackedOutcome DEF Outcomes
    <3> HIDE DEF v
    <3> QED BY <1>1, <1>3, <2>1, <3>2, <3>3, ForwardOutcomes
  <2>3. CASE UNCHANGED record /\ Answer(c, v, {Command("poll", view.job, v)})
    <3>1. PICK d : d = Command("poll", view.job, v)
      OBVIOUS
    <3>2. d.what = "poll" /\ d.job = view.job /\ Answer(c, v, {d})
      BY <2>3, <3>1 DEF Command
    <3>3. ~config.faulty => record'[view.job] # "none"
      BY <1>1, <1>3, <2>3 DEF Outcomes
    <3> HIDE DEF v
    <3> QED BY <1>1, <1>3, <2>1, <3>2, <3>3, ForwardOutcomes
  <2> QED BY <1>3, <2>2, <2>3 DEF Counted
<1>4. view.seen \in Nat /\ Count(c.job) \in Nat
  BY <1>1, JobNumbers, ViewNumbers DEF TuiInv, Count
<1> QED BY <1>2, <1>3, <1>4 DEF PollOk, PollFails, Heard

(* Export and destroy leave the record as it is. *)
LEMMA HomeOutcomes ==
  ASSUME TuiInv, Outcomes, NEW c \in cmds, Export(c) \/ AutoDestroy(c)
  PROVE  Outcomes'
<1>1. /\ Doing(c) /\ UNCHANGED <<config, record>> /\ c.what \in {"export", "destroy"}
      /\ view.at = "status" => view.job = c.job
  BY DEF Export, AutoDestroy, Running, Doing, JobWork, TuiInv, CommandsKnow, CommandKnows
<1>2. CASE Drop(c)
  BY <1>1, <1>2, StoppedOutcomes
<1>3. ASSUME view.at = "status", NEW v \in ViewType,
             v.at = "status", v.stage = view.stage, v.job = view.job,
             NEW what, NEW w, Answer(c, v, {Command(what, view.job, w)})
      PROVE  Outcomes'
  <2>1. PICK d : d = Command(what, view.job, w)
    OBVIOUS
  <2>2. d.job = view.job /\ Answer(c, v, {d})
    BY <1>3, <2>1 DEF Command
  <2>3. ~config.faulty => record'[view.job] = "complete"
    BY <1>1, <1>3 DEF Outcomes
  <2> QED BY <1>1, <1>3, <2>2, <2>3, ForwardOutcomes
<1>4. ASSUME view.at = "status", NEW what,
             Answer(c, Exported(view), {Command(what, view.job, Exported(view))})
      PROVE  Outcomes'
  <2>1. /\ Exported(view) \in ViewType /\ Exported(view).at = "status"
        /\ Exported(view).stage = view.stage /\ Exported(view).job = view.job
    BY <1>4 DEF TuiInv, Types, ViewType, Exported
  <2> QED BY <1>3, <1>4, <2>1
<1>5. ASSUME view.at = "status", Navigate(c) PROVE Outcomes'
  <2>1. view \in ViewType /\ Answer(c, view, {Command("toResults", view.job, view)})
    BY <1>5 DEF Navigate, TuiInv, Types
  <2> QED BY <1>3, <1>5, <2>1
<1>6. ASSUME view.at = "status", NEW ok \in BOOLEAN,
             Answer(c, [view EXCEPT !.destroyed = ok],
                    {Command("toResults", view.job, [view EXCEPT !.destroyed = ok])})
      PROVE  Outcomes'
  <2> DEFINE v == [view EXCEPT !.destroyed = ok]
  <2>1. v \in ViewType /\ v.at = "status" /\ v.stage = view.stage /\ v.job = view.job
    BY <1>6 DEF TuiInv, Types, ViewType
  <2>2. Answer(c, v, {Command("toResults", view.job, v)})
    BY <1>6
  <2> HIDE DEF v
  <2> QED BY <1>3, <1>6, <2>1, <2>2
<1> QED BY <1>1, <1>2, <1>4, <1>5, <1>6 DEF Export, AutoDestroy, Heard

LEMMA ToResultsOutcomes ==
  ASSUME TuiInv, Outcomes, NEW c \in cmds, ToResultsView(c)
  PROVE  Outcomes'
<1>1. Doing(c) /\ c.what = "toResults" /\ Quiet
  BY DEF ToResultsView, Running, Doing, JobWork
<1>2. view'.at = "results" /\ view'.job = c.job /\ cmds' = cmds \ {c}
  BY DEF ToResultsView, Answer, Show
<1>3. \A d \in cmds' : ~Doing(d)
  BY <1>1, <1>2 DEF TuiInv, OneAtATime
<1>4. ~config.faulty => record[c.job] = "complete"
  BY <1>1 DEF Outcomes
<1> QED BY <1>1, <1>2, <1>3, <1>4 DEF Outcomes, RecordTellsOutcome, Quiet, Doing

LEMMA BeginOutcomes ==
  ASSUME Careful, TuiInv, Outcomes, NEW c \in cmds, c.what = "toStatus", UNCHANGED config,
         NEW j \in Job, NEW n \in Sizes, Begin(c, j, n)
  PROVE  Outcomes'
<1> DEFINE v == [Show("status", c.tool) EXCEPT !.job = j, !.gen = c.gen, !.total = n]
           u == [v EXCEPT !.total = 0, !.stage = "error"]
<1>1. Free(j) /\ \A d \in cmds : ~Doing(d)
  BY NothingDoing DEF Begin
<1>2. record[j] = "none"
  BY <1>1 DEF Free, TuiInv, Recorded, NoJob
<1>3. /\ v.at = "status" /\ v.stage = "" /\ v.job = j
      /\ u.at = "status" /\ u.stage = "error" /\ u.job = j
  BY DEF Show
<1>4. CASE Answer(c, v, {Command(FirstWork(c.tool), j, v)}) /\ Create(j, c.tool)
  <2>1. PICK d : d = Command(FirstWork(c.tool), j, v)
    OBVIOUS
  <2>2. d.what \in {"upload", "enqueue"} /\ d.job = j
    BY <2>1 DEF Command, FirstWork
  <2>3. Answer(c, v, {d})
    BY <1>4, <2>1
  <2> HIDE DEF v, u
  <2>4. view' = v /\ \A e \in cmds' : Doing(e) => e = d
    BY <1>1, <2>3 DEF Answer
  <2>5. ~config.faulty => record'[j] # "none"
    <3>1. ~config.faulty => Written = {TRUE}
      BY DEF Written
    <3>2. record \in [Job -> Phase]
      BY DEF TuiInv, Types
    <3>3. PICK written \in Written :
            record' = IF written
                      THEN [record EXCEPT ![j] = IF c.tool \in Uploads THEN "uploading" ELSE "enqueuing"]
                      ELSE record
      BY <1>4 DEF Create
    <3>4. ~config.faulty => written = TRUE
      BY <3>1, <3>3
    <3>5. ~config.faulty =>
            record' = [record EXCEPT ![j] = IF c.tool \in Uploads THEN "uploading" ELSE "enqueuing"]
      BY <3>3, <3>4
    <3> QED BY <3>2, <3>5
  <2> QED BY <1>3, <2>2, <2>4, <2>5 DEF Outcomes, RecordTellsOutcome, Doing
<1>5. CASE Unplanned(c, v)
  <2>1. Answer(c, u, {}) /\ UNCHANGED record
    BY <1>5 DEF Unplanned
  <2> HIDE DEF v, u
  <2>2. view' = u /\ \A e \in cmds' : ~Doing(e)
    BY <1>1, <2>1 DEF Answer
  <2> QED BY <1>2, <1>3, <2>1, <2>2 DEF Outcomes, RecordTellsOutcome, Doing
<1> QED BY <1>4, <1>5 DEF Begin

LEMMA ToStatusOutcomes ==
  ASSUME Careful, TuiInv, Outcomes, NEW c \in cmds, ToStatusView(c)
  PROVE  Outcomes'
<1>1. c.what = "toStatus" /\ UNCHANGED config
  BY DEF ToStatusView, Running
<1>2. CASE /\ Answer(c, IF c.tool = "nmap" THEN Show("config", "nmap") ELSE Menu, {})
           /\ UNCHANGED <<jobs, record>>
  <2>1. view'.at \notin {"status", "results"} /\ cmds' \subseteq cmds
    BY <1>2 DEF Answer, Menu, Show
  <2> QED BY <1>1, <1>2, <2>1, StillOutcomes
<1> QED BY <1>1, <1>2, BeginOutcomes DEF ToStatusView

LEMMA AsideOutcomes ==
  ASSUME Outcomes, Aside
  PROVE  Outcomes'
BY StillOutcomes DEF Aside

LEMMA DestroyOutcomes ==
  ASSUME TuiInv, Outcomes, Destroy
  PROVE  Outcomes'
<1>1. /\ UNCHANGED <<config, record>> /\ view.at = "results"
      /\ cmds' = cmds \union {Command("kill", view.job, view)}
      /\ view' = [view EXCEPT !.stage = "destroying"]
  BY DEF Destroy, Press, Quiet
<1>2. \A c \in cmds' : Doing(c) => c \in cmds
  BY <1>1 DEF Doing, JobWork, Command
<1>3. view'.at = view.at /\ view'.job = view.job
  BY <1>1 DEF TuiInv, Types, ViewType
<1> QED BY <1>1, <1>2, <1>3, StillOutcomes

LEMMA KillOutcomes ==
  ASSUME TuiInv, Outcomes, NEW c \in cmds, Kill(c)
  PROVE  Outcomes'
<1>1. UNCHANGED <<config, record>> /\ cmds' \subseteq cmds
  BY DEF Kill, Drop, Answer
<1>2. \/ view' = view
      \/ view.at = "results" /\ view'.at = view.at /\ view'.job = view.job
  BY DEF Kill, Heard, Drop, Answer, TuiInv, Types, ViewType
<1> QED BY <1>1, <1>2, StillOutcomes

LEMMA OutcomesStep == Careful /\ TuiInv /\ Outcomes /\ [Next]_vars => Outcomes'
<1> SUFFICES ASSUME Careful, TuiInv, Outcomes, [Next]_vars PROVE Outcomes'
  OBVIOUS
<1>1. CASE Key
  BY <1>1, KeysAside, AsideOutcomes, DestroyOutcomes DEF Key
<1>2. ASSUME NEW c \in cmds, Read(c) \/ Check(c) \/ Plan(c) \/ Apply(c) \/ Publish(c)
      PROVE  Outcomes'
  BY <1>2, MessagesMove, DeploymentMoves, AsideOutcomes
<1>3. ASSUME NEW c \in cmds,
             \/ ToStatusView(c) \/ Upload(c) \/ Enqueue(c) \/ Launch(c)
             \/ PollOk(c) \/ PollFails(c) \/ Export(c) \/ AutoDestroy(c)
             \/ ToResultsView(c) \/ Kill(c)
      PROVE  Outcomes'
  BY <1>3, ToStatusOutcomes, WorkOutcomes, PollOutcomes, HomeOutcomes, ToResultsOutcomes,
     KillOutcomes
<1>4. CASE Deliver
  BY <1>2, <1>3, <1>4 DEF Deliver
<1>5. CASE WorkerStep \/ RunAgain \/ WorkersLeave \/ UNCHANGED vars
  <2>1. UNCHANGED <<config, view, cmds, record>>
    BY <1>5 DEF WorkerStep, RunAgain, WorkersLeave, vars
  <2> QED BY <2>1, StillOutcomes
<1> QED BY <1>1, <1>4, <1>5 DEF Next

(* For a careful operator whose record is written whenever it is to be, a  *)
(* view that stopped with an error has a failed record or none, and one    *)
(* that shows results a complete one, whichever command failed and         *)
(* whatever came between.                                                  *)
THEOREM RecordsTellOutcomes == Careful /\ Spec => []RecordTellsOutcome
<1> SUFFICES ASSUME Careful PROVE Spec => []RecordTellsOutcome
  OBVIOUS
<1>1. Init => TuiInv /\ Outcomes
  <2>1. ASSUME Init PROVE view.at = "menu" /\ cmds = {}
    <3>1. view = Menu /\ cmds = {}
      BY <2>1 DEF Init
    <3> QED BY <3>1 DEF Menu, Show
  <2>2. Init => Outcomes
    BY <2>1 DEF Outcomes, RecordTellsOutcome
  <2> QED BY <2>2, TuiInitInv
<1>2. TuiInv /\ Outcomes /\ [Next]_vars => TuiInv' /\ Outcomes'
  BY TuiStep, OutcomesStep
<1>3. TuiInv /\ Outcomes => RecordTellsOutcome
  BY DEF Outcomes
<1> QED BY <1>1, <1>2, <1>3, PTL DEF Spec
=============================================================================

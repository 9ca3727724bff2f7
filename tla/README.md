# heph4estus in TLA+

heph4estus runs security tools over many targets: an operator's command (`heph`) deploys
infrastructure, puts one message per task into a queue, starts workers or waits for a
fleet of them, counts results in an object store and prints them. Workers take a message,
run the tool, store the result, acknowledge the message. On provider-native clouds
(Hetzner, Linode, Vultr) the workers are machines that send heartbeats, and more commands
repair that fleet, roll it forward and back, and rotate its credentials and certificates.
A terminal interface does what the scan commands do, with its own views and messages.

This directory models what is concurrent, can fail half way, or is decided from
information that may be stale. Every definition is a translation of the Go source; the
comments name the file, and PROJECT.json's `map` names the lines.

## The system

| Component | State it keeps | Operations | Talks to | What makes it correct | Module |
|---|---|---|---|---|---|
| Worker process (`cmd/workers/generic/main.go`) | the message in hand | receive, execute, upload artifact, upload result, acknowledge; exits on an empty queue | queue, object store | nothing acknowledged before its result is stored; a result's artifact exists | ScanPipeline |
| Queue (`internal/cloud/selfhosted/nats.go`, `aws/sqs.go`) | messages, delivery counts, in-flight handles | send, batch send, receive, delete, redelivery | worker, operator | handles tell deliveries apart; every message is retried until its limit | ScanPipeline, Enqueue |
| Object store (`selfhosted/s3compat.go`, `aws/s3.go`, naming in `internal/jobs/paths.go`) | objects by key | upload, count, list, download | worker, operator | an upload replaces exactly the same key | ScanPipeline |
| Enqueueing (`internal/jobs/enqueue.go`) | a pool of goroutines, counters, first error | offer, send, report, return | queue | counts are of published work; no error means everything was sent; it returns | Enqueue |
| Splitting and planning (`internal/tools/targetlist`, `wordlist`, `nmap`, `internal/scanapp`) | files read twice, chunk files, tasks | inspect, write, upload, make tasks, split ports | object store | every entry and port is scanned once; every task finds its input | Splitting, Planning |
| Scan runtime (`internal/scanruntime/runtime.go`, `internal/scanapp`) | a scan's phase | set up, enqueue, launch, poll, finalize | all of the above, job store | "complete" means complete; exported before destroyed; destroyed when asked | ScanPipeline, Lifecycle |
| Job store, tracker, `heph status` (`internal/operator`) | one JSON record per job | create, update phase, fail, complete, show | scan runtime, TUI | a record ends; what is shown is true, also after writes that failed | Lifecycle |
| Infrastructure lifecycle (`internal/infra/lifecycle.go`, `pipeline.go`) | terraform state and outputs, images | probe, decide, deploy, recover, destroy | terraform, docker | what is reused is what was asked for; nothing left running | Lifecycle |
| Cloud compute (`internal/cloud`) | tasks, instances, containers, launch templates | launch workers | AWS, docker over ssh | a launch leaves nothing that blocks the next | Lifecycle |
| Heartbeats and manager (`cmd/workers/generic/heartbeat.go`, `internal/fleet/manager.go`) | last heartbeat, health, cooldowns | register, reconcile, wait | NATS | dead workers are not counted, live ones raise no alarm, the wait ends | Fleet |
| Admission (`internal/fleet/fleet.go`, `policy.go`) | none | reason for exclusion, placement limit, counts | manager, snapshot, commands | a worker is admitted only under the policy | Admission |
| Fleet commands (`cmd/heph/cmd_fleet.go`, `fleet_helpers.go`, `rollout_health.go`) | records of reputation and rollouts on disk | reconcile, quarantine, rollout start / promote, rollback | terraform, a manager of their own | replace what is bad and only that; a rollout can always be undone | FleetRepair, Rollout |
| Rotation (`cmd/heph/cmd_infra_rotate.go`, `internal/infra/*rotation*.go`) | users, certificates, terraform's variables, docker's trust | grace, replace, wait, final, record | ssh, terraform, fleet | nobody is locked out at any step; success means everyone is current | Rotation |
| Terminal interface (`internal/tui`) | the view shown, commands running beside it | forms, deploy, scan, export, destroy, results | all of the above | results are where the view looks for them; the record says what the view said; a shown job ends | Tui |
| Doctor, bench, init, recovery manifests, module definitions, configuration, TLS, logging | none that others depend on | checks, reports, prompts | | | none |

What is hard here: two workers on one message when `AckWait` (30 s) is shorter than the
tool's run; object keys that hold a wall-clock second; acknowledgements nobody confirms;
workers that leave while a delivery is still waiting to time out; a goroutine pool that
may be cancelled in any state; a file that changes between two readings; several commands
on one terraform directory, one bucket and one queue; liveness judged by the age of
heartbeats that get lost; commands that decide from a three-second snapshot; terraform
applies that stop half way; operator processes that die between a save and the apply it
announces, or between two of the eight things a rotation changes; messages of commands
that reach whatever view is shown when they arrive. PROJECT.json lists each as a hazard
at its line.

## Modules

    TaskLedger <--implements-- ScanPipeline    <-- ScanPipelineProofs
    EnqueuePromise <--implements-- Enqueue     <-- EnqueueProofs
    Splitting <--extends-- Planning            <-- PlanningProofs
    Lifecycle                                  <-- LifecycleProofs
    Admission <--extends-- Fleet               <-- FleetProofs
                             ^--extends-- FleetRepair (FleetProofs)
              <--extends-- Rollout             <-- RolloutProofs
    Rotation                                   <-- RotationProofs
    Tui                                        <-- TuiProofs
    MC*: the instances TLC checks (Rotation needs none)

The modules meet where one hands over to another: Splitting and Planning end with the tasks
that Enqueue sends; Enqueue with the messages of ScanPipeline; Lifecycle takes a job as
planned, its enqueueing as one step that may stop at any count, and of its tasks only what
they leave in the storage (one result, several, or none), and adds what ScanPipeline leaves
alone: what is deployed, by whom it is destroyed, and what is recorded. Rotation and
Lifecycle both wait for a fleet, which is Fleet's subject. Tui is Lifecycle seen from the
views, whose steps are messages.

**TaskLedger** is the abstract promise: a published task is owed until it is settled or
abandoned, is settled only when a result is recorded under its name, and never changes
afterwards.

**ScanPipeline** composes the operator of a scan (`ExecuteQueuedScan`, `LaunchWorkers`,
`PollAndRender`), the durable JetStream consumer, the object store and the workers. `msg`
is the queue's view of a message (unsent, available, inflight, acked, exhausted, and how
often it was delivered), `wpc` and `held` are a worker's place in `processMessage` and its
local variables, `results` and `artifacts` are the objects, `op` the operator. One action
is one call that can fail or be interleaved: a receive (which counts the delivery whether
or not the worker gets it), the tool's end (nothing to record; a record, with or without
an output file), each upload (which may fail after it stored), the acknowledgement (which
may get lost, or arrive late). `Crash` and `ReceiveFails` may happen at any point,
`MaxFaults` times. `AutoRestart` says whether something restarts a worker that exits: the
systemd unit of provider-native machines does, nothing does for containers and spot
instances. The wall-clock second is `clock`; a key is a name and a second, and `NameOf`
lets two tasks share a name. A message that cannot be parsed (`Malformed`) is discarded.

**Enqueue** is `EnqueueTasks`: producer, senders, collector and the closing of the two
unbuffered channels, with the shared context that the first error cancels and the
caller's context that may end at any time. A send may fail after part of the batch is in
the queue; `tooLarge`, an input chosen at the start, are the tasks the size check refuses;
`DropsEntries` is a backend whose batch call succeeds with refused entries (SQS).
**EnqueuePromise** is what a caller relies on, without senders and batches: while the call
runs it puts tasks into the queue; it answers once, with tasks that are there, with all of
them if without an error; and it sends nothing after its answer.

**Splitting** is the two splitters: `Inspect` counts lines and bytes and derives the number
of chunks (requested, per worker or by size), `WriteEntry` reads again, cuts at the target
size but keeps one line for each chunk still announced, `Finish` closes the last one,
`UploadChunk` and `MakeTasks` are the caller's. A file is a sequence of line sizes (0 is a
line that is skipped); `Rewrites` is what it may have become between the two passes. Every
call may fail. **Planning** adds the tasks of target lists: the
port flag is found in the options of a line and taken out, the specification is parsed,
cut into as many parts as asked for (`PortChunks`) and written again as ranges. The loops
of the code are recursive functions, so that what they compute can be proved.

**Lifecycle** is `heph scan` and `heph nmap` from the flags to the exit code, and
`infra deploy`, `destroy` and `recover`, several at once on one terraform directory. `infra`
is what terraform's state says is deployed, `out` what each command believes, a `bucket`
is a number so that storage destroyed and made again is another one. `run` and `record`
are what a command remembers and what the job store holds; `pc` is its next step, one step
per call that can fail. Any command may be killed between two. The two scan commands do
the same in a different order (`GenericOrder`, `NmapOrder`). Workers take any task of the
queue and run their own tool on it, as the code does. `stored` are the tasks that have a
result and `extra` the further results of redelivered ones: what the code counts is their
sum (`Count`). A task whose deliveries are used up has none. The errors of a tracker's
writes are ignored by the code; for the commands in `Faulty` each of them may fail
(`Unwritten`, `Over`), and `run.saved` says whether the last one did.

**Admission** is `applyAdmissionPolicy` as operators: the ladder of reasons, the rollout
rules, the placement limit by address, the count of addresses. **Fleet** is the machines
(which start, stop and come back under other addresses), their heartbeats (received or
lost), and the manager: `handleHeartbeat`, `Reconcile`, `WaitForWorkers`. Workers are
visited in Go's random map order while cooldowns are written, so which of two workers
behind one address is quarantined is a choice (`late`). **FleetRepair** is
`heph fleet reconcile`: it loads the reputation, listens, chooses, lets terraform replace
(which may stop half way) and waits with a manager of its own, while another process may
change the reputation. The apply has no `-target`: besides the chosen machines it replaces
every one whose image is not the configured one (`Image`) and those that are gone
(`Touched`), and it destroys those beyond the `worker_count` terraform is left with
(`Counted`). **Rollout** is `heph fleet rollout start`, `promote` and `heph fleet rollback`:
the record in `rollouts.json`, the machines' images and terraform's recorded image, one
action per save, apply, wait and decision. Every apply may stop half way, every save may
fail, and the process may be killed anywhere.

**Rotation** is `heph infra rotate credentials` and `certs`. Per service `file` has the
users of the configuration and `live` those the running process accepts (they differ when
a restart fails; `Reboot` makes them equal). `auto` is the variables file the command
merges its values into, `made` what the controller was created for, `worker` what each
machine was, `out` terraform's outputs, `disk` and `shown` the certificate on disk and the
one each service presents, `trust` docker's directories. A generation stands for
everything one command makes. The steps are those of the code: grace configuration (old
and new users), variables, replacing apply, outputs, wait, final configuration; each ends
well, or stops at any point that leaves something else behind (`GraceStopped`,
`ApplyStopped`, `FinalStopped`), and the command may be killed between any two (`Abort`).
Another command may apply or destroy at any moment. `made.overtaken` marks a controller
that such an apply created over rotated credentials (`"users"`) or between a CA's
installation and its variables (`"ca"`).

**Tui** is the active view, the commands that run beside it (`cmds`) and what they reach.
A command takes effect and delivers its message in one step; which is next is open, and
the message is handled by the view shown then. `patient` is an operator who waits for
running commands before the next key; with `faulty` tasks are stored twice (`RunAgain`) or
never, and writes of the record fail unnoticed (`Written`).

## What the runs check

`tlc -config X.cfg M` checks run X on the module PROJECT.json names. All pass but the last two.

| Run | Instance | Shows | States |
|---|---|---|---|
| PipelineSafety | 2 tasks, 2 workers, 2 deliveries, 2 seconds, 1 fault | nothing is acknowledged without a result (`AckedHasResult`), results point at artifacts that are there (`ResultFindsArtifact`), the count is right without redelivery (`CompleteUnlessRedelivered`), the ledger is implemented (`ImplementsLedger`) | 1.1 M |
| PipelineLive | 2 tasks and a malformed message, 1 restarting worker, 1 fault | every task is acknowledged or used up (`Settles`); the poll ends unless one was used up (`PollEnds`) | 235 k |
| EnqueuePool | 5 tasks in batches of 2, any of them too large, 2 senders | counts are of published work (`CountedIsPublished`), no error means all was sent (`OkMeansAll`), uncounted work is bounded (`UncountedBounded`), nothing is sent after the answer (`KeepsPromise`), the call returns (`Returns`) | 42 k |
| PlanningJobs | files of up to 4 lines, port specifications of up to 3 words | entries are kept in order (`EntriesKept`), chunks are as announced (`ChunksAsPlanned`), tasks find their input (`TasksHaveInput`), each port is scanned once (`PortsOnce`) | 662 k |
| LifecycleRuns | 2 commands of 7 kinds, 2 tasks, 3 clouds, 3 buckets; one of the commands with failing writes, lost tasks and a further result | what status shows is true (`StatusHonest`), a record ends (`EndedIsRecorded`), success means exported (`SuccessDelivers`) and destroyed (`SuccessCleansUp`), results are exported before a scan destroys them (`ExportedFirst`), an endless poll has one of a few causes (`EndlessPollHasCause`) | 1.3 M |
| FleetWait | 2 machines, 2 addresses, 3 ticks, 2 starts or stops, 1 lost heartbeat in a row, from every start state | who is eligible is alive (`EligibleAlive`), hiccups raise no alarm (`NoFalseAlarm`), a successful wait found the demanded fleet (`ReadyFleet`), the wait ends once the fleet is sound for good (`WaitEnds`) | 800 k |
| RepairClean | 2 machines, 3 addresses, 2 images, 1 change of reputation | a command that ends well leaves a clean fleet, whatever else its apply replaced (`DoneIsClean`) | 2.1 M |
| RolloutCrash | 3 machines, 3 images | an unfinished rollout can be rolled back (`RollbackStaysPossible`); a promoted one is everywhere (`PromotedOnTarget`) | 190 k |
| RotationSteps | 2 slots, 2 rotations of 5 components | nobody is locked out between any two steps (`NotLockedOut`), success leaves everyone current (`SuccessMeansCurrent`), a certificate keeps the workers' trust (`CertKeepsTrust`) | 97 k |
| TuiRuns | 2 jobs of a patient operator, or 1 of another or with faults, 3 clouds | results can be read (`ResultsReadable`), the record says what the view said (`RecordTellsOutcome`), a shown job ends (`ScanEnds`) | 1.1 M |
| LifecycleRelaunch (violated) | 2 scans on spot instances | `TemplatesAreEphemeral` | |
| TuiHasty (violated) | 2 jobs of an operator who does not wait | `OwnExportFirst` | |

LifecycleRuns and TuiRuns also check a type invariant; every module's is proved.

**Bounds.** Two workers are enough for every race on one message, since a race is between
the delivery in hand and one later; two deliveries give one redelivery and one exhaustion.
Two seconds make two keys of one task. (Tasks that share a name are left to the proofs,
which hold for every `NameOf`.) Three batches for two senders leave one batch waiting, with
the last one short. Four lines of sizes nothing, small, the target size, above the maximum
when together and above it alone, and requests below zero, for too many and for fewer chunks
than lines, make every cut the splitter can decide; three words put a port flag before,
between and after others, with its value attached or apart. Two commands are enough for
every way one takes infrastructure from another; a third bucket is one made after a destroy
of each. The scan that deploys is the one in `Faulty`, the other one has none of its faults;
one further result (`MaxCopies`) is enough to stand in for a missing one. Two machines and
two addresses give the shared address, the changed address and the stale record; the clock
runs past the health timeout. Three machines and three images give a canary, a remainder,
and ties and majorities among previous versions. Two rotations put one of every kind on top
of the leftovers of a stopped one of every kind; an instance with three, of the certificates
alone, was also checked. Two jobs of an operator who waits show what one leaves to the next;
only one who does not wait brings a late message of one job to another's view, which is
TuiHasty and what the theorems exclude by a hypothesis. The proofs below remove these bounds
where it matters most. Symmetry (of workers, tasks, addresses) is used in runs without
liveness only. `CHECK_DEADLOCK FALSE` stands where commands or plans end with nothing left
to do (Lifecycle, Planning).

**Fairness.** All of it is weak. The pipeline assumes that the operator goes on
(`WF_vars(Operator)`), that the server's redelivery timer fires, and that a worker goes on:
its tool runs under the module's timeout, an upload under a minute's, a fetch under two
seconds. The pool assumes the Go scheduler runs every goroutine that can run. The fleet
assumes the heartbeat tickers and `time.After`. Lifecycle assumes that a command that is
not killed takes its next step and that a running worker takes a task; a count that fails
is simply repeated, so `PollAndRender` waits until it works. Tui assumes that the program
delivers a command's message (bubbletea runs each in a goroutine), that a count sometimes
works, and that a worker takes a task. Nothing is assumed of crashes, failures, lost
heartbeats, keys pressed, or of the order in which ready steps happen.

## What disagrees with the code's own words

**A launch template is not ephemeral** (LifecycleRelaunch). `RunSpotInstances` "creates an
ephemeral launch template" (`ec2.go:39`) and deletes it only when the fleet request fails.
Its name is a hash of the number of workers and two lengths, so that the second spot scan
of a size is refused, after its tasks went into the queue.

**A view destroys before its job is exported** (TuiHasty). "auto-destroying infrastructure
after export" is a phase of the status view (`views/generic/status.go:33`). The message that
ends an export names no job and goes to the view shown then (`app.go:104`): with the second
job's view on the screen the end of the first one's export makes this view destroy what the
second job runs on (`status.go:570`).

More can be seen in the models by checking a property under other constants; there is no
run of them, because no line of the repository promises the contrary, because the
constants are those of a setting the repository leaves to the operator, or because a
passing run of the same module checks the part of the statement that holds.

| Module | Setting | Property that fails | Behaviour |
|---|---|---|---|
| ScanPipeline | `AutoRestart = FALSE` | `RetryHappens` | a worker exits on one empty fetch (`main.go:67`), also while a delivery waits for its timeout; nobody takes it afterwards |
| ScanPipeline | as PipelineSafety | `CompleteMeansEveryTask` | "Scan complete" counts objects: a task recorded in two seconds counts twice (`runtime.go:419`) |
| Enqueue | `DropsEntries = TRUE` | `CountedIsPublished` | an SQS batch with refused entries counts as sent (`sqs.go:68`) |
| FleetRepair | as RepairClean | `RepairSparesHealthy` | "Repair unhealthy or quarantined workers" (`README.md:281`): the apply has no `-target`, so that a healthy machine on another image than the tool's, as after `fleet rollback`, is replaced with those to repair; one that `worker_count` does not cover is destroyed, since `fleet reconcile` passes none and the default or the environment decides |
| Rollout | as RolloutCrash | `PromotedAfterHealthyCanary` | `promote` asks only for the phase, which is saved before the canary is replaced |
| Rotation | `Slots = DefaultCount = MaxGen = 1`, `Kinds = {"nats"}`, `TLS = {}` | `WorkersCanLogIn` | the variables file survives `infra destroy`: a controller deployed afterwards has the module's first users, its workers the rotated ones |

Also in the models: `fleet reconcile` never sees a machine that is down, since its snapshot
has only machines heard in three seconds (`Hear`, `Candidates`); `rollout start` takes
machines it did not hear for up to date (`StartMatched`); `-replace` without `-target` lets
the canary wave replace every outdated machine (`Touched`).

*Lifecycle.* On AWS the queue, the bucket and the state directory are shared by all tools,
and a worker never compares a task's tool with its own (`main.go:104`): one that another
scan left behind consumes tasks whose results nobody will count, and the poll never ends.
A launch whose image does not exist, an ECS request that lists failures and a spot request
that got no instance are all reported as success. The prompt approves one plan, apply makes
another. Results that cannot be rendered are an error after which `--destroy-after` destroys
them unexported; a scan whose launch failed is never destroyed. One command's
`--destroy-after` destroys what another scans on. `heph status` may show "complete", from
the count, and "failed" later. Containers on manual hosts are named after the tool and
never removed, so that docker refuses the next launch of that tool. `infra recover` deploys
the default number of workers and writes back a rollout record that may be out of date.

*Rotation.* The certificate rotation and the CA rotation change the controller's user data,
so that the next apply by anyone makes a new controller, with the users of generation 0
("without deleting objects", `credential_rotation.go:159`, holds for the rotation itself).
With `--docker-certs-dir` the CA rotation looks for its trust in the default directory and
always fails verification. The rotation's apply passes no `worker_count`. The final
configuration of MinIO ignores a removal that fails and never removes the first worker user.
And three rotations in a row can lose the workers' trust, which the proof brought out: the
controller's certificate, then a CA whose variables another command's apply overtakes, then
a replacement that stops after the outputs tell the new CA; the next certificate is signed
by it, while services and workers have the old one. `CertKeepsTrust` excludes that
controller (`"ca"` in `made.overtaken`).

*Tui.* Submitting a form twice starts two jobs. A target list that was still being read
when the operator went back to the menu starts a deployment from the next form. A job whose
export failed leaves its results to the next one's `destroy-after`. An nmap result that is
loaded late is shown under the line the cursor is on by then. Its launch on a
provider-native cloud does not wait for the fleet. Where tasks are redelivered a count that
includes a duplicate completes a job with a missing result, as in ScanPipeline.

*Splitting.* With lines near the maximum planning may fail although another cut exists: the
last chunk takes what the earlier ones left. Two lines for one target without a port plan
have results of one name, per second. Options that end in a bare `-p` get a second one.

## What is proved

TLAPS checks the theorems for every value of the constants that meets the modules'
assumptions (finite nonempty sets, positive sizes; for the fleet, that `MaxLost` lost
heartbeats fit into the health timeout; for the rotation, that `worker_count`'s default is
among the slots). Each module has an inductive invariant; what it adds to the properties is
what they do not say of the states before they apply.

- **ScanPipelineProofs.** `PipelineInv` says that a worker past its receive holds a
  published message under a delivery number the queue counted (`HoldsDelivered`), that one
  about to store a result with an artifact has stored the artifact (`ArtifactFirst`), that
  one about to acknowledge has stored the result (`ResultFirst`), and that objects carry
  their task's name. Without `ResultFirst`, `AckedHasResult` says nothing of the state
  before the acknowledgement. From it: type correctness, `AckedHasResult`,
  `ResultFindsArtifact`, `HandlesDistinct`. `ResultsStay` is a step property of `Put`.
  `PipelineImplementsLedger` is the refinement, action by action: an acknowledgement is a
  settle because of `ResultFirst`, an expiry an abandon or a stutter.
  `CompleteUnlessRedelivered` compares two counts, of objects and of tasks. It needs an
  account of each object: while a task was delivered once at most, it has one result at
  most, none if its one worker is still before its upload (`OneResultEach`); then there are
  no more objects than tasks that have one, and a count that has reached the number of
  tasks has found each.
- **EnqueueProofs.** `PoolInv`: a sender has a batch exactly while it works on one, every
  batch handed out is counted, in someone's hands, or its error is known, and the producer
  stops early only when the context is done. When the call returns without an error nobody
  holds anything, so every batch is counted (`OkOnlyIfAllSent`). `CountedWorkIsPublished`
  needs the backend not to drop entries. `FewBatchesAreUncounted` blames each batch that is
  in the queue and not counted on one sender, which sends no more because the first error
  has stopped it (`Accounted`), and each sender is to blame for one of them at most.
  `EnqueueKeepsPromise` is the refinement of EnqueuePromise; it adds that the batches cover
  the tasks (`BatchesCover`, division with remainder) and that whoever reads the answer
  finds all senders gone (`AllGone`).
- **PlanningProofs.** `SplitInv`: the chunks and the open one are a chain over the entries
  read (`Chained`); at least as many of the counted entries are left as chunks are missing,
  and the count is the file's as long as the file is the one that was counted (`Budget`):
  that is why there are exactly as many chunks as planned and none is empty. From it
  `EntriesAreKept`, `ChunksAreAsPlanned`, `TasksGetInput`, of Splitting
  alone and of every job that is planned. `PortsAreScannedOnce` is about what the loops of
  `portparse.go` compute, whatever the ports and however many chunks. `Induction` is
  induction over a prefix of the naturals, said of a set instead of a predicate so that the
  provers can use it (from the library's well-foundedness of `<`), `Recursion` that a
  recursive function exists. With them: a sum of line sizes is a natural number
  (`SumIsNat`), parsing yields the ports in order and once each (`ParsedPorts`), the parts
  cover them, do not overlap and differ by one in size (`PortsSplit`), what is written
  means the ports it was given (`PortsFormatted`), and no "-pSPEC" is left among the
  options (`FlagExtracted`). `PlanInv` says where they are: the tasks of every planned line
  lie together (`Blocks`), and none carries the group of a line it does not come from
  (`Origins`), which is why two lines for one target do not share a name.
- **LifecycleProofs.** `LifecycleInv` is the types and, per command, `CommandInv`: what it
  remembers and what its record says at each of its steps, and that a run which is to
  export and goes on to destroy has every result on disk (`Delivery`). Writes of the record
  may fail, so a record is one of those some of the writes so far can have left (`Honest`):
  its total is none or the number of tasks, and it is complete only if the job was; a run
  past its last write has the record of its end (`Verdict`) if that write did not fail.
  A job one of whose tasks was stored twice is exempt from what counts say (`AllOf`):
  `CompleteMeansEveryTask` is false of it. Most steps are one
  command's; the frame lemma `SeenInv` says which changes made by one keep what is said of
  another, so that each action is proved for its own command only. From it `StatusIsHonest`
  (the count and the recorded total of any two moments), `EndedRunsAreRecorded`,
  `SuccessIsDelivery`, `SuccessIsClean`, `ExportComesFirst`.
- **FleetProofs.** `FleetInv`: stamps are not in the future, a machine that is down was not
  heard after it stopped, a running one published in the last interval, and the last
  heartbeat heard is as many intervals older as were lost. The arithmetic gives
  `EligibleWorkersAreAlive` and `HiccupsRaiseNoAlarm`; `HeartbeatsLiftCooldowns` is the
  part about cooldowns. `ReadyFleetsMeetPolicy` follows the manager's registry through a
  wait: what it holds of a machine is what that machine last published, unless the machine
  restarted since, and the placement limit counts addresses of the admitted. `RepairInv`
  says that the registry of a repair agrees with the machines it heard, and that until the
  apply it is to replace what its last look and the reputation condemn.
  `RepairedFleetsAreClean` needs that the wait asks for all machines (`MinReady =
  Cardinality(Worker)`), as the command does: it passes terraform's own worker count
  (`fleetWorkerCount`, `cmd_fleet.go:298`). It holds because of that wait, whichever machines
  the apply replaced.
- **RolloutProofs.** `RolloutInv`: the record in a command's hands can be undone, its
  previous version is not its target, and it keeps its canary until it is stable or rolled
  back; the stored record of an unfinished rollout is such a record. That needs that a
  positive canary count takes a worker from a nonempty finite set of indexes.
  `PromotionsReachTheTarget`: past the canary only machines on the target are admitted; if
  as many are counted as there are machines, then all of them are.
- **RotationProofs.** `RotationInv`: every service accepts what anyone holds or may be made
  with (`Serving`); no worker trusts a CA later than that of the variables and no service
  shows an earlier one (`CAOrder`); what a running command holds is newer than everything
  else (`Fresh`) and, at each of its steps, what it has done is done (`ServiceStage`,
  `CAStage`, `CertStage`); what was reported is true until something else begins
  (`Reported`). `RedeployedInv` is the lemma about terraform: an apply, even one that stops
  half way, leaves machines made from the variables or untouched. From it
  `NobodyIsLockedOut`, `SuccessIsCurrent`, `CertificatesKeepTrust` for any number of
  rotations, machines and TLS services.
- **TuiProofs.** `TuiInv`: a job is carried on by one command or view at a time
  (`OneAtATime`), the command knows what the job's view knows (`CommandsKnow`, `ViewKnows`:
  where the results are, and that what is destroyed next has been exported), and a destroy
  that the operator asked for runs when nothing carries the job on (`KillsLate`). Every
  theorem is about a careful operator (`Careful`: only one job may be started without
  waiting, or every operator waits for what runs before the next key). The hypothesis
  cannot go: messages carry no job, so that a hasty operator's second job takes the first
  one's and destroys too early (TuiHasty). `ResultsCanBeRead` follows for any number of
  jobs, tasks, tools and clouds, for jobs none of whose tasks was stored twice.
  `RecordsTellOutcomes` has an invariant of its own beside it (`Outcomes`): a command that
  carries a job on found its record, one past the scan found it complete, and none is left
  when the view shows an error, so that no later write can contradict what was shown. It is
  about records whose writes do not fail.

Every invariant a passing run checks is a theorem. Only model-checked: liveness (`Settles`,
`PollEnds`, `Returns`, `WaitEnds`, `EndlessPollHasCause`, `ScanEnds`), which is outside
TLAPS.

## What the models leave out

- What a tool computes, what a message or a record says in words, formatting and logs. The
  patterns by which `ClassifyError` sorts an error's text: its outcome is a choice.
- The read-modify-write of a store by two processes at once (`rollout.go:113`, the
  reputation, job records): the repository says nothing of concurrent operators that such a
  model could be held to, and all it would show is that the later write wins.
- The cloud and generation filters on heartbeats: a message they drop changes nothing.
- Reputation of IPv6 addresses and of workers by ID, and `Normalize` of the placement
  policy. The scan's own wait passes neither reputation nor rollout to the manager, and
  neither does the model there.
- FleetRepair and Rollout take nothing in terraform's configuration to differ from the
  last apply except the machines' images and, in FleetRepair, the number of workers;
  Rollout assumes terraform counts the machines it has.
- Rollout runs one command at a time; job outcomes, reputation, placement and silence show
  as waits that time out and snapshots that miss machines. Ties between previous versions
  go either way. Generations, draining indexes and texts are not kept.
- Lifecycle and Tui keep of a redelivery only that a task has another result, or none; how
  it comes about is ScanPipeline's. Tasks of one job have distinct results otherwise. Two
  processes' updates of one record do not interleave. Waiting for the fleet is one step.
- The temporary files of chunks: whether they are removed after a failure, a removal that
  fails (a warning, `scanapp.go:480`, `514`, `625`) and those a killed process leaves.
- Rotation runs one rotation at a time, does not tell key files, backups and passwords
  apart, and has no mutual TLS. Terraform runs of other commands are atomic there, its own
  may stop half way.
- Tui has no settings and resume views and no rendering; commands that are equal are one.
- Doctor, benchmarks, init, recovery manifests: sequential checks, reports and prompts that
  leave the state of the others alone. Module definitions, configuration and wiring are
  data. PROJECT.json lists every part with the reason.

## Plan

Done: ledger and pipeline, enqueueing, admission, fleet, repair, rollout, splitting and
planning, lifecycle, rotation, terminal interface; proofs of all of them.

1. Refinements: a rotation as make-before-break (old generation, both, new), a rollout as
   the life of its record.
2. `ClassifyError` as a ladder, with what each class makes of a delivery.
3. The queue client's in-flight handles, and the SQS queue's receive and dead letters.
4. The settings and resume views of the terminal interface.

---------------------------- MODULE ScanPipeline ----------------------------
(***************************************************************************)
(* One scan from the operator's first publish to "Scan complete": the      *)
(* operator enqueues the tasks, launches the workers and counts result     *)
(* objects; the workers fetch, execute, upload and acknowledge; the        *)
(* JetStream consumer redelivers what is not acknowledged in time and      *)
(* gives up after MaxDeliver deliveries; any worker may die at any step.   *)
(*                                                                         *)
(*   cmd/workers/generic/main.go          the worker loop                  *)
(*   internal/cloud/selfhosted/nats.go    the queue                        *)
(*   internal/jobs/paths.go               the names results are stored by  *)
(*   internal/scanruntime/runtime.go      the operator                     *)
(***************************************************************************)
EXTENDS Naturals, FiniteSets

CONSTANTS
  Task,         \* the tasks of the scan
  Malformed,    \* messages found in the queue whose body is not a task
  NoMsg,        \* stands for "no message"
  Worker,       \* worker processes
  NameOf,       \* NameOf[t]: target, group and chunk part of t's result key
  MaxDeliver,   \* QueueConfig.maxDeliver
  AutoRestart,  \* TRUE: a service manager restarts a worker that ended
  MaxClock,     \* bound: seconds of wall clock a run distinguishes
  MaxFaults     \* bound: crashes and failed receives in one run

Msg == Task \union Malformed

ASSUME MessagesAssumption ==
  /\ IsFiniteSet(Task) /\ Task # {}
  /\ Task \intersect Malformed = {}
  /\ NoMsg \notin Msg
ASSUME BoundsAssumption ==
  /\ MaxDeliver \in Nat \ {0}
  /\ MaxClock \in Nat
  /\ MaxFaults \in Nat
ASSUME ModeAssumption == AutoRestart \in BOOLEAN
ASSUME NamesAssumption == DOMAIN NameOf = Task

Name == {NameOf[t] : t \in Task}
Second == 0..MaxClock

VARIABLES
  op,         \* the operator: enqueue, launch, poll, done or failed
  msg,        \* the stream and its durable consumer, per message
  wpc,        \* where each worker process is in processMessage
  held,       \* the delivery a worker is processing
  results,    \* result objects under the job's result prefix
  artifacts,  \* output files under the job's artifact prefix
  clock,      \* wall clock in seconds, as time.Now().Unix() reads it
  faults      \* crashes and failed receives so far

storage == <<results, artifacts>>
vars == <<op, msg, wpc, held, results, artifacts, clock, faults>>

(* A delivery in a worker's hands: the message, its NumDelivered (with the *)
(* message it makes the receipt handle), the second at which the results   *)
(* were named, and whether the tool left an output file.                   *)
Delivery == [m : Msg \union {NoMsg}, n : 0..MaxDeliver, ts : Second, out : BOOLEAN]
Nothing == [m |-> NoMsg, n |-> 0, ts |-> 0, out |-> FALSE]
Handle(d) == <<d.m, d.n>>

ResultObject == [name : Name, ts : Second, task : Task, art : BOOLEAN]
ArtifactObject == [name : Name, ts : Second, task : Task]

Working == {"execute", "artifact", "result", "delete", "discard"}

TypeOK ==
  /\ op \in {"enqueue", "launch", "poll", "done", "failed"}
  /\ msg \in [Msg -> [st : {"unsent", "available", "inflight", "acked", "exhausted"},
                      n : 0..MaxDeliver]]
  /\ wpc \in [Worker -> {"new", "poll", "off"} \union Working]
  /\ held \in [Worker -> Delivery]
  /\ results \subseteq ResultObject
  /\ artifacts \subseteq ArtifactObject
  /\ clock \in Second
  /\ faults \in 0..MaxFaults

(* Provider-native workers are services that run before the scan exists;   *)
(* the others do not exist until the operator launches them.               *)
Init ==
  /\ op = "enqueue"
  /\ msg = [m \in Msg |-> [st |-> IF m \in Task THEN "unsent" ELSE "available", n |-> 0]]
  /\ wpc = [w \in Worker |-> IF AutoRestart THEN "off" ELSE "new"]
  /\ held = [w \in Worker |-> Nothing]
  /\ results = {}
  /\ artifacts = {}
  /\ clock = 0
  /\ faults = 0

-----------------------------------------------------------------------------
(* The operator.  ExecuteQueuedScan publishes every task (the worker pool  *)
(* of EnqueueTasks makes the order arbitrary), launches, then polls.       *)

Publish(t) ==
  /\ op = "enqueue"
  /\ msg[t].st = "unsent"
  /\ msg' = [msg EXCEPT ![t].st = "available"]
  /\ UNCHANGED <<op, wpc, held, storage, clock, faults>>

AllPublished == \A t \in Task : msg[t].st # "unsent"

EnqueueDone ==
  /\ op = "enqueue"
  /\ AllPublished
  /\ op' = "launch"
  /\ UNCHANGED <<msg, wpc, held, storage, clock, faults>>

(* A publish, the enqueue timeout or the launch fails: the scan is over    *)
(* for the operator, and what was published stays in the stream.           *)
ScanFails ==
  /\ op \in {"enqueue", "launch"}
  /\ op' = "failed"
  /\ UNCHANGED <<msg, wpc, held, storage, clock, faults>>

(* Containers and spot instances are started here; a provider-native fleet *)
(* is only waited for.                                                     *)
LaunchWorkers ==
  /\ op = "launch"
  /\ op' = "poll"
  /\ wpc' = [w \in Worker |-> IF wpc[w] = "new" THEN "poll" ELSE wpc[w]]
  /\ UNCHANGED <<msg, held, storage, clock, faults>>

(* Mutant: the count takes in the artifacts too (the whole job prefix). *)
MutCountAll == Cardinality(results) + Cardinality(artifacts)

(* Storage.Count over the job's result prefix. *)
ResultCount == Cardinality({<<r.name, r.ts>> : r \in results})

(* Mutant: the poll waits for more results than there are tasks. *)
MutPollBeyond ==
  /\ op = "poll"
  /\ ResultCount > Cardinality(Task)
  /\ op' = "done"
  /\ UNCHANGED <<msg, wpc, held, storage, clock, faults>>

(* PollAndRender leaves its loop on the first count that reaches the total. *)
PollComplete ==
  /\ op = "poll"
  /\ ResultCount >= Cardinality(Task)
  /\ op' = "done"
  /\ UNCHANGED <<msg, wpc, held, storage, clock, faults>>

Operator == (\E t \in Task : Publish(t)) \/ EnqueueDone \/ LaunchWorkers \/ PollComplete

-----------------------------------------------------------------------------
(* The durable consumer. *)

(* A delivery of m: it is counted whether or not the worker gets it. *)
Deliver(m) == msg' = [msg EXCEPT ![m] = [st |-> "inflight", n |-> msg[m].n + 1]]

(* Mutant: the last delivery never expires. *)
MutExpireNotLast(m) ==
  /\ msg[m].st = "inflight"
  /\ msg[m].n < MaxDeliver
  /\ msg' = [msg EXCEPT ![m].st = "available"]
  /\ UNCHANGED <<op, wpc, held, storage, clock, faults>>

(* AckWait passes without an acknowledgement. *)
AckWaitExpires(m) ==
  /\ msg[m].st = "inflight"
  /\ msg' = [msg EXCEPT ![m].st = IF msg[m].n < MaxDeliver THEN "available" ELSE "exhausted"]
  /\ UNCHANGED <<op, wpc, held, storage, clock, faults>>

(* The effect of an acknowledgement that arrives: JetStream accepts it for *)
(* any delivery of a message it still tracks, an expired one included.     *)
Acked(m) ==
  IF msg[m].st \in {"inflight", "available"}
  THEN [msg EXCEPT ![m].st = "acked"]
  ELSE msg

-----------------------------------------------------------------------------
(* The worker process. *)

Goto(w, label) == wpc' = [wpc EXCEPT ![w] = label]

(* processMessage returned and main's loop calls it again. *)
NextMessage(w) ==
  /\ Goto(w, "poll")
  /\ held' = [held EXCEPT ![w] = Nothing]

(* The process is gone, and what it was processing with it. *)
Terminate(w) ==
  /\ Goto(w, "off")
  /\ held' = [held EXCEPT ![w] = Nothing]

Restart(w) ==
  /\ AutoRestart
  /\ wpc[w] = "off"
  /\ Goto(w, "poll")
  /\ UNCHANGED <<op, msg, held, storage, clock, faults>>

Receive(w, m) ==
  /\ wpc[w] = "poll"
  /\ msg[m].st = "available"
  /\ Deliver(m)
  /\ held' = [held EXCEPT ![w] = [m |-> m, n |-> msg[m].n + 1, ts |-> 0, out |-> FALSE]]
  /\ Goto(w, IF m \in Task THEN "execute" ELSE "discard")
  /\ UNCHANGED <<op, storage, clock, faults>>

(* The fetch found nothing within its two seconds: the process exits. *)
ReceiveNone(w) ==
  /\ wpc[w] = "poll"
  /\ \A m \in Msg : msg[m].st # "available"
  /\ Terminate(w)
  /\ UNCHANGED <<op, msg, storage, clock, faults>>

(* An error from the stream, the consumer or the fetch ends the process    *)
(* too; the server may already have counted the delivery it lost.          *)
ReceiveFails(w) ==
  /\ wpc[w] = "poll"
  /\ faults < MaxFaults
  /\ faults' = faults + 1
  /\ Terminate(w)
  /\ \/ UNCHANGED msg
     \/ \E m \in Msg : msg[m].st = "available" /\ Deliver(m)
  /\ UNCHANGED <<op, storage, clock>>

(* Mutant: a transient error is acknowledged like a permanent one. *)
MutRetryAcknowledged(w) ==
  /\ wpc[w] = "execute"
  /\ Goto(w, "delete")
  /\ UNCHANGED <<op, msg, held, storage, clock, faults>>

(* The tool did not produce anything to record: Execute failed, or the     *)
(* error was classified transient and is left to redelivery.               *)
ExecuteRetry(w) ==
  /\ wpc[w] = "execute"
  /\ NextMessage(w)
  /\ UNCHANGED <<op, msg, storage, clock, faults>>

(* Success or a permanent error: both are recorded, under one timestamp.   *)
ExecuteRecord(w, out) ==
  /\ wpc[w] = "execute"
  /\ held' = [held EXCEPT ![w] = [m |-> @.m, n |-> @.n, ts |-> clock, out |-> out]]
  /\ Goto(w, IF out THEN "artifact" ELSE "result")
  /\ UNCHANGED <<op, msg, storage, clock, faults>>

(* Storage.Upload replaces the object that has the same key. *)
Put(objects, o) == {x \in objects : x.name # o.name \/ x.ts # o.ts} \union {o}

(* Mutant: the artifact is named by the time of its own upload. *)
MutArtifactNow(d) == [name |-> NameOf[d.m], ts |-> clock, task |-> d.m]

ArtifactOf(d) == [name |-> NameOf[d.m], ts |-> d.ts, task |-> d.m]
ResultOf(d) == [name |-> NameOf[d.m], ts |-> d.ts, task |-> d.m, art |-> d.out]

UploadArtifact(w) ==
  /\ wpc[w] = "artifact"
  /\ artifacts' = Put(artifacts, ArtifactOf(held[w]))
  /\ Goto(w, "result")
  /\ UNCHANGED <<op, msg, held, results, clock, faults>>

UploadResult(w) ==
  /\ wpc[w] = "result"
  /\ results' = Put(results, ResultOf(held[w]))
  /\ Goto(w, "delete")
  /\ UNCHANGED <<op, msg, held, artifacts, clock, faults>>

(* Mutant: a failed upload is logged and the message acknowledged. *)
MutUploadIgnored(w) ==
  /\ wpc[w] \in {"artifact", "result"}
  /\ Goto(w, "delete")
  /\ UNCHANGED <<op, msg, held, storage, clock, faults>>

(* An upload that reports an error may have stored the object or not.      *)
UploadFails(w) ==
  /\ wpc[w] \in {"artifact", "result"}
  /\ NextMessage(w)
  /\ \/ UNCHANGED storage
     \/ /\ wpc[w] = "artifact"
        /\ artifacts' = Put(artifacts, ArtifactOf(held[w]))
        /\ UNCHANGED results
     \/ /\ wpc[w] = "result"
        /\ results' = Put(results, ResultOf(held[w]))
        /\ UNCHANGED artifacts
  /\ UNCHANGED <<op, msg, clock, faults>>

(* Queue.Delete of the handle Receive just returned; an acknowledgement is *)
(* confirmed by nobody and may be lost, and its error is only logged.      *)
Delete(w) ==
  /\ wpc[w] \in {"delete", "discard"}
  /\ msg' = Acked(held[w].m) \/ UNCHANGED msg
  /\ NextMessage(w)
  /\ UNCHANGED <<op, storage, clock, faults>>

Crash(w) ==
  /\ wpc[w] \in Working \union {"poll"}
  /\ faults < MaxFaults
  /\ faults' = faults + 1
  /\ Terminate(w)
  /\ UNCHANGED <<op, msg, storage, clock>>

(* What a worker does when nothing kills it. *)
WorkerStep(w) ==
  \/ Restart(w)
  \/ \E m \in Msg : Receive(w, m)
  \/ ReceiveNone(w)
  \/ ExecuteRetry(w)
  \/ \E out \in BOOLEAN : ExecuteRecord(w, out)
  \/ UploadArtifact(w)
  \/ UploadResult(w)
  \/ UploadFails(w)
  \/ Delete(w)

Tick ==
  /\ clock < MaxClock
  /\ clock' = clock + 1
  /\ UNCHANGED <<op, msg, wpc, held, storage, faults>>

Next ==
  \/ Operator
  \/ ScanFails
  \/ \E m \in Msg : AckWaitExpires(m)
  \/ \E w \in Worker : WorkerStep(w) \/ ReceiveFails(w) \/ Crash(w)
  \/ Tick

Spec == Init /\ [][Next]_vars

(* The operator and the server's redelivery timer always get their turn; a *)
(* worker does too: a tool runs under its module's timeout, an upload      *)
(* under a minute's, a fetch under two seconds.  Nothing makes a worker    *)
(* crash, a call fail or the clock's second differ.                        *)
Fairness ==
  /\ WF_vars(Operator)
  /\ \A m \in Msg : WF_vars(AckWaitExpires(m))
  /\ \A w \in Worker : WF_vars(WorkerStep(w))

FairSpec == Spec /\ Fairness
-----------------------------------------------------------------------------
(* Properties. *)

Stored(t) == \E r \in results : r.name = NameOf[t]

(* "Delete message only after successful upload" (main.go): a task's       *)
(* message is acknowledged only once a result is stored under the task's   *)
(* name, whichever delivery, redelivery or late acknowledgement did it.    *)
AckedHasResult == \A t \in Task : msg[t].st = "acked" => Stored(t)

(* "Upload output file first so the structured result can point to it"     *)
(* (main.go): the artifact a result names is always there to be fetched,   *)
(* however many workers processed the task, in whatever second.            *)
ResultFindsArtifact ==
  \A r \in results : r.art => \E a \in artifacts : a.name = r.name /\ a.ts = r.ts

(* The receipt handles two live workers are processing are different even  *)
(* while both process the same message: NumDelivered tells them apart.     *)
HandlesDistinct ==
  \A v, w \in Worker :
    v # w /\ {wpc[v], wpc[w]} \subseteq Working => Handle(held[v]) # Handle(held[w])

(* "Scan complete" may be believed as long as nothing was delivered twice: *)
(* then the object count that PollAndRender compares with the number of    *)
(* tasks counts tasks.                                                     *)
CompleteUnlessRedelivered ==
  op = "done" /\ (\A m \in Msg : msg[m].n <= 1) => \A t \in Task : Stored(t)

(* runtime.go reports "Scan complete: %d tasks" with the number of tasks:  *)
(* each of them has a result by then.  The code counts objects, and a task *)
(* that is run again in another second adds one: this does not hold.       *)
CompleteMeansEveryTask == op = "done" => \A t \in Task : Stored(t)

(* What makes the safety properties inductive: a worker past the receive   *)
(* holds a published message it was counted for, under a handle of its     *)
(* own; one about to store a result that names an artifact has stored the  *)
(* artifact, one about to acknowledge has stored the result; and objects   *)
(* carry the name of their task.                                           *)
DeliveriesLeft ==
  \A m \in Msg :
    /\ msg[m].st = "unsent" => msg[m].n = 0
    /\ msg[m].st = "available" => msg[m].n < MaxDeliver
HoldsDelivered ==
  \A w \in Worker : wpc[w] \in Working =>
    /\ held[w].m \in (IF wpc[w] = "discard" THEN Malformed ELSE Task)
    /\ msg[held[w].m].st # "unsent"
    /\ held[w].n \in 1..msg[held[w].m].n
ArtifactFirst ==
  \A w \in Worker : wpc[w] = "result" /\ held[w].out =>
    \E a \in artifacts : a.name = NameOf[held[w].m] /\ a.ts = held[w].ts
ResultFirst == \A w \in Worker : wpc[w] = "delete" => Stored(held[w].m)
ObjectsNamed == \A o \in results \union artifacts : o.name = NameOf[o.task]

PipelineInv ==
  /\ TypeOK
  /\ DeliveriesLeft
  /\ HoldsDelivered
  /\ HandlesDistinct
  /\ ArtifactFirst
  /\ ResultFirst
  /\ ObjectsNamed
  /\ AckedHasResult
  /\ ResultFindsArtifact

(* Nothing that was stored goes away: a key once listed stays listed.      *)
ResultsStay ==
  [][\A r \in results : \E q \in results' : q.name = r.name /\ q.ts = r.ts]_vars

(* ScanPipeline implements the ledger. *)
Ledger == INSTANCE TaskLedger WITH
  status <- [t \in Task |->
    CASE msg[t].st = "unsent" -> "unsent"
      [] msg[t].st = "acked" -> "settled"
      [] msg[t].st = "exhausted" -> "abandoned"
      [] OTHER -> "owed"],
  recorded <- {r.name : r \in results}
ImplementsLedger == Ledger!LedgerSpec

(* A published task does not stay owed for ever: it is acknowledged or its *)
(* deliveries are used up.                                                 *)
Settles == \A t \in Task : msg[t].st = "available" ~> msg[t].st \in {"acked", "exhausted"}

(* The poll loop ends, unless some task used up its deliveries.            *)
PollEnds == op = "poll" ~> (op = "done" \/ \E t \in Task : msg[t].st = "exhausted")

(* errors.go on a transient error: "visibility timeout triggers retry": a  *)
(* message that came back to the queue is handed to a worker again.  Where *)
(* nothing restarts workers they have left on an empty queue by then, and  *)
(* this does not hold.                                                     *)
RetryHappens ==
  \A t \in Task : (msg[t].st = "available" /\ msg[t].n > 0) ~> msg[t].st # "available"
=============================================================================

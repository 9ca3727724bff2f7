------------------------------ MODULE Enqueue ------------------------------
(***************************************************************************)
(* EnqueueTasks (internal/jobs/enqueue.go): a producer goroutine offers    *)
(* batches on an unbuffered channel, senders publish them and report on a  *)
(* second unbuffered channel, the caller collects the reports, and a       *)
(* closer ends the collection.  The first error cancels a shared context.  *)
(***************************************************************************)
EXTENDS Integers, FiniteSets

CONSTANTS
  N,            \* number of tasks, len(tasks)
  BatchSize,    \* EnqueueOptions.BatchSize after normalizeEnqueueOptions
  Sender,       \* the sender goroutines
  DropsEntries  \* TRUE: a queue whose SendBatch reports success although
                \* entries were refused (SQSClient.SendBatch ignores Failed)

ASSUME SizesAssumption == N \in Nat \ {0} /\ BatchSize \in Nat \ {0}
ASSUME SendersAssumption == Sender # {} /\ IsFiniteSet(Sender)
ASSUME BackendAssumption == DropsEntries \in BOOLEAN

TaskIdx == 0..(N - 1)

(* Batch b holds the tasks from b * BatchSize on. *)
TasksOf(b) == {i \in TaskIdx : b * BatchSize <= i /\ i < (b + 1) * BatchSize}
BatchCount == (N + BatchSize - 1) \div BatchSize
Batch == 0..(BatchCount - 1)
NoBatch == -1

VARIABLES
  tooLarge,   \* input: tasks that do not marshal or exceed MaxMessageBytes
  next,       \* producer: the batch it offers
  producer,   \* producer: "offer", or "closed" once it closed jobs
  sender,     \* each sender's place: range, check, send, record, report, exit
  job,        \* the batch a sender is working on
  failed,     \* whether that batch's send returned an error
  firstErr,   \* the error the call will return
  cancelled,  \* enqueueCtx is done because of an error
  expired,    \* the caller's context is done
  published,  \* tasks whose message is in the queue
  accepted,   \* batches counted in SentTasks
  count,      \* EnqueueResult.BatchCount
  ret         \* "running", or what the call returned

pool == <<next, producer, sender, job, failed>>
vars == <<next, producer, sender, job, failed, firstErr, cancelled, expired,
          published, accepted, count, ret, tooLarge>>

TypeOK ==
  /\ tooLarge \subseteq TaskIdx
  /\ next \in 0..BatchCount
  /\ producer \in {"offer", "closed"}
  /\ sender \in [Sender -> {"range", "check", "send", "record", "report", "exit"}]
  /\ job \in [Sender -> Batch \union {NoBatch}]
  /\ failed \in [Sender -> BOOLEAN]
  /\ firstErr \in BOOLEAN /\ cancelled \in BOOLEAN /\ expired \in BOOLEAN
  /\ published \subseteq TaskIdx
  /\ accepted \subseteq Batch
  /\ count \in Nat
  /\ ret \in {"running", "ok", "error"}

Init ==
  /\ tooLarge \in SUBSET TaskIdx
  /\ next = 0
  /\ producer = "offer"
  /\ sender = [s \in Sender |-> "range"]
  /\ job = [s \in Sender |-> NoBatch]
  /\ failed = [s \in Sender |-> FALSE]
  /\ firstErr = FALSE
  /\ cancelled = FALSE
  /\ expired = FALSE
  /\ published = {}
  /\ accepted = {}
  /\ count = 0
  /\ ret = "running"

Done == cancelled \/ expired

(* The caller's context (EnqueueTimeout, or an interrupt) ends. *)
Expire ==
  /\ ret = "running" /\ ~expired
  /\ expired' = TRUE
  /\ UNCHANGED <<pool, firstErr, cancelled, published, accepted, count, ret, tooLarge>>

(* The producer's select: the batch may be handed over even when the       *)
(* context is done, since a select with two ready cases picks either.      *)
Offer(s) ==
  /\ producer = "offer" /\ next < BatchCount
  /\ sender[s] = "range"
  /\ job' = [job EXCEPT ![s] = next]
  /\ sender' = [sender EXCEPT ![s] = "check"]
  /\ next' = next + 1
  /\ UNCHANGED <<producer, failed, firstErr, cancelled, expired, published, accepted, count, ret, tooLarge>>

CloseJobs ==
  /\ producer = "offer"
  /\ next = BatchCount \/ Done
  /\ producer' = "closed"
  /\ UNCHANGED <<next, sender, job, failed, firstErr, cancelled, expired, published,
                 accepted, count, ret, tooLarge>>

Finish(s, err) ==
  /\ failed' = [failed EXCEPT ![s] = err]
  /\ sender' = [sender EXCEPT ![s] = "record"]

(* Mutant: the context is not checked. *)
MutCheckNoContext(s) ==
  /\ sender[s] = "check"
  /\ IF TasksOf(job[s]) \intersect tooLarge # {}
     THEN Finish(s, TRUE)
     ELSE sender' = [sender EXCEPT ![s] = "send"] /\ UNCHANGED failed
  /\ UNCHANGED <<next, producer, job, firstErr, cancelled, expired, published, accepted,
                 count, ret, tooLarge>>

(* sendTaskBatch up to the queue: the context is checked before and after  *)
(* the bodies are marshaled, and a task too large fails the whole batch.   *)
Check(s) ==
  /\ sender[s] = "check"
  /\ IF Done \/ TasksOf(job[s]) \intersect tooLarge # {}
     THEN Finish(s, TRUE)
     ELSE sender' = [sender EXCEPT ![s] = "send"] /\ UNCHANGED failed
  /\ UNCHANGED <<next, producer, job, firstErr, cancelled, expired, published, accepted,
                 count, ret, tooLarge>>

(* queue.SendBatch succeeds.  The JetStream queue published every message; *)
(* with DropsEntries any of the entries may have been refused.             *)
SendOk(s) ==
  /\ sender[s] = "send"
  /\ Finish(s, FALSE)
  /\ \E arrived \in SUBSET TasksOf(job[s]) :
       /\ DropsEntries \/ arrived = TasksOf(job[s])
       /\ published' = published \union arrived
  /\ UNCHANGED <<next, producer, job, firstErr, cancelled, expired, accepted, count, ret, tooLarge>>

(* Mutant: a failed batch is tried again for as long as it fails. *)
MutSendRetries(s) ==
  /\ sender[s] = "send"
  /\ sender' = [sender EXCEPT ![s] = "check"]
  /\ UNCHANGED <<next, producer, job, failed, firstErr, cancelled, expired, published,
                 accepted, count, ret, tooLarge>>

(* queue.SendBatch fails after publishing some first messages; the one it  *)
(* failed on may have arrived all the same.                                *)
SendFails(s) ==
  /\ sender[s] = "send"
  /\ Finish(s, TRUE)
  /\ \E k \in TasksOf(job[s]) \union {-1} :
       published' = published \union {i \in TasksOf(job[s]) : i <= k}
  /\ UNCHANGED <<next, producer, job, firstErr, cancelled, expired, accepted, count, ret, tooLarge>>

(* recordErr: only the first error is kept, and it cancels the others. *)
RecordErr(s) ==
  /\ sender[s] = "record"
  /\ firstErr' = (firstErr \/ failed[s])
  /\ cancelled' = (cancelled \/ failed[s])
  /\ sender' = [sender EXCEPT ![s] = "report"]
  /\ UNCHANGED <<next, producer, job, failed, expired, published, accepted, count, ret, tooLarge>>

(* Mutant: a failed batch is counted. *)
MutReportFailed(s) ==
  /\ sender[s] = "report"
  /\ ret = "running"
  /\ accepted' = accepted \union {job[s]} /\ count' = count + 1
  /\ sender' = [sender EXCEPT ![s] = "range"]
  /\ job' = [job EXCEPT ![s] = NoBatch]
  /\ failed' = [failed EXCEPT ![s] = FALSE]
  /\ UNCHANGED <<next, producer, firstErr, cancelled, expired, published, ret, tooLarge>>

(* The rendezvous on results: the collector counts what succeeded. *)
Report(s) ==
  /\ sender[s] = "report"
  /\ ret = "running"
  /\ IF failed[s]
     THEN UNCHANGED <<accepted, count>>
     ELSE accepted' = accepted \union {job[s]} /\ count' = count + 1
  /\ sender' = [sender EXCEPT ![s] = "range"]
  /\ job' = [job EXCEPT ![s] = NoBatch]
  /\ failed' = [failed EXCEPT ![s] = FALSE]
  /\ UNCHANGED <<next, producer, firstErr, cancelled, expired, published, ret, tooLarge>>

(* range over a closed channel ends the sender. *)
Exit(s) ==
  /\ producer = "closed"
  /\ sender[s] = "range"
  /\ sender' = [sender EXCEPT ![s] = "exit"]
  /\ UNCHANGED <<next, producer, job, failed, firstErr, cancelled, expired, published,
                 accepted, count, ret, tooLarge>>

(* Mutant: the caller's own context is not looked at. *)
MutReturnIgnoresContext ==
  /\ ret = "running"
  /\ \A s \in Sender : sender[s] = "exit"
  /\ ret' = IF firstErr THEN "error" ELSE "ok"
  /\ UNCHANGED <<pool, firstErr, cancelled, expired, published, accepted, count, tooLarge>>

(* Mutant: the results are closed without waiting for every sender. *)
MutReturnEarly ==
  /\ ret = "running"
  /\ \E s \in Sender : sender[s] = "exit"
  /\ ret' = IF firstErr \/ expired THEN "error" ELSE "ok"
  /\ UNCHANGED <<pool, firstErr, cancelled, expired, published, accepted, count, tooLarge>>

(* wg.Wait, close(results), and the collector's return. *)
Return ==
  /\ ret = "running"
  /\ \A s \in Sender : sender[s] = "exit"
  /\ ret' = IF firstErr \/ expired THEN "error" ELSE "ok"
  /\ UNCHANGED <<pool, firstErr, cancelled, expired, published, accepted, count, tooLarge>>

SenderStep(s) ==
  Check(s) \/ SendOk(s) \/ SendFails(s) \/ RecordErr(s) \/ Report(s) \/ Exit(s)

Terminated == ret # "running" /\ UNCHANGED vars

Next ==
  \/ Expire
  \/ CloseJobs
  \/ \E s \in Sender : Offer(s) \/ SenderStep(s)
  \/ Return
  \/ Terminated

Spec == Init /\ [][Next]_vars

(* The goroutines are scheduled; SendBatch returns, at the latest when its *)
(* context does.  Nothing makes the caller's context end or a send fail.   *)
Fairness ==
  /\ WF_vars(CloseJobs)
  /\ WF_vars(\E s \in Sender : Offer(s))
  /\ WF_vars(Return)
  /\ \A s \in Sender : WF_vars(SenderStep(s))

FairSpec == Spec /\ Fairness

-----------------------------------------------------------------------------
(* Properties. *)

(* SentTasks and BatchCount count published work ("EnqueueResult reports   *)
(* how much work was successfully published"): every batch counted is in   *)
(* the queue entirely.                                                     *)
CountedIsPublished == \A b \in accepted : TasksOf(b) \subseteq published

(* A call that returns no error has sent everything, whatever the order in *)
(* which the context ended, the producer stopped and the senders drained.  *)
OkMeansAll == ret = "ok" => accepted = Batch

(* What a failed call understates: batches that put messages into the      *)
(* queue and are not counted.  A caller that repeats the call sends them   *)
(* twice.  The shared context keeps them to one for each sender, although  *)
(* a sender may be handed batches after the error and every send may stop  *)
(* half way.                                                               *)
UncountedBounded ==
  Cardinality({b \in Batch \ accepted : TasksOf(b) \intersect published # {}})
    <= Cardinality(Sender)

(* The pool implements what a call promises: the answer counts tasks that  *)
(* are in the queue, all of them if there was no error, and nothing is     *)
(* sent once the call has answered.                                        *)
CountedTasks == UNION {TasksOf(b) : b \in accepted}
Promise == INSTANCE EnqueuePromise WITH
  Task <- TaskIdx,
  sent <- published,
  answer <- [err |-> ret, counted |-> IF ret = "running" THEN {} ELSE CountedTasks]
KeepsPromise == Promise!PromiseSpec

(* What makes OkMeansAll inductive: no batch is counted twice, held by two *)
(* senders or still held once counted; a sender has one exactly while it   *)
(* works on one; every batch handed out is counted, in some sender's       *)
(* hands, or its error is known; and the producer stops early only when    *)
(* the context is done.                                                    *)
CountsOnce == count = Cardinality(accepted)
BatchesExclusive ==
  \A s \in Sender : job[s] # NoBatch =>
    /\ job[s] < next
    /\ job[s] \notin accepted
    /\ \A z \in Sender \ {s} : job[z] # job[s]
HandsFull == \A s \in Sender : sender[s] \in {"range", "exit"} <=> job[s] = NoBatch
BatchesAccounted ==
  \A b \in 0..(next - 1) : b \in accepted \/ firstErr \/ \E s \in Sender : job[s] = b
ErrorsKnown == \A s \in Sender : sender[s] = "report" /\ failed[s] => firstErr
SentIsPublished ==
  \A s \in Sender : sender[s] \in {"record", "report"} /\ ~failed[s] =>
    TasksOf(job[s]) \subseteq published
ProducerDone ==
  /\ cancelled = firstErr
  /\ producer = "closed" => next = BatchCount \/ Done
  /\ \A s \in Sender : sender[s] = "exit" => producer = "closed"

PoolInv ==
  /\ TypeOK
  /\ HandsFull
  /\ BatchesExclusive
  /\ BatchesAccounted
  /\ ErrorsKnown
  /\ ProducerDone
  /\ accepted \subseteq 0..(next - 1)
  /\ CountsOnce
  /\ OkMeansAll

(* The call returns: no goroutine is left blocked on either channel. *)
Returns == <>(ret # "running")
=============================================================================

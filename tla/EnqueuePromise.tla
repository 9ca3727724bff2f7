--------------------------- MODULE EnqueuePromise ---------------------------
(***************************************************************************)
(* What a call of EnqueueTasks promises, without saying how many senders   *)
(* there are, what a batch is, or who counts: while the call runs it puts  *)
(* tasks into the queue; it answers once, with tasks that are there, and   *)
(* with all of them if it reports no error; after its answer it puts       *)
(* nothing more into the queue, so that what the caller does next, another *)
(* call or a destroy, cannot race it.                                      *)
(*                                                                         *)
(* Enqueue is shown to implement this module.                              *)
(***************************************************************************)
CONSTANT Task      \* the tasks given to the call

VARIABLES sent,    \* those in the queue
          answer   \* what the call returned

promiseVars == <<sent, answer>>

Unanswered == [err |-> "running", counted |-> {}]

PromiseInit ==
  /\ sent = {}
  /\ answer = Unanswered

(* Some sends reach the queue. *)
Publish(S) ==
  /\ answer = Unanswered
  /\ sent' = sent \union S
  /\ UNCHANGED answer

Reply(err, counted) ==
  /\ answer = Unanswered
  /\ counted \subseteq sent
  /\ err = "ok" => counted = Task
  /\ answer' = [err |-> err, counted |-> counted]
  /\ UNCHANGED sent

PromiseNext ==
  \/ \E S \in SUBSET Task : Publish(S)
  \/ \E err \in {"ok", "error"}, counted \in SUBSET Task : Reply(err, counted)

PromiseSpec == PromiseInit /\ [][PromiseNext]_promiseVars

=============================================================================

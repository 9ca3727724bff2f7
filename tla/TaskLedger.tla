----------------------------- MODULE TaskLedger -----------------------------
(***************************************************************************)
(* What the queue, the workers and the object store promise the operator   *)
(* about each task of a scan, without saying how: a task that was sent is  *)
(* owed an outcome until it is settled (its message acknowledged), and it  *)
(* may be settled only after a result stored under its name.  A message    *)
(* whose delivery budget is spent is abandoned; nothing un-settles or      *)
(* revives it.  Results are never taken back.                              *)
(*                                                                         *)
(* ScanPipeline is shown to implement this module.                         *)
(***************************************************************************)
CONSTANTS Task,     \* the tasks of one scan (worker.Task values)
          NameOf    \* NameOf[t]: the key stem a result of t is stored under

VARIABLES status,   \* what the queue still owes each task
          recorded  \* the key stems under which a result is stored

ledgerVars == <<status, recorded>>

Name == {NameOf[t] : t \in Task}

LedgerTypeOK ==
  /\ status \in [Task -> {"unsent", "owed", "settled", "abandoned"}]
  /\ recorded \subseteq Name

LedgerInit ==
  /\ status = [t \in Task |-> "unsent"]
  /\ recorded = {}

(* The operator publishes the task. *)
Send(t) ==
  /\ status[t] = "unsent"
  /\ status' = [status EXCEPT ![t] = "owed"]
  /\ UNCHANGED recorded

(* A worker that was given the task stores a result; being at least once,  *)
(* it may do so again after the task was settled or abandoned.             *)
Record(t) ==
  /\ status[t] # "unsent"
  /\ recorded' = recorded \union {NameOf[t]}
  /\ UNCHANGED status

(* The message is acknowledged. *)
Settle(t) ==
  /\ status[t] = "owed"
  /\ NameOf[t] \in recorded
  /\ status' = [status EXCEPT ![t] = "settled"]
  /\ UNCHANGED recorded

(* The delivery budget is spent. *)
Abandon(t) ==
  /\ status[t] = "owed"
  /\ status' = [status EXCEPT ![t] = "abandoned"]
  /\ UNCHANGED recorded

LedgerNext == \E t \in Task : Send(t) \/ Record(t) \/ Settle(t) \/ Abandon(t)

LedgerSpec == LedgerInit /\ [][LedgerNext]_ledgerVars

=============================================================================

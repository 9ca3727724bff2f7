------------------------- MODULE ScanPipelineProofs -------------------------
(***************************************************************************)
(* Theorems about ScanPipeline, for every set of tasks and workers and     *)
(* every bound.  PipelineInv is proved inductive, one lemma per group of   *)
(* actions; the safety properties and the refinement of TaskLedger follow. *)
(***************************************************************************)
EXTENDS ScanPipeline, FiniteSetTheorems, TLAPS

(* The next-state relation with one disjunct per action. *)
LEMMA NextCases ==
  ASSUME [Next]_vars
  PROVE  \/ \E t \in Task : Publish(t)
         \/ EnqueueDone \/ ScanFails \/ LaunchWorkers \/ PollComplete \/ Tick
         \/ \E m \in Msg : AckWaitExpires(m)
         \/ \E w \in Worker, m \in Msg : Receive(w, m)
         \/ \E w \in Worker, out \in BOOLEAN : ExecuteRecord(w, out)
         \/ \E w \in Worker :
              \/ Restart(w) \/ ReceiveNone(w) \/ ReceiveFails(w) \/ ExecuteRetry(w)
              \/ UploadArtifact(w) \/ UploadResult(w) \/ UploadFails(w)
              \/ Delete(w) \/ Crash(w)
         \/ UNCHANGED vars
  BY DEF Next, Operator, WorkerStep

(* Put stores the object and keeps every key that was there. *)
LEMMA PutStores ==
  ASSUME NEW objects, NEW o
  PROVE  /\ o \in Put(objects, o)
         /\ \A x \in objects : \E y \in Put(objects, o) : y.name = x.name /\ y.ts = x.ts
         /\ \A y \in Put(objects, o) : y = o \/ y \in objects
  BY DEF Put

-----------------------------------------------------------------------------
(* The type invariant and DeliveriesLeft: a delivery is never counted      *)
(* beyond MaxDeliver.                                                      *)
TypeInv == TypeOK /\ DeliveriesLeft /\ HoldsDelivered

LEMMA TypeInit == Init => TypeInv
<1> USE MessagesAssumption, BoundsAssumption, ModeAssumption
<1> SUFFICES ASSUME Init PROVE TypeInv
  OBVIOUS
<1>1. Nothing \in Delivery
  BY DEF Nothing, Delivery, Second
<1>2. TypeOK
  BY <1>1 DEF Init, TypeOK, Second, Msg
<1>3. DeliveriesLeft /\ HoldsDelivered
  BY DEF Init, DeliveriesLeft, HoldsDelivered, Working, Msg
<1> QED BY <1>2, <1>3 DEF TypeInv

(* Operator, consumer and clock steps leave the workers' hands alone. *)
LEMMA TypeOther ==
  ASSUME TypeInv,
         \/ \E t \in Task : Publish(t)
         \/ EnqueueDone \/ ScanFails \/ LaunchWorkers \/ PollComplete \/ Tick
         \/ \E m \in Msg : AckWaitExpires(m)
         \/ UNCHANGED vars
  PROVE  TypeInv'
<1> USE MessagesAssumption, BoundsAssumption, ModeAssumption
    DEF TypeInv, TypeOK, DeliveriesLeft, HoldsDelivered, Working, Delivery, Msg, storage
<1>1. ASSUME NEW t \in Task, Publish(t) PROVE TypeInv'
  BY <1>1 DEF Publish
<1>2. CASE EnqueueDone
  BY <1>2 DEF EnqueueDone
<1>3. CASE ScanFails
  BY <1>3 DEF ScanFails
<1>4. CASE LaunchWorkers
  BY <1>4 DEF LaunchWorkers
<1>5. CASE PollComplete
  BY <1>5 DEF PollComplete
<1>6. CASE Tick
  BY <1>6 DEF Tick, Second
<1>7. ASSUME NEW m \in Msg, AckWaitExpires(m) PROVE TypeInv'
  BY <1>7 DEF AckWaitExpires
<1>8. CASE UNCHANGED vars
  BY <1>8 DEF vars
<1> QED BY <1>1, <1>2, <1>3, <1>4, <1>5, <1>6, <1>7, <1>8

(* A worker's steps: what it holds, it was given. *)
LEMMA TypeWorker ==
  ASSUME TypeInv, NEW w \in Worker,
         \/ \E m \in Msg : Receive(w, m)
         \/ \E out \in BOOLEAN : ExecuteRecord(w, out)
         \/ Restart(w) \/ ReceiveNone(w) \/ ReceiveFails(w) \/ ExecuteRetry(w)
         \/ UploadArtifact(w) \/ UploadResult(w) \/ UploadFails(w)
         \/ Delete(w) \/ Crash(w)
  PROVE  TypeInv'
<1> USE MessagesAssumption, BoundsAssumption, ModeAssumption
    DEF TypeInv, TypeOK, DeliveriesLeft, HoldsDelivered, Working, Delivery, Msg, storage
<1>0. Nothing \in Delivery
  BY DEF Nothing, Second
<1>a. wpc[w] \in {"artifact", "result"} =>
        /\ ArtifactOf(held[w]) \in ArtifactObject
        /\ ResultOf(held[w]) \in ResultObject
  BY DEF ArtifactOf, ResultOf, ArtifactObject, ResultObject, Name
<1>b. wpc[w] \in {"artifact", "result"} =>
        /\ Put(artifacts, ArtifactOf(held[w])) \subseteq ArtifactObject
        /\ Put(results, ResultOf(held[w])) \subseteq ResultObject
  BY <1>a, PutStores
<1>1. ASSUME NEW m \in Msg, Receive(w, m) PROVE TypeInv'
  <2>0. msg[m].n \in 0..MaxDeliver /\ msg[m].n < MaxDeliver
    BY <1>1 DEF Receive
  <2>1. msg[m].n + 1 \in 1..MaxDeliver
    BY <2>0
  <2> DEFINE d == [m |-> m, n |-> msg[m].n + 1, ts |-> 0, out |-> FALSE]
  <2>2. d \in Delivery /\ held' = [held EXCEPT ![w] = d]
    BY <1>1, <2>1 DEF Nothing, Second, Receive
  <2>3. TypeOK'
    BY <1>1, <2>1, <2>2 DEF Receive, Deliver, Goto
  <2>4. DeliveriesLeft'
    BY <1>1, <2>1 DEF Receive, Deliver
  <2>5. HoldsDelivered'
    <3> SUFFICES ASSUME NEW v \in Worker, wpc'[v] \in Working
                 PROVE  /\ held'[v].m \in (IF wpc'[v] = "discard" THEN Malformed ELSE Task)
                        /\ msg'[held'[v].m].st # "unsent"
                        /\ held'[v].n \in 1..msg'[held'[v].m].n
      BY DEF HoldsDelivered
    <3>1. CASE v = w
      BY <1>1, <2>1, <2>2, <3>1 DEF Receive, Deliver, Goto
    <3>2. CASE v # w
      BY <1>1, <2>1, <2>2, <3>2 DEF Receive, Deliver, Goto
    <3> QED BY <3>1, <3>2
  <2> QED BY <2>3, <2>4, <2>5
<1>2. ASSUME NEW out \in BOOLEAN, ExecuteRecord(w, out) PROVE TypeInv'
  BY <1>2 DEF ExecuteRecord, Goto
<1>3. CASE Restart(w)
  BY <1>3 DEF Restart, Goto
<1>4. CASE ReceiveNone(w)
  BY <1>4, <1>0 DEF ReceiveNone, Terminate, Goto
<1>5. CASE ReceiveFails(w)
  <2>1. CASE UNCHANGED msg
    BY <1>5, <1>0, <2>1 DEF ReceiveFails, Terminate, Goto
  <2>2. ASSUME NEW m \in Msg, msg[m].st = "available", Deliver(m) PROVE TypeInv'
    <3>0. msg[m].n \in 0..MaxDeliver /\ msg[m].n < MaxDeliver
      BY <2>2
    <3>1. msg[m].n + 1 \in 1..MaxDeliver
      BY <3>0
    <3> QED BY <1>5, <1>0, <2>2, <3>1 DEF ReceiveFails, Terminate, Goto, Deliver
  <2> QED BY <1>5, <2>1, <2>2 DEF ReceiveFails
<1>6. CASE ExecuteRetry(w)
  BY <1>6, <1>0 DEF ExecuteRetry, NextMessage, Goto
<1>7. CASE UploadArtifact(w)
  BY <1>7, <1>b DEF UploadArtifact, Goto
<1>8. CASE UploadResult(w)
  BY <1>8, <1>b DEF UploadResult, Goto
<1>9. CASE UploadFails(w)
  BY <1>9, <1>0, <1>b DEF UploadFails, NextMessage, Goto
<1>10. CASE Delete(w)
  <2>1. held[w].m \in Msg /\ held' = [held EXCEPT ![w] = Nothing] /\ wpc' = [wpc EXCEPT ![w] = "poll"]
    BY <1>10 DEF Delete, NextMessage, Goto
  <2>2. CASE msg' = msg
    BY <1>10, <1>0, <2>1, <2>2 DEF Delete
  <2>3. CASE msg' = [msg EXCEPT ![held[w].m].st = "acked"] /\ msg[held[w].m].st # "unsent"
    BY SMTT(20), <1>10, <1>0, <2>1, <2>3 DEF Delete
  <2> QED BY <1>10, <2>1, <2>2, <2>3 DEF Delete, Acked
<1>11. CASE Crash(w)
  BY <1>11, <1>0 DEF Crash, Terminate, Goto
<1> QED
  BY <1>1, <1>2, <1>3, <1>4, <1>5, <1>6, <1>7, <1>8, <1>9, <1>10, <1>11

(* The state stays well typed and no delivery is counted past MaxDeliver,  *)
(* whatever the workers, the operator and the redelivery timer do.         *)
THEOREM TypeCorrect == Spec => [](TypeOK /\ DeliveriesLeft /\ HoldsDelivered)
<1>1. TypeInv /\ [Next]_vars => TypeInv'
  BY NextCases, TypeOther, TypeWorker
<1>2. TypeInv => TypeOK /\ DeliveriesLeft /\ HoldsDelivered
  BY DEF TypeInv
<1> QED BY TypeInit, <1>1, <1>2, PTL DEF Spec
-----------------------------------------------------------------------------
(* The safety invariants. *)

Safety ==
  /\ HandlesDistinct
  /\ ArtifactFirst
  /\ ResultFirst
  /\ ObjectsNamed
  /\ AckedHasResult
  /\ ResultFindsArtifact

LEMMA SafetyInit == Init => Safety
  BY MessagesAssumption
  DEF Init, Safety, HandlesDistinct, ArtifactFirst, ResultFirst, ObjectsNamed,
      AckedHasResult, ResultFindsArtifact, Working, Msg

(* Steps of the operator, the redelivery timer and the clock: no message   *)
(* becomes acknowledged and no worker moves, except that a launched one    *)
(* starts polling.                                                         *)
LEMMA SafetyOther ==
  ASSUME TypeInv, Safety,
         \/ \E t \in Task : Publish(t)
         \/ EnqueueDone \/ ScanFails \/ LaunchWorkers \/ PollComplete \/ Tick
         \/ \E m \in Msg : AckWaitExpires(m)
         \/ UNCHANGED vars
  PROVE  Safety'
<1>1. /\ UNCHANGED <<held, results, artifacts>>
      /\ \A w \in Worker : wpc'[w] = wpc[w] \/ (wpc[w] = "new" /\ wpc'[w] = "poll")
  BY DEF TypeInv, TypeOK, Publish, EnqueueDone, ScanFails, LaunchWorkers, PollComplete,
         Tick, AckWaitExpires, vars, storage
<1>2. \A t \in Task : msg'[t].st = "acked" => msg[t].st = "acked"
  <2>1. ASSUME NEW m \in Msg, AckWaitExpires(m)
        PROVE  \A t \in Task : msg'[t].st = "acked" => msg[t].st = "acked"
    BY <2>1, MessagesAssumption DEF AckWaitExpires, TypeInv, TypeOK, Msg
  <2>2. ASSUME NEW m \in Task, Publish(m)
        PROVE  \A t \in Task : msg'[t].st = "acked" => msg[t].st = "acked"
    BY <2>2, MessagesAssumption DEF Publish, TypeInv, TypeOK, Msg
  <2> QED
    BY <2>1, <2>2 DEF EnqueueDone, ScanFails, LaunchWorkers, PollComplete, Tick, vars
<1>3. HandlesDistinct' /\ ArtifactFirst' /\ ResultFirst'
  BY <1>1 DEF Safety, HandlesDistinct, ArtifactFirst, ResultFirst, Stored, Handle, Working
<1>4. ObjectsNamed' /\ AckedHasResult' /\ ResultFindsArtifact'
  BY <1>1, <1>2 DEF Safety, ObjectsNamed, AckedHasResult, ResultFindsArtifact, Stored
<1> QED BY <1>3, <1>4 DEF Safety
(* Steps that leave the stored objects and the acknowledgements alone: the *)
(* worker takes a message, executes it, or drops what it holds.            *)
LEMMA SafetyLocal ==
  ASSUME TypeInv, Safety, NEW w \in Worker,
         \/ \E m \in Msg : Receive(w, m)
         \/ \E out \in BOOLEAN : ExecuteRecord(w, out)
         \/ Restart(w) \/ ReceiveNone(w) \/ ReceiveFails(w) \/ ExecuteRetry(w) \/ Crash(w)
  PROVE  Safety'
<1> USE MessagesAssumption DEF TypeInv, TypeOK, Safety, Msg
<1>1. UNCHANGED storage
  BY DEF Receive, ExecuteRecord, Restart, ReceiveNone, ReceiveFails, ExecuteRetry, Crash
<1>2. \A t \in Task : msg'[t].st = "acked" => msg[t].st = "acked"
  BY DEF Receive, ExecuteRecord, Restart, ReceiveNone, ReceiveFails, ExecuteRetry, Crash,
         Deliver
<1>3. AckedHasResult' /\ ResultFindsArtifact' /\ ObjectsNamed'
  BY <1>1, <1>2 DEF AckedHasResult, ResultFindsArtifact, ObjectsNamed, Stored, storage
<1>4. \A v \in Worker \ {w} : wpc'[v] = wpc[v] /\ held'[v] = held[v]
  BY DEF Receive, ExecuteRecord, Restart, ReceiveNone, ReceiveFails, ExecuteRetry, Crash,
         Goto, NextMessage, Terminate
<1>5. /\ wpc'[w] # "delete"
      /\ wpc'[w] = "result" => ~held'[w].out
      /\ wpc'[w] \in Working =>
           \/ wpc[w] \in Working /\ Handle(held'[w]) = Handle(held[w])
           \/ \E m \in Msg : held'[w].m = m /\ held'[w].n = msg[m].n + 1
  <2>1. ASSUME NEW m \in Msg, Receive(w, m) PROVE <1>5
    BY <2>1 DEF Receive, Goto
  <2>2. ASSUME NEW out \in BOOLEAN, ExecuteRecord(w, out) PROVE <1>5
    BY <2>2 DEF ExecuteRecord, Goto, Handle, Working
  <2>3. ASSUME wpc'[w] \in {"poll", "off"} PROVE <1>5
    BY <2>3 DEF Working
  <2> QED
    BY <2>1, <2>2, <2>3 DEF Restart, ReceiveNone, ReceiveFails, ExecuteRetry, Crash,
       Goto, NextMessage, Terminate
<1>6. ArtifactFirst' /\ ResultFirst'
  BY <1>1, <1>4, <1>5 DEF ArtifactFirst, ResultFirst, Stored, storage
<1>7. HandlesDistinct'
  <2> SUFFICES ASSUME NEW v \in Worker, v # w, wpc'[v] \in Working, wpc'[w] \in Working
               PROVE  Handle(held'[v]) # Handle(held'[w])
    BY <1>4 DEF HandlesDistinct
  <2>1. CASE wpc[w] \in Working /\ Handle(held'[w]) = Handle(held[w])
    BY <2>1, <1>4 DEF HandlesDistinct
  <2>2. ASSUME NEW m \in Msg, held'[w].m = m, held'[w].n = msg[m].n + 1
        PROVE  Handle(held'[v]) # Handle(held'[w])
    <3>1. held'[v].m = m => held'[v].n <= msg[m].n
      BY <1>4 DEF HoldsDelivered
    <3>2. held'[v].m = m => held'[v].n # msg[m].n + 1
      BY <3>1, <1>4 DEF Delivery
    <3> QED BY <2>2, <3>2 DEF Handle
  <2> QED BY <2>1, <2>2, <1>5
<1> QED BY <1>3, <1>6, <1>7
(* An upload, acknowledged or not, adds or replaces one object and moves   *)
(* the worker on.                                                          *)
LEMMA SafetyUpload ==
  ASSUME TypeInv, Safety, NEW w \in Worker,
         UploadArtifact(w) \/ UploadResult(w) \/ UploadFails(w)
  PROVE  Safety'
<1> USE DEF TypeInv, TypeOK, Safety
<1> DEFINE d == held[w]
<1>1. /\ wpc[w] \in {"artifact", "result"}
      /\ UNCHANGED msg
      /\ \A v \in Worker \ {w} : wpc'[v] = wpc[v] /\ held'[v] = held[v]
      /\ wpc'[w] \in Working => held'[w] = held[w]
  BY DEF UploadArtifact, UploadResult, UploadFails, Goto, NextMessage, Working
<1>2. /\ artifacts' = artifacts \/ artifacts' = Put(artifacts, ArtifactOf(d))
      /\ results' = results \/ (wpc[w] = "result" /\ results' = Put(results, ResultOf(d)))
      /\ wpc'[w] = "result" => artifacts' = Put(artifacts, ArtifactOf(d))
      /\ wpc'[w] = "delete" => results' = Put(results, ResultOf(d))
  BY DEF UploadArtifact, UploadResult, UploadFails, Goto, NextMessage, storage
<1>3. /\ \A a \in artifacts : \E b \in artifacts' : b.name = a.name /\ b.ts = a.ts
      /\ \A r \in results : \E q \in results' : q.name = r.name /\ q.ts = r.ts
      /\ \A a \in artifacts' : a = ArtifactOf(d) \/ a \in artifacts
      /\ \A r \in results' : (wpc[w] = "result" /\ r = ResultOf(d)) \/ r \in results
  BY <1>2, PutStores
<1>4. ArtifactFirst'
  <2>1. ASSUME NEW v \in Worker \ {w}, wpc'[v] = "result", held'[v].out
        PROVE  \E a \in artifacts' : a.name = NameOf[held'[v].m] /\ a.ts = held'[v].ts
    BY <2>1, <1>1, <1>3 DEF ArtifactFirst
  <2>2. ASSUME wpc'[w] = "result"
        PROVE  \E a \in artifacts' : a.name = NameOf[held'[w].m] /\ a.ts = held'[w].ts
    <3>1. ArtifactOf(d) \in artifacts' /\ held'[w] = d
      BY <2>2, <1>1, <1>2, PutStores DEF Working
    <3> QED BY <3>1 DEF ArtifactOf
  <2> QED BY <2>1, <2>2 DEF ArtifactFirst
<1>5. ResultFirst'
  <2>1. ASSUME NEW v \in Worker \ {w}, wpc'[v] = "delete"
        PROVE  \E r \in results' : r.name = NameOf[held'[v].m]
    BY <2>1, <1>1, <1>3 DEF ResultFirst, Stored
  <2>2. ASSUME wpc'[w] = "delete" PROVE \E r \in results' : r.name = NameOf[held'[w].m]
    <3>1. ResultOf(d) \in results' /\ held'[w] = d
      BY <2>2, <1>1, <1>2, PutStores DEF Working
    <3> QED BY <3>1 DEF ResultOf, Stored
  <2> QED BY <2>1, <2>2 DEF ResultFirst, Stored
<1>6. ObjectsNamed'
  BY <1>3 DEF ObjectsNamed, ArtifactOf, ResultOf
<1>7. AckedHasResult'
  BY <1>1, <1>3 DEF AckedHasResult, Stored
<1>8. ResultFindsArtifact'
  <2> SUFFICES ASSUME NEW r \in results', r.art
               PROVE  \E a \in artifacts' : a.name = r.name /\ a.ts = r.ts
    BY DEF ResultFindsArtifact
  <2>1. CASE r \in results
    BY <2>1, <1>3 DEF ResultFindsArtifact
  <2>2. CASE wpc[w] = "result" /\ r = ResultOf(d)
    BY <2>2, <1>3 DEF ResultOf, ArtifactFirst
  <2> QED BY <2>1, <2>2, <1>3
<1>9. HandlesDistinct'
  BY <1>1 DEF HandlesDistinct, Working
<1> QED BY <1>4, <1>5, <1>6, <1>7, <1>8, <1>9

(* Queue.Delete: the one step that acknowledges. *)
LEMMA SafetyDelete ==
  ASSUME TypeInv, Safety, NEW w \in Worker, Delete(w)
  PROVE  Safety'
<1> USE DEF TypeInv, TypeOK, Safety
<1>1. /\ UNCHANGED storage
      /\ wpc'[w] = "poll"
      /\ \A v \in Worker \ {w} : wpc'[v] = wpc[v] /\ held'[v] = held[v]
  BY DEF Delete, NextMessage, Goto
<1>2. ASSUME NEW t \in Task, msg'[t].st = "acked"
      PROVE  msg[t].st = "acked" \/ (wpc[w] = "delete" /\ t = held[w].m)
  BY <1>2, MessagesAssumption DEF Delete, Acked, HoldsDelivered, Working, Msg
<1>3. AckedHasResult'
  BY <1>1, <1>2 DEF AckedHasResult, ResultFirst, Stored, storage
<1> QED
  BY <1>1, <1>3 DEF HandlesDistinct, ArtifactFirst, ResultFirst, ObjectsNamed,
     ResultFindsArtifact, Stored, Working, storage
(* PipelineInv is inductive, and holds of every behaviour.                 *)
LEMMA Inductive == Spec => [](TypeInv /\ Safety)
<1>1. Init => TypeInv /\ Safety
  BY TypeInit, SafetyInit
<1>2. TypeInv /\ Safety /\ [Next]_vars => (TypeInv /\ Safety)'
  BY NextCases, TypeOther, TypeWorker, SafetyOther, SafetyLocal, SafetyUpload, SafetyDelete
<1> QED BY <1>1, <1>2, PTL DEF Spec

THEOREM PipelineInvariant == Spec => []PipelineInv
<1>1. TypeInv /\ Safety => PipelineInv
  BY DEF TypeInv, Safety, PipelineInv
<1> QED BY <1>1, Inductive, PTL

(* "Delete message only after successful upload": an acknowledged task has *)
(* a result under its name, whatever crashed, expired or was redelivered.  *)
THEOREM AcknowledgedOnlyWithResult == Spec => []AckedHasResult
<1>1. Safety => AckedHasResult
  BY DEF Safety
<1> QED BY <1>1, Inductive, PTL

(* An artifact named by a stored result exists. *)
THEOREM ResultsFindArtifacts == Spec => []ResultFindsArtifact
<1>1. Safety => ResultFindsArtifact
  BY DEF Safety
<1> QED BY <1>1, Inductive, PTL

(* Live workers hold different receipt handles. *)
THEOREM HandlesAreDistinct == Spec => []HandlesDistinct
<1>1. Safety => HandlesDistinct
  BY DEF Safety
<1> QED BY <1>1, Inductive, PTL
-----------------------------------------------------------------------------
(* ResultsStay and the refinement of TaskLedger. *)

(* The stored keys only grow, and only by the key of a published task that *)
(* a worker holds.                                                         *)
LEMMA StorageStep ==
  ASSUME TypeInv, [Next]_vars
  PROVE  \/ results' = results
         \/ \E w \in Worker :
              /\ wpc[w] = "result"
              /\ results' = Put(results, ResultOf(held[w]))
              /\ msg' = msg
              /\ wpc'[w] \in {"delete", "poll"}
<1> USE DEF storage, TypeInv, TypeOK, Goto, NextMessage
<1>1. CASE UNCHANGED vars
  BY <1>1 DEF vars
<1> QED
  BY <1>1, NextCases
  DEF Publish, EnqueueDone, ScanFails, LaunchWorkers, PollComplete, Tick, AckWaitExpires,
      Receive, ExecuteRecord, Restart, ReceiveNone, ReceiveFails, ExecuteRetry,
      UploadArtifact, UploadResult, UploadFails, Delete, Crash

(* A result key once listed stays listed. *)
THEOREM ResultsAreKept == Spec => ResultsStay
<1>1. TypeInv /\ [Next]_vars =>
        [\A r \in results : \E q \in results' : q.name = r.name /\ q.ts = r.ts]_vars
  BY StorageStep, PutStores
<1>2. TypeInv /\ Safety => TypeInv
  OBVIOUS
<1> QED BY <1>1, <1>2, Inductive, PTL DEF Spec, ResultsStay

(* How far the queue got with a message, in the ledger's terms. *)
Owed(f) == [t \in Task |->
    CASE f[t].st = "unsent" -> "unsent"
      [] f[t].st = "acked" -> "settled"
      [] f[t].st = "exhausted" -> "abandoned"
      [] OTHER -> "owed"]

LEMMA LedgerInitial == Init => Ledger!LedgerInit
  BY MessagesAssumption DEF Init, Ledger!LedgerInit, Msg

(* A step of the queue: one task's status moves as the ledger allows.      *)
StatusStep(t) ==
  /\ results' = results
  /\ \/ Owed(msg)[t] = "unsent" /\ Owed(msg') = [Owed(msg) EXCEPT ![t] = "owed"]
     \/ Owed(msg)[t] = "owed" /\ Stored(t) /\ Owed(msg') = [Owed(msg) EXCEPT ![t] = "settled"]
     \/ Owed(msg)[t] = "owed" /\ Owed(msg') = [Owed(msg) EXCEPT ![t] = "abandoned"]

LEMMA QueueStep ==
  ASSUME TypeInv, Safety, [Next]_vars
  PROVE  Owed(msg') = Owed(msg) \/ \E t \in Task : StatusStep(t)
<1> USE MessagesAssumption DEF TypeInv, TypeOK, Msg, Owed, storage
<1> DEFINE Goal == Owed(msg') = Owed(msg) \/ \E t \in Task : StatusStep(t)
<1>1. ASSUME NEW t \in Task, Publish(t) PROVE Goal
  <2>1. StatusStep(t)
    BY <1>1 DEF Publish, StatusStep
  <2> QED BY <2>1
<1>2. ASSUME NEW m \in Msg, AckWaitExpires(m) PROVE Goal
  <2>1. CASE m \in Task /\ msg[m].n >= MaxDeliver
    <3>0. ~(msg[m].n < MaxDeliver)
      BY <2>1, BoundsAssumption
    <3>1. msg' = [msg EXCEPT ![m].st = "exhausted"] /\ results' = results
      BY <1>2, <3>0, Zenon DEF AckWaitExpires
    <3>2. Owed(msg)[m] = "owed"
      BY <1>2, <2>1 DEF AckWaitExpires
    <3>3. Owed(msg') = [Owed(msg) EXCEPT ![m] = "abandoned"]
      BY <2>1, <3>1
    <3>4. StatusStep(m)
      BY <3>1, <3>2, <3>3 DEF StatusStep
    <3> QED BY <2>1, <3>4
  <2>2. CASE ~(m \in Task /\ msg[m].n >= MaxDeliver)
    BY <1>2, <2>2, BoundsAssumption DEF AckWaitExpires
  <2> QED BY <2>1, <2>2
<1>3. ASSUME NEW m \in Msg, msg[m].st = "available", Deliver(m) PROVE Goal
  BY <1>3 DEF Deliver
<1>4. ASSUME NEW w \in Worker, Delete(w) PROVE Goal
  <2> DEFINE m == held[w].m
  <2>1. CASE msg' = msg
    BY <2>1
  <2>2. CASE m \in Task /\ msg[m].st \in {"inflight", "available"} /\ msg' = Acked(m)
    <3>1. Stored(m) /\ results' = results
      BY <1>4, <2>2 DEF Delete, Safety, ResultFirst, HoldsDelivered, Working
    <3>2. msg' = [msg EXCEPT ![m].st = "acked"] /\ Owed(msg)[m] = "owed"
      BY <2>2 DEF Acked
    <3>3. Owed(msg') = [Owed(msg) EXCEPT ![m] = "settled"]
      BY <2>2, <3>2
    <3>4. StatusStep(m)
      BY <3>1, <3>2, <3>3 DEF StatusStep
    <3> QED BY <2>2, <3>4
  <2>3. CASE m \in Malformed /\ msg' = Acked(m)
    BY <2>3 DEF Acked
  <2>4. m \in Msg
    BY <1>4 DEF Delete, HoldsDelivered, Working
  <2> QED BY <1>4, <2>1, <2>2, <2>3, <2>4 DEF Delete, Acked
<1>5. CASE UNCHANGED msg
  BY <1>5
<1> QED
  BY <1>1, <1>2, <1>3, <1>4, <1>5, NextCases
  DEF EnqueueDone, ScanFails, LaunchWorkers, PollComplete, Tick, Receive, ExecuteRecord,
      Restart, ReceiveNone, ReceiveFails, ExecuteRetry, UploadArtifact, UploadResult,
      UploadFails, Crash, vars

LEMMA LedgerStep ==
  ASSUME TypeInv, Safety, [Next]_vars
  PROVE  [Ledger!LedgerNext]_<<Owed(msg), {r.name : r \in results}>>
<1> USE DEF Ledger!LedgerNext, Ledger!Send, Ledger!Record, Ledger!Settle, Ledger!Abandon
<1> DEFINE recorded == {r.name : r \in results}
<1>1. CASE \E t \in Task : StatusStep(t)
  <2>1. PICK t \in Task : StatusStep(t)
    BY <1>1
  <2>2. recorded' = recorded
    BY <2>1 DEF StatusStep
  <2>3. Stored(t) => NameOf[t] \in recorded
    BY DEF Stored
  <2>4. CASE Owed(msg)[t] = "unsent" /\ Owed(msg') = [Owed(msg) EXCEPT ![t] = "owed"]
    <3>1. Ledger!Send(t)
      BY <2>2, <2>4 DEF Owed
    <3> QED BY <3>1
  <2>5. CASE /\ Owed(msg)[t] = "owed" /\ Stored(t)
             /\ Owed(msg') = [Owed(msg) EXCEPT ![t] = "settled"]
    <3>1. Ledger!Settle(t)
      BY <2>2, <2>3, <2>5 DEF Owed
    <3> QED BY <3>1
  <2>6. CASE Owed(msg)[t] = "owed" /\ Owed(msg') = [Owed(msg) EXCEPT ![t] = "abandoned"]
    <3>1. Ledger!Abandon(t)
      BY <2>2, <2>6 DEF Owed
    <3> QED BY <3>1
  <2> QED BY <2>1, <2>4, <2>5, <2>6 DEF StatusStep
<1>2. CASE Owed(msg') = Owed(msg) /\ results' = results
  BY <1>2
<1>3. ASSUME NEW w \in Worker, wpc[w] = "result",
             results' = Put(results, ResultOf(held[w])), msg' = msg
      PROVE  \E t \in Task : Ledger!Record(t)
  <2> DEFINE t == held[w].m
  <2>1. t \in Task /\ msg[t].st # "unsent"
    BY <1>3 DEF TypeInv, HoldsDelivered, Working
  <2>2. recorded' = recorded \union {NameOf[t]}
    <3>1. /\ ResultOf(held[w]) \in results'
          /\ ResultOf(held[w]).name = NameOf[t]
          /\ \A r \in results : \E q \in results' : q.name = r.name
          /\ \A q \in results' : q = ResultOf(held[w]) \/ q \in results
      BY <1>3, PutStores DEF ResultOf
    <3> QED BY <3>1
  <2>3. Owed(msg)[t] # "unsent"
    BY <2>1, MessagesAssumption DEF Owed, TypeInv, TypeOK, Msg
  <2> QED BY <1>3, <2>1, <2>2, <2>3 DEF Owed
<1> QED BY <1>1, <1>2, <1>3, QueueStep, StorageStep DEF StatusStep

(* The pipeline implements the ledger: a task is sent once, owed until it  *)
(* is acknowledged after a result was stored or its deliveries are spent,  *)
(* and neither is ever undone.                                             *)
THEOREM PipelineImplementsLedger == Spec => ImplementsLedger
<1>1. TypeInv /\ Safety /\ [Next]_vars => [Ledger!LedgerNext]_Ledger!ledgerVars
  BY LedgerStep DEF Ledger!ledgerVars, Owed
<1> QED BY <1>1, LedgerInitial, Inductive, PTL DEF Spec, ImplementsLedger, Ledger!LedgerSpec
-----------------------------------------------------------------------------
(* "Scan complete" when nothing was delivered twice.                       *)

(* A task delivered at most once has at most one result object, and none   *)
(* while the worker it was delivered to has still to store one: counting   *)
(* objects then counts tasks.                                              *)
HasResult(t) == \E r \in results : r.task = t
OneResultEach ==
  \A t \in Task : msg[t].n <= 1 =>
    /\ \A r1, r2 \in results : r1.task = t /\ r2.task = t => r1 = r2
    /\ msg[t].n = 0 => ~HasResult(t)
    /\ \A w \in Worker :
         wpc[w] \in {"execute", "artifact", "result"} /\ held[w].m = t => ~HasResult(t)

CountInv == OneResultEach /\ CompleteUnlessRedelivered

LEMMA CountInit == Init => CountInv
  BY DEF Init, CountInv, OneResultEach, HasResult, CompleteUnlessRedelivered

(* A step delivers a message at most once more, and to one worker. *)
LEMMA DeliveryStep ==
  ASSUME TypeInv, [Next]_vars, NEW t \in Msg
  PROVE  /\ msg[t].n \in Nat
         /\ msg'[t].n = msg[t].n \/ msg'[t].n = msg[t].n + 1
         /\ \A w \in Worker :
              wpc'[w] \in {"execute", "artifact", "result"} /\ held'[w].m = t =>
                \/ wpc[w] \in {"execute", "artifact", "result"} /\ held[w].m = t
                \/ msg'[t].n = msg[t].n + 1
<1> USE MessagesAssumption DEF TypeInv, TypeOK, Msg
<1> DEFINE Moves == {"execute", "artifact", "result"}
           Counted == msg'[t].n = msg[t].n \/ msg'[t].n = msg[t].n + 1
           Kept(w) == wpc'[w] \in Moves /\ held'[w].m = t =>
                        \/ wpc[w] \in Moves /\ held[w].m = t
                        \/ msg'[t].n = msg[t].n + 1
<1> SUFFICES msg[t].n \in Nat /\ Counted /\ \A w \in Worker : Kept(w)
  OBVIOUS
<1>0. msg[t].n \in Nat
  BY BoundsAssumption
<1>1. ASSUME NEW m \in Task, Publish(m) PROVE Counted /\ \A w \in Worker : Kept(w)
  BY <1>1 DEF Publish
<1>2. CASE EnqueueDone \/ ScanFails \/ LaunchWorkers \/ PollComplete \/ Tick
  BY <1>2 DEF EnqueueDone, ScanFails, LaunchWorkers, PollComplete, Tick
<1>3. ASSUME NEW m \in Msg, AckWaitExpires(m) PROVE Counted /\ \A w \in Worker : Kept(w)
  BY <1>3 DEF AckWaitExpires
<1>4. ASSUME NEW w \in Worker, NEW m \in Msg, Receive(w, m)
      PROVE  Counted /\ \A v \in Worker : Kept(v)
  BY <1>4 DEF Receive, Deliver, Goto
<1>5. ASSUME NEW w \in Worker, NEW out \in BOOLEAN, ExecuteRecord(w, out)
      PROVE  Counted /\ \A v \in Worker : Kept(v)
  BY <1>5 DEF ExecuteRecord, Goto
<1>6. ASSUME NEW w \in Worker, UploadArtifact(w) \/ UploadResult(w)
      PROVE  Counted /\ \A v \in Worker : Kept(v)
  BY <1>6 DEF UploadArtifact, UploadResult, Goto
<1>7. ASSUME NEW w \in Worker,
             \/ Restart(w) \/ ReceiveNone(w) \/ ReceiveFails(w) \/ ExecuteRetry(w)
             \/ UploadFails(w) \/ Delete(w) \/ Crash(w)
      PROVE  Counted /\ \A v \in Worker : Kept(v)
  <2>1. /\ wpc'[w] \in {"poll", "off"}
        /\ \A v \in Worker \ {w} : wpc'[v] = wpc[v] /\ held'[v] = held[v]
    BY <1>7 DEF Restart, ReceiveNone, ReceiveFails, ExecuteRetry, UploadFails, Delete,
       Crash, Goto, NextMessage, Terminate
  <2>2. Counted
    BY <1>7 DEF Restart, ReceiveNone, ReceiveFails, ExecuteRetry, UploadFails, Delete,
       Crash, Deliver, Acked
  <2> QED BY <2>1, <2>2
<1>8. CASE UNCHANGED vars
  BY <1>8 DEF vars
<1> QED BY <1>0, <1>1, <1>2, <1>3, <1>4, <1>5, <1>6, <1>7, <1>8, NextCases

LEMMA OneResultStep ==
  ASSUME TypeInv, HandlesDistinct, OneResultEach, [Next]_vars
  PROVE  OneResultEach'
<1> SUFFICES ASSUME NEW t \in Task, msg'[t].n <= 1
             PROVE  /\ \A r1, r2 \in results' : r1.task = t /\ r2.task = t => r1 = r2
                    /\ msg'[t].n = 0 => ~HasResult(t)'
                    /\ \A w \in Worker :
                         wpc'[w] \in {"execute", "artifact", "result"} /\ held'[w].m = t =>
                           ~HasResult(t)'
  BY DEF OneResultEach, HasResult
<1>1. /\ msg[t].n \in Nat /\ msg[t].n <= 1
      /\ msg'[t].n = 0 => msg[t].n = 0
      /\ msg'[t].n = msg[t].n + 1 => msg[t].n = 0
  BY DeliveryStep DEF Msg
<1>2. /\ \A r1, r2 \in results : r1.task = t /\ r2.task = t => r1 = r2
      /\ msg[t].n = 0 => ~HasResult(t)
      /\ \A w \in Worker :
           wpc[w] \in {"execute", "artifact", "result"} /\ held[w].m = t => ~HasResult(t)
  BY <1>1 DEF OneResultEach
<1>3. ASSUME \A r \in results' : r.task = t => r \in results
      PROVE  /\ \A r1, r2 \in results' : r1.task = t /\ r2.task = t => r1 = r2
             /\ msg'[t].n = 0 => ~HasResult(t)'
             /\ \A w \in Worker :
                  wpc'[w] \in {"execute", "artifact", "result"} /\ held'[w].m = t =>
                    ~HasResult(t)'
  <2>1. HasResult(t)' => HasResult(t)
    BY <1>3 DEF HasResult
  <2>2. \A w \in Worker :
          wpc'[w] \in {"execute", "artifact", "result"} /\ held'[w].m = t => ~HasResult(t)
    BY <1>1, <1>2, DeliveryStep DEF Msg
  <2> QED BY <1>1, <1>2, <1>3, <2>1, <2>2
<1>4. ASSUME NEW w \in Worker, wpc[w] = "result",
             results' = Put(results, ResultOf(held[w])), msg' = msg,
             wpc'[w] \in {"delete", "poll"}, held[w].m = t
      PROVE  /\ \A r1, r2 \in results' : r1.task = t /\ r2.task = t => r1 = r2
             /\ msg'[t].n # 0
             /\ \A v \in Worker :
                  ~(wpc'[v] \in {"execute", "artifact", "result"} /\ held'[v].m = t)
  <2>1. held[w].n \in 1..msg[t].n
    BY <1>4 DEF TypeInv, HoldsDelivered, Working
  <2>2. msg[t].n = 1 /\ held[w].n = 1
    BY <1>1, <2>1
  <2>3. \A r \in results' : r.task = t => r = ResultOf(held[w])
    BY <1>2, <1>4, PutStores DEF HasResult
  <2>4. ASSUME NEW v \in Worker,
               wpc'[v] \in {"execute", "artifact", "result"}, held'[v].m = t
        PROVE  FALSE
    <3>1. wpc[v] \in {"execute", "artifact", "result"} /\ held[v].m = t
      BY <1>4, <2>2, <2>4, DeliveryStep DEF Msg
    <3>2. v # w
      BY <1>4, <2>4
    <3>3. held[v].n \in 1..msg[t].n
      BY <3>1 DEF TypeInv, HoldsDelivered, Working
    <3>4. Handle(held[v]) = Handle(held[w])
      BY <1>4, <2>2, <3>1, <3>3 DEF Handle
    <3> QED BY <1>4, <3>1, <3>2, <3>4 DEF HandlesDistinct, Working
  <2> QED BY <1>4, <2>2, <2>3, <2>4
<1>5. ASSUME NEW w \in Worker, results' = Put(results, ResultOf(held[w])), held[w].m # t
      PROVE  \A r \in results' : r.task = t => r \in results
  BY <1>5, PutStores DEF ResultOf
<1> QED BY <1>3, <1>4, <1>5, StorageStep

(* When no task has more than one result object, as many objects as tasks  *)
(* means an object of every task.                                          *)
LEMMA CountingTasks ==
  ASSUME TypeInv, ObjectsNamed, ResultCount >= Cardinality(Task),
         \A r1, r2 \in results : r1.task = r2.task => r1 = r2
  PROVE  \A t \in Task : Stored(t)
<1> DEFINE Keys == {<<r.name, r.ts>> : r \in results}
           Served == {r.task : r \in results}
           Of(t) == CHOOSE r \in results : r.task = t
           f == [t \in Served |-> <<Of(t).name, Of(t).ts>>]
<1>1. Served \in SUBSET Task
  BY DEF TypeInv, TypeOK, ResultObject
<1>2. IsFiniteSet(Served) /\ Cardinality(Served) <= Cardinality(Task)
  BY <1>1, FS_Subset, MessagesAssumption
<1>3. \A r \in results : Of(r.task) = r
  OBVIOUS
<1>4. f \in Surjection(Served, Keys)
  <2>1. \A t \in Served : f[t] \in Keys
    BY <1>3
  <2>2. ASSUME NEW k \in Keys PROVE \E t \in Served : f[t] = k
    <3>1. PICK r \in results : k = <<r.name, r.ts>>
      OBVIOUS
    <3>2. r.task \in Served /\ f[r.task] = k
      BY <1>3, <3>1
    <3> QED BY <3>2
  <2> QED BY <2>1, <2>2 DEF Surjection
<1>5. Cardinality(Keys) <= Cardinality(Served)
  BY <1>2, <1>4, FS_Surjection
<1>6. /\ Cardinality(Task) \in Nat /\ Cardinality(Served) \in Nat
      /\ Cardinality(Keys) \in Nat
  BY <1>2, <1>4, FS_CardinalityType, FS_Surjection, MessagesAssumption
<1>7. Cardinality(Served) = Cardinality(Task)
  BY <1>2, <1>5, <1>6 DEF ResultCount
<1>8. Served = Task
  BY <1>1, <1>7, FS_Subset, MessagesAssumption
<1> QED BY <1>8 DEF ObjectsNamed, Stored

LEMMA CompleteStep ==
  ASSUME TypeInv, Safety, CountInv, [Next]_vars
  PROVE  CompleteUnlessRedelivered'
<1> SUFFICES ASSUME op' = "done", \A m \in Msg : msg'[m].n <= 1
             PROVE  \A t \in Task : Stored(t)'
  BY DEF CompleteUnlessRedelivered
<1>1. CASE op = "done"
  <2>1. \A m \in Msg : msg[m].n <= 1
    BY DeliveryStep
  <2>2. \A t \in Task : Stored(t)
    BY <1>1, <2>1 DEF CountInv, CompleteUnlessRedelivered
  <2> QED BY <2>2, StorageStep, PutStores DEF Stored
<1>2. CASE op # "done"
  <2>1. PollComplete
    BY <1>2, NextCases
    DEF Publish, EnqueueDone, ScanFails, LaunchWorkers, Tick, AckWaitExpires, Receive,
        ExecuteRecord, Restart, ReceiveNone, ReceiveFails, ExecuteRetry, UploadArtifact,
        UploadResult, UploadFails, Delete, Crash, vars
  <2>2. results' = results /\ msg' = msg /\ ResultCount >= Cardinality(Task)
    BY <2>1 DEF PollComplete, storage
  <2>3. \A r1, r2 \in results : r1.task = r2.task => r1 = r2
    BY <2>2 DEF CountInv, OneResultEach, TypeInv, TypeOK, ResultObject, Msg
  <2>4. \A t \in Task : Stored(t)
    BY <2>2, <2>3, CountingTasks DEF Safety
  <2> QED BY <2>2, <2>4 DEF Stored
<1> QED BY <1>1, <1>2

(* "Scan complete" is true of a scan in which no message was delivered     *)
(* twice, whatever crashed or failed: the loop of PollAndRender, which     *)
(* counts objects, then has counted one object of every task.              *)
THEOREM CompleteWithoutRedelivery == Spec => []CompleteUnlessRedelivered
<1>1. TypeInv /\ Safety /\ CountInv /\ [Next]_vars => CountInv'
  BY OneResultStep, CompleteStep DEF CountInv, Safety
<1>2. CountInv => CompleteUnlessRedelivered
  BY DEF CountInv
<1> QED BY <1>1, <1>2, CountInit, Inductive, PTL DEF Spec

=============================================================================

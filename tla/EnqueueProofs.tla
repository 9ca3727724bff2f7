---------------------------- MODULE EnqueueProofs ----------------------------
(***************************************************************************)
(* Theorems about Enqueue, for every number of tasks, batch size and       *)
(* number of senders: PoolInv is inductive, so a call that returns no      *)
(* error has counted every batch; without DropsEntries a counted batch is  *)
(* in the queue; and few of those in the queue are not counted.            *)
(***************************************************************************)
EXTENDS Enqueue, FiniteSetTheorems, TLAPS

LEMMA BatchCountNat == BatchCount \in Nat
<1>1. N + BatchSize - 1 \in Nat /\ BatchSize \in Nat \ {0}
  BY SizesAssumption
<1> QED BY <1>1 DEF BatchCount

LEMMA InitInv == Init => PoolInv
<1>1. Sender # {} /\ Cardinality({}) = 0
  BY SendersAssumption, FS_EmptySet
<1> SUFFICES ASSUME Init PROVE PoolInv
  OBVIOUS
<1>2. TypeOK
  <2>1. next \in 0..BatchCount /\ count \in Nat
    BY BatchCountNat DEF Init
  <2>2. firstErr \in BOOLEAN /\ cancelled \in BOOLEAN /\ expired \in BOOLEAN
    BY Zenon DEF Init
  <2>3. /\ sender \in [Sender -> {"range", "check", "send", "record", "report", "exit"}]
        /\ job \in [Sender -> Batch \union {NoBatch}]
    BY DEF Init
  <2>4. failed \in [Sender -> BOOLEAN]
    BY Zenon DEF Init
  <2>5. published \subseteq TaskIdx /\ accepted \subseteq Batch
    BY DEF Init
  <2> QED BY <2>1, <2>2, <2>3, <2>4, <2>5 DEF Init, TypeOK
<1>3. HandsFull /\ BatchesExclusive /\ ErrorsKnown /\ ProducerDone /\ OkMeansAll
  BY DEF Init, HandsFull, BatchesExclusive, ErrorsKnown, ProducerDone, OkMeansAll, NoBatch, Done
<1>4. BatchesAccounted /\ CountsOnce /\ accepted \subseteq 0..(next - 1)
  BY <1>1 DEF Init, BatchesAccounted, CountsOnce
<1> QED BY <1>2, <1>3, <1>4 DEF PoolInv

(* The producer and the caller's context. *)
LEMMA ProducerInv ==
  ASSUME PoolInv, Expire \/ CloseJobs \/ Return \/ UNCHANGED vars
  PROVE  PoolInv'
<1> USE BatchCountNat, SendersAssumption
    DEF PoolInv, TypeOK, HandsFull, BatchesExclusive, BatchesAccounted, ErrorsKnown,
        ProducerDone, CountsOnce, OkMeansAll, Batch, NoBatch, Done, pool
<1>1. CASE Expire
  BY <1>1 DEF Expire
<1>2. CASE CloseJobs
  BY <1>2 DEF CloseJobs
<1>3. CASE Return
  <2>1. ASSUME ret' = "ok" PROVE accepted = Batch
    <3>1. ~firstErr /\ ~expired
      BY <1>3, <2>1 DEF Return
    <3>2. next = BatchCount
      <4>1. producer = "closed"
        BY <1>3 DEF Return
      <4> QED BY <4>1, <3>1
    <3>3. \A b \in Batch : b \in accepted
      <4> TAKE b \in Batch
      <4>1. \A s \in Sender : job[s] # b
        BY <1>3 DEF Return
      <4> QED BY <4>1, <3>1, <3>2
    <3> QED BY <3>3
  <2> QED BY <1>3, <2>1 DEF Return
<1>4. CASE UNCHANGED vars
  BY <1>4 DEF vars
<1> QED BY <1>1, <1>2, <1>3, <1>4

LEMMA OfferInv ==
  ASSUME PoolInv, NEW s \in Sender, Offer(s)
  PROVE  PoolInv'
<1> USE BatchCountNat DEF PoolInv, TypeOK, Offer
<1>1. next \in Batch /\ next' \in 0..BatchCount /\ next # NoBatch
  BY DEF Batch, NoBatch
<1>2. TypeOK'
  BY <1>1
<1>3. HandsFull'
  BY <1>1 DEF HandsFull
<1>4. next \notin accepted /\ \A z \in Sender : job[z] # next
  BY <1>1 DEF BatchesExclusive
<1>5. BatchesExclusive'
  <2> SUFFICES ASSUME NEW z \in Sender, job'[z] # NoBatch
               PROVE  /\ job'[z] < next' /\ job'[z] \notin accepted'
                      /\ \A y \in Sender \ {z} : job'[y] # job'[z]
    BY DEF BatchesExclusive
  <2>1. CASE z = s
    BY <2>1, <1>4
  <2>2. CASE z # s
    <3>1. job[z] < next /\ job[z] \in 0..next
      BY <2>2, <1>1 DEF BatchesExclusive, Batch, NoBatch
    <3> QED BY <2>2, <3>1, <1>4, <1>1 DEF BatchesExclusive
  <2> QED BY <2>1, <2>2
<1>6. BatchesAccounted'
  <2> SUFFICES ASSUME NEW b \in 0..(next' - 1), ~firstErr, b \notin accepted
               PROVE  \E z \in Sender : job'[z] = b
    BY DEF BatchesAccounted
  <2>1. CASE b = next
    BY <2>1
  <2>2. CASE b # next
    <3>1. b \in 0..(next - 1)
      BY <2>2, <1>1
    <3>2. PICK z \in Sender : job[z] = b
      BY <3>1 DEF BatchesAccounted
    <3>3. z # s
      BY <3>1, <3>2 DEF HandsFull, NoBatch
    <3> QED BY <3>2, <3>3
  <2> QED BY <2>1, <2>2
<1>7. ErrorsKnown' /\ ProducerDone' /\ CountsOnce' /\ OkMeansAll'
  BY DEF ErrorsKnown, ProducerDone, CountsOnce, OkMeansAll, Done
<1>8. accepted' \subseteq 0..(next' - 1)
  BY <1>1
<1> QED BY <1>2, <1>3, <1>5, <1>6, <1>7, <1>8

(* A sender working on its batch, or leaving: nobody's batch changes.      *)
LEMMA SenderInv ==
  ASSUME PoolInv, NEW s \in Sender,
         Check(s) \/ SendOk(s) \/ SendFails(s) \/ RecordErr(s) \/ Exit(s)
  PROVE  PoolInv'
<1> USE BatchCountNat DEF PoolInv, TypeOK
<1>1. /\ UNCHANGED <<job, next, producer, accepted, count, ret, expired, tooLarge>>
      /\ sender' \in [Sender -> {"range", "check", "send", "record", "report", "exit"}]
      /\ failed' \in [Sender -> BOOLEAN]
      /\ \A z \in Sender \ {s} : sender'[z] = sender[z] /\ failed'[z] = failed[z]
      /\ sender'[s] \in {"range", "exit"} <=> sender[s] \in {"range", "exit"}
      /\ sender'[s] = "exit" => producer = "closed"
  BY DEF Check, SendOk, SendFails, RecordErr, Exit, Finish
<1>2. /\ firstErr => firstErr'
      /\ firstErr' = firstErr \/ firstErr' = failed[s]
      /\ (cancelled' = firstErr')
      /\ firstErr' \in BOOLEAN /\ cancelled' \in BOOLEAN
      /\ sender'[s] = "report" /\ failed'[s] => firstErr'
  BY Zenon DEF Check, SendOk, SendFails, RecordErr, Exit, Finish, ProducerDone
<1>3. published' \subseteq TaskIdx
  BY DEF Check, SendOk, SendFails, RecordErr, Exit, TasksOf
<1>4. TypeOK'
  BY <1>1, <1>2, <1>3
<1>5. HandsFull' /\ BatchesExclusive' /\ CountsOnce' /\ accepted' \subseteq 0..(next' - 1)
  BY <1>1 DEF HandsFull, BatchesExclusive, CountsOnce
<1>6. BatchesAccounted' /\ ErrorsKnown'
  BY <1>1, <1>2 DEF BatchesAccounted, ErrorsKnown
<1>7. ProducerDone'
  BY <1>1, <1>2 DEF ProducerDone, Done
<1>8. OkMeansAll'
  BY <1>1 DEF OkMeansAll
<1> QED BY <1>4, <1>5, <1>6, <1>7, <1>8

(* The collector counts the batch it was handed, once. *)
LEMMA ReportInv ==
  ASSUME PoolInv, NEW s \in Sender, Report(s)
  PROVE  PoolInv'
<1> USE BatchCountNat DEF PoolInv, TypeOK, Report
<1>1. job[s] \in Batch /\ job[s] # NoBatch /\ job[s] < next /\ job[s] \notin accepted
  BY DEF HandsFull, BatchesExclusive
<1>2. TypeOK'
  <2>1. count' \in Nat /\ accepted' \subseteq Batch
    <3>1. CASE failed[s]
      BY <3>1, Zenon
    <3>2. CASE ~failed[s]
      <4>1. count' = count + 1 /\ accepted' = accepted \union {job[s]}
        BY <3>2, Zenon
      <4>2. count \in Nat /\ accepted \subseteq Batch
        BY Zenon
      <4> HIDE DEF PoolInv, TypeOK, Report
      <4> QED BY <4>1, <4>2, <1>1
    <3> QED BY <3>1, <3>2
  <2>2. failed' \in [Sender -> BOOLEAN]
    BY Zenon
  <2>3. job' \in [Sender -> Batch \union {NoBatch}]
    BY Zenon
  <2>4. sender' \in [Sender -> {"range", "check", "send", "record", "report", "exit"}]
    OBVIOUS
  <2> QED BY <2>1, <2>2, <2>3, <2>4
<1>3. HandsFull'
  BY DEF HandsFull
<1>4. BatchesExclusive'
  BY <1>1 DEF BatchesExclusive
<1>5. BatchesAccounted'
  <2> SUFFICES ASSUME NEW b \in 0..(next - 1), ~firstErr, b \notin accepted'
               PROVE  \E z \in Sender : job'[z] = b
    BY DEF BatchesAccounted
  <2>1. ~failed[s]
    BY DEF ErrorsKnown
  <2>2. PICK z \in Sender : job[z] = b
    BY <2>1 DEF BatchesAccounted
  <2>3. z # s
    BY <2>1, <2>2
  <2> QED BY <2>2, <2>3
<1>6. CountsOnce'
  <2>0. 0 \in Int /\ BatchCount - 1 \in Int
    OBVIOUS
  <2>1. IsFiniteSet(0..(BatchCount - 1))
    BY <2>0, FS_Interval
  <2>2. IsFiniteSet(accepted)
    BY <2>1, FS_Subset DEF Batch
  <2> QED BY <1>1, <2>2, FS_AddElement DEF CountsOnce
<1>7. ErrorsKnown' /\ ProducerDone' /\ OkMeansAll'
  BY DEF ErrorsKnown, ProducerDone, OkMeansAll, Done
<1>8. accepted' \subseteq 0..(next' - 1)
  <2>1. job[s] \in 0..(next - 1)
    BY <1>1 DEF Batch
  <2> QED BY <2>1
<1> QED BY <1>2, <1>3, <1>4, <1>5, <1>6, <1>7, <1>8
LEMMA PoolInductive == Spec => []PoolInv
<1>1. PoolInv /\ [Next]_vars => PoolInv'
  <2> SUFFICES ASSUME PoolInv, [Next]_vars PROVE PoolInv'
    OBVIOUS
  <2>1. \/ Expire \/ CloseJobs \/ Return \/ UNCHANGED vars
        \/ \E s \in Sender : \/ Offer(s) \/ Report(s)
              \/ Check(s) \/ SendOk(s) \/ SendFails(s) \/ RecordErr(s) \/ Exit(s)
    BY DEF Next, SenderStep, Terminated
  <2> QED BY <2>1, ProducerInv, OfferInv, SenderInv, ReportInv
<1> QED BY <1>1, InitInv, PTL DEF Spec

(* No batch is held twice, counted twice or counted while held, and every  *)
(* batch handed out is accounted for.                                      *)
THEOREM PoolInvariant == Spec => []PoolInv
  BY PoolInductive

(* EnqueueTasks returns no error only if every batch was counted: neither  *)
(* an early stop of the producer nor an expired context is lost.           *)
THEOREM OkOnlyIfAllSent == Spec => []OkMeansAll
<1>1. PoolInv => OkMeansAll
  BY DEF PoolInv
<1> QED BY <1>1, PoolInductive, PTL

(* With a queue that reports refused entries, what SentTasks counts is in  *)
(* the queue.                                                              *)
THEOREM CountedWorkIsPublished == ~DropsEntries /\ Spec => []CountedIsPublished
<1> DEFINE Inv == PoolInv /\ SentIsPublished /\ CountedIsPublished
<1>1. Init => SentIsPublished /\ CountedIsPublished
  BY DEF Init, SentIsPublished, CountedIsPublished
<1>2. ~DropsEntries /\ Inv /\ [Next]_vars => (SentIsPublished /\ CountedIsPublished)'
  <2> SUFFICES ASSUME ~DropsEntries, PoolInv, SentIsPublished, CountedIsPublished, [Next]_vars
               PROVE  (SentIsPublished /\ CountedIsPublished)'
    OBVIOUS
  <2> USE DEF PoolInv, TypeOK, HandsFull, SentIsPublished, CountedIsPublished
  <2>1. published \subseteq published'
    BY DEF Next, SenderStep, Terminated, vars, Expire, CloseJobs, Return, Offer, Check, SendOk,
           SendFails, RecordErr, Report, Exit, pool
  <2>2. ASSUME NEW s \in Sender, Report(s) PROVE (SentIsPublished /\ CountedIsPublished)'
    BY <2>2 DEF Report
  <2>3. ASSUME NEW s \in Sender, SendOk(s) PROVE (SentIsPublished /\ CountedIsPublished)'
    BY <2>3, <2>1 DEF SendOk, Finish
  <2>4. ASSUME NEW s \in Sender, SendFails(s) PROVE (SentIsPublished /\ CountedIsPublished)'
    BY <2>4, <2>1 DEF SendFails, Finish
  <2>5. ASSUME NEW s \in Sender, Offer(s) \/ Check(s) \/ RecordErr(s) \/ Exit(s)
        PROVE  (SentIsPublished /\ CountedIsPublished)'
    BY <2>5 DEF Offer, Check, RecordErr, Exit, Finish
  <2>6. CASE Expire \/ CloseJobs \/ Return \/ UNCHANGED vars
    BY <2>6 DEF Expire, CloseJobs, Return, vars, pool
  <2> QED
    BY <2>2, <2>3, <2>4, <2>5, <2>6 DEF Next, SenderStep, Terminated
<1>3. SUFFICES ASSUME ~DropsEntries PROVE Spec => []CountedIsPublished
  OBVIOUS
<1> QED BY <1>1, <1>2, <1>3, PoolInductive, PTL DEF Spec
-----------------------------------------------------------------------------
(* How much a failed call understates: UncountedBounded.                   *)

(* Batches with messages in the queue that the caller was not told of. *)
Touched(b) == TasksOf(b) \intersect published # {}
Uncounted == {b \in Batch \ accepted : Touched(b)}

(* Each such batch can be laid at the door of a sender of its own, the one *)
(* that sent it: that sender is still about to record or report it, or has *)
(* recorded its error, and with the shared context cancelled sends no more.*)
Blame == [Sender -> Batch \union {NoBatch}]
Account(g) ==
  /\ \A b \in Uncounted : \E s \in Sender : g[s] = b
  /\ \A s \in Sender : g[s] \in Batch \ accepted =>
       \/ sender[s] \in {"record", "report"} /\ job[s] = g[s]
       \/ cancelled /\ sender[s] # "send"
Accounted == \E g \in Blame : Account(g)

LEMMA TasksOfOneBatch ==
  ASSUME NEW b \in Batch, NEW c \in Batch, TasksOf(b) \intersect TasksOf(c) # {}
  PROVE  b = c
<1> USE SizesAssumption, BatchCountNat
<1>1. b \in Nat /\ c \in Nat /\ BatchSize \in Nat
  BY DEF Batch
<1>2. ASSUME NEW x \in Nat, NEW y \in Nat, x < y PROVE (x + 1) * BatchSize <= y * BatchSize
  <2>1. PICK d \in Nat : y = x + 1 + d
    <3>1. y - (x + 1) \in Nat /\ y = x + 1 + (y - (x + 1))
      BY <1>2
    <3> QED BY <3>1
  <2>2. d * BatchSize \in Nat
    BY <1>1
  <2>3. y * BatchSize = (x + 1) * BatchSize + d * BatchSize
    BY <1>1, <2>1
  <2>4. (x + 1) * BatchSize \in Nat
    BY <1>1
  <2> QED BY <2>2, <2>3, <2>4
<1>3. PICK i \in TaskIdx : /\ b * BatchSize <= i /\ i < (b + 1) * BatchSize
                           /\ c * BatchSize <= i /\ i < (c + 1) * BatchSize
  BY DEF TasksOf
<1>4. /\ i \in Nat /\ b * BatchSize \in Nat /\ c * BatchSize \in Nat
      /\ (b + 1) * BatchSize \in Nat /\ (c + 1) * BatchSize \in Nat
  BY <1>1 DEF TaskIdx
<1>5. ~(b < c)
  <2> SUFFICES ASSUME b < c PROVE FALSE
    OBVIOUS
  <2>1. (b + 1) * BatchSize <= c * BatchSize
    BY <1>1, <1>2
  <2> QED BY <1>3, <1>4, <2>1
<1>6. ~(c < b)
  <2> SUFFICES ASSUME c < b PROVE FALSE
    OBVIOUS
  <2>1. (c + 1) * BatchSize <= b * BatchSize
    BY <1>1, <1>2
  <2> QED BY <1>3, <1>4, <2>1
<1> QED BY <1>1, <1>5, <1>6

LEMMA AccountedInit == Init => Accounted
<1> SUFFICES ASSUME Init PROVE Accounted
  OBVIOUS
<1> DEFINE g == [s \in Sender |-> NoBatch]
<1>1. g \in Blame
  BY DEF Blame
<1>2. Uncounted = {}
  BY DEF Init, Uncounted, Touched
<1>3. NoBatch \notin Batch
  BY BatchCountNat DEF Batch, NoBatch
<1>4. Account(g)
  BY <1>2, <1>3 DEF Account
<1> QED BY <1>1, <1>4 DEF Accounted

(* A send puts only tasks of the sender's own batch into the queue; the    *)
(* batch it sent before is counted, or it would not be sending.            *)
LEMMA AccountedSend ==
  ASSUME PoolInv, Accounted, NEW s \in Sender, SendOk(s) \/ SendFails(s)
  PROVE  Accounted'
<1> USE DEF PoolInv, TypeOK
<1>0. PICK g \in Blame : Account(g)
  BY DEF Accounted
<1>1. /\ sender[s] = "send" /\ sender'[s] = "record"
      /\ \A z \in Sender \ {s} : sender'[z] = sender[z]
      /\ UNCHANGED <<job, accepted, cancelled>>
      /\ published' \subseteq published \union TasksOf(job[s])
  BY DEF SendOk, SendFails, Finish
<1>2. PICK c \in Batch : c = job[s]
  BY <1>1 DEF HandsFull
<1> DEFINE h == [g EXCEPT ![s] = c]
<1>3. h \in Blame
  BY <1>2 DEF Blame
<1>4. ASSUME NEW b \in Uncounted' PROVE \E z \in Sender : h[z] = b
  <2>1. b \in Batch \ accepted
    BY <1>1, <1>4 DEF Uncounted
  <2>2. CASE b = c
    BY <2>2 DEF Blame
  <2>3. CASE b # c
    <3>1. TasksOf(b) \intersect TasksOf(c) = {}
      BY <1>2, <2>1, <2>3, TasksOfOneBatch
    <3>2. b \in Uncounted
      BY <1>1, <1>2, <1>4, <2>1, <3>1 DEF Uncounted, Touched
    <3>3. PICK z \in Sender : g[z] = b
      BY <1>0, <3>2 DEF Account
    <3>4. z # s
      BY <1>0, <1>1, <2>1, <3>3 DEF Account
    <3> QED BY <3>3, <3>4 DEF Blame
  <2> QED BY <2>2, <2>3
<1>5. ASSUME NEW z \in Sender, h[z] \in Batch \ accepted'
      PROVE  \/ sender'[z] \in {"record", "report"} /\ job'[z] = h[z]
             \/ cancelled' /\ sender'[z] # "send"
  <2>1. CASE z = s
    BY <1>1, <1>2, <2>1 DEF Blame
  <2>2. CASE z # s
    BY <1>0, <1>1, <1>5, <2>2 DEF Account, Blame
  <2> QED BY <2>1, <2>2
<1>6. Account(h)'
  BY <1>4, <1>5 DEF Account
<1> QED BY <1>3, <1>6 DEF Accounted

(* Every other step leaves the queue alone and keeps the same account: a   *)
(* failed batch is reported only once its error has cancelled the context. *)
LEMMA AccountedOther ==
  ASSUME PoolInv, Accounted,
         \/ Expire \/ CloseJobs \/ Return \/ UNCHANGED vars
         \/ \E s \in Sender : Offer(s) \/ Report(s) \/ Check(s) \/ RecordErr(s) \/ Exit(s)
  PROVE  Accounted'
<1> USE DEF PoolInv, TypeOK
<1>0. PICK g \in Blame : Account(g)
  BY DEF Accounted
<1>1. published' = published /\ accepted \subseteq accepted' /\ (cancelled => cancelled')
  BY DEF Expire, CloseJobs, Return, vars, pool, Offer, Report, Check, RecordErr, Exit
<1>2. \A b \in Uncounted' : \E s \in Sender : g[s] = b
  BY <1>0, <1>1 DEF Account, Uncounted, Touched
<1>3. ASSUME NEW z \in Sender, g[z] \in Batch \ accepted'
      PROVE  \/ sender'[z] \in {"record", "report"} /\ job'[z] = g[z]
             \/ cancelled' /\ sender'[z] # "send"
  <2>1. \/ sender[z] \in {"record", "report"} /\ job[z] = g[z]
        \/ cancelled /\ sender[z] # "send"
    BY <1>0, <1>1, <1>3 DEF Account
  <2>2. CASE sender'[z] = sender[z] /\ job'[z] = job[z]
    BY <1>1, <2>1, <2>2
  <2>3. CASE Offer(z)
    BY <2>1, <2>3 DEF Offer
  <2>4. CASE Report(z)
    <3>1. CASE failed[z]
      BY <2>4, <3>1 DEF Report, ErrorsKnown, ProducerDone
    <3>2. CASE ~failed[z]
      BY <1>3, <2>1, <2>4, <3>2 DEF Report
    <3> QED BY <3>1, <3>2
  <2>5. CASE Check(z)
    BY <2>1, <2>5 DEF Check, Finish, Done
  <2>6. CASE RecordErr(z)
    BY <2>1, <2>6 DEF RecordErr
  <2>7. CASE Exit(z)
    BY <2>1, <2>7 DEF Exit
  <2>8. \/ sender'[z] = sender[z] /\ job'[z] = job[z]
        \/ Offer(z) \/ Report(z) \/ Check(z) \/ RecordErr(z) \/ Exit(z)
    BY DEF Expire, CloseJobs, Return, vars, pool, Offer, Report, Check, RecordErr, Exit,
           Finish
  <2> QED BY <2>2, <2>3, <2>4, <2>5, <2>6, <2>7, <2>8
<1>4. Account(g)'
  BY <1>2, <1>3 DEF Account
<1> QED BY <1>4 DEF Accounted

LEMMA AccountBounds == Accounted => UncountedBounded
<1> SUFFICES ASSUME NEW g \in Blame, Account(g) PROVE UncountedBounded
  BY DEF Accounted
<1> DEFINE Blamed == {s \in Sender : g[s] \in Uncounted}
           f == [s \in Blamed |-> g[s]]
<1>1. Blamed \in SUBSET Sender
  OBVIOUS
<1>2. IsFiniteSet(Blamed) /\ Cardinality(Blamed) <= Cardinality(Sender)
  BY <1>1, FS_Subset, SendersAssumption
<1>3. f \in Surjection(Blamed, Uncounted)
  BY DEF Account, Surjection
<1>4. Cardinality(Uncounted) <= Cardinality(Blamed) /\ IsFiniteSet(Uncounted)
  BY <1>2, <1>3, FS_Surjection
<1>5. /\ Cardinality(Uncounted) \in Nat /\ Cardinality(Blamed) \in Nat
      /\ Cardinality(Sender) \in Nat
  BY <1>2, <1>4, FS_CardinalityType, SendersAssumption
<1>6. Cardinality(Uncounted) <= Cardinality(Sender)
  BY <1>2, <1>4, <1>5
<1> QED BY <1>6 DEF UncountedBounded, Uncounted, Touched

(* A call that fails leaves at most one batch per sender in the queue, in  *)
(* whole or in part, that it did not count: the first error stops every    *)
(* sender before its next send, for any number of batches and senders.     *)
THEOREM FewBatchesAreUncounted == Spec => []UncountedBounded
<1>1. PoolInv /\ Accounted /\ [Next]_vars => Accounted'
  BY AccountedSend, AccountedOther DEF Next, SenderStep, Terminated
<1> QED BY <1>1, AccountedInit, AccountBounds, PoolInductive, PTL DEF Spec

-----------------------------------------------------------------------------
(* The pool keeps what EnqueuePromise states. *)

LEMMA BatchesCover == UNION {TasksOf(b) : b \in Batch} = TaskIdx
<1> USE SizesAssumption
<1>1. UNION {TasksOf(b) : b \in Batch} \subseteq TaskIdx
  BY DEF TasksOf
<1>2. ASSUME NEW i \in TaskIdx PROVE \E b \in Batch : i \in TasksOf(b)
  <2> DEFINE b == i \div BatchSize
             c == BatchCount
  <2>1. i \in Nat /\ i < N /\ N \in Nat /\ BatchSize \in Nat /\ BatchSize > 0
    BY DEF TaskIdx
  <2>2. b \in Nat /\ b * BatchSize <= i /\ i < (b + 1) * BatchSize
    BY <2>1
  <2>3. c \in Nat /\ N + BatchSize - 1 < (c + 1) * BatchSize
    BY <2>1, BatchCountNat DEF BatchCount
  <2> HIDE DEF b, c
  <2>4. b < c
    <3> SUFFICES ASSUME c <= b PROVE FALSE
      BY <2>2, <2>3
    <3>1. PICK d \in Nat : b = c + d
      <4>1. b - c \in Nat /\ b = c + (b - c)
        BY <2>2, <2>3
      <4> QED BY <4>1
    <3>2. b * BatchSize = c * BatchSize + d * BatchSize
      BY <2>1, <2>3, <3>1
    <3>3. (c + 1) * BatchSize = c * BatchSize + BatchSize
      BY <2>1, <2>3
    <3>4. c * BatchSize \in Nat /\ d * BatchSize \in Nat /\ b * BatchSize \in Nat
      BY <2>1, <2>2, <2>3, <3>1
    <3> QED BY <2>1, <2>2, <2>3, <3>2, <3>3, <3>4
  <2>5. b \in Batch /\ i \in TasksOf(b)
    BY <2>1, <2>2, <2>3, <2>4 DEF Batch, TasksOf, c
  <2> QED BY <2>5
<1> QED BY <1>1, <1>2

(* No sender is left when the call has returned. *)
AllGone == ret # "running" => \A s \in Sender : sender[s] = "exit"

LEMMA AllGoneStep ==
  ASSUME TypeOK, AllGone, [Next]_vars
  PROVE  AllGone'
<1>1. ASSUME NEW s \in Sender, Offer(s) \/ SenderStep(s)
      PROVE  AllGone'
  BY <1>1 DEF TypeOK, AllGone, SenderStep, Offer, Check, SendOk, SendFails, RecordErr, Report,
              Exit, Finish
<1>2. CASE Expire \/ CloseJobs \/ Return \/ Terminated \/ UNCHANGED vars
  BY <1>2 DEF AllGone, Expire, CloseJobs, Return, Terminated, vars, pool
<1> QED BY <1>1, <1>2 DEF Next

LEMMA PromiseStep ==
  ASSUME PoolInv, PoolInv', CountedIsPublished, AllGone, [Next]_vars
  PROVE  [Promise!PromiseNext]_Promise!promiseVars
<1> DEFINE answer == [err |-> ret, counted |-> IF ret = "running" THEN {} ELSE CountedTasks]
<1> USE DEF Promise!PromiseNext, Promise!promiseVars, Promise!Publish, Promise!Reply,
            Promise!Unanswered
<1>1. ASSUME NEW s \in Sender, SendOk(s) \/ SendFails(s)
      PROVE  Promise!PromiseNext
  <2>1. ret = "running" /\ ret' = ret
    BY <1>1 DEF AllGone, SendOk, SendFails
  <2>2. PICK S \in SUBSET TaskIdx : published' = published \union S
    BY <1>1 DEF SendOk, SendFails, TasksOf
  <2>3. Promise!Publish(S)
    BY <2>1, <2>2
  <2> QED BY <2>2, <2>3
<1>2. CASE Return
  <2>1. ret = "running" /\ ret' \in {"ok", "error"} /\ UNCHANGED <<published, accepted>>
    BY <1>2 DEF Return
  <2>2. CountedTasks \subseteq published /\ CountedTasks' = CountedTasks
    BY <2>1 DEF CountedIsPublished, CountedTasks
  <2>3. ret' = "ok" => CountedTasks = TaskIdx
    BY <2>1, BatchesCover DEF PoolInv, OkMeansAll, CountedTasks
  <2>4. CountedTasks \in SUBSET TaskIdx
    BY DEF CountedTasks, TasksOf
  <2>5. Promise!Reply(ret', CountedTasks)
    BY <2>1, <2>2, <2>3
  <2> QED BY <2>1, <2>4, <2>5
<1>3. CASE \/ Expire \/ CloseJobs \/ Terminated \/ UNCHANGED vars
           \/ \E s \in Sender : Offer(s) \/ Check(s) \/ RecordErr(s) \/ Exit(s)
  <2>1. UNCHANGED <<published, accepted, ret>>
    BY <1>3 DEF Expire, CloseJobs, Terminated, vars, pool, Offer, Check, RecordErr, Exit
  <2> QED BY <2>1 DEF CountedTasks
<1>4. ASSUME NEW s \in Sender, Report(s)
      PROVE  UNCHANGED <<published, answer>>
  BY <1>4 DEF Report
<1> QED BY <1>1, <1>2, <1>3, <1>4 DEF Next, SenderStep

(* With a queue that reports refused entries, a call of EnqueueTasks       *)
(* answers once, with tasks that are in the queue, and nothing is sent     *)
(* after its answer, for any number of senders, tasks and any batch size.  *)
THEOREM EnqueueKeepsPromise == ~DropsEntries /\ Spec => KeepsPromise
<1> SUFFICES ASSUME ~DropsEntries PROVE Spec => KeepsPromise
  OBVIOUS
<1>1. Init => Promise!PromiseInit /\ AllGone
  BY DEF Init, Promise!PromiseInit, Promise!Unanswered, AllGone
<1>2. PoolInv /\ AllGone /\ [Next]_vars => AllGone'
  BY AllGoneStep DEF PoolInv
<1>3. PoolInv /\ PoolInv' /\ CountedIsPublished /\ AllGone /\ [Next]_vars
      => [Promise!PromiseNext]_Promise!promiseVars
  BY PromiseStep
<1> QED BY <1>1, <1>2, <1>3, PoolInductive, CountedWorkIsPublished, PTL
        DEF Spec, KeepsPromise, Promise!PromiseSpec
=============================================================================

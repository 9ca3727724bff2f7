--------------------------- MODULE RolloutProofs ---------------------------
(***************************************************************************)
(* Proofs about Rollout, for any fleet and any set of versions.  The       *)
(* record a running command holds can be undone, and so can the stored     *)
(* one of an unfinished rollout; a rollout ends stable only with every     *)
(* machine on its target, because each of them must be counted.            *)
(***************************************************************************)
EXTENDS Rollout, FiniteSetTheorems, WellFoundedInduction, TLAPS

(* A previous version is never the target: choosePreviousVersion skips it, *)
(* and the target is never empty: start refuses that.                      *)
OtherVersion(r) ==
  r.previous # NoVersion => r.target # NoVersion /\ r.previous # r.target

(* A rollout keeps its canary until it is stable or rolled back. *)
Rolling == {"canary", "canaryWait", "outcomes", "promote", "replaceRest", "drain", "drainWait"}
CanaryKept ==
  /\ store.phase = "canary" => store.canary # {}
  /\ pc \in Rolling => rec.canary # {}

(* What the commands rely on when they continue from the disk.             *)
RolloutInv ==
  /\ RolloutTypeOK
  /\ OtherVersion(store) /\ OtherVersion(rec)
  /\ RollbackStaysPossible
  /\ CanaryKept
  /\ pc # "idle" => RollbackPossible(rec)

-----------------------------------------------------------------------------
(* A non-empty canary count takes a worker. *)
LEMMA FirstOfNonEmpty ==
  ASSUME NEW S \in SUBSET Worker, S # {}, NEW n \in Nat \ {0}
  PROVE  FirstOf(S, n) # {} /\ FirstOf(S, n) \subseteq S
<1>1. PICK x \in S : \A y \in S : <<y, x>> \notin OpToRel(<, Nat)
  BY NatLessThanWellFounded, WFMin, RolloutAssumption
<1>2. \A y \in S : ~(y < x)
  BY <1>1, RolloutAssumption DEF OpToRel
<1>3. {v \in S : v < x} = {}
  BY <1>2
<1>4. Cardinality({v \in S : v < x}) < n
  BY <1>3, FS_EmptySet
<1> QED
  BY <1>4 DEF FirstOf

(* Previous versions are versions, and not the target. *)
LEMMA PreviousIsOther ==
  ASSUME RolloutTypeOK, NEW heard \in SUBSET Existing, NEW target,
         NEW p \in PreviousChoices(heard, target)
  PROVE  p \in Version /\ p # target /\ p # NoVersion
BY RolloutAssumption DEF PreviousChoices, Existing, RolloutTypeOK, MachineState, Gone

(* Whatever terraform did, each machine has an image or is gone. *)
LEMMA ApplyTyped ==
  ASSUME RolloutTypeOK, NEW image \in Version, NEW indexes \in SUBSET Worker,
         Applied(image) \/ ApplyStopped(image, indexes)
  PROVE  machine' \in [Worker -> MachineState] /\ output' \in Version
BY DEF Applied, ApplyStopped, RolloutTypeOK, MachineState, Gone

-----------------------------------------------------------------------------
LEMMA InitInv == Init => RolloutInv
<1> SUFFICES ASSUME Init PROVE RolloutInv
  OBVIOUS
<1>1. NoRecord \in Record
  BY DEF NoRecord, Record
<1>2. /\ NoRecord.phase = "none"
      /\ NoRecord.previous = NoVersion
  BY DEF NoRecord
<1>3. RolloutTypeOK
  BY <1>1 DEF Init, RolloutTypeOK
<1>4. store = NoRecord /\ rec = NoRecord /\ pc = "idle"
  BY DEF Init
<1> QED
  BY <1>2, <1>3, <1>4 DEF RolloutInv, OtherVersion, RollbackStaysPossible, CanaryKept, Rolling

LEMMA StartInv ==
  ASSUME RolloutInv, NEW heard \in SUBSET Existing,
         NEW n \in 1..Cardinality(Worker), Start(heard, n)
  PROVE  RolloutInv'
<1> DEFINE outdated == Outdated(heard, output)
<1>1. outdated \in SUBSET Worker
  BY DEF Outdated, Existing
<1>2. n \in Nat \ {0} /\ outdated # {}
  <2>1. n \in Int /\ 1 <= n
    BY FS_CardinalityType, RolloutAssumption
  <2>2. 1 <= Cardinality(outdated)
    <3>1. n \in 1..Cardinality(outdated)
      BY DEF Start
    <3>2. Cardinality(outdated) \in Nat
      BY <1>1, FS_Subset, FS_CardinalityType, RolloutAssumption
    <3> QED
      BY <2>1, <3>1, <3>2
  <2> QED
    BY <2>1, <2>2, FS_EmptySet
<1>3. FirstOf(outdated, n) # {} /\ FirstOf(outdated, n) \subseteq Worker
  BY <1>1, <1>2, FirstOfNonEmpty
<1>4. PICK p \in PreviousChoices(heard, output) :
        rec' = [phase |-> "canary", target |-> output, previous |-> p,
                canary |-> FirstOf(outdated, n), promoted |-> {}]
  BY DEF Start
<1>5. p \in Version /\ p # output /\ p # NoVersion
  BY PreviousIsOther DEF RolloutInv
<1>6. rec' \in Record /\ OtherVersion(rec)' /\ RollbackPossible(rec')
  <2>1. /\ rec'.phase = "canary" /\ rec'.target = output /\ rec'.previous = p
        /\ rec'.canary = FirstOf(outdated, n) /\ rec'.promoted = {}
    BY <1>4
  <2>2. rec' \in Record
    BY <1>3, <1>4, <1>5 DEF Record, RolloutInv, RolloutTypeOK
  <2>3. output # NoVersion
    BY RolloutAssumption DEF RolloutInv, RolloutTypeOK
  <2>4. rec'.canary \union rec'.promoted # {}
    BY <2>1, <1>3
  <2> QED
    BY <2>1, <2>2, <2>3, <2>4, <1>5 DEF OtherVersion, RollbackPossible
<1>7. store' = rec'
  BY DEF Start
<1>8. RolloutTypeOK'
  <2>1. remaining' \subseteq Worker
    BY <1>1 DEF Start
  <2> QED
    BY <1>6, <1>7, <2>1 DEF Start, RolloutInv, RolloutTypeOK
<1>9. RollbackStaysPossible'
  BY <1>6, <1>7, <1>4, <1>5 DEF RollbackStaysPossible
<1>10. CanaryKept'
  BY <1>3, <1>4, <1>7 DEF CanaryKept
<1> QED
  BY <1>6, <1>7, <1>8, <1>9, <1>10 DEF RolloutInv, OtherVersion

LEMMA StartMatchedInv ==
  ASSUME RolloutInv, NEW heard \in SUBSET Existing, StartMatched(heard)
  PROVE  RolloutInv'
<1>1. /\ store' = [phase |-> "stable", target |-> output, previous |-> NoVersion,
                   canary |-> {}, promoted |-> {}]
      /\ rec' = store' /\ pc' = "idle" /\ healthy' = FALSE
      /\ UNCHANGED <<machine, output, remaining>>
  BY DEF StartMatched, NoRecord
<1>2. store' \in Record
  BY <1>1 DEF Record, RolloutInv, RolloutTypeOK
<1>3. RolloutTypeOK'
  BY <1>1, <1>2 DEF RolloutInv, RolloutTypeOK
<1> QED
  BY <1>1, <1>3 DEF RolloutInv, OtherVersion, RollbackStaysPossible, CanaryKept, Rolling

(* The steps that run terraform leave the records alone. *)
LEMMA TerraformInv ==
  ASSUME RolloutInv,
         ReplaceCanary \/ ReplaceRest \/ Undo \/ ReplaceWithPrevious
  PROVE  RolloutInv'
<1>1. UNCHANGED <<store, rec, remaining, healthy>> /\ pc # "idle"
  BY DEF ReplaceCanary, ReplaceRest, Undo, ReplaceWithPrevious
<1>2. pc' \in {"idle", "canaryWait", "drain", "rolledBack"}
  BY DEF ReplaceCanary, ReplaceRest, Undo, ReplaceWithPrevious
<1>3. rec.previous \in Version
  BY <1>1 DEF RolloutInv, RolloutTypeOK, Record, RollbackPossible
<1>4. machine' \in [Worker -> MachineState] /\ output' \in Version
  <2>1. CASE UNCHANGED <<machine, output>>
    BY <2>1 DEF RolloutInv, RolloutTypeOK
  <2>2. CASE ~UNCHANGED <<machine, output>>
    <3>1. PICK image \in Version, indexes \in SUBSET Worker :
            Applied(image) \/ ApplyStopped(image, indexes)
      <4>1. Tag \in Version
        BY RolloutAssumption
      <4>2. /\ rec.canary \in SUBSET Worker /\ rec.promoted \in SUBSET Worker
            /\ remaining \in SUBSET Worker
        BY DEF RolloutInv, RolloutTypeOK, Record
      <4>3. CASE ReplaceCanary
        BY <4>1, <4>2, <4>3 DEF ReplaceCanary
      <4>4. CASE ReplaceRest
        BY <4>1, <4>2, <4>4, <2>2 DEF ReplaceRest
      <4>5. CASE Undo
        BY <1>3, <4>2, <4>5 DEF Undo
      <4>6. CASE ReplaceWithPrevious
        BY <1>3, <4>2, <4>6 DEF ReplaceWithPrevious
      <4> QED
        BY <4>3, <4>4, <4>5, <4>6
    <3> QED
      BY <3>1, ApplyTyped DEF RolloutInv
  <2> QED
    BY <2>1, <2>2
<1>5. RolloutTypeOK'
  BY <1>1, <1>2, <1>4 DEF RolloutInv, RolloutTypeOK
<1>6. pc' \in Rolling => pc \in Rolling
  BY DEF ReplaceCanary, ReplaceRest, Undo, ReplaceWithPrevious, Rolling
<1> QED
  BY <1>1, <1>5, <1>6 DEF RolloutInv, OtherVersion, RollbackStaysPossible, CanaryKept, Rolling

(* The steps that only decide what comes next. *)
LEMMA DecideInv ==
  ASSUME RolloutInv, CanaryReady \/ Outcomes \/ Killed
  PROVE  RolloutInv'
<1>1. /\ UNCHANGED <<machine, output, store, rec, remaining>>
      /\ pc # "idle" /\ pc' \in {"outcomes", "promote", "idle"}
      /\ healthy' \in BOOLEAN
  BY DEF CanaryReady, Outcomes, Killed, RolloutInv, RolloutTypeOK
<1>2. RolloutTypeOK'
  BY <1>1 DEF RolloutInv, RolloutTypeOK
<1>3. pc' \in Rolling => pc \in Rolling
  BY DEF CanaryReady, Outcomes, Killed, Rolling
<1> QED
  BY <1>1, <1>2, <1>3 DEF RolloutInv, OtherVersion, RollbackStaysPossible, CanaryKept, Rolling

(* The steps that continue from the stored record. *)
LEMMA ResumeInv ==
  ASSUME RolloutInv,
         (\E heard \in SUBSET Existing : Promote(heard)) \/ Rollback
  PROVE  RolloutInv'
<1>1. /\ UNCHANGED <<machine, output, store, healthy>>
      /\ rec' = store /\ pc' \in {"promote", "rollback"}
  BY DEF Promote, Rollback
<1>2. remaining' \subseteq Worker
  BY DEF Promote, Rollback, Outdated, Existing, RolloutInv, RolloutTypeOK
<1>3. RollbackPossible(store)
  BY DEF Promote, Rollback, RolloutInv, RollbackStaysPossible
<1>4. RolloutTypeOK'
  BY <1>1, <1>2 DEF RolloutInv, RolloutTypeOK
<1>5. pc' \in Rolling => store.canary # {}
  BY DEF Promote, Rollback, Rolling, RolloutInv, CanaryKept
<1> QED
  BY <1>1, <1>3, <1>4, <1>5 DEF RolloutInv, OtherVersion, RollbackStaysPossible, RollbackPossible,
       CanaryKept, Rolling

(* The steps that save: the stored record is the old one, or the one in    *)
(* hand with another phase and no fewer workers to undo.                   *)
LEMMA SaveInv ==
  ASSUME RolloutInv,
         \/ RollBackAfterFailure \/ SavePromoting
         \/ SaveDraining \/ SaveStable \/ SaveRolledBack
  PROVE  RolloutInv'
<1>1. UNCHANGED <<machine, output, remaining, healthy>> /\ pc # "idle"
  BY DEF RollBackAfterFailure, SavePromoting, SaveDraining, SaveStable, SaveRolledBack
<1>2. pc' \in {"undo", "replaceRest", "drainWait", "idle"}
  BY DEF RollBackAfterFailure, SavePromoting, SaveDraining, SaveStable, SaveRolledBack
<1>3. rec \in Record /\ OtherVersion(rec) /\ RollbackPossible(rec)
  BY <1>1 DEF RolloutInv, RolloutTypeOK
<1>4. /\ rec' \in Record /\ OtherVersion(rec')
      /\ pc' # "idle" => RollbackPossible(rec')
      /\ rec'.phase \in {"canary", "promoting", "draining-old"} /\ store' = rec' /\ store' # store
           => RollbackPossible(rec')
      /\ store' \in {store, rec'}
  <2>1. CASE RollBackAfterFailure
    BY <2>1, <1>3 DEF RollBackAfterFailure, Record, OtherVersion, RollbackPossible
  <2>2. CASE SavePromoting
    BY <2>2, <1>3 DEF SavePromoting, Record, OtherVersion, RollbackPossible
  <2>3. CASE SaveDraining
    <3>1. remaining \subseteq Worker
      BY DEF RolloutInv, RolloutTypeOK
    <3>2. CASE UNCHANGED <<store, rec>> /\ pc' = "idle"
      BY <3>2, <1>3
    <3>3. CASE ~(UNCHANGED <<store, rec>> /\ pc' = "idle")
      <4>1. /\ rec' = [rec EXCEPT !.phase = "draining-old",
                                 !.promoted = rec.canary \union remaining]
            /\ store' = rec'
        BY <2>3, <3>3 DEF SaveDraining
      <4>2. /\ rec'.previous = rec.previous /\ rec'.target = rec.target
            /\ rec'.canary = rec.canary
            /\ rec'.promoted = rec.canary \union remaining
            /\ rec' \in Record
        BY <4>1, <3>1, <1>3 DEF Record
      <4>3. rec.canary # {}
        BY <2>3 DEF SaveDraining, RolloutInv, CanaryKept, Rolling
      <4>4. rec'.canary \union rec'.promoted # {}
        BY <4>2, <4>3
      <4>5. OtherVersion(rec') /\ RollbackPossible(rec')
        BY <1>3, <4>2, <4>4 DEF OtherVersion, RollbackPossible
      <4> QED
        BY <4>1, <4>2, <4>5
    <3> QED
      BY <3>2, <3>3
  <2>4. CASE SaveStable
    BY <2>4, <1>3 DEF SaveStable, Record, OtherVersion, RollbackPossible
  <2>5. CASE SaveRolledBack
    BY <2>5, <1>3 DEF SaveRolledBack, Record, OtherVersion, RollbackPossible
  <2> QED
    BY <2>1, <2>2, <2>3, <2>4, <2>5
<1>5. RolloutTypeOK'
  BY <1>1, <1>2, <1>4 DEF RolloutInv, RolloutTypeOK
<1>6. OtherVersion(store')
  BY <1>4 DEF RolloutInv
<1>7. RollbackStaysPossible'
  <2>1. CASE store' = store
    BY <2>1 DEF RolloutInv, RollbackStaysPossible, RollbackPossible
  <2>2. CASE store' = rec' /\ store' # store
    BY <2>2, <1>4 DEF RollbackStaysPossible, RollbackPossible, OtherVersion
  <2> QED
    BY <1>4, <2>1, <2>2
<1>8. CanaryKept'
  <2>1. pc' \in Rolling => pc \in Rolling /\ rec'.canary = rec.canary
    BY <1>3 DEF RollBackAfterFailure, SavePromoting, SaveDraining, SaveStable,
                SaveRolledBack, Rolling, Record
  <2>2. rec'.phase = "canary" => rec' = rec /\ store' = store
    BY <1>3 DEF RollBackAfterFailure, SavePromoting, SaveDraining, SaveStable,
                SaveRolledBack, Record
  <2>3. store'.phase = "canary" => store' = store
    BY <1>4, <2>2
  <2> QED
    BY <2>1, <2>3 DEF RolloutInv, CanaryKept
<1> QED
  BY <1>4, <1>5, <1>6, <1>7, <1>8 DEF RolloutInv, OtherVersion, RollbackPossible

LEMMA StepInv == RolloutInv /\ [Next]_vars => RolloutInv'
<1> SUFFICES ASSUME RolloutInv, [Next]_vars PROVE RolloutInv'
  OBVIOUS
<1>1. CASE UNCHANGED vars
  BY <1>1 DEF vars, RolloutInv, RolloutTypeOK, OtherVersion, RollbackStaysPossible,
              RollbackPossible, CanaryKept
<1>2. CASE \E heard \in SUBSET Existing : \E n \in 1..Cardinality(Worker) : Start(heard, n)
  BY <1>2, StartInv
<1>3. CASE \E heard \in SUBSET Existing : StartMatched(heard)
  BY <1>3, StartMatchedInv
<1>4. CASE (\E heard \in SUBSET Existing : Promote(heard)) \/ Rollback
  BY <1>4, ResumeInv
<1>5. CASE ReplaceCanary \/ ReplaceRest \/ Undo \/ ReplaceWithPrevious
  BY <1>5, TerraformInv
<1>6. CASE CanaryReady \/ Outcomes \/ Killed
  BY <1>6, DecideInv
<1>7. CASE \/ RollBackAfterFailure \/ SavePromoting
           \/ SaveDraining \/ SaveStable \/ SaveRolledBack
  BY <1>7, SaveInv
<1> QED
  BY <1>1, <1>2, <1>3, <1>4, <1>5, <1>6, <1>7 DEF Next

(* The inductive invariant of the rollout commands (cmd_fleet.go). *)
THEOREM RolloutInvariant == Spec => []RolloutInv
BY InitInv, StepInv, PTL DEF Spec

(* Records, machines and terraform's state are well-formed: no command     *)
(* applies an empty image.                                                 *)
THEOREM RolloutTypeCorrect == Spec => []RolloutTypeOK
<1>1. RolloutInv => RolloutTypeOK
  BY DEF RolloutInv
<1> QED
  BY <1>1, RolloutInvariant, PTL

(* An unfinished rollout can be rolled back, after any failures and kills. *)
THEOREM UnfinishedCanBeRolledBack == Spec => []RollbackStaysPossible
<1>1. RolloutInv => RollbackStaysPossible
  BY DEF RolloutInv
<1> QED
  BY <1>1, RolloutInvariant, PTL

-----------------------------------------------------------------------------
(* Only machines on the target count towards a rollout past its canary. *)
LEMMA CountedOnTarget ==
  ASSUME RolloutTypeOK, rec.target # NoVersion,
         NEW x \in Eligible({Seen(w) : w \in Existing}, WaitPolicy)
  PROVE  \E w \in Existing : x = Seen(w) /\ machine[w] = rec.target
<1>1. x \in {Seen(w) : w \in Existing} /\ Reason(x, WaitPolicy) = ""
  BY DEF Eligible
<1>2. PICK w \in Existing : x = Seen(w)
  BY <1>1
<1>3. WaitPolicy.expected = rec.target
  BY DEF WaitPolicy
<1>4. x.ver = machine[w] /\ x.healthy /\ ~x.quar /\ x.ip = NoIP
  BY <1>2 DEF Seen
<1>5. machine[w] = rec.target
  BY <1>1, <1>3, <1>4 DEF Reason
<1> QED
  BY <1>2, <1>5

LEMMA AllCountedAllOnTarget ==
  ASSUME RolloutTypeOK, rec.target # NoVersion,
         ReadyCount >= Cardinality(Worker)
  PROVE  \A w \in Worker : machine[w] = rec.target
<1> DEFINE E == Eligible({Seen(w) : w \in Existing}, WaitPolicy)
           T == {w \in Worker : machine[w] = rec.target}
           f == [x \in E |-> x.id]
<1>1. \A x \in E : \E w \in T : x = Seen(w) /\ x.id = w
  BY CountedOnTarget DEF Existing, Seen
<1>2. f \in [E -> T]
  BY <1>1
<1>3. \A x, y \in E : f[x] = f[y] => x = y
  BY <1>1
<1>4. f \in Injection(E, T)
  BY <1>2, <1>3 DEF Injection, IsInjective
<1>5. IsFiniteSet(T) /\ Cardinality(T) <= Cardinality(Worker)
      /\ (Cardinality(T) = Cardinality(Worker) => T = Worker)
  <2>1. T \in SUBSET Worker
    OBVIOUS
  <2> QED
    BY <2>1, FS_Subset, RolloutAssumption
<1>6. IsFiniteSet(E) /\ Cardinality(E) <= Cardinality(T)
  BY <1>4, <1>5, FS_Injection
<1>7. Cardinality(E) >= Cardinality(Worker)
  BY DEF ReadyCount
<1>8. /\ Cardinality(E) \in Nat /\ Cardinality(T) \in Nat
      /\ Cardinality(Worker) \in Nat
  BY <1>5, <1>6, FS_CardinalityType, RolloutAssumption
<1>9. Cardinality(T) = Cardinality(Worker)
  BY <1>5, <1>6, <1>7, <1>8
<1> QED
  BY <1>5, <1>9

(* A promotion ends stable only with the whole fleet on the target. *)
THEOREM PromotionsReachTheTarget == Spec => PromotedOnTarget
<1>1. ASSUME RolloutInv, [Next]_vars, pc = "drainWait", store' # store,
             store'.phase = "stable"
      PROVE  \A w \in Worker : machine[w] = store'.target
  <2>1. SaveStable
    <3>1. store'.phase # "rolled-back"
      BY <1>1
    <3>2. ~RollBackAfterFailure
      BY <1>1, <3>1 DEF RollBackAfterFailure, RolloutInv, RolloutTypeOK, Record
    <3> QED
      BY <1>1, <3>2 DEF Next, vars, Start, StartMatched, Promote, ReplaceCanary, CanaryReady,
        Outcomes, Undo, SavePromoting, ReplaceRest, SaveDraining, Rollback,
        ReplaceWithPrevious, SaveRolledBack, Killed
  <2>2. store' = rec' /\ rec'.target = rec.target
    BY <1>1, <2>1 DEF SaveStable, RolloutInv, RolloutTypeOK, Record
  <2>3. ReadyCount >= Cardinality(Worker)
    BY <2>1 DEF SaveStable
  <2>4. rec.target # NoVersion
    BY <1>1 DEF RolloutInv, RollbackPossible, OtherVersion
  <2> QED
    BY <2>2, <2>3, <2>4, <1>1, AllCountedAllOnTarget DEF RolloutInv
<1>2. RolloutInv /\ [Next]_vars
        => [pc = "drainWait" /\ store' # store /\ store'.phase = "stable" =>
              \A w \in Worker : machine[w] = store'.target]_vars
  BY <1>1
<1> QED
  BY <1>2, RolloutInvariant, PTL DEF Spec, PromotedOnTarget
=============================================================================

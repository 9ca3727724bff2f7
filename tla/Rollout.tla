------------------------------ MODULE Rollout ------------------------------
(***************************************************************************)
(* heph fleet rollout start, promote, and heph fleet rollback: a record on *)
(* the operator's disk and the machines terraform replaces, changed in     *)
(* turns by commands that may fail or be killed between any two of them.   *)
(*                                                                         *)
(*   cmd/heph/cmd_fleet.go          the commands                           *)
(*   cmd/heph/fleet_helpers.go      what they read, terraform, the wait    *)
(*   cmd/heph/rollout_health.go     the outcome check                      *)
(*   internal/fleetstate/rollout.go the record                             *)
(*                                                                         *)
(* One command runs at a time.  Whom a wait counts is the admission policy *)
(* of the manager (Admission); that a machine is silent, out of reach or   *)
(* excluded for its address shows as a snapshot without it, or a wait that *)
(* times out, which both may always happen.                                *)
(***************************************************************************)
EXTENDS Admission

CONSTANTS
  Worker,    \* indexes N of the heph-worker-N machines
  Version,   \* docker_image values: what heartbeats report as their version
  Tag        \* ToolConfig.DockerTag of the heph that runs the commands

ASSUME RolloutAssumption ==
  /\ Worker \subseteq Nat /\ IsFiniteSet(Worker)
  /\ Tag \in Version /\ NoVersion \notin Version

Gone == NoVersion   \* destroyed and not created again
MachineState == Version \union {Gone}

VARIABLES
  machine,    \* the image each machine was created for, or Gone
  output,     \* the docker_image output in terraform's state
  store,      \* the record in rollouts.json
  pc,         \* where the running command is, or idle
  rec,        \* the record as the running command holds it
  remaining,  \* the outdated workers outside the canary wave
  healthy     \* the canary of the stored rollout was found healthy (history)

vars == <<machine, output, store, pc, rec, remaining, healthy>>

(* RolloutRecord: the generation, the canary's size, the draining indexes  *)
(* and the texts are written for status to show.                           *)
Record == [phase : {"none", "canary", "promoting", "draining-old", "stable", "rolled-back"},
           target : Version \union {NoVersion}, previous : Version \union {NoVersion},
           canary : SUBSET Worker, promoted : SUBSET Worker]
NoRecord == [phase |-> "none", target |-> NoVersion, previous |-> NoVersion,
             canary |-> {}, promoted |-> {}]

RolloutTypeOK ==
  /\ machine \in [Worker -> MachineState]
  /\ output \in Version
  /\ store \in Record /\ rec \in Record
  /\ pc \in {"idle", "canary", "canaryWait", "outcomes", "promote", "replaceRest",
             "drain", "drainWait", "undo", "rollback", "rolledBack"}
  /\ remaining \subseteq Worker
  /\ healthy \in BOOLEAN

(* A fleet whose last deployment may have stopped half way. *)
Init ==
  /\ machine \in [Worker -> MachineState]
  /\ output \in Version
  /\ store = NoRecord
  /\ pc = "idle"
  /\ rec = NoRecord
  /\ remaining = {}
  /\ healthy = FALSE

-----------------------------------------------------------------------------
(* Terraform. *)

(* ApplyReplace applies the whole configuration, with no -target: besides  *)
(* the addresses it is told to replace, it creates what is missing and     *)
(* replaces every machine whose user data names another image.             *)
Touched(image, indexes) == indexes \union {w \in Worker : machine[w] # image}

Applied(image) ==
  /\ machine' = [w \in Worker |-> image]
  /\ output' = image

ApplyStopped(image, indexes) ==
  /\ \E made \in SUBSET Touched(image, indexes), lost \in SUBSET Touched(image, indexes) :
       machine' = [w \in Worker |->
         IF w \in made THEN image ELSE IF w \in lost THEN Gone ELSE machine[w]]
  /\ output' \in {output, image}

-----------------------------------------------------------------------------
(* What the commands read. *)

Existing == {w \in Worker : machine[w] # Gone}

(* outdatedWorkerIndexes of a snapshot that heard these workers. *)
Outdated(heard, target) == {w \in heard : machine[w] # target}

(* Mutant: the target is a candidate too. *)
MutPreviousChoices(heard, target) == {machine[w] : w \in heard}

(* choosePreviousVersion: the commonest other version.  Ties go by the     *)
(* text of the versions, which the model does not order.                   *)
PreviousChoices(heard, target) ==
  LET count(v) == Cardinality({w \in heard : machine[w] = v})
      others == {machine[w] : w \in heard} \ {target}
  IN {v \in others : \A u \in others : count(u) <= count(v)}

(* The first n indexes. *)
FirstOf(indexes, n) == {w \in indexes : Cardinality({v \in indexes : v < w}) < n}

(* WaitForWorkers under the rollout in hand: at best it hears everyone. *)
WaitPolicy ==
  [expected |-> rec.target, rep |-> <<>>, needsV6 |-> FALSE, limit |-> 0,
   rollout |-> [phase |-> rec.phase, target |-> rec.target,
                previous |-> rec.previous, canary |-> rec.canary]]
Seen(w) == [id |-> w, ip |-> NoIP, ver |-> machine[w], v6 |-> TRUE, healthy |-> TRUE, quar |-> FALSE]
ReadyCount == Cardinality(Eligible({Seen(w) : w \in Existing}, WaitPolicy))

-----------------------------------------------------------------------------
(* heph fleet rollout start. *)

(* The record is saved before anything is replaced; a save that fails ends *)
(* the command with nothing done.                                          *)
Start(heard, n) ==
  /\ pc = "idle"
  /\ LET outdated == Outdated(heard, output)
     IN /\ n \in 1..Cardinality(outdated)
        /\ \E previous \in PreviousChoices(heard, output) :
             rec' = [phase |-> "canary", target |-> output, previous |-> previous,
                     canary |-> FirstOf(outdated, n), promoted |-> {}]
        /\ remaining' = outdated \ FirstOf(outdated, n)
  /\ store' = rec'
  /\ healthy' = FALSE
  /\ pc' = "canary"
  /\ UNCHANGED <<machine, output>>

(* "Fleet already matches the target version." *)
StartMatched(heard) ==
  /\ pc = "idle"
  /\ Outdated(heard, output) = {}
  /\ store' = [NoRecord EXCEPT !.phase = "stable", !.target = output]
  /\ rec' = store'
  /\ healthy' = FALSE
  /\ UNCHANGED <<machine, output, pc, remaining>>

(* The canary wave is replaced with the image this heph is built for; an   *)
(* error ends the command and leaves the record.                           *)
ReplaceCanary ==
  /\ pc = "canary"
  /\ \/ Applied(Tag) /\ pc' = "canaryWait"
     \/ ApplyStopped(Tag, rec.canary) /\ pc' = "idle"
  /\ UNCHANGED <<store, rec, remaining, healthy>>

CanaryReady ==
  /\ pc = "canaryWait"
  /\ ReadyCount >= Cardinality(rec.canary)
  /\ healthy' = TRUE
  /\ pc' = "outcomes"
  /\ UNCHANGED <<machine, output, store, rec, remaining>>

(* --auto-promote=false stops here, as does a job store that cannot be     *)
(* read; the check is made once more by promoteRollout.                    *)
Outcomes ==
  /\ pc = "outcomes"
  /\ pc' \in {"promote", "idle"}
  /\ UNCHANGED <<machine, output, store, rec, remaining, healthy>>

(* Failed jobs and no completed one (rollbackCanaryOutcomeFailure), or a   *)
(* wait that ran into its timeout: the record says rolled-back, if it can  *)
(* be saved, before the machines are, if they can be.                      *)
RollBackAfterFailure ==
  /\ pc \in {"canaryWait", "outcomes", "promote", "drainWait"}
  /\ rec' = [rec EXCEPT !.phase = "rolled-back"]
  /\ store' \in {rec', store}
  /\ pc' = "undo"
  /\ UNCHANGED <<machine, output, remaining, healthy>>

Undo ==
  /\ pc = "undo"
  /\ \/ Applied(rec.previous)
     \/ ApplyStopped(rec.previous, rec.canary \union rec.promoted)
  /\ pc' = "idle"
  /\ UNCHANGED <<store, rec, remaining, healthy>>

-----------------------------------------------------------------------------
(* heph fleet rollout promote, and the second half of start. *)

Promote(heard) ==
  /\ pc = "idle"
  /\ store.phase = "canary"
  /\ rec' = store
  /\ remaining' = Outdated(heard, store.target) \ store.canary
  /\ pc' = "promote"
  /\ UNCHANGED <<machine, output, store, healthy>>

(* promoteRollout once the outcomes are found good, or cannot be read. *)
SavePromoting ==
  /\ pc = "promote"
  /\ \/ /\ rec' = [rec EXCEPT !.phase = "promoting"]
        /\ store' = rec'
        /\ pc' = "replaceRest"
     \/ pc' = "idle" /\ UNCHANGED <<store, rec>>
  /\ UNCHANGED <<machine, output, remaining, healthy>>

ReplaceRest ==
  /\ pc = "replaceRest"
  /\ IF remaining = {}
     THEN pc' = "drain" /\ UNCHANGED <<machine, output>>
     ELSE \/ Applied(Tag) /\ pc' = "drain"
          \/ ApplyStopped(Tag, remaining) /\ pc' = "idle"
  /\ UNCHANGED <<store, rec, remaining, healthy>>

SaveDraining ==
  /\ pc = "drain"
  /\ \/ /\ rec' = [rec EXCEPT !.phase = "draining-old",
                              !.promoted = rec.canary \union remaining]
        /\ store' = rec'
        /\ pc' = "drainWait"
     \/ pc' = "idle" /\ UNCHANGED <<store, rec>>
  /\ UNCHANGED <<machine, output, remaining, healthy>>

(* Mutant: the wait is for as many workers as the canary's. *)
MutSaveStable ==
  /\ pc = "drainWait"
  /\ ReadyCount >= Cardinality(rec.canary)
  /\ \/ /\ rec' = [rec EXCEPT !.phase = "stable", !.canary = {}]
        /\ store' = rec'
     \/ UNCHANGED <<store, rec>>
  /\ pc' = "idle"
  /\ UNCHANGED <<machine, output, remaining, healthy>>

(* The whole fleet is ready. *)
SaveStable ==
  /\ pc = "drainWait"
  /\ ReadyCount >= Cardinality(Worker)
  /\ \/ /\ rec' = [rec EXCEPT !.phase = "stable", !.canary = {}]
        /\ store' = rec'
     \/ UNCHANGED <<store, rec>>
  /\ pc' = "idle"
  /\ UNCHANGED <<machine, output, remaining, healthy>>

-----------------------------------------------------------------------------
(* heph fleet rollback. *)

RollbackPossible(r) == r.previous # NoVersion /\ r.canary \union r.promoted # {}

Rollback ==
  /\ pc = "idle"
  /\ store.phase # "none" /\ RollbackPossible(store)
  /\ rec' = store
  /\ pc' = "rollback"
  /\ UNCHANGED <<machine, output, store, remaining, healthy>>

ReplaceWithPrevious ==
  /\ pc = "rollback"
  /\ \/ Applied(rec.previous) /\ pc' = "rolledBack"
     \/ ApplyStopped(rec.previous, rec.canary \union rec.promoted) /\ pc' = "idle"
  /\ UNCHANGED <<store, rec, remaining, healthy>>

SaveRolledBack ==
  /\ pc = "rolledBack"
  /\ rec' = [rec EXCEPT !.phase = "rolled-back"]
  /\ store' = rec'
  /\ pc' = "idle"
  /\ UNCHANGED <<machine, output, remaining, healthy>>

(* The process is killed, or a save it reports ends it.  (A terraform run  *)
(* that is killed with it is one of the stopped ones above.)               *)
Killed ==
  /\ pc # "idle"
  /\ pc' = "idle"
  /\ UNCHANGED <<machine, output, store, rec, remaining, healthy>>

Next ==
  \/ \E heard \in SUBSET Existing :
       \/ \E n \in 1..Cardinality(Worker) : Start(heard, n)
       \/ StartMatched(heard)
       \/ Promote(heard)
  \/ ReplaceCanary \/ CanaryReady \/ Outcomes \/ RollBackAfterFailure \/ Undo
  \/ SavePromoting \/ ReplaceRest \/ SaveDraining \/ SaveStable
  \/ Rollback \/ ReplaceWithPrevious \/ SaveRolledBack
  \/ Killed

Spec == Init /\ [][Next]_vars

-----------------------------------------------------------------------------
(* Properties. *)

(* Whatever commands were started, failed or killed before: an unfinished  *)
(* rollout can be rolled back, to a version that is not the one it moves   *)
(* to, and a machine terraform created is never given an empty image       *)
(* (output and machine in RolloutTypeOK).                                  *)
RollbackStaysPossible ==
  store.phase \in {"canary", "promoting", "draining-old"} =>
    RollbackPossible(store) /\ store.previous # store.target

(* "Rollout promoted to %s" (cmd_fleet.go): when a promotion makes the     *)
(* record stable, every machine runs the target, those the snapshot did    *)
(* not show and those an earlier command replaced half way included.       *)
PromotedOnTarget ==
  [][pc = "drainWait" /\ store' # store /\ store'.phase = "stable" =>
       \A w \in Worker : machine[w] = store'.target]_vars

(* "Promote the rollout after a successful canary" (cmd_fleet.go): no      *)
(* rollout is promoted whose canary was not found healthy.  The record     *)
(* says canary before the canary is replaced and after its replacement     *)
(* failed, and promote asks for no more, so this does not hold.            *)
PromotedAfterHealthyCanary ==
  store.phase \in {"promoting", "draining-old"} => healthy
=============================================================================

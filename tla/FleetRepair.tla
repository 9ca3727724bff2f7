---------------------------- MODULE FleetRepair ----------------------------
(***************************************************************************)
(* heph fleet reconcile: it listens to the heartbeats of a short window,   *)
(* replaces the machines the admission policy excludes for their health or *)
(* their address, and waits with a manager of its own until the whole      *)
(* fleet is eligible again.  Meanwhile another heph process may put        *)
(* addresses into quarantine or clear them.                                *)
(*                                                                         *)
(*   cmd/heph/cmd_fleet.go      runFleetReconcile, repairCandidateIndexes  *)
(*   cmd/heph/fleet_helpers.go  loadProviderFleetContext,                  *)
(*                              replaceWorkerIndexes, waitForFleetSnapshot *)
(*   internal/fleet/fleet.go    QueryFleetSnapshot                         *)
(*                                                                         *)
(* The window (3 s) is shorter than the heartbeat interval (30 s): a       *)
(* running machine may or may not be heard in it, and a heartbeat heard is *)
(* never old enough to be stale when the window closes.                    *)
(***************************************************************************)
EXTENDS Fleet

CONSTANTS
  Image,     \* docker_image of the tool's configuration
  Counted,   \* the indexes below the worker_count terraform is left with
  MaxMarks   \* bound: reputation changes in one run

ASSUME RepairAssumption == Image \in Version /\ Counted \subseteq Worker

VARIABLES
  cli,       \* idle, listen, replace, wait, or how the command ended
  rep,       \* the reputation store, by address
  marks,     \* reputation changes so far
  loaded,    \* the reputation the command read
  snapshot,  \* QueryFleetSnapshot's workers: what their heartbeats said
  chosen     \* the indexes to replace

command == <<cli, loaded, snapshot, chosen>>
rvars == <<vars, command, rep, marks>>

Reputation == {"healthy", "quarantined"}
Message == [id : Worker, ip : IP \union {NoIP}, ver : Version, v6 : {TRUE},
            healthy : {TRUE}, quar : {FALSE}]

RepairTypeOK ==
  /\ TypeOK
  /\ cli \in {"idle", "listen", "replace", "wait", "none", "done", "failed"}
  /\ rep \in [IP -> Reputation] /\ loaded \in [IP -> Reputation]
  /\ marks \in 0..MaxMarks
  /\ snapshot \subseteq Message
  /\ chosen \subseteq Worker

(* The manager is not there before the command waits. *)
RepairInit ==
  /\ Init /\ phase = "off"
  /\ cli = "idle"
  /\ rep \in [IP -> Reputation]
  /\ marks = 0
  /\ loaded = rep
  /\ snapshot = {}
  /\ chosen = {}

(* SetState and Clear of the reputation store, by another process. *)
Mark(ip, state) ==
  /\ marks < MaxMarks
  /\ rep[ip] # state
  /\ rep' = [rep EXCEPT ![ip] = state]
  /\ marks' = marks + 1
  /\ UNCHANGED <<vars, command>>

(* loadProviderFleetContext reads the reputation and starts listening. *)
Load ==
  /\ cli = "idle"
  /\ cli' = "listen"
  /\ loaded' = rep
  /\ UNCHANGED <<vars, rep, marks, snapshot, chosen>>

Hear(w) ==
  /\ cli = "listen"
  /\ vm[w].up
  /\ snapshot' = {m \in snapshot : m.id # w}
       \union {[id |-> w, ip |-> vm[w].ip, ver |-> vm[w].ver, v6 |-> TRUE,
                healthy |-> TRUE, quar |-> FALSE]}
  /\ UNCHANGED <<vars, cli, loaded, rep, marks, chosen>>

(* The reasons repairCandidateIndexes repairs. *)
RepairReasons ==
  {"reputation_cooling_down", "reputation_quarantined", "reputation_retired",
   "unhealthy", "quarantined_unhealthy"}

Candidates ==
  {m.id : m \in {x \in snapshot : Reason(x, Policy(loaded, NoRollout)) \in RepairReasons}}

CloseWindow ==
  /\ cli = "listen"
  /\ chosen' = Candidates
  /\ cli' = IF Candidates = {} THEN "none" ELSE "replace"
  /\ UNCHANGED <<vars, rep, marks, loaded, snapshot>>

(* The machine terraform creates. *)
Replacement(ip) == [up |-> TRUE, down |-> now, ip |-> ip, ver |-> Image]

(* The apply has no -target.  Besides the chosen machines it replaces each *)
(* whose user data names another image, and creates the missing: of the    *)
(* machines that are down, those that are gone and not merely stopped.     *)
Touched(missing) == chosen \union missing \union {w \in Worker : vm[w].ver # Image}

(* The machines after an apply, or after one that failed part of the way.  *)
AfterApply(created, addr, destroyed) ==
  [w \in Worker |->
     IF w \in created
     THEN Replacement(addr[w])
     ELSE IF w \in destroyed
     THEN [up |-> FALSE, down |-> now, ip |-> vm[w].ip, ver |-> vm[w].ver]
     ELSE vm[w]]

(* terraform apply -replace creates machines with addresses no running     *)
(* machine has, and destroys those beyond worker_count: scans set the      *)
(* variable, this command does not, and it is the default's or the         *)
(* environment's.  It may fail after some of them, leaving machines        *)
(* destroyed.  Then the command waits, and its manager starts from an      *)
(* empty registry.                                                         *)
Replace ==
  /\ cli = "replace"
  /\ \E missing \in SUBSET {w \in Worker : ~vm[w].up} :
       LET wanted == Touched(missing) \intersect Counted
           doomed == Touched(missing) \union (Worker \ Counted)
       IN \E created \in SUBSET wanted, destroyed \in SUBSET doomed :
            \E addr \in [created -> IP] :
              /\ created \subseteq destroyed
              /\ \A w \in created : \A v \in Worker \ {w} :
                   IF v \in created THEN addr[w] # addr[v]
                   ELSE v \notin destroyed /\ vm[v].up => addr[w] # vm[v].ip
              /\ vm' = AfterApply(created, addr, destroyed)
              /\ \/ /\ created = wanted /\ destroyed = doomed
                    /\ cli' = "wait" /\ phase' = "waiting"
                 \/ cli' = "failed" /\ phase' = "gone"
              /\ beat' = [w \in Worker |-> IF w \in created THEN now ELSE beat[w]]
  /\ heard' = [w \in Worker |-> FALSE]
  /\ lost' = [w \in Worker |-> 0]
  /\ UNCHANGED <<now, boots, reg, cooldowns, view, rep, marks, loaded, snapshot, chosen>>

(* Mutant: the wait is not told the reputation. *)
MutWaitTrusting == Policy(Trusted, NoRollout)

(* waitForFleetSnapshot hands the manager the reputation read at the start. *)
WaitPolicy == Policy(loaded, NoRollout)

Wait ==
  /\ cli = "wait"
  /\ \E late \in SUBSET Exposed : Poll(late, WaitPolicy)
  /\ cli' = IF phase' = "ready" THEN "done" ELSE "wait"
  /\ UNCHANGED <<rep, marks, loaded, snapshot, chosen>>

TimeOut ==
  /\ cli = "wait"
  /\ GiveUp
  /\ cli' = "failed"
  /\ UNCHANGED <<rep, marks, loaded, snapshot, chosen>>

Ended == cli \in {"none", "done", "failed"}

(* What happened before the command began is any initial state. *)
RepairNext ==
  \/ /\ cli # "idle" /\ ~Ended
     /\ \/ (Machines \/ \E w \in Worker : Heartbeat(w)) /\ UNCHANGED <<command, rep, marks>>
        \/ \E ip \in IP, state \in Reputation : Mark(ip, state)
  \/ Load
  \/ \E w \in Worker : Hear(w)
  \/ CloseWindow
  \/ Replace
  \/ Wait
  \/ TimeOut
  \/ Ended /\ UNCHANGED rvars

RepairSpec == RepairInit /\ [][RepairNext]_rvars

-----------------------------------------------------------------------------
(* Properties. *)

(* A command that ends well leaves a clean fleet: every machine that did   *)
(* not restart since it was heard is on an address that was not in         *)
(* quarantine when the command began, the replacements and the machines    *)
(* that started meanwhile included.                                        *)
DoneIsClean ==
  cli = "done" =>
    /\ view.eligible = Worker
    /\ \A w \in Worker : heard[w] /\ vm[w].ip # NoIP => loaded[vm[w].ip] = "healthy"

(* "Repair unhealthy or quarantined workers" (README.md): a machine heard  *)
(* in the window under an address in good standing is neither, and the     *)
(* repair of others leaves it alone.                                       *)
RepairSparesHealthy ==
  [][cli = "replace" /\ cli' # cli =>
       \A m \in snapshot :
         m.ip # NoIP /\ loaded[m.ip] = "healthy" => vm'[m.id] = vm[m.id]]_rvars
=============================================================================

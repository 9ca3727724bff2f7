------------------------------- MODULE Fleet -------------------------------
(***************************************************************************)
(* The provider-native fleet: worker machines that publish a heartbeat     *)
(* every HeartbeatEvery, and the manager that registers them, tells the    *)
(* silent ones, keeps the addresses of silent workers in cooldown, and     *)
(* waits until enough workers may take work.                               *)
(*                                                                         *)
(*   internal/fleet/manager.go, fleet.go     the manager                   *)
(*   cmd/workers/generic/heartbeat.go        the heartbeats                *)
(*   cmd/heph/provider_runtime.go            who waits, and for how many   *)
(*                                                                         *)
(* The manager reads one clock.  A heartbeat is received when it is sent   *)
(* or not at all: the manager stamps it on arrival, so a late one is one   *)
(* sent later.                                                             *)
(***************************************************************************)
EXTENDS Admission

CONSTANTS
  Worker,          \* indexes of the heph-worker-N machines
  IP, Version,
  Expected,        \* ExpectedVersion, NoVersion to accept any
  Limit,           \* Placement.MaxWorkersPerHost after Normalize, 0: none
  MinUnique,       \* Placement.MinUniqueIPs after Normalize
  MinReady,        \* minReady of WaitForWorkers
  HeartbeatEvery,  \* DefaultHeartbeatInterval
  HealthTimeout,   \* DefaultHealthTimeout
  CooldownWindow,  \* defaultCooldownWindow
  MaxLost,         \* bound: heartbeats of a worker lost in a row
  MaxTime,         \* bound: how far the clock runs
  MaxBoots         \* bound: machines started or stopped in one run

ASSUME WorkersAssumption ==
  /\ Worker \subseteq Nat /\ IsFiniteSet(Worker)
  /\ IP \intersect Worker = {} /\ NoIP \notin IP \union Worker
  /\ Expected \in Version \union {NoVersion}
ASSUME CountsAssumption ==
  /\ Limit \in Nat /\ MinUnique \in Nat /\ MinReady \in Nat
  /\ MaxTime \in Nat /\ MaxBoots \in Nat /\ MaxLost \in Nat
(* "Set to 3x the heartbeat interval so transient network hiccups don't    *)
(* trigger false positives" (fleet.go): MaxLost is such a hiccup.          *)
ASSUME TimesAssumption ==
  /\ HeartbeatEvery \in Nat \ {0} /\ HealthTimeout \in Nat /\ CooldownWindow \in Nat
  /\ (MaxLost + 1) * HeartbeatEvery <= HealthTimeout

VARIABLES
  now,        \* the manager's clock
  vm,         \* the machines: running or since when not, address, image
  beat,       \* when a machine last published a heartbeat
  lost,       \* how many in a row did not arrive
  heard,      \* one arrived since the machine started (history)
  boots,      \* machines started or stopped so far
  reg,        \* NATSFleetManager.workers
  cooldowns,  \* NATSFleetManager.cooldowns: until when, 0 if absent
  phase,      \* WaitForWorkers: off, waiting, ready or gone
  view        \* the last Reconcile: when, and whom it found how

machines == <<vm, beat, lost, heard, boots>>
manager == <<reg, cooldowns, phase, view>>
vars == <<now, machines, manager>>

Time == 0..MaxTime
Key == IP \union Worker
Machine == [up : BOOLEAN, down : Time, ip : IP \union {NoIP}, ver : Version]
Unknown == [known |-> FALSE, ip |-> NoIP, ver |-> NoVersion, healthy |-> FALSE, hb |-> 0]
Info == [known : BOOLEAN, ip : IP \union {NoIP}, ver : Version \union {NoVersion},
         healthy : BOOLEAN, hb : Time]

TypeOK ==
  /\ now \in Time
  /\ vm \in [Worker -> Machine]
  /\ beat \in [Worker -> Time]
  /\ lost \in [Worker -> 0..MaxLost]
  /\ heard \in [Worker -> BOOLEAN]
  /\ boots \in 0..MaxBoots
  /\ reg \in [Worker -> Info]
  /\ cooldowns \in [Key -> Nat]
  /\ phase \in {"off", "waiting", "ready", "gone"}
  /\ view \in [at : Time, silent : SUBSET Worker, quar : SUBSET Worker,
               eligible : SUBSET Worker]

Init ==
  /\ now = 0
  /\ vm \in [Worker -> {m \in Machine : m.down = 0}]
  /\ beat = [w \in Worker |-> 0]
  /\ lost = [w \in Worker |-> 0]
  /\ heard = [w \in Worker |-> FALSE]
  /\ boots = 0
  /\ reg = [w \in Worker |-> Unknown]
  /\ cooldowns = [k \in Key |-> 0]
  /\ phase \in {"off", "waiting"}
  /\ view = [at |-> 0, silent |-> {}, quar |-> {}, eligible |-> {}]

-----------------------------------------------------------------------------
(* The machines. *)

(* A machine starts: first boot, reboot, or a replacement under the same   *)
(* worker ID, with the address it is given and the image it was built for. *)
Boot(w, ip, ver) ==
  /\ boots < MaxBoots
  /\ ~vm[w].up
  /\ vm' = [vm EXCEPT ![w] = [up |-> TRUE, down |-> vm[w].down, ip |-> ip, ver |-> ver]]
  /\ beat' = [beat EXCEPT ![w] = now]
  /\ lost' = [lost EXCEPT ![w] = 0]
  /\ heard' = [heard EXCEPT ![w] = FALSE]
  /\ boots' = boots + 1
  /\ UNCHANGED <<now, manager>>

Stop(w) ==
  /\ boots < MaxBoots
  /\ vm[w].up
  /\ vm' = [vm EXCEPT ![w] = [up |-> FALSE, down |-> now, ip |-> vm[w].ip, ver |-> vm[w].ver]]
  /\ boots' = boots + 1
  /\ UNCHANGED <<now, beat, lost, heard, manager>>

(* Time passes, but no heartbeat of a running machine is overdue. *)
Tick ==
  /\ now < MaxTime
  /\ \A w \in Worker : vm[w].up => now < beat[w] + HeartbeatEvery
  /\ now' = now + 1
  /\ UNCHANGED <<machines, manager>>

-----------------------------------------------------------------------------
(* The manager. *)

(* workerCooldownKey *)
KeyOf(info, w) == IF info.ip # NoIP THEN info.ip ELSE w

(* handleHeartbeat overwrites what was known of the worker and lifts the   *)
(* cooldown of its address, and of its ID.                                 *)
Heartbeat(w) ==
  /\ phase = "waiting"
  /\ vm[w].up
  /\ reg' = [reg EXCEPT ![w] = [known |-> TRUE, ip |-> vm[w].ip, ver |-> vm[w].ver,
                                healthy |-> TRUE, hb |-> now]]
  /\ cooldowns' = [k \in Key |->
       IF k = w \/ k = vm[w].ip THEN 0 ELSE cooldowns[k]]
  /\ beat' = [beat EXCEPT ![w] = now]
  /\ lost' = [lost EXCEPT ![w] = 0]
  /\ heard' = [heard EXCEPT ![w] = TRUE]
  /\ UNCHANGED <<now, vm, boots, phase, view>>

(* A heartbeat is lost, or published while nobody subscribes. *)
HeartbeatLost(w) ==
  /\ vm[w].up
  /\ IF phase = "waiting"
     THEN lost[w] < MaxLost /\ lost' = [lost EXCEPT ![w] = lost[w] + 1]
     ELSE UNCHANGED lost
  /\ beat' = [beat EXCEPT ![w] = now]
  /\ UNCHANGED <<now, vm, heard, boots, manager>>

Known == {w \in Worker : reg[w].known}
(* Mutants: one missed heartbeat is enough; the cooldown is waited for too. *)
MutStaleEarly(w) == now > reg[w].hb + HeartbeatEvery
MutStaleLate(w) == now > reg[w].hb + HealthTimeout + CooldownWindow
Stale(w) == now > reg[w].hb + HealthTimeout
Silent == {w \in Known : Stale(w)}

(* Workers that share the address of a silent one: Reconcile visits the    *)
(* workers in the map's random order, so each of them is looked at before  *)
(* or after the silent one puts the address into cooldown.                 *)
Exposed ==
  {w \in Known \ Silent : \E v \in Silent : KeyOf(reg[v], v) = KeyOf(reg[w], w)}

(* What the admission policy sees of w. *)
Seen(w, healthy, quar) ==
  [id |-> w, ip |-> reg[w].ip, ver |-> reg[w].ver, v6 |-> TRUE,
   healthy |-> healthy, quar |-> quar]

Policy(reputation, rollout) ==
  [expected |-> Expected, rollout |-> rollout, rep |-> reputation,
   needsV6 |-> FALSE, limit |-> Limit]

Trusted == [a \in IP |-> "healthy"]

(* Reconcile: the silent are marked and their addresses put into cooldown, *)
(* and the admission policy is applied to the copy.                        *)
Reconciled(late, f) ==
  LET quar == Silent \union late
                \union {w \in Known \ Silent : now < cooldowns[KeyOf(reg[w], w)]}
      seen == {Seen(w, w \notin Silent, w \in quar) : w \in Known}
  IN [at |-> now, silent |-> Silent, quar |-> quar,
      eligible |-> {w.id : w \in Eligible(seen, f)}]

(* One round of WaitForWorkers: Reconcile, and the decision to go on. *)
Poll(late, f) ==
  /\ phase = "waiting"
  /\ late \subseteq Exposed
  /\ view' = Reconciled(late, f)
  /\ reg' = [w \in Worker |->
       [known |-> reg[w].known, ip |-> reg[w].ip, ver |-> reg[w].ver,
        healthy |-> reg[w].healthy /\ w \notin Silent, hb |-> reg[w].hb]]
  /\ cooldowns' = [k \in Key |->
       IF \E w \in Silent : KeyOf(reg[w], w) = k THEN now + CooldownWindow
       ELSE cooldowns[k]]
  /\ phase' = IF /\ Cardinality(view'.eligible) >= MinReady
                 /\ UniqueIPs({reg[w] : w \in view'.eligible}) >= MinUnique
              THEN "ready" ELSE "waiting"
  /\ UNCHANGED <<now, machines>>

(* The caller's context ends first, or the manager is closed. *)
GiveUp ==
  /\ phase = "waiting"
  /\ phase' = "gone"
  /\ UNCHANGED <<now, machines, reg, cooldowns, view>>

Machines ==
  \/ \E w \in Worker :
       \/ \E ip \in IP \union {NoIP}, ver \in Version : Boot(w, ip, ver)
       \/ Stop(w)
       \/ HeartbeatLost(w)
  \/ Tick

WaitRound == \E late \in SUBSET Exposed : Poll(late, Policy(Trusted, NoRollout))

Returned == phase \in {"ready", "gone"} /\ UNCHANGED vars

(* The model ends with the wait. *)
Next ==
  \/ phase = "waiting" /\ Machines
  \/ \E w \in Worker : Heartbeat(w)
  \/ WaitRound
  \/ GiveUp
  \/ Returned

WaitInit == Init /\ phase = "waiting"

Spec == WaitInit /\ [][Next]_vars

(* The ticker of every machine fires, and time.After brings the next round *)
(* of the wait.  Nothing makes a machine stop or the caller give up.       *)
Fairness ==
  /\ \A w \in Worker : WF_vars(Heartbeat(w))
  /\ WF_vars(Tick)
  /\ WF_vars(WaitRound)

FairSpec == Spec /\ Fairness
-----------------------------------------------------------------------------
(* Properties. *)

(* A worker the manager counts as eligible is running, or has stopped less *)
(* than HealthTimeout before it was counted: reboots, replacements under   *)
(* the same ID and lost heartbeats included.                               *)
EligibleAlive ==
  \A w \in view.eligible : vm[w].up \/ view.at <= vm[w].down + HealthTimeout

(* "3x the heartbeat interval so transient network hiccups don't trigger   *)
(* false positives" (fleet.go): a running worker the manager has heard     *)
(* since it started is not found silent, whatever MaxLost heartbeats in a  *)
(* row are lost.                                                           *)
NoFalseAlarm ==
  phase = "waiting" => \A w \in Worker : vm[w].up /\ heard[w] => w \notin Silent

(* Any worker's heartbeat lifts the cooldown of its address: one that is   *)
(* still active began at or after the last heartbeat of every worker that  *)
(* is registered under the address.                                        *)
CooldownAfterHeartbeat ==
  \A w \in Known :
    LET until == cooldowns[KeyOf(reg[w], w)]
    IN until # 0 => until >= reg[w].hb + CooldownWindow

(* What the caller of WaitForWorkers relies on when it returns, said of    *)
(* the machines and not of what the manager recorded: those that did not   *)
(* restart since they were heard run the demanded version and are never    *)
(* more behind one address than the policy allows; and if none of the      *)
(* eligible ones did, they are enough machines on enough addresses.        *)
ReadyFleet ==
  phase = "ready" =>
    LET current == {w \in view.eligible : heard[w]}
    IN /\ \A w \in current : Expected # NoVersion => vm[w].ver = Expected
       /\ \A ip \in IP : Limit # 0 =>
            Cardinality({w \in current : vm[w].ip = ip}) <= Limit
       /\ current = view.eligible =>
            /\ Cardinality(current) >= MinReady
            /\ UniqueIPs({vm[w] : w \in current}) >= MinUnique

(* A fleet the policy has no objection to. *)
Sound ==
  \A w \in Worker :
    /\ vm[w].up
    /\ vm[w].ver = Expected
    /\ vm[w].ip # NoIP
    /\ \A v \in Worker \ {w} : vm[v].ip # vm[w].ip

(* The wait ends once all workers run, on distinct addresses, under the    *)
(* demanded version, for good: no cooldown or stale record of an earlier   *)
(* machine keeps it from ending.                                           *)
WaitEnds == <>[]Sound => <>(phase # "waiting")
=============================================================================

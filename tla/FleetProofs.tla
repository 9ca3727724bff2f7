---------------------------- MODULE FleetProofs ----------------------------
(***************************************************************************)
(* What holds of the fleet for any workers, addresses, images, timeouts    *)
(* and placement policy that meet the assumptions of Fleet; and then of    *)
(* the command that repairs it (FleetRepair).                              *)
(***************************************************************************)
EXTENDS FleetRepair, FiniteSetTheorems, TLAPS

(* The inductive invariant.  Nothing is stamped in the future; a machine   *)
(* that is down was not heard after it stopped; a running machine          *)
(* published a heartbeat in the last HeartbeatEvery, and the last one that *)
(* arrived is as many intervals older as were lost since.                  *)
StampsPast ==
  /\ view.at <= now
  /\ \A w \in Worker : reg[w].hb <= now /\ vm[w].down <= now /\ beat[w] <= now
HeardAlive == \A w \in Worker : reg[w].known => vm[w].up \/ reg[w].hb <= vm[w].down
BeatsOnTime == \A w \in Worker : vm[w].up => now <= beat[w] + HeartbeatEvery
LossesCounted ==
  phase = "waiting" => \A w \in Worker : vm[w].up /\ heard[w] =>
    beat[w] <= reg[w].hb + lost[w] * HeartbeatEvery

FleetInv ==
  /\ TypeOK
  /\ StampsPast
  /\ HeardAlive
  /\ BeatsOnTime
  /\ LossesCounted
  /\ CooldownAfterHeartbeat
  /\ EligibleAlive

-----------------------------------------------------------------------------

(* The admission policy admits none it was not shown, and only healthy     *)
(* workers, whatever else it is told.                                      *)
LEMMA EligibleAreHealthy ==
  ASSUME NEW ws, NEW f, NEW w \in Eligible(ws, f)
  PROVE  w \in ws /\ w.healthy # FALSE
<1>1. w \in ws /\ Reason(w, f) = ""
  BY DEF Eligible
<1>2. w.healthy = FALSE => Reason(w, f) = "unhealthy"
  BY DEF Reason
<1> QED
  BY <1>1, <1>2

(* A round of the wait counts no silent worker as eligible. *)
LEMMA EligibleAreFresh ==
  ASSUME NEW late, NEW f, NEW w \in Reconciled(late, f).eligible
  PROVE  w \in Known \ Silent
<1> DEFINE quar == Silent \union late
                     \union {v \in Known \ Silent : now < cooldowns[KeyOf(reg[v], v)]}
           seen == {Seen(v, v \notin Silent, v \in quar) : v \in Known}
<1>1. PICK x \in Eligible(seen, f) : w = x.id
  BY DEF Reconciled
<1>2. x \in seen /\ x.healthy # FALSE
  BY <1>1, EligibleAreHealthy
<1>3. PICK v \in Known : x = Seen(v, v \notin Silent, v \in quar)
  BY <1>2
<1>4. x.id = v /\ x.healthy = (v \notin Silent)
  BY <1>3 DEF Seen
<1>5. v \in Silent => x.healthy = FALSE
  BY <1>4
<1> QED
  BY <1>1, <1>2, <1>3, <1>4, <1>5

LEMMA KeyType ==
  ASSUME NEW w \in Worker, NEW info, info.ip \in IP \union {NoIP}
  PROVE  KeyOf(info, w) \in Key
  BY DEF KeyOf, Key

(* (n + 1) * k = n * k + k, and products of naturals keep their order. *)
LEMMA Products ==
  ASSUME NEW n \in Nat, NEW m \in Nat, NEW k \in Nat, n <= m
  PROVE  /\ n * k \in Nat
         /\ (n + 1) * k = n * k + k
         /\ n * k <= m * k
<1>1. PICK d \in Nat : m = n + d
  BY SMT
<1>2. n * k \in Nat /\ d * k \in Nat
  BY SMT
<1>3. m * k = n * k + d * k
  BY <1>1, SMT
<1> QED
  BY <1>2, <1>3, SMT

-----------------------------------------------------------------------------

LEMMA InitInv == Init => FleetInv
<1> SUFFICES ASSUME Init PROVE FleetInv
  OBVIOUS
<1> USE CountsAssumption, TimesAssumption
<1>0. 0 \in Time /\ Time \subseteq Nat
  BY DEF Time
<1>1. TypeOK
  BY <1>0 DEF Init, TypeOK, Machine, Info, Unknown, Key
<1>2. StampsPast
  BY <1>0 DEF Init, StampsPast, Machine, Unknown
<1>3. HeardAlive /\ BeatsOnTime /\ LossesCounted /\ EligibleAlive
  BY <1>0 DEF Init, HeardAlive, BeatsOnTime, LossesCounted, EligibleAlive, Unknown
<1>4. CooldownAfterHeartbeat
  BY DEF Init, CooldownAfterHeartbeat, Known, Unknown
<1> QED
  BY <1>1, <1>2, <1>3, <1>4 DEF FleetInv

(* What TypeOK says of the numbers, ready for arithmetic. *)
LEMMA Numbers ==
  ASSUME TypeOK, NEW w \in Worker
  PROVE  /\ now \in Nat /\ now <= MaxTime
         /\ view.at \in Nat
         /\ reg[w].hb \in Nat /\ vm[w].down \in Nat /\ beat[w] \in Nat
         /\ lost[w] \in Nat /\ lost[w] <= MaxLost
         /\ reg[w].ip \in IP \union {NoIP} /\ vm[w].ip \in IP \union {NoIP}
  BY CountsAssumption DEF TypeOK, Time, Info, Machine

LEMMA BootInv ==
  ASSUME FleetInv, NEW w \in Worker, NEW ip \in IP \union {NoIP}, NEW ver \in Version,
         Boot(w, ip, ver)
  PROVE  FleetInv'
<1> USE CountsAssumption, TimesAssumption
<1>1. TypeOK'
  <2>1. vm' \in [Worker -> Machine]
    BY DEF FleetInv, TypeOK, Boot, Machine
  <2>2. boots' \in 0..MaxBoots
    BY DEF FleetInv, TypeOK, Boot
  <2> QED
    BY <2>1, <2>2 DEF FleetInv, TypeOK, Boot, manager
<1>2. StampsPast'
  BY Numbers DEF FleetInv, TypeOK, StampsPast, Boot, manager
<1>3. HeardAlive' /\ EligibleAlive'
  BY DEF FleetInv, TypeOK, HeardAlive, EligibleAlive, Boot, manager
<1>4. BeatsOnTime' /\ LossesCounted'
  BY Numbers DEF FleetInv, TypeOK, BeatsOnTime, LossesCounted, Boot, manager
<1>5. CooldownAfterHeartbeat'
  BY DEF FleetInv, CooldownAfterHeartbeat, Known, KeyOf, Boot, manager
<1> QED
  BY <1>1, <1>2, <1>3, <1>4, <1>5 DEF FleetInv

LEMMA StopInv ==
  ASSUME FleetInv, NEW w \in Worker, Stop(w)
  PROVE  FleetInv'
<1> USE CountsAssumption, TimesAssumption
<1>1. TypeOK'
  <2>1. vm' \in [Worker -> Machine]
    BY DEF FleetInv, TypeOK, Stop, Machine
  <2>2. boots' \in 0..MaxBoots
    BY DEF FleetInv, TypeOK, Stop
  <2> QED
    BY <2>1, <2>2 DEF FleetInv, TypeOK, Stop, manager
<1>2. StampsPast'
  BY Numbers DEF FleetInv, TypeOK, StampsPast, Stop, manager
<1>3. HeardAlive' /\ EligibleAlive'
  BY Numbers DEF FleetInv, TypeOK, StampsPast, HeardAlive, EligibleAlive, Stop, manager
<1>4. BeatsOnTime' /\ LossesCounted'
  BY DEF FleetInv, TypeOK, BeatsOnTime, LossesCounted, Stop, manager
<1>5. CooldownAfterHeartbeat'
  BY DEF FleetInv, CooldownAfterHeartbeat, Known, KeyOf, Stop, manager
<1> QED
  BY <1>1, <1>2, <1>3, <1>4, <1>5 DEF FleetInv

LEMMA LostInv ==
  ASSUME FleetInv, NEW w \in Worker, HeartbeatLost(w), phase = "waiting"
  PROVE  FleetInv'
<1> USE CountsAssumption, TimesAssumption
<1>1. TypeOK'
  BY DEF FleetInv, TypeOK, HeartbeatLost, manager
<1>2. StampsPast' /\ BeatsOnTime'
  BY Numbers DEF FleetInv, TypeOK, StampsPast, BeatsOnTime, HeartbeatLost, manager
<1>3. HeardAlive' /\ EligibleAlive'
  BY DEF FleetInv, HeardAlive, EligibleAlive, HeartbeatLost, manager
<1>4. LossesCounted'
  <2> SUFFICES ASSUME NEW v \in Worker, vm[v].up, heard[v]
               PROVE  beat'[v] <= reg[v].hb + lost'[v] * HeartbeatEvery
    BY DEF LossesCounted, HeartbeatLost, manager
  <2>1. CASE v # w
    BY <2>1 DEF FleetInv, TypeOK, LossesCounted, HeartbeatLost
  <2>2. CASE v = w
    <3>1. beat'[v] = now /\ lost'[v] = lost[v] + 1
      BY <2>2 DEF FleetInv, TypeOK, HeartbeatLost
    <3>2. /\ lost[v] * HeartbeatEvery \in Nat
          /\ (lost[v] + 1) * HeartbeatEvery = lost[v] * HeartbeatEvery + HeartbeatEvery
      BY Numbers, Products DEF FleetInv
    <3>3. now <= beat[v] + HeartbeatEvery
      BY DEF FleetInv, BeatsOnTime
    <3>4. beat[v] <= reg[v].hb + lost[v] * HeartbeatEvery
      BY DEF FleetInv, LossesCounted
    <3>5. /\ now \in Nat /\ beat[v] \in Nat /\ reg[v].hb \in Nat
          /\ HeartbeatEvery \in Nat
      BY Numbers DEF FleetInv
    <3> HIDE CountsAssumption, TimesAssumption
    <3> QED
      BY <3>1, <3>2, <3>3, <3>4, <3>5
  <2> QED
    BY <2>1, <2>2
<1>5. CooldownAfterHeartbeat'
  BY DEF FleetInv, CooldownAfterHeartbeat, Known, KeyOf, HeartbeatLost, manager
<1> QED
  BY <1>1, <1>2, <1>3, <1>4, <1>5 DEF FleetInv

LEMMA TickInv ==
  ASSUME FleetInv, Tick
  PROVE  FleetInv'
<1> USE CountsAssumption, TimesAssumption
<1>1. TypeOK'
  BY DEF FleetInv, TypeOK, Tick, Time, machines, manager
<1>2. StampsPast' /\ BeatsOnTime'
  BY Numbers DEF FleetInv, TypeOK, StampsPast, BeatsOnTime, Tick, Time, machines, manager
<1>3. HeardAlive' /\ EligibleAlive' /\ LossesCounted'
  BY DEF FleetInv, HeardAlive, EligibleAlive, LossesCounted, Tick, machines, manager
<1>4. CooldownAfterHeartbeat'
  BY DEF FleetInv, CooldownAfterHeartbeat, Known, KeyOf, Tick, machines, manager
<1> QED
  BY <1>1, <1>2, <1>3, <1>4 DEF FleetInv

LEMMA HeartbeatInv ==
  ASSUME FleetInv, NEW w \in Worker, Heartbeat(w)
  PROVE  FleetInv'
<1> USE CountsAssumption, TimesAssumption
<1>0. /\ reg' = [reg EXCEPT ![w] = [known |-> TRUE, ip |-> vm[w].ip, ver |-> vm[w].ver,
                                    healthy |-> TRUE, hb |-> now]]
      /\ reg \in [Worker -> Info] /\ vm[w] \in Machine /\ now \in Time
  BY DEF FleetInv, TypeOK, Heartbeat
<1>1. TypeOK'
  <2>1. reg' \in [Worker -> Info]
    BY <1>0 DEF Info, Machine
  <2>2. cooldowns' \in [Key -> Nat]
    BY DEF FleetInv, TypeOK, Heartbeat
  <2>3. beat' \in [Worker -> Time] /\ lost' \in [Worker -> 0..MaxLost]
    BY DEF FleetInv, TypeOK, Heartbeat
  <2> QED
    BY <2>1, <2>2, <2>3 DEF FleetInv, TypeOK, Heartbeat
<1>2. StampsPast' /\ BeatsOnTime'
  BY <1>0, Numbers DEF FleetInv, TypeOK, StampsPast, BeatsOnTime, Heartbeat
<1>3. HeardAlive' /\ EligibleAlive'
  BY <1>0 DEF FleetInv, HeardAlive, EligibleAlive, Heartbeat
<1>4. LossesCounted'
  <2> SUFFICES ASSUME NEW v \in Worker, vm[v].up, heard'[v], phase = "waiting"
               PROVE  beat'[v] <= reg'[v].hb + lost'[v] * HeartbeatEvery
    BY DEF LossesCounted, Heartbeat
  <2>1. CASE v # w
    <3>1. beat'[v] = beat[v] /\ reg'[v] = reg[v] /\ lost'[v] = lost[v] /\ heard[v]
      BY <2>1, <1>0 DEF FleetInv, TypeOK, Heartbeat
    <3> QED
      BY <3>1 DEF FleetInv, LossesCounted
  <2>2. CASE v = w
    <3>1. beat'[v] = now /\ reg'[v].hb = now /\ lost'[v] = 0
      BY <2>2, <1>0 DEF FleetInv, TypeOK, Heartbeat
    <3> QED
      BY <3>1, Numbers DEF FleetInv
  <2> QED
    BY <2>1, <2>2
<1>5. CooldownAfterHeartbeat'
  <2> SUFFICES ASSUME NEW v \in Worker, reg'[v].known,
                      cooldowns'[KeyOf(reg'[v], v)] # 0
               PROVE  cooldowns'[KeyOf(reg'[v], v)] >= reg'[v].hb + CooldownWindow
    BY DEF CooldownAfterHeartbeat, Known
  <2>1. CASE v = w
    <3>1. reg'[v].ip = vm[w].ip
      BY <2>1, <1>0
    <3>2. KeyOf(reg'[v], v) \in Key /\ (KeyOf(reg'[v], v) = w \/ KeyOf(reg'[v], v) = vm[w].ip)
      BY <2>1, <3>1, Numbers, KeyType DEF KeyOf, FleetInv
    <3> QED
      BY <3>2 DEF Heartbeat
  <2>2. CASE v # w
    <3>1. reg'[v] = reg[v]
      BY <2>2, <1>0
    <3>2. KeyOf(reg[v], v) \in Key
      BY Numbers, KeyType DEF FleetInv
    <3>3. cooldowns'[KeyOf(reg[v], v)] = cooldowns[KeyOf(reg[v], v)]
      BY <3>1, <3>2 DEF Heartbeat
    <3> QED
      BY <3>1, <3>3 DEF FleetInv, CooldownAfterHeartbeat, Known
  <2> QED
    BY <2>1, <2>2
<1> QED
  BY <1>1, <1>2, <1>3, <1>4, <1>5 DEF FleetInv

LEMMA PollInv ==
  ASSUME FleetInv, NEW late, NEW f, Poll(late, f)
  PROVE  FleetInv'
<1> USE CountsAssumption, TimesAssumption
<1>0. /\ Known \subseteq Worker /\ Silent \subseteq Worker /\ late \subseteq Worker
      /\ view' = Reconciled(late, f)
      /\ now \in Time
  BY DEF Known, Silent, Exposed, Poll, FleetInv, TypeOK
<1>r. \A w \in Worker :
       /\ reg'[w].known = reg[w].known /\ reg'[w].hb = reg[w].hb
       /\ reg'[w].ip = reg[w].ip /\ reg'[w].ver = reg[w].ver
  BY DEF Poll
<1>1. TypeOK'
  <2>1. reg' \in [Worker -> Info]
    <3> SUFFICES ASSUME NEW w \in Worker
                 PROVE  [known |-> reg[w].known, ip |-> reg[w].ip, ver |-> reg[w].ver,
                         healthy |-> reg[w].healthy /\ w \notin Silent,
                         hb |-> reg[w].hb] \in Info
      BY DEF Poll
    <3>1. reg[w] \in Info
      BY DEF FleetInv, TypeOK
    <3>2. (reg[w].healthy /\ w \notin Silent) \in BOOLEAN
      BY Zenon
    <3> QED
      BY <3>1, <3>2 DEF Info
  <2>2. cooldowns' \in [Key -> Nat]
    BY <1>0 DEF FleetInv, TypeOK, Poll, Time
  <2>3. Reconciled(late, f).eligible \subseteq Worker
    BY <1>0, EligibleAreFresh
  <2>4. /\ Reconciled(late, f).at = now
        /\ Reconciled(late, f).silent \subseteq Worker
        /\ Reconciled(late, f).quar \subseteq Worker
    BY <1>0 DEF Reconciled
  <2>5. view' = [at |-> view'.at, silent |-> view'.silent, quar |-> view'.quar,
                 eligible |-> view'.eligible]
    BY <1>0 DEF Reconciled
  <2>6. view' \in [at : Time, silent : SUBSET Worker, quar : SUBSET Worker,
                   eligible : SUBSET Worker]
    BY <1>0, <2>3, <2>4, <2>5
  <2> QED
    BY <2>1, <2>2, <2>6 DEF FleetInv, TypeOK, Poll, machines
<1>2. view'.at = now
  BY <1>0 DEF Reconciled
<1>3. StampsPast'
  <2>1. now \in Nat /\ now' = now
    BY <1>0 DEF Time, Poll
  <2> QED
    BY <1>2, <1>r, <2>1 DEF FleetInv, StampsPast, Poll, machines
<1>4. HeardAlive' /\ BeatsOnTime' /\ LossesCounted'
  BY <1>r DEF FleetInv, HeardAlive, BeatsOnTime, LossesCounted, Poll, machines
<1>5. CooldownAfterHeartbeat'
  <2> SUFFICES ASSUME NEW w \in Worker, reg[w].known,
                      cooldowns'[KeyOf(reg[w], w)] # 0
               PROVE  cooldowns'[KeyOf(reg[w], w)] >= reg[w].hb + CooldownWindow
    BY <1>r DEF CooldownAfterHeartbeat, Known, KeyOf
  <2>1. KeyOf(reg[w], w) \in Key
    BY Numbers, KeyType DEF FleetInv
  <2>2. CASE \E v \in Silent : KeyOf(reg[v], v) = KeyOf(reg[w], w)
    <3>1. cooldowns'[KeyOf(reg[w], w)] = now + CooldownWindow
      BY <2>1, <2>2 DEF Poll
    <3> QED
      BY <3>1, Numbers DEF FleetInv, StampsPast
  <2>3. CASE ~\E v \in Silent : KeyOf(reg[v], v) = KeyOf(reg[w], w)
    <3>1. cooldowns'[KeyOf(reg[w], w)] = cooldowns[KeyOf(reg[w], w)]
      BY <2>1, <2>3 DEF Poll
    <3> QED
      BY <3>1 DEF FleetInv, CooldownAfterHeartbeat, Known
  <2> QED
    BY <2>2, <2>3
<1>6. EligibleAlive'
  <2> SUFFICES ASSUME NEW w \in view'.eligible
               PROVE  vm[w].up \/ now <= vm[w].down + HealthTimeout
    BY <1>2 DEF EligibleAlive, Poll, machines
  <2>1. w \in Known \ Silent
    BY <1>0, EligibleAreFresh
  <2>2. w \in Worker /\ reg[w].known /\ ~(now > reg[w].hb + HealthTimeout)
    BY <2>1 DEF Known, Silent, Stale
  <2> QED
    BY <2>2, Numbers DEF FleetInv, HeardAlive
<1> QED
  BY <1>1, <1>3, <1>4, <1>5, <1>6 DEF FleetInv

LEMMA StepInv == FleetInv /\ [Next]_vars => FleetInv'
<1> SUFFICES ASSUME FleetInv, [Next]_vars PROVE FleetInv'
  OBVIOUS
<1>1. CASE phase = "waiting" /\ Machines
  BY <1>1, BootInv, StopInv, LostInv, TickInv DEF Machines
<1>2. CASE \E w \in Worker : Heartbeat(w)
  BY <1>2, HeartbeatInv
<1>3. CASE WaitRound
  BY <1>3, PollInv DEF WaitRound
<1>4. CASE GiveUp
  BY <1>4 DEF GiveUp, FleetInv, TypeOK, StampsPast, HeardAlive, BeatsOnTime, LossesCounted,
              CooldownAfterHeartbeat, EligibleAlive, Known, KeyOf, machines
<1>5. CASE UNCHANGED vars
  BY <1>5 DEF vars, machines, manager, FleetInv, TypeOK, StampsPast, HeardAlive, BeatsOnTime,
              LossesCounted, CooldownAfterHeartbeat, EligibleAlive, Known, KeyOf
<1> QED
  BY <1>1, <1>2, <1>3, <1>4, <1>5 DEF Next, Returned

LEMMA FleetInvariant == Spec => []FleetInv
<1>1. Init /\ phase = "waiting" => FleetInv
  BY InitInv
<1> QED
  BY <1>1, StepInv, PTL DEF Spec, WaitInit

-----------------------------------------------------------------------------

(* Every variable keeps its type. *)
THEOREM FleetTypeCorrect == Spec => []TypeOK
<1>1. FleetInv => TypeOK
  BY DEF FleetInv
<1> QED
  BY <1>1, FleetInvariant, PTL

(* Whom the manager calls eligible (Reconcile, applyAdmissionPolicy) runs, *)
(* or ran at most HealthTimeout before.                                    *)
THEOREM EligibleWorkersAreAlive == Spec => []EligibleAlive
<1>1. FleetInv => EligibleAlive
  BY DEF FleetInv
<1> QED
  BY <1>1, FleetInvariant, PTL

(* A heartbeat ends the cooldown of its address (handleHeartbeat), so an   *)
(* active one is never older than what is known of a worker behind it.     *)
THEOREM HeartbeatsLiftCooldowns == Spec => []CooldownAfterHeartbeat
<1>1. FleetInv => CooldownAfterHeartbeat
  BY DEF FleetInv
<1> QED
  BY <1>1, FleetInvariant, PTL

(* HealthTimeout, a multiple of the heartbeat interval, covers a hiccup of *)
(* MaxLost heartbeats: the manager declares no running worker silent.      *)
THEOREM HiccupsRaiseNoAlarm == Spec => []NoFalseAlarm
<1>1. FleetInv => NoFalseAlarm
  <2> SUFFICES ASSUME FleetInv, phase = "waiting", NEW w \in Worker, vm[w].up, heard[w]
               PROVE  ~(now > reg[w].hb + HealthTimeout)
    BY DEF NoFalseAlarm, Silent, Stale
  <2>1. now <= beat[w] + HeartbeatEvery
    BY DEF FleetInv, BeatsOnTime
  <2>2. beat[w] <= reg[w].hb + lost[w] * HeartbeatEvery
    BY DEF FleetInv, LossesCounted
  <2>3. /\ now \in Nat /\ beat[w] \in Nat /\ reg[w].hb \in Nat
        /\ lost[w] \in Nat /\ lost[w] <= MaxLost
    BY Numbers DEF FleetInv
  <2>4. MaxLost \in Nat /\ HeartbeatEvery \in Nat /\ HealthTimeout \in Nat
    BY CountsAssumption, TimesAssumption
  <2>5. /\ lost[w] * HeartbeatEvery \in Nat
        /\ lost[w] * HeartbeatEvery <= MaxLost * HeartbeatEvery
    BY <2>3, <2>4, Products
  <2>6. /\ MaxLost * HeartbeatEvery \in Nat
        /\ (MaxLost + 1) * HeartbeatEvery = MaxLost * HeartbeatEvery + HeartbeatEvery
    BY <2>4, Products
  <2>7. MaxLost * HeartbeatEvery + HeartbeatEvery <= HealthTimeout
    BY <2>6, TimesAssumption
  <2> QED
    BY <2>1, <2>2, <2>3, <2>4, <2>5, <2>6, <2>7
<1> QED
  BY <1>1, FleetInvariant, PTL

-----------------------------------------------------------------------------
(* What the caller of WaitForWorkers relies on: ReadyFleet.                *)

(* What the manager recorded of a worker it heard since it started is what *)
(* the machine is.                                                         *)
RegistryAgrees ==
  \A w \in Worker : heard[w] =>
    reg[w].known /\ reg[w].ip = vm[w].ip /\ reg[w].ver = vm[w].ver

(* What the policy demands of each worker it admits. *)
LEMMA EligibleMeetPolicy ==
  ASSUME NEW ws, NEW f, NEW w \in Eligible(ws, f)
  PROVE  /\ w \in ws
         /\ f.expected # NoVersion => w.ver = f.expected
         /\ w.ip # NoIP => f.rep[w.ip] \notin {"cooling_down", "quarantined", "retired"}
<1>1. w \in ws /\ Reason(w, f) = ""
  BY DEF Eligible
<1>2. ASSUME w.ip # NoIP, f.rep[w.ip] \in {"cooling_down", "quarantined", "retired"}
      PROVE  Reason(w, f) # ""
  BY <1>2 DEF Reason
<1>3. ASSUME f.expected # NoVersion, w.ver # f.expected PROVE Reason(w, f) # ""
  BY <1>3 DEF Reason
<1> QED BY <1>1, <1>2, <1>3

(* If each member of T has fewer than k members of S before it, in an      *)
(* order of S by distinct numbers, then T has at most k members: how many  *)
(* there are before it tells the members of T apart.                       *)
LEMMA RankedBelow ==
  ASSUME NEW S, IsFiniteSet(S), NEW num \in [S -> Nat], NEW k \in Nat \ {0},
         \A v, w \in S : num[v] = num[w] => v = w,
         NEW T \in SUBSET S,
         \A w \in T : Cardinality({v \in S : num[v] < num[w]}) < k
  PROVE  IsFiniteSet(T) /\ Cardinality(T) <= k
<1> DEFINE before(w) == {v \in S : num[v] < num[w]}
           place == [w \in T |-> Cardinality(before(w))]
<1>1. \A w \in S : IsFiniteSet(before(w)) /\ Cardinality(before(w)) \in Nat
  <2> SUFFICES ASSUME NEW w \in S
               PROVE  IsFiniteSet(before(w)) /\ Cardinality(before(w)) \in Nat
    OBVIOUS
  <2>1. before(w) \in SUBSET S
    OBVIOUS
  <2>2. IsFiniteSet(before(w))
    BY <2>1, FS_Subset
  <2> QED BY <2>2, FS_CardinalityType
<1>2. ASSUME NEW v \in T, NEW w \in T, num[v] < num[w]
      PROVE  Cardinality(before(v)) # Cardinality(before(w))
  <2>1. num[v] \in Nat /\ num[w] \in Nat /\ \A u \in S : num[u] \in Nat
    OBVIOUS
  <2>2. \A u \in S : num[u] < num[v] => num[u] < num[w]
    BY <1>2, <2>1
  <2>3. before(v) \in SUBSET before(w)
    BY <2>2
  <2>4. v \in before(w) /\ v \notin before(v)
    BY <1>2, <2>1
  <2>5. IsFiniteSet(before(w))
    BY <1>1
  <2> HIDE DEF before
  <2> QED BY <2>3, <2>4, <2>5, FS_Subset
<1>3. place \in Injection(T, 0..(k - 1))
  <2>1. place \in [T -> 0..(k - 1)]
    BY <1>1
  <2>2. ASSUME NEW v \in T, NEW w \in T, place[v] = place[w] PROVE v = w
    <3>1. ~(num[v] < num[w]) /\ ~(num[w] < num[v])
      BY <1>2, <2>2
    <3>2. num[v] \in Nat /\ num[w] \in Nat
      OBVIOUS
    <3>3. num[v] = num[w]
      BY <3>1, <3>2
    <3> QED BY <3>3
  <2> HIDE DEF place
  <2> QED BY <2>1, <2>2 DEF Injection, IsInjective
<1>4. IsFiniteSet(0..(k - 1)) /\ Cardinality(0..(k - 1)) = k
  <2>1. 0 \in Int /\ k - 1 \in Int /\ ~(0 > k - 1) /\ (k - 1) - 0 + 1 = k
    OBVIOUS
  <2>2. /\ IsFiniteSet(0..(k - 1))
        /\ Cardinality(0..(k - 1)) = IF 0 > k - 1 THEN 0 ELSE (k - 1) - 0 + 1
    BY <2>1, FS_Interval
  <2> QED BY <2>1, <2>2
<1> HIDE DEF place
<1>5. IsFiniteSet(T) /\ Cardinality(T) <= Cardinality(0..(k - 1))
  BY <1>3, <1>4, FS_Injection
<1> QED BY <1>4, <1>5

(* The placement limit: of the workers with one placement identity at most *)
(* f.limit are admitted.                                                   *)
LEMMA LimitHolds ==
  ASSUME NEW ws, NEW f, NEW ident, IsFiniteSet(ws), f.limit \in Nat \ {0},
         \A w \in ws : w.id \in Nat,
         \A v, w \in ws : v.id = w.id => v = w
  PROVE  /\ IsFiniteSet({w \in Eligible(ws, f) : Identity(w) = ident})
         /\ Cardinality({w \in Eligible(ws, f) : Identity(w) = ident}) <= f.limit
<1> DEFINE S == {w \in ws : Reason(w, f) = "" /\ Identity(w) = ident}
           T == {w \in Eligible(ws, f) : Identity(w) = ident}
           num == [w \in S |-> w.id]
<1>1. S \in SUBSET ws /\ num \in [S -> Nat]
  OBVIOUS
<1>2. IsFiniteSet(S)
  BY <1>1, FS_Subset
<1>3. \A v, w \in S : num[v] = num[w] => v = w
  OBVIOUS
<1>4. T \in SUBSET S
  BY DEF Eligible
<1>5. ASSUME NEW w \in T PROVE Cardinality({v \in S : num[v] < num[w]}) < f.limit
  <2>1. f.limit # 0
    OBVIOUS
  <2>2. Cardinality({v \in {u \in ws : Reason(u, f) = ""} :
                       Identity(v) = Identity(w) /\ v.id < w.id}) < f.limit
    BY <2>1 DEF Eligible
  <2>3. {v \in S : num[v] < num[w]}
          = {v \in {u \in ws : Reason(u, f) = ""} : Identity(v) = Identity(w) /\ v.id < w.id}
    BY <1>4
  <2> QED BY <2>2, <2>3
<1> HIDE DEF S, T, num
<1>6. IsFiniteSet(T) /\ Cardinality(T) <= f.limit
  BY <1>1, <1>2, <1>3, <1>4, <1>5, RankedBelow
<1> QED BY <1>6 DEF T

(* The records a round shows to the policy. *)
Shown(late) ==
  LET quar == Silent \union late
                \union {v \in Known \ Silent : now < cooldowns[KeyOf(reg[v], v)]}
  IN {Seen(v, v \notin Silent, v \in quar) : v \in Known}

LEMMA ShownWorkers ==
  ASSUME NEW late
  PROVE  /\ IsFiniteSet(Shown(late))
         /\ \A x \in Shown(late) :
              x.id \in Worker /\ x.ip = reg[x.id].ip /\ x.ver = reg[x.id].ver
         /\ \A x, y \in Shown(late) : x.id = y.id => x = y
<1> DEFINE quar == Silent \union late
                     \union {v \in Known \ Silent : now < cooldowns[KeyOf(reg[v], v)]}
           f == [v \in Known |-> Seen(v, v \notin Silent, v \in quar)]
<1>1. Known \in SUBSET Worker
  BY DEF Known
<1>2. IsFiniteSet(Known)
  BY <1>1, FS_Subset, WorkersAssumption
<1>3. \A x \in Shown(late) : \E v \in Known : x = f[v]
  BY DEF Shown
<1>4. \A v \in Known : f[v] \in Shown(late)
  BY DEF Shown
<1>5. f \in Surjection(Known, Shown(late))
  BY <1>3, <1>4 DEF Surjection
<1>6. \A v \in Known : f[v].id = v /\ f[v].ip = reg[v].ip /\ f[v].ver = reg[v].ver
  BY DEF Seen
<1> HIDE DEF f
<1> QED BY <1>1, <1>2, <1>3, <1>5, <1>6, FS_Surjection

LEMMA EligibleShown ==
  ASSUME NEW late, NEW f, NEW w \in Reconciled(late, f).eligible
  PROVE  \E x \in Eligible(Shown(late), f) : x.id = w
  BY DEF Reconciled, Shown

(* A round that ends the wait finds what the policy demands. *)
LEMMA ReadyRound ==
  ASSUME FleetInv, RegistryAgrees, NEW late, Poll(late, Policy(Trusted, NoRollout))
  PROVE  ReadyFleet'
<1> DEFINE f == Policy(Trusted, NoRollout)
           E == Reconciled(late, f).eligible
           current == {w \in E : heard[w]}
<1>1. view'.eligible = E /\ vm' = vm /\ heard' = heard
  BY DEF Poll, machines
<1>2. \A w \in E : w \in Worker /\ \E x \in Eligible(Shown(late), f) : x.id = w
  BY EligibleAreFresh, EligibleShown DEF Known
<1>3. \A w \in current : reg[w].ip = vm[w].ip /\ reg[w].ver = vm[w].ver
  BY <1>2 DEF RegistryAgrees
<1>4. ASSUME NEW w \in current, Expected # NoVersion PROVE vm[w].ver = Expected
  <2>1. PICK x \in Eligible(Shown(late), f) : x.id = w
    BY <1>2
  <2>2. x \in Shown(late) /\ x.ver = Expected
    BY <1>4, EligibleMeetPolicy DEF Policy
  <2> QED BY <1>3, <2>1, <2>2, ShownWorkers
<1>5. ASSUME NEW ip \in IP, Limit # 0
      PROVE  Cardinality({w \in current : vm[w].ip = ip}) <= Limit
  <2> DEFINE behind == {w \in current : vm[w].ip = ip}
             together == {x \in Eligible(Shown(late), f) : Identity(x) = ip}
             rec == [w \in behind |-> CHOOSE x \in Eligible(Shown(late), f) : x.id = w]
  <2>1. f.limit = Limit /\ Limit \in Nat \ {0}
    BY <1>5, CountsAssumption DEF Policy
  <2>2. /\ \A x \in Shown(late) : x.id \in Nat
        /\ \A x, y \in Shown(late) : x.id = y.id => x = y
        /\ IsFiniteSet(Shown(late))
    BY ShownWorkers, WorkersAssumption, Zenon
  <2>3. IsFiniteSet(together) /\ Cardinality(together) <= Limit
    <3> HIDE DEF f
    <3>1. f.limit \in Nat \ {0}
      BY <2>1
    <3>2. IsFiniteSet(together) /\ Cardinality(together) <= f.limit
      BY <2>2, <3>1, LimitHolds, Zenon
    <3> QED BY <2>1, <3>2
  <2>4. \A w \in behind : rec[w] \in together /\ rec[w].id = w
    <3> SUFFICES ASSUME NEW w \in behind PROVE rec[w] \in together /\ rec[w].id = w
      OBVIOUS
    <3>1. rec[w] \in Eligible(Shown(late), f) /\ rec[w].id = w
      BY <1>2
    <3>2. rec[w].ip = ip
      BY <1>3, <3>1, ShownWorkers, EligibleMeetPolicy
    <3>3. ip # NoIP
      BY WorkersAssumption
    <3> QED BY <3>1, <3>2, <3>3 DEF Identity
  <2>5. rec \in Injection(behind, together)
    <3>1. rec \in [behind -> together]
      BY <2>4
    <3>2. \A v, w \in behind : rec[v] = rec[w] => v = w
      BY <2>4
    <3> HIDE DEF rec, behind, together
    <3> QED BY <3>1, <3>2 DEF Injection, IsInjective
  <2>6. IsFiniteSet(behind) /\ Cardinality(behind) <= Cardinality(together)
    BY <2>3, <2>5, FS_Injection
  <2>7. Cardinality(behind) \in Nat /\ Cardinality(together) \in Nat /\ Limit \in Nat
    BY <2>1, <2>3, <2>6, FS_CardinalityType
  <2> QED BY <2>3, <2>6, <2>7
<1>6. ASSUME current = E, phase' = "ready"
      PROVE  /\ Cardinality(current) >= MinReady
             /\ UniqueIPs({vm[w] : w \in current}) >= MinUnique
  <2>1. Cardinality(E) >= MinReady /\ UniqueIPs({reg[w] : w \in E}) >= MinUnique
    BY <1>1, <1>6 DEF Poll
  <2>2. {r.ip : r \in {reg[w] : w \in E}} = {m.ip : m \in {vm[w] : w \in E}}
    BY <1>3, <1>6
  <2> QED BY <1>6, <2>1, <2>2 DEF UniqueIPs
<1> QED BY <1>1, <1>4, <1>5, <1>6 DEF ReadyFleet

(* The parts of the types that do not depend on the images being known:    *)
(* heph fleet reconcile may install machines with no version at all.       *)
Shape ==
  /\ now \in Nat
  /\ vm \in [Worker -> [up : BOOLEAN, down : Nat, ip : IP \union {NoIP},
                        ver : Version \union {NoVersion}]]
  /\ heard \in [Worker -> BOOLEAN]
  /\ reg \in [Worker -> [known : BOOLEAN, ip : IP \union {NoIP},
                         ver : Version \union {NoVersion}, healthy : BOOLEAN, hb : Nat]]

LEMMA ShapeOfTypes == TypeOK => Shape
<1> SUFFICES ASSUME TypeOK PROVE Shape
  OBVIOUS
<1>1. Time \subseteq Nat
  BY CountsAssumption DEF Time
<1>2. Machine \subseteq [up : BOOLEAN, down : Nat, ip : IP \union {NoIP},
                        ver : Version \union {NoVersion}]
  BY <1>1 DEF Machine
<1>3. Info \subseteq [known : BOOLEAN, ip : IP \union {NoIP},
                     ver : Version \union {NoVersion}, healthy : BOOLEAN, hb : Nat]
  BY <1>1 DEF Info
<1> QED BY <1>1, <1>2, <1>3 DEF TypeOK, Shape

LEMMA AgreesStep ==
  ASSUME Shape, RegistryAgrees,
         \/ Machines \/ GiveUp \/ UNCHANGED vars
         \/ \E w \in Worker : Heartbeat(w)
         \/ \E late, f : Poll(late, f)
  PROVE  RegistryAgrees'
<1> USE DEF RegistryAgrees, machines, manager
<1>1. ASSUME NEW w \in Worker, NEW ip, NEW ver, Boot(w, ip, ver) PROVE RegistryAgrees'
  BY <1>1 DEF Boot, Shape
<1>2. ASSUME NEW w \in Worker, Stop(w) PROVE RegistryAgrees'
  BY <1>2 DEF Stop, Shape
<1>3. ASSUME NEW w \in Worker, HeartbeatLost(w) PROVE RegistryAgrees'
  BY <1>3 DEF HeartbeatLost
<1>4. ASSUME NEW w \in Worker, Heartbeat(w) PROVE RegistryAgrees'
  BY <1>4 DEF Heartbeat, Shape
<1>5. ASSUME NEW late, NEW f, Poll(late, f) PROVE RegistryAgrees'
  BY <1>5 DEF Poll
<1>6. CASE Tick \/ GiveUp \/ UNCHANGED vars
  BY <1>6 DEF Tick, GiveUp, vars
<1> QED BY <1>1, <1>2, <1>3, <1>4, <1>5, <1>6 DEF Machines

(* When WaitForWorkers returns, the machines that did not restart since    *)
(* they were heard run the demanded image, no more of them share an        *)
(* address than MaxWorkersPerHost, and if none of the eligible ones did    *)
(* they are enough machines on enough addresses: for any fleet, policy and *)
(* timing of heartbeats, losses, stops and reboots.                        *)
THEOREM ReadyFleetsMeetPolicy == Spec => []ReadyFleet
<1>1. WaitInit => RegistryAgrees /\ ReadyFleet
  BY DEF WaitInit, Init, RegistryAgrees, ReadyFleet
<1>2. FleetInv /\ RegistryAgrees /\ ReadyFleet /\ [Next]_vars => (RegistryAgrees /\ ReadyFleet)'
  <2> SUFFICES ASSUME FleetInv, RegistryAgrees, ReadyFleet, [Next]_vars
               PROVE  (RegistryAgrees /\ ReadyFleet)'
    OBVIOUS
  <2>1. RegistryAgrees'
    BY AgreesStep, ShapeOfTypes DEF FleetInv, Next, WaitRound, Returned
  <2>2. CASE WaitRound
    BY <2>1, <2>2, ReadyRound DEF WaitRound
  <2>3. CASE UNCHANGED vars
    BY <2>1, <2>3 DEF vars, machines, manager, ReadyFleet
  <2>4. CASE phase' # "ready"
    BY <2>1, <2>4 DEF ReadyFleet
  <2>5. WaitRound \/ UNCHANGED vars \/ phase' # "ready"
    BY DEF Next, Machines, Boot, Stop, HeartbeatLost, Tick, Heartbeat, GiveUp, Returned, manager
  <2> QED BY <2>1, <2>2, <2>3, <2>4, <2>5
<1> QED BY <1>1, <1>2, FleetInvariant, PTL DEF Spec

-----------------------------------------------------------------------------
(* heph fleet reconcile: what it replaces, and what it leaves behind.      *)

(* Every machine has the shape the manager reads, reputations are ones the *)
(* store knows, and a snapshot holds what heartbeats say.                  *)
RepairShape ==
  /\ Shape
  /\ rep \in [IP -> Reputation] /\ loaded \in [IP -> Reputation]
  /\ \A m \in snapshot : m.healthy = TRUE /\ m.quar = FALSE

RepairInv == RepairShape /\ RegistryAgrees

LEMMA RepairInitInv == RepairInit => RepairInv /\ DoneIsClean
<1> SUFFICES ASSUME RepairInit PROVE RepairInv /\ DoneIsClean
  OBVIOUS
<1>1. Shape
  BY InitInv, ShapeOfTypes DEF RepairInit, FleetInv
<1> QED
  BY <1>1 DEF RepairInit, Init, RepairInv, RepairShape, RegistryAgrees, DoneIsClean

LEMMA RepairCases ==
  ASSUME [RepairNext]_rvars
  PROVE  \/ /\ Machines \/ \E w \in Worker : Heartbeat(w)
            /\ UNCHANGED <<command, rep, marks>>
            /\ cli \notin {"idle", "none", "done", "failed"}
         \/ /\ \E ip \in IP, state \in Reputation : Mark(ip, state)
            /\ cli \notin {"idle", "none", "done", "failed"}
         \/ Load \/ CloseWindow \/ Replace \/ Wait \/ TimeOut
         \/ \E w \in Worker : Hear(w)
         \/ UNCHANGED rvars
  BY DEF RepairNext, Ended

(* What the apply does to the machines, without the addresses it picks. *)
LEMMA ReplaceMachines ==
  ASSUME Replace
  PROVE  /\ cli' \in {"wait", "failed"}
         /\ \E created \in SUBSET Worker : \E addr \in [created -> IP] :
              \E destroyed : vm' = AfterApply(created, addr, destroyed)
<1>1. PICK missing \in SUBSET {w \in Worker : ~vm[w].up} :
        \E created \in SUBSET (Touched(missing) \intersect Counted),
           destroyed \in SUBSET (Touched(missing) \union (Worker \ Counted)) :
          \E addr \in [created -> IP] :
            /\ vm' = AfterApply(created, addr, destroyed)
            /\ cli' = "wait" \/ cli' = "failed"
  BY Zenon DEF Replace
<1>2. PICK created \in SUBSET (Touched(missing) \intersect Counted),
           destroyed \in SUBSET (Touched(missing) \union (Worker \ Counted)) :
        \E addr \in [created -> IP] :
          /\ vm' = AfterApply(created, addr, destroyed)
          /\ cli' = "wait" \/ cli' = "failed"
  BY <1>1
<1>3. created \in SUBSET Worker
  BY RepairAssumption
<1> QED BY <1>2, <1>3

LEMMA ShapeStep ==
  ASSUME RepairShape, [RepairNext]_rvars
  PROVE  RepairShape'
<1> USE WorkersAssumption DEF RepairShape, Shape, machines, manager, command
<1>1. ASSUME Machines \/ (\E w \in Worker : Heartbeat(w)), UNCHANGED <<command, rep, marks>>
      PROVE  RepairShape'
  <2>1. Shape'
    <3>1. ASSUME NEW w \in Worker, NEW ip \in IP \union {NoIP}, NEW ver \in Version,
                 Boot(w, ip, ver)
          PROVE  Shape'
      BY <3>1 DEF Boot
    <3>2. ASSUME NEW w \in Worker, Stop(w) PROVE Shape'
      BY <3>2 DEF Stop
    <3>3. ASSUME NEW w \in Worker, HeartbeatLost(w) PROVE Shape'
      BY <3>3 DEF HeartbeatLost
    <3>4. ASSUME NEW w \in Worker, Heartbeat(w) PROVE Shape'
      BY <3>4 DEF Heartbeat
    <3>5. CASE Tick
      BY <3>5 DEF Tick
    <3> QED BY <1>1, <3>1, <3>2, <3>3, <3>4, <3>5 DEF Machines
  <2> QED BY <1>1, <2>1
<1>2. ASSUME NEW ip \in IP, NEW state \in Reputation, Mark(ip, state) PROVE RepairShape'
  BY <1>2 DEF Mark, vars
<1>3. CASE Load \/ CloseWindow \/ TimeOut \/ UNCHANGED rvars
  BY <1>3 DEF Load, CloseWindow, TimeOut, GiveUp, rvars, vars
<1>4. ASSUME NEW w \in Worker, Hear(w) PROVE RepairShape'
  BY <1>4 DEF Hear, vars
<1>5. CASE Replace
  <2>1. PICK created \in SUBSET Worker : \E addr \in [created -> IP] :
          \E destroyed : vm' = AfterApply(created, addr, destroyed)
    BY <1>5, ReplaceMachines
  <2>2. PICK addr \in [created -> IP] :
          \E destroyed : vm' = AfterApply(created, addr, destroyed)
    BY <2>1
  <2>3. vm' \in [Worker -> [up : BOOLEAN, down : Nat, ip : IP \union {NoIP},
                            ver : Version \union {NoVersion}]]
    BY <2>2, RepairAssumption DEF AfterApply, Replacement
  <2> QED BY <1>5, <2>3 DEF Replace
<1>6. CASE Wait
  <2>1. PICK late \in SUBSET Exposed : Poll(late, WaitPolicy)
    BY <1>6 DEF Wait
  <2>2. \A w \in Worker : (reg[w].healthy /\ w \notin Silent) \in BOOLEAN
    BY Zenon
  <2>3. reg' \in [Worker -> [known : BOOLEAN, ip : IP \union {NoIP},
                         ver : Version \union {NoVersion}, healthy : BOOLEAN, hb : Nat]]
    BY <2>1, <2>2 DEF Poll
  <2> QED BY <1>6, <2>1, <2>3 DEF Wait, Poll
<1> QED BY <1>1, <1>2, <1>3, <1>4, <1>5, <1>6, RepairCases

LEMMA RepairStepInv ==
  ASSUME RepairInv, [RepairNext]_rvars
  PROVE  RepairInv'
<1>1. RepairShape'
  BY ShapeStep DEF RepairInv
<1>2. RegistryAgrees'
  <2>1. CASE Replace
    BY <2>1 DEF Replace, RegistryAgrees
  <2>2. \/ Machines \/ GiveUp \/ UNCHANGED vars \/ Replace
        \/ \E w \in Worker : Heartbeat(w)
        \/ \E late, f : Poll(late, f)
    BY RepairCases DEF Mark, Load, CloseWindow, Wait, TimeOut, Hear, rvars
  <2> QED BY <2>1, <2>2, AgreesStep DEF RepairInv, RepairShape
<1> QED BY <1>1, <1>2 DEF RepairInv

LEMMA RepairInvariant == RepairSpec => []RepairInv
  BY RepairInitInv, RepairStepInv, PTL DEF RepairSpec

(* A round of the command's own wait that finds the whole fleet eligible:  *)
(* it was told the reputation the command began with.                      *)
LEMMA DoneRound ==
  ASSUME RepairInv, MinReady = Cardinality(Worker), Wait, cli' = "done"
  PROVE  DoneIsClean'
<1>1. PICK late \in SUBSET Exposed : Poll(late, WaitPolicy)
  BY DEF Wait
<1> DEFINE E == Reconciled(late, WaitPolicy).eligible
<1>2. /\ view'.eligible = E /\ vm' = vm /\ heard' = heard /\ loaded' = loaded
      /\ Cardinality(E) >= Cardinality(Worker)
  BY <1>1 DEF Wait, Poll, machines
<1>3. E \in SUBSET Worker
  BY EligibleAreFresh DEF Known
<1>4. E = Worker
  <2>1. /\ IsFiniteSet(Worker) /\ IsFiniteSet(E) /\ Cardinality(E) <= Cardinality(Worker)
        /\ (Cardinality(Worker) = Cardinality(E) => Worker = E)
    BY <1>3, WorkersAssumption, FS_Subset
  <2>2. Cardinality(E) \in Nat /\ Cardinality(Worker) \in Nat
    BY <2>1, FS_CardinalityType
  <2> HIDE DEF E
  <2> QED BY <1>2, <2>1, <2>2
<1>5. ASSUME NEW w \in Worker, heard[w], vm[w].ip # NoIP
      PROVE  loaded[vm[w].ip] = "healthy"
  <2>1. PICK x \in Eligible(Shown(late), WaitPolicy) : x.id = w
    BY <1>4, EligibleShown
  <2>2. x.ip = vm[w].ip
    BY <1>5, <2>1, EligibleMeetPolicy, ShownWorkers DEF RepairInv, RegistryAgrees
  <2>3. loaded[x.ip] \notin {"cooling_down", "quarantined", "retired"}
    BY <1>5, <2>2, EligibleMeetPolicy DEF WaitPolicy, Policy
  <2>4. vm[w].ip \in IP
    BY <1>5 DEF RepairInv, RepairShape, Shape
  <2> QED BY <2>2, <2>3, <2>4 DEF RepairInv, RepairShape, Reputation
<1> QED BY <1>2, <1>4, <1>5 DEF DoneIsClean

(* heph fleet reconcile waits for as many workers as the fleet has         *)
(* (fleetWorkerCount).  When it ends well, every one of them is eligible,  *)
(* and those that did not restart since they were heard have no address    *)
(* that was in quarantine when it began, for any number of machines and    *)
(* addresses and whatever reboots, stops or is marked meanwhile.           *)
THEOREM RepairedFleetsAreClean ==
  MinReady = Cardinality(Worker) /\ RepairSpec => []DoneIsClean
<1>1. ASSUME MinReady = Cardinality(Worker), RepairInv, DoneIsClean, [RepairNext]_rvars
      PROVE  DoneIsClean'
  <2>1. CASE Wait /\ cli' = "done"
    BY <1>1, <2>1, DoneRound
  <2>2. CASE UNCHANGED rvars
    BY <1>1, <2>2 DEF rvars, vars, machines, manager, command, DoneIsClean
  <2>3. CASE cli' # "done"
    BY <2>3 DEF DoneIsClean
  <2>4. (Wait /\ cli' = "done") \/ UNCHANGED rvars \/ cli' # "done"
    BY <1>1, RepairCases, ReplaceMachines DEF Mark, Load, CloseWindow, TimeOut, Hear, command
  <2> QED BY <2>1, <2>2, <2>3, <2>4
<1>2. SUFFICES ASSUME MinReady = Cardinality(Worker) PROVE RepairSpec => []DoneIsClean
  OBVIOUS
<1> QED BY <1>1, <1>2, RepairInitInv, RepairInvariant, PTL DEF RepairSpec
=============================================================================

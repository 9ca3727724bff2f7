SPECIFICATION FairSpec
CONSTANTS
  a1 = a1
  a2 = a2
  v1 = v1
  v2 = v2
  NoIP = NoIP
  NoVersion = NoVersion
  Worker = {0, 1}
  IP = {a1, a2}
  Version = {v1}
  Expected = v1
  Limit = 1
  MinUnique = 1
  MinReady = 2
  HeartbeatEvery = 1
  HealthTimeout = 2
  CooldownWindow = 3
  MaxLost = 1
  MaxTime = 3
  MaxBoots = 2
INVARIANTS
  EligibleAlive
  NoFalseAlarm
  ReadyFleet
PROPERTIES
  WaitEnds

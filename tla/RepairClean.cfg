CONSTANTS
  a1 = a1
  a2 = a2
  a3 = a3
  v1 = v1
  v2 = v2
  NoIP = NoIP
  NoVersion = NoVersion
  Worker = {0, 1}
  IP = {a1, a2, a3}
  Version = {v1, v2}
  Expected = v1
  Limit = 1
  MinUnique = 0
  MinReady = 2
  HeartbeatEvery = 1
  HealthTimeout = 1
  CooldownWindow = 1
  MaxLost = 0
  MaxTime = 2
  MaxBoots = 1
  MaxMarks = 1
  Image = v1
  Counted = {0, 1}
SPECIFICATION RepairSpec
INVARIANTS
  DoneIsClean
SYMMETRY Symmetry

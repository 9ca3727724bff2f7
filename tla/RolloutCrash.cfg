CONSTANTS
  v1 = v1
  v2 = v2
  v3 = v3
  NoIP = NoIP
  NoVersion = NoVersion
  Worker = {0, 1, 2}
  Version = {v1, v2, v3}
  Tag = v3
SPECIFICATION Spec
INVARIANTS
  RollbackStaysPossible
PROPERTIES
  PromotedOnTarget

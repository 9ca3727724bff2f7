CONSTANTS
  t1 = t1
  t2 = t2
  bad = bad
  w1 = w1
  w2 = w2
  NoMsg = NoMsg
  Task = {t1, t2}
  Malformed = {}
  Worker = {w1, w2}
  NameOf <- DistinctNames
  MaxDeliver = 2
  AutoRestart = TRUE
  MaxClock = 1
  MaxFaults = 1
SPECIFICATION Spec
INVARIANTS
  AckedHasResult
  ResultFindsArtifact
  CompleteUnlessRedelivered
PROPERTIES
  ImplementsLedger
SYMMETRY Symmetry

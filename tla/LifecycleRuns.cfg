SPECIFICATION FairSpec
CONSTANTS
  s1 = s1
  s2 = s2
  Session = {s1, s2}
  Tasks = 2
  Options <- MixedOptions
  Clouds = {"aws", "native", "manual"}
  MaxCopies = 1
  Faulty = {s1}
  MaxBuckets = 3
INVARIANTS
  LifecycleTypeOK
  StatusHonest
  EndedIsRecorded
  SuccessDelivers
  SuccessCleansUp
PROPERTIES
  ExportedFirst
  EndlessPollHasCause
CHECK_DEADLOCK FALSE

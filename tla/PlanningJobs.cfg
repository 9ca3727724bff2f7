SPECIFICATION PlanSpec
CONSTANTS
  MaxLines = 4
  LineSizes = {0, 1, 2, 4, 6}
  MaxWords = 3
  MaxPort = 7
  Targets = {"a", "b"}
  PortChunks = {1, 3, 8}
  TargetFiles <- SmallTargetFiles
  Files <- SmallFiles
  Policies <- SmallPolicies
  Rewrites <- CutOrGrown
INVARIANTS
  EntriesKept
  ChunksAsPlanned
  TasksHaveInput
  PortsOnce
CHECK_DEADLOCK FALSE

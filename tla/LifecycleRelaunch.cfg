SPECIFICATION Spec
CONSTANTS
  s1 = s1
  s2 = s2
  Session = {s1, s2}
  Tasks = 1
  Options <- SpotOptions
  Clouds = {"aws"}
  MaxCopies = 1
  Faulty = {}
  MaxBuckets = 2
INVARIANTS
  TemplatesAreEphemeral
CHECK_DEADLOCK FALSE

CONSTANTS
  s1 = s1
  s2 = s2
  N = 5
  BatchSize = 2
  Sender = {s1, s2}
  DropsEntries = FALSE
SPECIFICATION FairSpec
INVARIANTS
  CountedIsPublished
  OkMeansAll
  UncountedBounded
PROPERTIES
  Returns
  KeepsPromise

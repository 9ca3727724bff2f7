SPECIFICATION FairSpec
CONSTANTS
  Tools = {"nmap", "ffuf"}
  Uploads = {"ffuf"}
  Clouds = {"aws", "native", "manual"}
  Sizes = {1, 2}
  Patience = {TRUE, FALSE}
  Faults = {TRUE, FALSE}
  MaxJobs = 2
  HastyJobs = 1
  MaxCopies = 1
  MaxGen = 2
INVARIANTS
  TuiTypeOK
  ResultsReadable
  RecordTellsOutcome
PROPERTIES
  ScanEnds

SPECIFICATION Spec
CONSTANTS
  Tools = {"ffuf"}
  Uploads = {"ffuf"}
  Clouds = {"native"}
  Sizes = {1}
  Patience = {FALSE}
  Faults = {FALSE}
  MaxJobs = 2
  HastyJobs = 2
  MaxCopies = 0
  MaxGen = 1
INVARIANTS
  OwnExportFirst

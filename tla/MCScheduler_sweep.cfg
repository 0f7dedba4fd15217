SPECIFICATION Spec
CONSTANTS
  GPU = {0}
  MaxJobs = 3
  MaxStarts = 1
  Group = {"sweep"}
  Key <- NoLabels
  Submissions <- GroupSubmissions
  FailFastCount = 2
  Externals = {0}
  Requests = {"cancel", "retry", "hold"}
  Faults = {"spawn", "scan"}
INVARIANTS
  LineageRunsOnce
  StreakIsHeld
PROPERTIES
  OldestThatFitsFirst
  NewScanBeforePass

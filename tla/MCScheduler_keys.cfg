SPECIFICATION Spec
CONSTANTS
  GPU = {0}
  MaxJobs = 3
  MaxStarts = 2
  Group = {"sweep"}
  Key = {"cell"}
  Submissions <- KeyedGroups
  FailFastCount = 1
  Externals <- NoLabels
  Requests = {"cancel", "retry", "delete"}
  Faults = {"crash"}
\* After its last start the daemon may stop for good.
CHECK_DEADLOCK FALSE
INVARIANTS
  KeyExclusive
  LineageRunsOnce
  HeldMirrorsTable
PROPERTIES
  HeldGroupsDoNotStart

SPECIFICATION EndingSpec
CONSTANTS
  GPU = {0}
  MaxJobs = 2
  MaxStarts = 2
  Group <- NoLabels
  Key <- NoLabels
  Submissions <- PlainSubmissions
  FailFastCount = 0
  Externals <- NoLabels
  Requests = {"cancel"}
  Faults = {"monitor", "crash", "scan", "spawn", "record", "write"}
CHECK_DEADLOCK FALSE
PROPERTIES
  CancellationEnds
  LockReleased
  QueueDrains

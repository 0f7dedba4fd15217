SPECIFICATION Spec
CONSTANTS
  GPU = {0}
  MaxJobs = 2
  MaxStarts = 2
  Group <- NoLabels
  Key <- NoLabels
  Submissions <- GroupOrPlain
  FailFastCount = 1
  Externals <- NoLabels
  Requests = {"cancel"}
  Faults = {"device", "crash"}
CHECK_DEADLOCK FALSE
PROPERTY
  CancellingEndsCancelled

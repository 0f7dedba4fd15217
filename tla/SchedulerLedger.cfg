SPECIFICATION Spec
CONSTANTS
  GPU = {0, 1}
  MaxJobs = 2
  MaxStarts = 3
  Group <- NoLabels
  Key <- NoLabels
  Submissions <- SizedSubmissions
  FailFastCount = 0
  Externals <- NoLabels
  Requests = {"cancel", "delete", "stop"}
  Faults = {"missing", "crash", "reboot"}
\* After its last start the daemon may stop for good.
CHECK_DEADLOCK FALSE
INVARIANTS
  IInv
  NoDoubleBooking
  LiveGroupKeepsReservation
  NoStuckStarting
  CancelNotForgotten
PROPERTIES
  CancelSticks
  OutcomeIsFinal
  ImplementsLedger

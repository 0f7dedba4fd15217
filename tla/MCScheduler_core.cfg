SPECIFICATION Spec
CONSTANTS
  GPU = {0, 1}
  MaxJobs = 3
  MaxStarts = 1
  Group <- NoLabels
  Key <- NoLabels
  Submissions <- SizedSubmissions
  FailFastCount = 0
  Externals <- NoLabels
  Requests = {"cancel", "pause", "status"}
  Faults = {"launcher", "spawn", "record"}
INVARIANTS
  TypeOK
  NoDoubleBooking
  LiveGroupKeepsReservation
  WholeAssignment
  NoStuckStarting
  PassListStaysTrue
PROPERTIES
  PausedOnlyShrinks
  CancelSticks
  OldestThatFitsFirst
  OutcomeIsFinal

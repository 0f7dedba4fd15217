SPECIFICATION FairSpec
CONSTANTS
  a = a
  b = b
  Client = {a, b}
  First = first
  None = None
  Commands <- Mixes
  KeyOf <- OneKey
  MaxJobs = 2
  Versions = {0, 2, 3}
  Faults = {"crash", "slow", "interrupt"}
CHECK_DEADLOCK FALSE
INVARIANTS
  TypeOK
  ServingDaemonIsReached
  SchemaMatchesVersion
  SubmittedOnce
  UpdateLosesNoStatus
PROPERTIES
  ImplementsSubmissions
  CommandsEnd

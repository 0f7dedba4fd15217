SPECIFICATION Spec
CONSTANTS
  a = a
  b = b
  Client = {a, b}
  First = first
  None = None
  Commands <- Mixes
  KeyOf <- OneKey
  MaxJobs = 2
  Versions = {2}
  Faults = {"slow"}
CHECK_DEADLOCK FALSE
INVARIANT
  NotLeftPaused

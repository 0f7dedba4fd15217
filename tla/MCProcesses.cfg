SPECIFICATION Spec
CONSTANTS
  Pid = {p1, p2, p3}
  Job = {j1, j2}
  Outside = outside
  MaxForks = 5
  MaxBoots = 2
  Unreadable = FALSE
  LeadersStay = TRUE
  None = None
SYMMETRY NumbersAlike
CHECK_DEADLOCK FALSE
INVARIANTS
  TypeOK
  LiveGroupRecognised
  OnlyOwnGroupRecognised
  StayerIsSeen

SPECIFICATION Spec
CONSTANTS
  s1 = s1
  s2 = s2
  p1 = p1
  p2 = p2
  None = None
  SaleIds = {s1, s2}
  Procs = {p1}
  Drivers = {}
  MaxCredits = 2
  MaxReversals = 2
  AwardMayFail = FALSE
  MaxCrashes = 0
  MaxErrors = 0
  DoubleSubmit = FALSE
  Overlapping = FALSE
  Prompt = TRUE
  DirectApi = FALSE
SYMMETRY Interchangeable
PROPERTIES
  TimeoutCancels
CHECK_DEADLOCK FALSE

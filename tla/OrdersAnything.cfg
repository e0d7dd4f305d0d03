SPECIFICATION Spec
CONSTANTS
  s1 = s1
  s2 = s2
  p1 = p1
  p2 = p2
  None = None
  SaleIds = {s1, s2}
  Procs = {p1, p2}
  Drivers = {}
  MaxCredits = 1
  MaxReversals = 1
  AwardMayFail = TRUE
  MaxCrashes = 0
  MaxErrors = 1
  DoubleSubmit = TRUE
  Overlapping = TRUE
  Prompt = FALSE
  DirectApi = TRUE
SYMMETRY Interchangeable
INVARIANTS
  TypeOK
  CreditedIsCharged
CHECK_DEADLOCK FALSE

SPECIFICATION Spec
CONSTANTS
  s1 = s1
  s2 = s2
  p1 = p1
  p2 = p2
  None = None
  SaleIds = {s1, s2}
  Procs = {p1, p2}
  Drivers = {}
  MaxCredits = 2
  MaxReversals = 2
  AwardMayFail = FALSE
  MaxCrashes = 0
  MaxErrors = 1
  DoubleSubmit = FALSE
  Overlapping = FALSE
  Prompt = TRUE
  DirectApi = TRUE
SYMMETRY Interchangeable

  
INVARIANTS
  RefundTakesBack
  MoneyFollowsOrder
CHECK_DEADLOCK FALSE

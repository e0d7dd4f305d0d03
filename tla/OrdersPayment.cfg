SPECIFICATION FairSpec
CONSTANTS
  s1 = s1
  s2 = s2
  p1 = p1
  p2 = p2
  None = None
  SaleIds = {s1, s2}
  Procs = {p1, p2}
  Drivers = {}
  MaxCredits = 2
  MaxReversals = 2
  AwardMayFail = FALSE
  MaxCrashes = 1
  MaxErrors = 0
  DoubleSubmit = FALSE
  Overlapping = FALSE
  Prompt = FALSE
  DirectApi = FALSE
INVARIANTS
  
  WorkIsPaid
PROPERTIES
  ChargeIsServed
CHECK_DEADLOCK FALSE

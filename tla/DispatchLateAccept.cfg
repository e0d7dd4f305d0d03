SPECIFICATION Spec
CONSTANTS
  s1 = s1
  s2 = s2
  d1 = d1
  d2 = d2
  w1 = w1
  w2 = w2
  c1 = c1
  c2 = c2
  None = None
  SaleIds = {s1}
  Drivers = {d1}
  Web = {w1}
  Celery = {c1}
  MaxCredits = 1
  MaxReversals = 1
  AwardMayFail = FALSE
  MaxRetries = 2
  MaxAssigns = 2
  MaxCrashes = 0
  Serial = FALSE
  Admin = FALSE
SYMMETRY Interchangeable
INVARIANTS
  HasDriver
CHECK_DEADLOCK FALSE

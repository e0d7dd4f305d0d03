SPECIFICATION Spec
CONSTANTS
  s1 = s1
  s2 = s2
  d1 = d1
  d2 = d2
  w1 = w1
  w2 = w2
  c1 = c1
  c2 = c2
  None = None
  SaleIds = {s1}
  Drivers = {d1}
  Web = {w1, w2}
  Celery = {c1}
  MaxCredits = 2
  MaxReversals = 1
  AwardMayFail = FALSE
  MaxRetries = 1
  MaxAssigns = 2
  MaxCrashes = 1
  Serial = FALSE
  Admin = TRUE
SYMMETRY Interchangeable
INVARIANTS
  TypeOK
  SearchGoesOn
CHECK_DEADLOCK FALSE

SPECIFICATION Spec
CONSTANTS
  r1 = r1
  r2 = r2
  u1 = u1
  p1 = p1
  p2 = p2
  None = None
  Requests = {r1}
  Batch = {}
  DriverApp = {}
  Users = {u1}
  Owner <- MCOwner
  Earned <- MCEarned
  Amount = 1
  Procs = {p1}
  MaxTransfers = 2
  MaxQueue = 1
  MaxReleases = 2
  MaxCrashes = 0
  Overlapping = FALSE
  Reconciling = FALSE
SYMMETRY Workers
INVARIANTS
  SentOnce
CHECK_DEADLOCK FALSE

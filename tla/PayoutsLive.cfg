SPECIFICATION FairSpec
CONSTANTS
  r1 = r1
  r2 = r2
  u1 = u1
  p1 = p1
  p2 = p2
  None = None
  Requests = {r1}
  Batch = {r1}
  DriverApp = {}
  Users = {u1}
  Owner <- MCOwner
  Earned <- MCEarned
  Amount = 1
  Procs = {p1, p2}
  MaxTransfers = 2
  MaxQueue = 1
  MaxReleases = 5
  MaxCrashes = 1
  Overlapping = FALSE
  Reconciling = TRUE
INVARIANTS
  BatchSentOnce

  
CHECK_DEADLOCK FALSE

SPECIFICATION Spec
CONSTANTS
  a1 = a1  a2 = a2  d1 = d1  d2 = d2  r1 = r1  p1 = p1  p2 = p2
  w1 = w1  w2 = w2  i1 = i1  i2 = i2  s1 = s1  s2 = s2
  None = None
  Arrivals = {}
  Downstream = {d1, d2}
  Reevals = {}
  Batches = {p1}
  Deep = {}
  Workers = {w1, w2}
  Ids = {i1, i2}
  WorkerId <- OwnIds
  Slots = {s1}
  TenantConcurrency = 1
  MaxAttempts = 2
  ValidationCap = 1
  BatchMin = 2
  MaxFaults = 1
  MaxExpiries = 0
  MaxDeferrals = 0
  MaxOperatorActs = 0
CHECK_DEADLOCK FALSE
INVARIANTS LeasesExclude NoStrandedRow CleanMeansApplied AppliedOnce
PROPERTY ImplementsInbox

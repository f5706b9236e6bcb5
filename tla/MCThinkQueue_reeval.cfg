SPECIFICATION FairSpec
CONSTANTS
  a1 = a1  a2 = a2  d1 = d1  d2 = d2  r1 = r1  p1 = p1  p2 = p2
  w1 = w1  w2 = w2  i1 = i1  i2 = i2  s1 = s1  s2 = s2
  None = None
  Arrivals = {a1}
  Downstream = {}
  Reevals = {r1}
  Batches = {}
  Deep = {a1}
  Workers = {w1, w2}
  Ids = {i1, i2}
  WorkerId <- SharedId
  Slots = {s1}
  TenantConcurrency = 1
  MaxAttempts = 2
  ValidationCap = 1
  BatchMin = 2
  MaxFaults = 1
  MaxExpiries = 1
  MaxDeferrals = 1
  MaxOperatorActs = 2
CHECK_DEADLOCK FALSE
INVARIANT ReevalSettled
PROPERTIES ImplementsInbox EveryReevalSettles

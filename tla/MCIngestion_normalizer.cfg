SPECIFICATION Spec
CONSTANTS
  b1 = b1  b2 = b2  l1 = l1  l2 = l2
  Backfill = {b1}
  Live = {l1}
  TenantOf <- TwoTenants
  BatchSize = 2
  Poison = {}
  MaxTries = 2
  PoisonCap = 2
  BreachWindow = 2
  MaxFaults = 1
CHECK_DEADLOCK FALSE
INVARIANTS NormalizedAtLeastOnce

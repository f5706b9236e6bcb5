SPECIFICATION FairSpec
CONSTANTS
  b1 = b1  b2 = b2  l1 = l1  l2 = l2
  Backfill = {b1}
  Live = {l1}
  TenantOf <- TwoTenants
  BatchSize = 2
  Poison = {b1}
  MaxTries = 2
  PoisonCap = 2
  BreachWindow = 2
  MaxFaults = 1
CHECK_DEADLOCK FALSE
INVARIANTS TypeOK NothingVanishes TriggeredOnce CapPassedByFaults
PROPERTIES ImplementsIntake CatchesUp

SPECIFICATION FairSpec
CONSTANTS
  f1 = f1  f2 = f2
  Fetchers = {f1, f2}
  Pages = 3
  None = None
  MaxFaults = 2
  MaxLapses = 2
CHECK_DEADLOCK FALSE
INVARIANTS TypeOK NothingSkipped
PROPERTIES ImplementsLifecycle ShardEnds

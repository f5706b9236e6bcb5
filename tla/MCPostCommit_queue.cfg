SPECIFICATION FairSpec
CONSTANTS
  t1 = t1  t2 = t2  k1 = k1  k2 = k2  k3 = k3  w1 = w1  w2 = w2
  Triggers = {t1}
  Kinds = {k1, k2, k3}
  Always = k1
  Stepwise = {k2}
  Workers = {w1, w2}
  BatchSize = 2
  MaxAttempts = 2
  Poison = {}
  MaxFaults = 1
  MaxOperatorActs = 1
CHECK_DEADLOCK FALSE
INVARIANTS TypeOK PendingHasAttempts DeliveredExactlyOnce
PROPERTIES ImplementsOutbox EveryActionSettles

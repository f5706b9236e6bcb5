SPECIFICATION Spec
CONSTANTS
  Triggers = {t1, t2, t3, t4}
  HardMax = 2
  LineageBound = 3
  Batching = TRUE
  Discovery = TRUE
  None = None
SYMMETRY TriggerSymmetry
CHECK_DEADLOCK FALSE
INVARIANTS TypeOK LineageCut

SPECIFICATION Spec
CONSTANTS
  slack = slack  gmail = gmail
  Sources = {slack, gmail}
  MaxShards = 3
  None = None
  MaxPasses = 0
CHECK_DEADLOCK FALSE
INVARIANTS FailedNotPartial

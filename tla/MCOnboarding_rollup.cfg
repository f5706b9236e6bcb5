SPECIFICATION FairSpec
CONSTANTS
  slack = slack  gmail = gmail
  Sources = {slack, gmail}
  MaxShards = 3
  None = None
  MaxPasses = 1
CHECK_DEADLOCK FALSE
INVARIANTS TypeOK BridgeAgrees CompletedWasCollected
PROPERTIES ImplementsTenantRun RunEnds SourcesSettle

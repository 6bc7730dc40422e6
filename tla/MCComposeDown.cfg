SPECIFICATION FairSpec
CONSTANTS
  Modes = {"plain", "detach", "remove"}
  Delegates = {TRUE, FALSE}
INVARIANTS RecordAfterZone RemovalExplained
PROPERTY AllEnd
CHECK_DEADLOCK FALSE

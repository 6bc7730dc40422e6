CONSTANTS
  Drivers = {"http", "grpc", "playground"}
  Timeouts = {TRUE, FALSE}
  Monitoreds = {TRUE, FALSE}
SPECIFICATION FairSpec
INVARIANTS ResultIsFinal SuccessExplained CanceledWaitExplained
PROPERTY AllEnd
CHECK_DEADLOCK FALSE

SPECIFICATION Spec
CONSTANTS
  Modes = {"plain", "detach", "remove"}
  Delegates = {TRUE, FALSE}
INVARIANT RemovedMeansDestroyed
CHECK_DEADLOCK FALSE

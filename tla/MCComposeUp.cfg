CONSTANTS
  c1 = c1
  c2 = c2
  c3 = c3
  none = none
  Commands = {c1, c2}
  Kinds = {"up", "preview", "down", "refresh"}
  Asked = {"unspecified", "affordable", "balanced", "ha", "custom"}
  Deployed <- AnyDeployed
  Delegates = TRUE
SYMMETRY CommandSymmetry
SPECIFICATION Spec
INVARIANTS HistoryIsTrue ZoneWhileRunning
PROPERTY UndisturbedAllowed
CHECK_DEADLOCK FALSE

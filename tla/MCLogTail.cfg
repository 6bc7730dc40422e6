CONSTANTS
  Froms = {"since", "anywhere", "now"}
  Since0 = 1
  MaxTs = 4
  MaxLog = 3
  MaxBatch = 2
  MaxDrops = 2
SPECIFICATION FairLogSpec
INVARIANTS ExactlyOnce OnlyTiesLost TimeNeverGoesBack
PROPERTY TailEnds
CHECK_DEADLOCK FALSE

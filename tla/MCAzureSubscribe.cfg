CONSTANTS
  web = web
  db = db
  r1 = r1
  Services = {web, db}
  RunIds = {r1}
  TaskOf <- MCTaskOf
SPECIFICATION FairSpec
INVARIANTS EndedPollerTold VerdictIsReal
PROPERTIES WatchSpec CompletionNoticed GoroutinesEnd
CHECK_DEADLOCK FALSE

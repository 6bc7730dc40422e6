CONSTANTS
  web = web
  db = db
  NOT_SPECIFIED = NOT_SPECIFIED
  PENDING = PENDING
  COMPLETED = COMPLETED
  DEPLOYMENT_FAILED = DEPLOYMENT_FAILED
  Names <- MCNames
  States <- MCStates
  NotSpecified = NOT_SPECIFIED
  Target = COMPLETED
  Failures <- MCFailures
  Says <- MCSays
  Replay = "history"
  MaxEvents = 3
  MaxDrops = 1
SPECIFICATION FairSpec
INVARIANTS StatesExplained FailsExactly
PROPERTIES WaitEnds WatchSpec
CHECK_DEADLOCK FALSE

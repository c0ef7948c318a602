SPECIFICATION FairServiceSpec
CONSTANTS
  t1 = t1
  g1 = g1
  Task <- OneTask
  Gpu <- OneGpu
  MaxRetries = 1
  Once <- NoTask
  MaxAttempts = 2
  MaxLadders = 2
  MayLinger = FALSE
CHECK_DEADLOCK FALSE
INVARIANTS WatchedInEveryLife StagedTasksStayAcrossRestarts
PROPERTIES OutcomesSurviveRestarts ShutdownCompletes StopsComplete

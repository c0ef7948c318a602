SPECIFICATION Spec
CONSTANTS
  t1 = t1
  t2 = t2
  g1 = g1
  g2 = g2
  Task <- TwoTasks
  Gpu <- OneGpu
  MaxRetries = 1
  Once <- OnlyT2
  MaxAttempts = 2
  MaxLadders = 1
  MayLinger = TRUE
CHECK_DEADLOCK FALSE
INVARIANTS TypeOK StagedTasksDoNotRun RunningRowsHaveOneWatcher RegistryIsBacked
PROPERTY OutcomesAreFinal

SPECIFICATION Spec
CONSTANTS
  t1 = t1
  t2 = t2
  g1 = g1
  g2 = g2
  Task <- OneTask
  Gpu <- OneGpu
  MaxRetries = 1
  Once <- NoTask
  MaxAttempts = 2
  MaxLadders = 2
  MayLinger = TRUE
CHECK_DEADLOCK FALSE
PROPERTY CancelSurvivesInterrupts

SPECIFICATION StreamSpec
CONSTANTS
  Outputs <- MCOutputs
  Columns = 2
  QueueSize = 2
  MaxChoices = 3
  MaxLosses = 2
INVARIANTS ScreenShowsTheOutput
PROPERTIES EndedTaskShowsItsLog
CHECK_DEADLOCK FALSE

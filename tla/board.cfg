SPECIFICATION BoardSpec
CONSTANTS
  a = a
  b = b
  c = c
  Task = {a, b, c}
  None = None
  Starts <- TwoTasks
  MaxClicks = 2
  MaxBusy = 2
  MaxChanges = 1
CHECK_DEADLOCK FALSE
INVARIANT ConsoleShowsARunningTask
PROPERTIES HistoryDeletionsAreOfEndedTasks DropsLandBesideTheirRow

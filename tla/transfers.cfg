SPECIFICATION PageSpec
CONSTANTS
  MaxJobs = 2
  Ends <- MCEnds
  Route <- MCRoute
  Possible <- MCPossible
  None = None
  MaxPorts = 2
  MaxLimit = 2
  QueueSize = 2
  MaxFaults = 1
  MaxClicks = 2
  MaxAnswers = 2
INVARIANTS CancelReachesTheProcess FormsWaitForTheirOwn
PROPERTIES LaunchesWithinLimit PageShowsTheJobs
CHECK_DEADLOCK FALSE

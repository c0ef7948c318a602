SPECIFICATION BackupSpec
CONSTANTS
  j1 = j1
  j2 = j2
  Job <- TwoJobs
  Kept <- FirstJob
  None = None
  MaxRuns = 2
  MaxClicks = 2
  MaxCalls = 1
  MaxFaults = 1
CHECK_DEADLOCK FALSE
INVARIANTS ScheduledRunsDoNotOverlap NoScheduleIsLost
PROPERTY DueBackupsRun

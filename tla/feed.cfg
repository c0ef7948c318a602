SPECIFICATION FeedSpec
CONSTANTS
  Gpu = {g1}
  Filter = {all, failed}
  Field = {interval, retries}
  Number = {n1}
  Default <- OneIsOff
  Refresh = {r1, r2}
  MaxChanges = 1
  MaxClicks = 2
  MaxFaults = 2
INVARIANT DraftFlagIsTrue
PROPERTY PageCatchesUp

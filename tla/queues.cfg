SPECIFICATION StoreSpec
CONSTANTS
  MaxTask = 3
  MinRank <- OneBelowZero
  MaxRank = 3
  Prerequisites <- NoPrerequisites
CHECK_DEADLOCK FALSE
INVARIANTS StoreTypeOK RanksAreUnique WaitingRowsAreMembers
PROPERTY RanksImplementQueues

SPECIFICATION StoreSpec
CONSTANTS
  MaxTask = 3
  MinRank = 0
  MaxRank = 3
  Prerequisites <- AnyPrerequisites
CHECK_DEADLOCK FALSE
INVARIANTS DependenciesAreAcyclic DependenciesExist
PROPERTY DependenciesStaySatisfied

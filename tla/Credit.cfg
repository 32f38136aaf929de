SPECIFICATION FairSpec
CONSTANTS
  parent = parent
  child1 = child1
  child2 = child2
  Nobody = Nobody
  Callers <- MCCallers
  Capacity = 2
  MaxFailed = 1
INVARIANTS StatisticsBounded
PROPERTY CallReturns
CHECK_DEADLOCK FALSE

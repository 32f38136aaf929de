SPECIFICATION Spec
CONSTANTS
  parent = parent
  child1 = child1
  child2 = child2
  Nobody = Nobody
  Callers <- MCCallers
  Capacity = 2
  MaxFailed = 1
SYMMETRY MCSymmetry
INVARIANT SnapshotConsistent
CHECK_DEADLOCK FALSE

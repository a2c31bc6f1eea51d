SPECIFICATION Spec
CONSTANTS
  a = a  b = b  c = c
  Tab = {a, b}
  Faults = {"restore", "restart"}
  MaxFailures = 2
  MaxDraws = 2
  MaxBatch = 2
  MaxElements = 4
  Capacity = 1
  SnapshotEvery = 1
PROPERTIES NothingDurableIsLost
CHECK_DEADLOCK FALSE

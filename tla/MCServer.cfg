SPECIFICATION Spec
CONSTANTS
  a = a  b = b  c = c
  Tab = {a, b}
  Faults = {"network", "append", "snapshot", "restore", "restart"}
  MaxFailures = 2
  MaxDraws = 3
  MaxBatch = 2
  MaxElements = 2
  Capacity = 2
  SnapshotEvery = 1
INVARIANTS TypeOK RoomMatchesStore PeersHoldOnlyDurable JoinLosesNothing ActorsDistinct BroadcastIsDurable
PROPERTIES RestoredBoardIsKept
SYMMETRY Tabs
CHECK_DEADLOCK FALSE

SPECIFICATION FairSpec
CONSTANTS
  a = a  b = b  c = c
  Tab = {a, b}
  Faults = {"network", "refused", "rate", "restart", "reload"}
  MaxFailures = 1
  MaxDraws = 2
  MaxBatch = 1
  MaxElements = 4
  Capacity = 1
  SnapshotEvery = 2
INVARIANTS SettledTabsAgree
PROPERTIES EverybodyLearns EverythingIsRecorded
CHECK_DEADLOCK FALSE

SPECIFICATION Spec
CONSTANTS
  Burst = 5
  Refill = 6
  Cost = 10
  MaxStrikes = 2
  ReportInterval = 6
  CommitInterval = 5
  ReportShare = 2
  CommitShare = 3
  WireRoom = 6
  MaxActs = 2
INVARIANTS WindowBudget PoliteIsServed
CHECK_DEADLOCK FALSE

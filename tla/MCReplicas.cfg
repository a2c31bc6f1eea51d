SPECIFICATION Spec
CONSTANTS
  MaxCounter = 2
  Replica = {1, 2}
  e1 = e1  e2 = e2  v1 = v1  v2 = v2
  Element = {e1, e2}
  Key <- MCKeys
  Value <- MCValues
  EditBatches <- OneShape
  Walls = {0, 1}
  MaxOps = 2
  Handshakes <- OneWay
INVARIANTS DocumentReflectsOps Convergence NoTies
PROPERTIES LocalEditShows ImplementsOpSet
CHECK_DEADLOCK FALSE

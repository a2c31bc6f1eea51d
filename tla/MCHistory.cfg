SPECIFICATION HistorySpec
CONSTANTS
  MaxCounter = 30
  Replica = {1, 2}
  Element <- Minted
  Key <- Keys
  Value <- Values
  EditBatches <- None
  Walls = {0}
  MaxOps = 0
  Handshakes <- None
  MaxHistory = 2
  v1 = v1  v2 = v2  none = none
  Colours = {v1, v2}
  Assumed = none
  Mutations <- Plain
  Kinds = {"path"}
  VisibleOnly = TRUE
  MaxCreated = 2
  MaxSteps = 4
PROPERTIES HistoryWalks MintedIsNew UndoWins
CHECK_DEADLOCK FALSE

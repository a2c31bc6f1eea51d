SPECIFICATION Spec
CONSTANTS
  Base = 3
  Board = {1, 2}
  MaxText = 2
  MaxElements = 4
INVARIANTS TypeOK InsertedWhereAsked  DeletedStaysGone
CHECK_DEADLOCK FALSE

SPECIFICATION FairSpec
CONSTANTS
  a = a  b = b  board = board  other = other  odd = odd  key = key  null = null
  Tab = {a, b}
  Scope = {board, other, odd}
  Acceptable = {board, other}
  Secret = {key}
  NoSecret = null
  NoToken = null
  MaxRooms = 1
  IdleTtl = 1
  Lifetime = 2
  MaxVisits = 2
  MaxRestarts = 1
INVARIANTS NobodyIsStranded OnlyTheGranted
PROPERTIES CapIsNotForever
CHECK_DEADLOCK FALSE

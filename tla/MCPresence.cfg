SPECIFICATION FairSpec
CONSTANTS
  a = a  b = b  here = here  there = there  null = null
  Tab = {a, b}
  Mover = {a}
  Spot = {here, there}
  NoSpot = null
  StaleAfter = 1
  Capacity = 2
  ReportRoom = 2
  MaxConnections = 2
INVARIANTS PresenceTypeOK CleanDeparture SettledCursors
PROPERTIES GhostsFade
CHECK_DEADLOCK FALSE

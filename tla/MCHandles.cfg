SPECIFICATION Spec
CONSTANTS
  t1 = t1  t2 = t2  s1 = s1  s2 = s2
  Thread = {t1, t2}
  Scope = {s1, s2}
  HandleSpace = 3
  MaxOpens = 2
  MaxWrites = 2
  MaxPanics = 1
INVARIANTS ResultIsMine HandedOutOnce ClosedStaysClosed
SYMMETRY Symmetric
CHECK_DEADLOCK FALSE

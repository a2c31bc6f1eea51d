SPECIFICATION SnapshotSpec
CONSTANTS
  MaxCounter = 3
  r1 = r1  r2 = r2  e1 = e1  v1 = v1  v2 = v2  v3 = v3
  Reader = {r1, r2}
  Log <- Contended
  MaxBatch = 2
  MaxRead = 4
INVARIANTS SnapshotIsReplay AbsorbedIsCovered
CHECK_DEADLOCK FALSE

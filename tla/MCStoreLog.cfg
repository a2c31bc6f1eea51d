SPECIFICATION Spec
CONSTANTS
  o1 = o1  o2 = o2  o3 = o3  o4 = o4
  Op = {o1, o2, o3, o4}
  MaxBatch = 2
INVARIANTS NothingLost ReadsLikeMemory
PROPERTIES StepsImplementDurability StepsImplementPorts
CHECK_DEADLOCK FALSE

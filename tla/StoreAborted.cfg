SPECIFICATION Spec
CONSTANTS
  k1 = k1
  age = age
  t1 = t1
  t2 = t2
  t3 = t3
  Keys <- TheRow
  Settings = {}
  Tasks <- TwoTasks
  Deletable = {}
  Overlap = TRUE
  MaxWrites = 3
CHECK_DEADLOCK FALSE
INVARIANT AbortLeavesNothing

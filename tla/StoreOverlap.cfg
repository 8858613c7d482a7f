SPECIFICATION Spec
CONSTANTS
  k1 = k1
  age = age
  t1 = t1
  t2 = t2
  t3 = t3
  Keys <- KeysOfTwoTables
  Settings <- TheAge
  Tasks <- ThreeTasks
  Deletable = {}
  Overlap = TRUE
  MaxWrites = 4
CHECK_DEADLOCK FALSE
SYMMETRY TaskSymmetry
INVARIANTS CommittedWritesStand StoreInv

SPECIFICATION WalkSpec
CONSTANTS
  k1 = k1
  k2 = k2
  k3 = k3
  region = region
  a = a
  b = b
  r1 = r1
  r2 = r2
  Null = Null
  Keys <- ThreeKeys
  Fields <- OneField
  Optional <- NoField
  Values <- TwoValues
  Requests <- TwoRequests
  Calls <- EveryCall
  Conns = 2
  MinStep = 0
  Filters <- SomeFilters
  Limit = 1
  Tables <- SomeTables
  Start = 3
CHECK_DEADLOCK FALSE
SYMMETRY Symmetry
INVARIANTS
  WalkIInv
PROPERTIES
  MissesAreExplained

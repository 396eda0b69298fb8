SPECIFICATION FairSyncSpec
CONSTANTS
  k1 = k1
  k2 = k2
  name = name
  a = a
  b = b
  r1 = r1
  r2 = r2
  r3 = r3
  Null = Null
  Keys <- TwoKeys
  Fields <- OneField
  Optional <- NoField
  Values <- TwoValues
  Requests <- ThreeRequests
  Calls <- EveryCall
  Conns = 1
  MinStep = 1
  PageSize = 1
CHECK_DEADLOCK FALSE
INVARIANTS
  OnlyDeletionsAreLost
PROPERTIES
  ReplicaConverges

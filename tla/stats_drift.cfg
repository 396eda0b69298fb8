SPECIFICATION DashSpec
CONSTANTS
  k1 = k1
  k2 = k2
  k3 = k3
  status = status
  region = region
  a = a
  blank = blank
  unknown = unknown
  projects = projects
  volunteers = volunteers
  r1 = r1
  r2 = r2
  Null = Null
  None = None
  Keys <- ThreeKeys
  Fields <- TwoFields
  Optional <- NoField
  Values <- TwoValues
  Requests <- TwoRequests
  Calls <- EveryCall
  Conns = 2
  MinStep = 0
  Entities <- TwoEntities
  EntityOf <- Where
  StatusCol = status
  RegionCol = region
  Blank = blank
  Unknown = unknown
  RecentRows = 1
  Tables <- SomeTables
  Start = 2
CHECK_DEADLOCK FALSE
SYMMETRY Symmetry
INVARIANTS
  DashIInv
  DriftIsBounded

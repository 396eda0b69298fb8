SPECIFICATION Spec
CONSTANTS
  k1 = k1
  name = name
  geo = geo
  a = a
  b = b
  r1 = r1
  r2 = r2
  r3 = r3
  Null = Null
  Keys <- OneKey
  Fields <- TwoFields
  Optional <- OptionalField
  Values <- TwoValues
  Requests <- ThreeRequests
  Calls <- EveryCall
  Conns = 3
  MinStep = 0
CHECK_DEADLOCK FALSE
SYMMETRY Symmetry
INVARIANTS
  IInv
  OneDeleteSucceeds
  NotFoundMeansGone
PROPERTIES
  DeletedStaysDeleted
  UpdatesMergeByColumn
  UpdatesSpareDeletedRows

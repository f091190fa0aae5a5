CONSTANTS
  o1 = o1
  o2 = o2
  o3 = o3
  r1 = r1
  r2 = r2
  Gone = Gone
  Clean = Clean
  NoOne = NoOne
  Ops <- ThreeOps
  Rows <- MCRows
  Fields <- MCFields
  Values <- MCValues
  Start <- MCStart
  Documents <- MCDocuments
  Readable <- MCReadable
  Allowed <- MCAllowed
SPECIFICATION Spec
INVARIANTS
  TypeOK
  TrailEndsAtRow
  NoLostUpdate
  OldValueExisted
PROPERTY OperationsSettle
CHECK_DEADLOCK FALSE

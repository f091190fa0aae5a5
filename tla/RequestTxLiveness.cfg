CONSTANTS
  o1 = o1
  o2 = o2
  q1 = q1
  q2 = q2
  NoTx = NoTx
  Ops <- MCOps
  HttpReqs <- MCReqs
  ReqOf <- Batched
  Queries <- MCQueries
  Mutations <- OneMutation
  MaxFields = 1
  PoolSize = 1
  MaxCrashes = 1
SPECIFICATION FairSpec
PROPERTIES
  OperationsEnd
  ConnectionsReturn
CHECK_DEADLOCK FALSE

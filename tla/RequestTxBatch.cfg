CONSTANTS
  o1 = o1
  o2 = o2
  q1 = q1
  q2 = q2
  NoTx = NoTx
  Ops <- MCOps
  HttpReqs <- MCReqs
  ReqOf <- Batched
  Queries <- Nothing
  Mutations <- OneMutation
  MaxFields = 1
  PoolSize = 2
  MaxCrashes = 0
SPECIFICATION Spec
INVARIANT TransactionLastsForRequest
CHECK_DEADLOCK FALSE

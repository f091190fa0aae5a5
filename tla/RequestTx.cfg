CONSTANTS
  o1 = o1
  o2 = o2
  q1 = q1
  q2 = q2
  NoTx = NoTx
  Ops <- MCOps
  HttpReqs <- MCReqs
  ReqOf <- Separate
  Queries <- MCQueries
  Mutations <- MCMutations
  MaxFields = 2
  PoolSize = 2
  MaxCrashes = 1
SPECIFICATION Spec
INVARIANTS
  TypeOK
  ChangesAreAudited
  TransactionLastsForRequest
  AcknowledgedIsNotSpoiled
  RulesHavePermissions
PROPERTY AtomicSpec
CHECK_DEADLOCK FALSE

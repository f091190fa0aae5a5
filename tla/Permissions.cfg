CONSTANTS
  x = x
  y = y
  crew = crew
  admins = admins
  guest = guest
  user = user
  TypeOnly = TypeOnly
  NoField = NoField
  Unlimited = Unlimited
  Nobody = Nobody
  SubjectRows <- MCSubjectRows
  SubjectFields <- MCSubjectFields
  Groups <- MCGroups
  Guest = guest
  User = user
  Rows <- MCRows
  Priority <- MCPriority
  MaxChanges = 2
SPECIFICATION Spec
INVARIANTS
  TypeOK
  EachWasInForce
  SteadyOnesAreThere
  PreChecksAgree
CHECK_DEADLOCK FALSE

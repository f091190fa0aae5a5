CONSTANTS
  u1 = u1
  u2 = u2
  s1 = s1
  s2 = s2
  None = None
  Other = Other
  Users <- MCUsers
  Shells <- MCShells
  MaxGroup = 5
SPECIFICATION Spec
INVARIANTS
  DefaultGroupsOnce
  CollisionsEnd
  LoginCostsOnlyContact
PROPERTY GroupsCommandCompletes
CHECK_DEADLOCK FALSE

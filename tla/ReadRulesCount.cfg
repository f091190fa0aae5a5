CONSTANTS
  TypeOnly = TypeOnly
  NoField = NoField
  Unlimited = Unlimited
  Null = Null
  SubjectRows <- MCSubjectRows
  SubjectFields <- MCSubjectFields
  Subjects <- MCSubjects
  Start <- MCStart
  Changes <- MCChanges
  Abilities <- MCAbilities
  Documents <- PersonCount
  MaxCommits = 0
SPECIFICATION Spec
PROPERTY CountIsOfReadable
CHECK_DEADLOCK FALSE

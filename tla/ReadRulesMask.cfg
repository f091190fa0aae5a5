CONSTANTS
  TypeOnly = TypeOnly
  NoField = NoField
  Unlimited = Unlimited
  Null = Null
  SubjectRows <- MCSubjectRows
  SubjectFields <- MCSubjectFields
  Subjects <- MCSubjects
  Start <- MCStart
  Changes <- MCChanges
  Abilities <- ChainedAbilities
  Documents <- PersonDocuments
  MaxCommits = 0
SPECIFICATION Spec
INVARIANT MasksAreExact
CHECK_DEADLOCK FALSE

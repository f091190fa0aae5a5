CONSTANTS
  TypeOnly = TypeOnly
  NoField = NoField
  Unlimited = Unlimited
  Null = Null
  SubjectRows <- MCSubjectRows
  SubjectFields <- MCSubjectFields
  Subjects <- MCSubjects
  Start <- MCStart
  Changes <- MCChanges
  Abilities <- MCAbilities
  Documents <- CursorDocuments
  MaxCommits = 0
SPECIFICATION Spec
INVARIANT CursorsNeedSort
CHECK_DEADLOCK FALSE

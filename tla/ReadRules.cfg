CONSTANTS
  TypeOnly = TypeOnly
  NoField = NoField
  Unlimited = Unlimited
  Null = Null
  SubjectRows <- MCSubjectRows
  SubjectFields <- MCSubjectFields
  Subjects <- MCSubjects
  Start <- MCStart
  Changes <- MCChanges
  Abilities <- MCAbilities
  Documents <- MCDocuments
  MaxCommits = 1
SPECIFICATION Spec
INVARIANTS
  TypeOK
  ListsAreNotRefused
  MasksAreExact
  RelationsHold
CHECK_DEADLOCK FALSE

CONSTANTS
  TypeOnly = TypeOnly
  NoField = NoField
  Unlimited = Unlimited
  Null = Null
  SubjectRows <- MCSubjectRows
  SubjectFields <- MCSubjectFields
  Subjects <- MCSubjects
  Start <- MCStart
  Changes <- MCChanges
  Abilities <- HiddenIdAbilities
  Documents <- AssetDocuments
  MaxCommits = 0
SPECIFICATION Spec
INVARIANT RelationsHold
CHECK_DEADLOCK FALSE

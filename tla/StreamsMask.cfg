CONSTANTS
  r1 = r1
  r2 = r2
  c1 = c1
  None = None
  Ids <- MCIds
  Running <- MCRunning
  Readers <- TwoReaders
  Hides <- MCHides
  Calls = {}
  Silence = 0
  Retries = 1
  Take = 1
  MaxInbox = 1
  MaxOutages = 0
SPECIFICATION Spec
INVARIANTS MaskIsPrivate
CHECK_DEADLOCK FALSE

CONSTANTS
  r1 = r1
  r2 = r2
  c1 = c1
  None = None
  Ids <- MCIds
  Running <- MCRunning
  Readers <- OneReader
  Hides = {}
  Calls <- OneCall
  Silence = 0
  Retries = 2
  Take = 1
  MaxInbox = 1
  MaxOutages = 1
SPECIFICATION Spec
INVARIANTS
  TypeOK
  ListIsOrdered
  PagingIsExact
PROPERTIES
  LiveSpec
  DeletedStreamsLeave
  FeedComesUp
  RunningStreamsAreListed
CHECK_DEADLOCK FALSE

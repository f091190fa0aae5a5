CONSTANTS
  u1 = u1
  u2 = u2
  b1 = b1
  r1 = r1
  r2 = r2
  None = None
  Guest = Guest
  Users <- MCUsers
  Browsers <- MCBrowsers
  Requests <- MCRequests
  Sids <- MCSids
  Documents <- MCDocuments
  MaxArrivals = 2
  MaxFaults = 1
SPECIFICATION Spec
INVARIANTS
  TypeOK
  ActsAsJudged
  SessionsHaveUsers
  LogoutEnds
PROPERTIES
  CookieMeansUser
  SessionsKeepTheirUser
  RequestsSettle
CHECK_DEADLOCK FALSE

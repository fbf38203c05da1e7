SPECIFICATION Spec
CONSTANTS
  p1 = p1
  q1 = q1
  q2 = q2
  q3 = q3
  d1 = d1
  d2 = d2
  d3 = d3
  NoPR = NoPR
  Requests <- MCRequests
  Deliveries <- MCDeliveries
  PRs <- MCPRs
  Subject <- MCSubject
  QuietPeriod = 1
  MaxCrashes = 1
  DbMayFail = TRUE
  MayUninstall = TRUE
INVARIANTS TypeOK DispatchedIsPersisted
PROPERTIES EventsAccountedFor AcceptedIsReviewed
CHECK_DEADLOCK FALSE

SPECIFICATION Spec
CONSTANTS
  p1 = p1
  q1 = q1
  q2 = q2
  q3 = q3
  d1 = d1
  d2 = d2
  d3 = d3
  NoPR = NoPR
  Requests <- MCTwoRequests
  Deliveries <- MCTwoDeliveries
  PRs <- MCPRs
  Subject <- MCTwoSubject
  QuietPeriod = 1
  MaxCrashes = 1
  DbMayFail = FALSE
  MayUninstall = FALSE
PROPERTY DuplicateIsReviewed
CHECK_DEADLOCK FALSE

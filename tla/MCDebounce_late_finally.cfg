SPECIFICATION Spec
CONSTANTS
  p1 = p1
  PRs <- MCOnePR
  QuietPeriod = 1
  MaxSchedules = 3
  SlowCleanup = TRUE
INVARIANT OneActiveReview
CHECK_DEADLOCK FALSE

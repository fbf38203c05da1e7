SPECIFICATION TimedSpec
CONSTANTS
  p1 = p1
  p2 = p2
  PRs <- MCPRs
  QuietPeriod = 2
  MaxSchedules = 2
  SlowCleanup = TRUE
  Checks = {"exit1", "entry2"}
  Shas = {"sha1", "sha2"}
  Exits = {"exit1"}
  Expected <- MCExpected
  TTL = 2
  Timeout = 1
  Attempts = 3
  Faulty = TRUE
  MaxTime = 3
  MaxVersion = 2
INVARIANTS
  TimedTypeOK
  TimerTracked ActiveIsTracked
  AnswersTruthful CacheIsRecent
PROPERTIES
  QuietRespected NoStaleStart LatestReviewStarts
  EveryCallReturns
CHECK_DEADLOCK FALSE

SPECIFICATION Spec
CONSTANTS
  t1 = t1
  t2 = t2
  t3 = t3
  Threads <- MCThreads
  MaxVersion = 1
  MaxCalls = 3
INVARIANTS TypeOK FetchedIsCurrent
PROPERTIES RefsNeverGoBack FetchReturns
CHECK_DEADLOCK FALSE

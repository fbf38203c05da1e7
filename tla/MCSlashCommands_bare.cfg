SPECIFICATION Spec
CONSTANTS
  MaxLines = 2
  MaxWords = 3
INVARIANT NoneMeansAbsent
CHECK_DEADLOCK FALSE

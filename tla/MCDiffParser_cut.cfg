SPECIFICATION Spec
CONSTANTS
  MaxFiles = 1
  MaxLines = 3
  MaxCount = 2
  MaxGap = 1
  MaxCutLines = 3
INVARIANT LinesTrue
CHECK_DEADLOCK FALSE

SPECIFICATION Spec
CONSTANTS
  MaxRow = 2
  MaxNodes = 3
  MaxDepth = 3
INVARIANTS SignatureHasFirstLine
CHECK_DEADLOCK FALSE

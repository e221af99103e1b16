SPECIFICATION Spec
CONSTANTS
  PieceLengths = {1}
  BlockLen = 2
  MaxPending = 2
  StrayBegin = {}
  StrayLength = {}
  MaxStray = 0
INVARIANTS
  ShortPieceIsRequested
CHECK_DEADLOCK FALSE

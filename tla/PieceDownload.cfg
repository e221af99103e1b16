SPECIFICATION FairSpec
CONSTANTS
  PieceLengths = {1, 2, 3, 5, 6, 8}
  BlockLen = 2
  MaxPending = 3
  StrayBegin = {0, 2, 3, 64}
  StrayLength = {0, 2}
  MaxStray = 2
INVARIANTS
  TypeOK
  RequestsOnce
  CompleteIsFull
PROPERTIES
  PieceCompletes
CHECK_DEADLOCK FALSE

SPECIFICATION FairSpec
CONSTANTS
  w1 = w1
  w2 = w2
  w3 = w3
  Worker <- TwoWorkers
  NPiece = 4
  FirstPiece = 1
  Nil = Nil
PROPERTIES
  CancelDrains
CHECK_DEADLOCK FALSE

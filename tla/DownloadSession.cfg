SPECIFICATION FairSpec
CONSTANTS
  w1 = w1
  w2 = w2
  w3 = w3
  Worker <- ThreeWorkers
  NPiece = 4
  FirstPiece = 1
  Nil = Nil
INVARIANTS
  TypeOK
  EveryPieceAccounted
  JobsNeverBlock
  CompletionSound
  DependentsNotNeeded
  NeverStuck
CHECK_DEADLOCK FALSE
PROPERTIES
  Finishes
  CompletedReachesDisk
  KeepsContract

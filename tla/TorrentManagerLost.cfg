SPECIFICATION Spec
CONSTANTS
  NPiece = 2
  MaxSession = 2
  Nil = Nil
INVARIANTS
  CompleteMeansDelivered
CHECK_DEADLOCK FALSE

SPECIFICATION FairSpec
CONSTANTS
  NPiece = 2
  MaxSession = 3
  Nil = Nil
INVARIANTS
  TypeOK
  OneSession
  HandedOnce
  InProgressIsAlive
CHECK_DEADLOCK FALSE
PROPERTIES
  CommandsServed
  SessionsKeepContract

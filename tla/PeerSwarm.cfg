SPECIFICATION FairSpec
CONSTANTS
  p1 = p1
  p2 = p2
  Peer <- TwoPeers
  Id <- SameId
  NPiece = 10
  NRouter = 2
  Says <- Sayings
  MaxSaid <- Bounds
  ChanCap = 1
CHECK_DEADLOCK FALSE
INVARIANTS
  TypeOK
  NothingLost
  LastWordCounts
  InterestIsOwnership
PROPERTIES
  EverythingHandled

SPECIFICATION FairSpec
CONSTANTS
  w1 = w1
  w2 = w2
  seed = seed
  p1 = p1
  p2 = p2
  Worker <- TwoWorkers
  Peer <- Peers
  Id <- Ids
  Seed <- Seeds
  PieceIndex = {1}
  MaxPiecePerPeer = 1
  Nil = Nil
INVARIANTS
  TypeOK
  LoadExact
  CapacityRespected
  BusyPeerWakes
PROPERTIES
  RequestsAreServed

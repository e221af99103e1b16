SPECIFICATION Spec
CONSTANTS
  Radix = 20
  udpProtocolId = 417
  BufferSize = 40
  Numeral = {"1"}
  Infos <- MCInfos
  Streams <- MCStreams
  Requests <- MCRequests
  Handshakes <- MCHandshakes
  Announces <- MCAnnounces
  Answers <- MCAnswers
  Values <- MCValues
INVARIANTS
  PiecesInPlace
  RequestsArrive
  ClientsUnderstood
  AnswersUnderstood
  ValuesUnderstood

------------------------------ MODULE Formats ------------------------------
(***************************************************************************)
(* What the program reads and writes, one input at a time: a torrent to    *)
(* write, messages of peers, handshakes, requests to send, announcements   *)
(* and answers of a tracker, bencoded values. The properties compare the   *)
(* operators that are translated from the code with what the other end     *)
(* means. Those of bencoded values are in BencodeFormats.                  *)
(***************************************************************************)
EXTENDS PieceWriter, TrackerMessages

CONSTANTS Infos, Streams, Requests, Handshakes, Announces, Answers, Values

\* The lengths of a torrent are not negative, its pieces not empty.
ASSUME InfoAssumption ==
  \A info \in Infos :
    /\ info.length \in Nat /\ info.pieceLength \in Nat \ {0}
    /\ info.files \in Seq(ToSet(info.files))
    /\ \A f \in ToSet(info.files) : f.length \in Nat

\* A hash is twenty bytes.
ASSUME HandshakeAssumption ==
  \A h \in Handshakes : h[1] \in Seq(Byte) /\ Len(h[1]) = 20 /\ h[2] \in Seq(Byte)

\* The numbers of a message fit their fields. Only the number of peers that are
\* wanted is negative.
ASSUME StreamAssumption ==
  \A ms \in Streams : ms \in Seq(ToSet(ms)) /\ \A m \in ToSet(ms) : Writable(m)

ASSUME RequestAssumption ==
  \A rs \in Requests : rs \in Seq([PieceIndex : Int, BeginIndex : Int, BlockLength : Int])

ASSUME AnnounceAssumption ==
  \A msg \in Announces :
    /\ \A n \in {msg.ConnectionID, msg.Downloaded, msg.Left, msg.Uploaded} : Fits(n, 8)
    /\ \A n \in {msg.Action, msg.TransactionID, msg.Event, msg.Ip, msg.Key} : Fits(n, 4)
    /\ Fits(msg.Port, 2) /\ msg.NumWant \in Int
    /\ msg.Infohash \in Seq(Byte) /\ Len(msg.Infohash) = 20
    /\ msg.PeerId \in Seq(Byte) /\ Len(msg.PeerId) = 20

ASSUME AnswerAssumption ==
  \A a \in Answers :
    /\ a[1] \in [Action : Nat, TransactionID : Nat, Interval : Nat, NLeechers : Nat, NSeeders : Nat]
    /\ \A field \in DOMAIN a[1] : Fits(a[1][field], 4)
    /\ a[2] \in Seq([ip : Seq(Byte), port : Nat])
    /\ \A i \in DOMAIN a[2] : Len(a[2][i].ip) = 4 /\ Fits(a[2][i].port, 2)

VARIABLE input

None == [kind |-> "none"]

Init == input = None

\* One operation of the program on one input, after which it is ready again.
Operation(kind, inputs) ==
  /\ input = None
  /\ \E x \in inputs : input' = [kind |-> kind, x |-> x]

Done == input # None /\ input' = None

Next ==
  \/ Operation("info", Infos)
  \/ Operation("stream", Streams)
  \/ Operation("requests", Requests)
  \/ Operation("handshake", Handshakes)
  \/ Operation("announce", Announces)
  \/ Operation("answer", Answers)
  \/ Operation("value", Values)
  \/ Done

Spec == Init /\ [][Next]_input

Is(kind) == input.kind = kind

\* writePiece, for every piece of the torrent: each of its bytes gets to its
\* place in its file, and nothing is written anywhere else, however the borders
\* of files and pieces fall and whether files are empty. buildQueue: the pieces
\* leave no byte of the torrent out.
PiecesInPlace ==
  Is("info") => WritesInPlace(input.x) /\ FilesComplete(input.x)

\* What another client sends is read as it was meant. newHandShakeMsg and
\* parseHandShake: the hash is the one that was sent, and a handshake without an
\* id, as the code for incoming connections sends it, is not accepted.
\* HandleMsgStream and ParseMsg: the stream behind it comes out message by
\* message, with every field.
ClientsUnderstood ==
  /\ Is("handshake") => HandshakeUnderstood(input.x[1], input.x[2])
  /\ Is("stream") => StreamUnderstood(input.x)

\* Marshal and IntToByte: requests are read as they were made, and each where it
\* begins. NewUdpAnnounceRequest and ParseUdpConnectionResponse: a tracker finds
\* every field of an announcement at its place, and its own connection id.
RequestsArrive ==
  /\ Is("requests") => RequestsUnderstood(input.x)
  /\ Is("announce") => AnnounceUnderstood(input.x) /\ ConnectionKept(input.x)

\* ParseAnnounceResponseUdpMsg and CreatePeersFromUDPTracker: no peer is made up
\* from other bytes, and all but the first are found. An answer that is longer
\* than the buffer may end the process.
AnswersUnderstood ==
  Is("answer") => /\ PeersUnderstood(input.x[1], input.x[2])
                  /\ AnswerUnderstood(input.x[1], input.x[2])
=============================================================================

---------------------------- MODULE WireMessages ---------------------------
(***************************************************************************)
(* The messages between peers as bytes: what is written                    *)
(* (core/torrent_message.go, utils/utils.go), how a stream is cut into     *)
(* messages (HandleMsgStream) and how a message is parsed                  *)
(* (core/msg_parser.go).                                                   *)
(*                                                                         *)
(* A byte has Radix values, 256 in the code. Go's integers of 8 and 4 bytes*)
(* are eight and four digits to that base. Slices of the code count from 0 *)
(* and leave their upper bound out.                                        *)
(***************************************************************************)
EXTENDS Integers, Sequences, SequencesExt

CONSTANT Radix

\* Every id fits the seven low bits.
ASSUME RadixAssumption == Radix \in Nat /\ Radix % 2 = 0 /\ Radix > 18

Byte == 0 .. Radix - 1
ChokeMsgId == 0
UnChokeMsgId == 1
InterestedMsgId == 2
UnInterestedMsgId == 3
HaveMsgId == 4
BitfieldMsgId == 5
RequestMsgId == 6
PieceMsgId == 7
CancelMsgId == 8
requestMsgLen == 13
pieceMsgLen == 9
defaultMsgLen == 1

\* The code ends with a run-time error.
Panic == [panic |-> TRUE]

Zeros(n) == [i \in 1 .. n |-> 0]

\* n without its low k digits, n >> 8 * k in the code.
ShiftRight(n, k) ==
  LET shifted[i \in 0 .. k] == IF i = 0 THEN n ELSE shifted[i - 1] \div Radix
  IN  shifted[k]

\* binary.BigEndian: the low w digits of n, which may be negative.
PutUint(n, w) == [i \in 1 .. w |-> ShiftRight(n, w - i) % Radix]
Uint(s) == FoldLeft(LAMBDA n, b : n * Radix + b, 0, s)

\* A number that w bytes hold, and what four bytes keep of any number.
Fits(n, w) == n \in Nat /\ ShiftRight(n, w) = 0
Uint32(n) == n % (Radix * Radix * Radix * Radix)

\* s[from:to]
Slice(s, from, to) == SubSeq(s, from + 1, to)

\* utils.IntToByte, for a number that fits PutUvarint when one byte is asked for.
IntToByte(n, nByte) ==
  IF nByte < 2 THEN <<n>>
  ELSE IF nByte < 4 THEN PutUint(n, 2) \o Zeros(nByte - 2)
  ELSE IF nByte < 8 THEN PutUint(n, 4) \o Zeros(nByte - 4)
  ELSE PutUint(n, 8)

\* binary.Uvarint of a single byte: with its highest bit on the number goes on
\* in a byte that is not there, and the result is 0.
Uvarint(b) == IF b < Radix \div 2 THEN b ELSE 0

-----------------------------------------------------------------------------
\* RequestMsg.Marshal and InterestedMsg.Marshal.
\* (Mutant: the length leaves the id out.)
RequestLengthShort == requestMsgLen - 1

RequestLength == requestMsgLen

MarshalRequest(request) ==
  IntToByte(RequestLength, 4) \o IntToByte(RequestMsgId, 1)
    \o IntToByte(request.PieceIndex, 4) \o IntToByte(request.BeginIndex, 4)
    \o IntToByte(request.BlockLength, 4)

MarshalInterested == IntToByte(defaultMsgLen, 4) \o IntToByte(InterestedMsgId, 1)

-----------------------------------------------------------------------------
Simple(id) == [ID |-> id]

parseBitfieldMsg(msg, length) ==
  [ID |-> BitfieldMsgId, Bitfield |-> Slice(msg, 5, length - defaultMsgLen + 5)]

parseHaveMsg(msg, length) ==
  IF length < 5 THEN Panic ELSE [ID |-> HaveMsgId, PieceIndex |-> Uint(Slice(msg, 5, 9))]

\* Request and cancel.
parseRequestMsg(id, msg, length) ==
  IF length < 13 THEN Panic
  ELSE [ID |-> id, PieceIndex |-> Uint(Slice(msg, 5, 9)),
        BeginIndex |-> Uint(Slice(msg, 9, 13)), BlockLength |-> Uint(Slice(msg, 13, 17))]

\* (Mutant: the end of the block is counted from the begin index.)
BlockEndEarly(length) == length - pieceMsgLen + 9

BlockEnd(length) == length - pieceMsgLen + 13

parsePieceMsg(msg, length) ==
  IF length < 9 THEN Panic
  ELSE [ID |-> PieceMsgId, PieceIndex |-> Uint(Slice(msg, 5, 9)),
        BeginIndex |-> Uint(Slice(msg, 9, 13)),
        Payload |-> Slice(msg, 13, BlockEnd(length))]

\* ParseMsg, for a message with as many bytes as its first four say, as
\* HandleMsgStream passes it. -1 is the id of a keep-alive.
ParseMsg(msg) ==
  LET length == Uint(Slice(msg, 0, 4))
      id == Uvarint(msg[5])
  IN  IF length = 0 THEN Simple(-1)
      ELSE CASE id = BitfieldMsgId -> parseBitfieldMsg(msg, length)
             [] id \in {RequestMsgId, CancelMsgId} -> parseRequestMsg(id, msg, length)
             [] id = PieceMsgId -> parsePieceMsg(msg, length)
             [] id = HaveMsgId -> parseHaveMsg(msg, length)
             [] OTHER -> Simple(id)

\* HandleMsgStream: the messages in a stream that begins at pos, up to the
\* last one that is complete.
Messages(stream) ==
  LET total == Len(stream)
      next(pos) == pos + 4 + Uint(Slice(stream, pos, pos + 4))
      from[pos \in 0 .. total] ==
        IF pos + 4 > total \/ next(pos) > total THEN <<>>
        ELSE <<ParseMsg(Slice(stream, pos, next(pos)))>> \o from[next(pos)]
  IN  from[0]

-----------------------------------------------------------------------------
\* newHandShakeMsg, and parseHandShake of the bytes connect reads.
Greeting == [i \in 1 .. 28 |-> IF i = 1 THEN 19 ELSE 0]

newHandShakeMsg(infoHash, peerID) == Greeting \o infoHash \o peerID

HashStart == 28

\* parseHandShake returns an error, which connect passes to log.Fatal.
TooShort == [error |-> TRUE]

parseHandShake(data) ==
  IF Len(data) < 68 THEN TooShort
  ELSE [infoHash |-> Slice(data, HashStart, HashStart + 20), peerID |-> Slice(data, 48, 68)]

-----------------------------------------------------------------------------
\* A message as another client writes it: its length, its id and its fields.
Body(m) ==
  IF m.ID = -1 THEN <<>>
  ELSE <<m.ID>> \o
    (CASE m.ID = HaveMsgId -> PutUint(m.PieceIndex, 4)
       [] m.ID \in {RequestMsgId, CancelMsgId} ->
            PutUint(m.PieceIndex, 4) \o PutUint(m.BeginIndex, 4) \o PutUint(m.BlockLength, 4)
       [] m.ID = PieceMsgId ->
            PutUint(m.PieceIndex, 4) \o PutUint(m.BeginIndex, 4) \o m.Payload
       [] m.ID = BitfieldMsgId -> m.Bitfield
       [] OTHER -> <<>>)

Frame(m) == PutUint(Len(Body(m)), 4) \o Body(m)

\* One that can be written so: its fields and its length fit their bytes. The ids
\* this program does not know have their highest bit off, see Uvarint.
Writable(m) ==
  /\ Fits(Len(Body(m)), 4)
  /\ \/ m.ID = HaveMsgId /\ m \in [ID : Int, PieceIndex : Nat] /\ Fits(m.PieceIndex, 4)
     \/ /\ m.ID \in {RequestMsgId, CancelMsgId}
        /\ m \in [ID : Int, PieceIndex : Nat, BeginIndex : Nat, BlockLength : Nat]
        /\ Fits(m.PieceIndex, 4) /\ Fits(m.BeginIndex, 4) /\ Fits(m.BlockLength, 4)
     \/ /\ m.ID = PieceMsgId
        /\ m \in [ID : Int, PieceIndex : Nat, BeginIndex : Nat, Payload : Seq(Byte)]
        /\ Fits(m.PieceIndex, 4) /\ Fits(m.BeginIndex, 4)
     \/ m.ID = BitfieldMsgId /\ m \in [ID : Int, Bitfield : Seq(Byte)]
     \/ /\ m.ID \notin {HaveMsgId, RequestMsgId, CancelMsgId, PieceMsgId, BitfieldMsgId}
        /\ m \in [ID : -1 .. Radix \div 2 - 1]

\* What other clients send in any order, and keep-alives and unknown messages in
\* between, comes out of the stream message by message, with every field.
StreamUnderstood(ms) ==
  Messages(FlattenSeq([i \in DOMAIN ms |-> Frame(ms[i])])) = ms

\* Another client that reads as this one does gets the requests that were made,
\* if the numbers fit their four bytes, and an interested message before them.
RequestsUnderstood(rs) ==
  Messages(MarshalInterested \o FlattenSeq([i \in DOMAIN rs |-> MarshalRequest(rs[i])]))
    = <<Simple(InterestedMsgId)>> \o
      [i \in DOMAIN rs |->
         [ID |-> RequestMsgId, PieceIndex |-> Uint32(rs[i].PieceIndex),
          BeginIndex |-> Uint32(rs[i].BeginIndex), BlockLength |-> Uint32(rs[i].BlockLength)]]

\* The handshake of a client with a whole id is accepted and keeps the hash and
\* the id; that of one without an id is too short for connect.
HandshakeUnderstood(infoHash, peerID) ==
  parseHandShake(newHandShakeMsg(infoHash, peerID))
    = IF Len(peerID) < 20 THEN TooShort
      ELSE [infoHash |-> infoHash, peerID |-> SubSeq(peerID, 1, 20)]
=============================================================================

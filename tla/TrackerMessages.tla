-------------------------- MODULE TrackerMessages --------------------------
(***************************************************************************)
(* The datagrams of a UDP tracker (core/tracker/udp_msg_parser.go) and the *)
(* peers that are made of an answer (core/peer_manager.go, core/peer.go).  *)
(***************************************************************************)
EXTENDS WireMessages

CONSTANTS
  udpProtocolId,
  BufferSize     \* the length of incomingMsg in sendAnnounceRequest

ASSUME BufferAssumption == BufferSize \in Nat /\ BufferSize >= 26 /\ udpProtocolId \in Nat

NewUdpConnectionRequest(transactionId) ==
  IntToByte(udpProtocolId, 8) \o IntToByte(0, 4) \o IntToByte(transactionId, 4)

Transfer(msg) ==
  IntToByte(msg.Downloaded, 8) \o IntToByte(msg.Left, 8) \o IntToByte(msg.Uploaded, 8)

NewUdpAnnounceRequest(msg) ==
  IntToByte(msg.ConnectionID, 8) \o IntToByte(msg.Action, 4)
    \o IntToByte(msg.TransactionID, 4) \o msg.Infohash \o msg.PeerId
    \o Transfer(msg)
    \o IntToByte(msg.Event, 4) \o IntToByte(msg.Ip, 4) \o IntToByte(msg.Key, 4)
    \o IntToByte(msg.NumWant, 4) \o IntToByte(msg.Port, 2)

ParseUdpConnectionResponse(msg) ==
  [Action |-> Uint(Slice(msg, 0, 4)), TransactionID |-> Uint(Slice(msg, 4, 8)),
   ConnectionID |-> Uint(Slice(msg, 8, 16))]

-----------------------------------------------------------------------------
\* The buffer after a datagram has been read: a longer one is cut off, a
\* shorter one leaves zeros behind it.
Buffer(datagram) ==
  [i \in 1 .. BufferSize |-> IF i <= Len(datagram) THEN datagram[i] ELSE 0]
BytesRead(datagram) == IF Len(datagram) < BufferSize THEN Len(datagram) ELSE BufferSize

\* (Mutant: an answer with one peer to read is taken for one without.)
PeersFromAfter == 27

PeersFrom == 26

\* ParseAnnounceResponseUdpMsg: the bytes of the peers begin at 26. Their slice
\* has the length msgSize - 26 and the capacity of the rest of the buffer.
PeersAddresses(msgSize) == IF msgSize >= PeersFrom THEN msgSize - PeersFrom ELSE 0

ParseAnnounceResponseUdpMsg(msg) ==
  [Action |-> Uint(Slice(msg, 0, 4)), TransactionID |-> Uint(Slice(msg, 4, 8)),
   Interval |-> Uint(Slice(msg, 8, 12)), NLeechers |-> Uint(Slice(msg, 12, 16)),
   NSeeders |-> Uint(Slice(msg, 16, 20))]

\* NewPeerFromBytes.
NewPeerFromBytes(peerData) ==
  [ip |-> Slice(peerData, 0, 4), port |-> Uint(Slice(peerData, 4, 6))]

\* CreatePeersFromUDPTracker: steps of six bytes, the last one may leave the
\* slice, but not its capacity.
CreatePeersFromUDPTracker(msg, size) ==
  LET n == (size + 5) \div 6
  IN  IF PeersFrom + 6 * n > BufferSize THEN Panic
      ELSE [i \in 1 .. n |->
              NewPeerFromBytes(Slice(msg, PeersFrom + 6 * (i - 1), PeersFrom + 6 * i))]

PeersOf(datagram) ==
  CreatePeersFromUDPTracker(Buffer(datagram), PeersAddresses(BytesRead(datagram)))

-----------------------------------------------------------------------------
\* The announce answer of a tracker, with the peers behind 20 bytes.
Answer(header, peers) ==
  PutUint(header.Action, 4) \o PutUint(header.TransactionID, 4)
    \o PutUint(header.Interval, 4) \o PutUint(header.NLeechers, 4)
    \o PutUint(header.NSeeders, 4)
    \o FlattenSeq([i \in DOMAIN peers |-> peers[i].ip \o PutUint(peers[i].port, 2)])

\* The peers of an answer that fits the buffer are those the tracker names, but
\* for the first one, which is skipped. A longer answer ends the process, except
\* when the border of the buffer is that of a peer.
PeersUnderstood(header, peers) ==
  LET datagram == Answer(header, peers)
      fit == (BufferSize - 20) \div 6
  IN  PeersOf(datagram)
        = IF Len(datagram) <= BufferSize THEN (IF peers = <<>> THEN <<>> ELSE Tail(peers))
          ELSE IF (BufferSize - 20) % 6 = 0 THEN SubSeq(peers, 2, fit)
          ELSE Panic

\* The numbers of an answer are those the tracker has written.
AnswerUnderstood(header, peers) ==
  ParseAnnounceResponseUdpMsg(Buffer(Answer(header, peers))) = header

\* A tracker finds every field of an announce at its place; -1 for the number of
\* peers that are wanted is written as the largest number.
AnnounceUnderstood(msg) ==
  LET d == NewUdpAnnounceRequest(msg)
      field(from, to) == Uint(Slice(d, from, to))
  IN  /\ Len(d) = 98
      /\ Slice(d, 16, 36) = msg.Infohash
      /\ Slice(d, 36, 56) = msg.PeerId
      /\ field(0, 8) = msg.ConnectionID
      /\ <<field(8, 12), field(12, 16)>> = <<msg.Action, msg.TransactionID>>
      /\ <<field(56, 64), field(64, 72), field(72, 80)>>
           = <<msg.Downloaded, msg.Left, msg.Uploaded>>
      /\ <<field(80, 84), field(84, 88), field(88, 92)>> = <<msg.Event, msg.Ip, msg.Key>>
      /\ field(92, 96) = Uint32(msg.NumWant)
      /\ field(96, 98) = msg.Port

\* The id of a connection survives the way from the connect answer to the
\* announce.
ConnectionKept(msg) ==
  LET answer == PutUint(0, 4) \o PutUint(msg.TransactionID, 4) \o PutUint(msg.ConnectionID, 8)
  IN  /\ ParseUdpConnectionResponse(answer).ConnectionID = msg.ConnectionID
      /\ Len(NewUdpConnectionRequest(msg.TransactionID)) = 16
=============================================================================

----------------------------- MODULE PeerSwarm -----------------------------
(***************************************************************************)
(* The connections of a torrent and the way of a message from a remote     *)
(* peer to the state that depends on it: AddNewPeer, connect and           *)
(* HandleMsgStream (core/peer_manager.go), MsgChan, msgRouter              *)
(* (core/torrent_manager.go), the handlers (core/msg_handler.go) and the   *)
(* ownership of pieces (core/piece.go, core/downloader.go).                *)
(*                                                                         *)
(* One goroutine per peer connects, stores the peer and reads messages into*)
(* MsgChan; msgRouter handles them. A router never ends: its context is not*)
(* read, so each start of a stopped torrent adds one to those that run.    *)
(*                                                                         *)
(* A bitfield is its length in bytes and the set of pieces whose bit in one*)
(* of these bytes is on.                                                   *)
(* The signals to the peer dispatcher are in PeerDispatch, piece messages  *)
(* in PieceDownload; the bytes of a message are in WireMessages.           *)
(***************************************************************************)
EXTENDS Naturals, Sequences, SequencesExt, FiniteSets

CONSTANTS
  Peer,      \* Peer objects, one for each address of a tracker's answer
  Id,        \* their ids, made of ip and port
  NPiece,    \* number of pieces
  NRouter,   \* bound: how often the torrent is started
  Says,      \* the messages a remote peer may send
  MaxSaid,   \* bound: how many of them
  ChanCap    \* capacity of MsgChan

Piece == 0 .. NPiece - 1
Bitfield == {b \in [bytes : Nat, on : SUBSET Piece] : \A i \in b.on : i \div 8 < b.bytes}
Message ==
       [kind : {"choke", "unchoke", "other"}]
  \cup [kind : {"have"}, piece : Piece]
  \cup [kind : {"bitfield"}, bits : Bitfield]

ASSUME PeerAssumption ==
  /\ IsFiniteSet(Peer)
  /\ Id \in [Peer -> Nat]
  /\ MaxSaid \in [Peer -> Nat]
  /\ \A p \in Peer : Says[p] \subseteq Message
  /\ ChanCap \in Nat \ {0}
  /\ NPiece \in Nat \ {0}
  /\ NRouter \in Nat

\* The goroutines of msgRouter, in the order in which they are started.
Router == 1 .. NRouter

VARIABLES
  station,        \* where the goroutine of AddNewPeer for a peer is
  shaken,         \* history: the handshake of the connection was right
  activePeers,    \* the ids in the map, and the object under each
  said,           \* history: what the remote peer has sent and TCP delivers
  read,           \* how many of these messages have been read
  closed,         \* the remote peer has closed the connection
  msgChan,        \* MsgChan: peers and positions in said
  router,         \* where a router is
  hand,           \* the message it handles
  isChocking, bitfield, interestPoint,  \* fields of a Peer
  owners,         \* per piece, the ids in owners
  handled,        \* history: the positions handled, in order
  crash           \* the process has ended

connection == <<station, shaken, activePeers>>
stream == <<said, read, closed>>
peers == <<isChocking, bitfield, interestPoint, owners>>
vars == <<connection, stream, peers, msgChan, router, hand, handled, crash>>

(***************************************************************************)
(* connect: in net.DialTCP or the handshake. reading, passing: in          *)
(* HandleMsgStream, before and in the send to MsgChan. gone: the goroutine *)
(* has returned. nActiveConnection, which is only logged and reported, is  *)
(* left out.                                                               *)
(***************************************************************************)
Station == {"new", "connect", "reading", "passing", "gone"}
RouterState == {"off", "receive", "handle", "priority", "raced"}
Mail == [from : Peer, k : Nat]
NoMail == [k |-> 0]
NoPeer == "none"

TypeOK ==
  /\ station \in [Peer -> Station]
  /\ shaken \in [Peer -> BOOLEAN]
  /\ activePeers \in [{Id[p] : p \in Peer} -> Peer \cup {NoPeer}]
  /\ said \in [Peer -> Seq(Message)]
  /\ read \in [Peer -> Nat] /\ \A p \in Peer : read[p] <= Len(said[p])
  /\ closed \in [Peer -> BOOLEAN]
  /\ msgChan \in Seq(Mail)
  /\ Len(msgChan) <= ChanCap
  /\ router \in [Router -> RouterState]
  /\ hand \in [Router -> Mail \cup {NoMail}]
  /\ \A r \in Router : hand[r] = NoMail <=> router[r] \in {"off", "receive"}
  /\ isChocking \in [Peer -> BOOLEAN]
  /\ bitfield \in [Peer -> Bitfield]
  /\ interestPoint \in [Peer -> Nat]
  /\ owners \in [Piece -> SUBSET {Id[p] : p \in Peer}]
  /\ handled \in [Peer -> Seq(Nat)]
  /\ \A p \in Peer : \A j \in DOMAIN handled[p] : handled[p][j] \in 1 .. read[p]
  /\ crash \in BOOLEAN

Init ==
  /\ station = [p \in Peer |-> "new"]
  /\ shaken = [p \in Peer |-> FALSE]
  /\ activePeers = [i \in {Id[p] : p \in Peer} |-> NoPeer]
  /\ said = [p \in Peer |-> <<>>]
  /\ read = [p \in Peer |-> 0]
  /\ closed = [p \in Peer |-> FALSE]
  /\ msgChan = <<>>
  /\ router = [r \in Router |-> "off"]
  /\ hand = [r \in Router |-> NoMail]
  /\ isChocking = [p \in Peer |-> TRUE]
  /\ bitfield = [p \in Peer |-> [bytes |-> 0, on |-> {}]]
  /\ interestPoint = [p \in Peer |-> 0]
  /\ owners = [i \in Piece |-> {}]
  /\ handled = [p \in Peer |-> <<>>]
  /\ crash = FALSE

-----------------------------------------------------------------------------
\* The remote peer.
Say(p, m) ==
  /\ station[p] \in {"reading", "passing"}
  /\ ~closed[p]
  /\ Len(said[p]) < MaxSaid[p]
  /\ said' = [said EXCEPT ![p] = Append(@, m)]
  /\ UNCHANGED <<connection, read, closed, peers, msgChan, router, hand,
                 handled, crash>>

\* The connection is closed, or reset: then what is not read yet is lost.
Close(p) ==
  /\ shaken[p]
  /\ ~closed[p]
  /\ closed' = [closed EXCEPT ![p] = TRUE]
  /\ \/ UNCHANGED said
     \/ said' = [said EXCEPT ![p] = SubSeq(@, 1, read[p])]
  /\ UNCHANGED <<connection, read, peers, msgChan, router, hand,
                 handled, crash>>

-----------------------------------------------------------------------------
\* AddNewPeer, for a peer without a connection, and connect.
AddNewPeer(p) ==
  /\ station[p] = "new"
  /\ station' = [station EXCEPT ![p] = "connect"]
  /\ UNCHANGED <<shaken, activePeers, stream, peers, msgChan,
                 router, hand, handled, crash>>

\* The dial, or reading the handshake, fails: the peer is forgotten.
ConnectFails(p) ==
  /\ station[p] = "connect"
  /\ station' = [station EXCEPT ![p] = "gone"]
  /\ UNCHANGED <<shaken, activePeers, stream, peers, msgChan,
                 router, hand, handled, crash>>

\* The handshake cannot be written, or names another torrent: os.Exit.
HandshakeWrong(p) ==
  /\ station[p] = "connect"
  /\ crash' = TRUE
  /\ UNCHANGED <<connection, stream, peers, msgChan, router, hand, handled>>

\* connect returns and the peer is stored under its id.
Connected(p) ==
  /\ station[p] = "connect"
  /\ shaken' = [shaken EXCEPT ![p] = TRUE]
  /\ activePeers' = [activePeers EXCEPT ![Id[p]] = p]
  /\ station' = [station EXCEPT ![p] = "reading"]
  /\ UNCHANGED <<stream, peers, msgChan, router, hand,
                 handled, crash>>

-----------------------------------------------------------------------------
\* HandleMsgStream.
ReadMsg(p) ==
  /\ station[p] = "reading"
  /\ read[p] < Len(said[p])
  /\ read' = [read EXCEPT ![p] = @ + 1]
  /\ station' = [station EXCEPT ![p] = "passing"]
  /\ UNCHANGED <<shaken, activePeers, said, closed, peers,
                 msgChan, router, hand, handled, crash>>

\* (Mutant: the reader does not wait for MsgChan.)
RoomOrNot == TRUE

Room == Len(msgChan) < ChanCap

PassMsg(p) ==
  /\ station[p] = "passing"
  /\ Room
  /\ msgChan' = Append(msgChan, [from |-> p, k |-> read[p]])
  /\ station' = [station EXCEPT ![p] = "reading"]
  /\ UNCHANGED <<shaken, activePeers, stream, peers, router,
                 hand, handled, crash>>

\* (Mutant: the reader stops when the connection closes, with messages unread.)
NothingUnread(p) == TRUE

Drained(p) == read[p] = Len(said[p])

\* The connection has dropped. The peer stays where it is in activePeers.
ReadFails(p) ==
  /\ station[p] = "reading"
  /\ closed[p]
  /\ Drained(p)
  /\ station' = [station EXCEPT ![p] = "gone"]
  /\ UNCHANGED <<shaken, activePeers, stream, peers, msgChan,
                 router, hand, handled, crash>>

-----------------------------------------------------------------------------
\* msgRouter, and the handlers it calls.
StartRouter(r) ==
  /\ router[r] = "off"
  /\ \A s \in 1 .. r - 1 : router[s] # "off"
  /\ router' = [router EXCEPT ![r] = "receive"]
  /\ UNCHANGED <<connection, stream, peers, msgChan, hand, handled, crash>>

\* (Mutant: the message stays in MsgChan.)
MailKept == msgChan

MailLeft == Tail(msgChan)

RouterReceive(r) ==
  /\ router[r] = "receive"
  /\ msgChan # <<>>
  /\ hand' = [hand EXCEPT ![r] = Head(msgChan)]
  /\ msgChan' = MailLeft
  /\ router' = [router EXCEPT ![r] = "handle"]
  /\ UNCHANGED <<connection, stream, peers, handled, crash>>

\* Peer.HasPiece.
HasPiece(bf, i) == i \div 8 < bf.bytes /\ i \in bf.on

\* Peer.UpdateBitfield: the bit is 7 - byteIndex % 8 and not 7 - i % 8, so it
\* is that of another piece of the same byte for seven pieces in eight.
UpdatedBitfield(bf, i) ==
  IF bf.bytes <= i \div 8 THEN bf
  ELSE [bf EXCEPT !.on = @ \cup ({8 * (i \div 8) + ((i \div 8) % 8)} \cap Piece)]

\* (Mutant: choke and unchoke are exchanged.)
ChokeInverted(kind) == kind = "unchoke"

ChokeValue(kind) == kind = "choke"

HandleChoke(r, m) ==
  /\ m.kind \in {"choke", "unchoke"}
  /\ isChocking' = [isChocking EXCEPT ![hand[r].from] = ChokeValue(m.kind)]
  /\ router' = [router EXCEPT ![r] = "receive"]
  /\ hand' = [hand EXCEPT ![r] = NoMail]
  /\ UNCHANGED bitfield

HandleHave(r, m) ==
  /\ m.kind = "have"
  /\ bitfield' = [bitfield EXCEPT ![hand[r].from] = UpdatedBitfield(@, m.piece)]
  /\ router' = [router EXCEPT ![r] = "priority"]
  /\ UNCHANGED <<isChocking, hand>>

HandleBitField(r, m) ==
  /\ m.kind = "bitfield"
  /\ bitfield' = [bitfield EXCEPT ![hand[r].from] = m.bits]
  /\ router' = [router EXCEPT ![r] = "priority"]
  /\ UNCHANGED <<isChocking, hand>>

\* Interested and not interested write a flag nobody reads; request, cancel,
\* keep-alive and unknown messages have no effect.
HandleOther(r, m) ==
  /\ m.kind = "other"
  /\ router' = [router EXCEPT ![r] = "receive"]
  /\ hand' = [hand EXCEPT ![r] = NoMail]
  /\ UNCHANGED <<isChocking, bitfield>>

Handle(r) ==
  /\ router[r] = "handle"
  /\ LET m == said[hand[r].from][hand[r].k] IN
       \/ HandleChoke(r, m) \/ HandleHave(r, m)
       \/ HandleBitField(r, m) \/ HandleOther(r, m)
  /\ handled' = [handled EXCEPT ![hand[r].from] = Append(@, hand[r].k)]
  /\ UNCHANGED <<connection, stream, interestPoint, owners, msgChan, crash>>

\* (Mutant: a piece the peer owns already counts again.)
NewlyOwnedAgain(p) == {i \in Piece : HasPiece(bitfield[p], i)}

\* Downloader.updatePiecePriority and Piece.updateAvailability: the pieces
\* that get a new owner. Availability itself is counted on a copy of the
\* piece and stays 0, so the queue is never reordered.
NewlyOwned(p) ==
  {i \in Piece : HasPiece(bitfield[p], i) /\ Id[p] \notin owners[i]}

\* Two routers in it at the same time count from stale values.
InPriority == {"priority", "raced"}
Rivals(r) == {s \in Router \ {r} : router[s] \in InPriority}

UpdatePriority(r) ==
  /\ router[r] \in InPriority
  /\ LET p == hand[r].from
         raced == router[r] = "raced" \/ Rivals(r) # {}
         own == Cardinality({i \in Piece : HasPiece(bitfield[p], i)})
     IN  /\ owners' = [i \in Piece |->
                         IF i \in NewlyOwned(p) THEN owners[i] \cup {Id[p]} ELSE owners[i]]
         /\ \E n \in IF raced THEN 0 .. interestPoint[p] + own
                   ELSE {interestPoint[p] + Cardinality(NewlyOwned(p))} :
              interestPoint' = [interestPoint EXCEPT ![p] = n]
  /\ router' = [s \in Router |-> IF s = r THEN "receive"
                                 ELSE IF s \in Rivals(r) THEN "raced" ELSE router[s]]
  /\ hand' = [hand EXCEPT ![r] = NoMail]
  /\ UNCHANGED <<connection, stream, isChocking, bitfield, msgChan, handled,
                 crash>>

\* Two routers use the maps of owners at the same time: the runtime may end
\* the process.
RoutersCollide ==
  /\ \E r \in Router : router[r] \in InPriority /\ Rivals(r) # {}
  /\ crash' = TRUE
  /\ UNCHANGED <<connection, stream, peers, msgChan, router, hand, handled>>

-----------------------------------------------------------------------------
Remote(p) == Close(p) \/ \E m \in Says[p] : Say(p, m)

\* Steps of the goroutine of a peer that nothing outside can hold up.
PeerStep(p) ==
  ~crash /\ (ReadMsg(p) \/ PassMsg(p) \/ ReadFails(p))

RouterStep(r) == ~crash /\ (RouterReceive(r) \/ Handle(r) \/ UpdatePriority(r))

Outside ==
  /\ ~crash
  /\ \/ \E p \in Peer : \/ AddNewPeer(p) \/ ConnectFails(p)
                        \/ HandshakeWrong(p) \/ Connected(p)
                        \/ Remote(p)
     \/ \E r \in Router : StartRouter(r)
     \/ RoutersCollide

Next ==
  \/ Outside
  \/ \E p \in Peer : PeerStep(p)
  \/ \E r \in Router : RouterStep(r)

Spec == Init /\ [][Next]_vars

\* The Go runtime runs some goroutine that can go on. As the remote peers send
\* finitely many messages, it need not be fair to each of them.
FairSpec ==
  /\ Spec
  /\ WF_vars(\/ \E p \in Peer : PeerStep(p)
             \/ \E r \in Router : RouterStep(r))

-----------------------------------------------------------------------------
\* The torrent has been started at most once.
OneRouter == \A r, s \in Router : router[r] # "off" /\ router[s] # "off" => r = s

\* The positions of p's messages that are read and not yet handled.
InFlight(p) ==
       {m.k : m \in {x \in ToSet(msgChan) : x.from = p}}
  \cup {hand[r].k : r \in {x \in Router : router[x] = "handle" /\ hand[x].from = p}}
  \cup (IF station[p] = "passing" THEN {read[p]} ELSE {})

\* Everything the peer has said has been handled.
Settled(p) ==
  /\ read[p] = Len(said[p])
  /\ InFlight(p) = {}
  /\ \A r \in Router : router[r] \in InPriority => hand[r].from # p

LastOf(p, kinds) ==
  {k \in 1 .. Len(said[p]) :
     /\ said[p][k].kind \in kinds
     /\ \A j \in k + 1 .. Len(said[p]) : said[p][j].kind \notin kinds}

(***************************************************************************)
(* No message gets lost and none is handled twice on the way through the   *)
(* reader, MsgChan and the routers, also when MsgChan is full and however  *)
(* many routers there are: what has been read is handled or in flight.     *)
(***************************************************************************)
NothingLost ==
  \A p \in Peer :
    /\ ToSet(handled[p]) \cup InFlight(p) = 1 .. read[p]
    /\ Len(handled[p]) + Cardinality(InFlight(p)) = read[p]

(***************************************************************************)
(* With one router the messages of a peer take effect in the order in which*)
(* it has sent them: when they are handled, the peer is choking exactly if *)
(* its last word was choke, and it is known to have the pieces of its last *)
(* bitfield. Two routers, after a stop and a start, may exchange messages. *)
(***************************************************************************)
LastWordCounts ==
  OneRouter => \A p \in Peer : Settled(p) =>
    /\ \A k \in LastOf(p, {"choke", "unchoke"}) :
         isChocking[p] = (said[p][k].kind = "choke")
    /\ \A k \in LastOf(p, {"bitfield"}) :
         \A i \in said[p][k].bits.on : HasPiece(bitfield[p], i)

(***************************************************************************)
(* A piece a peer is known to have is one the peer owns in the list of the *)
(* piece, once the change of its bitfield has been worked through. With one*)
(* router the interest points of the objects that share an id are the      *)
(* number of pieces that list the id as an owner: a piece counts once,     *)
(* although the peer repeats itself and although a tracker names it twice. *)
(***************************************************************************)
InterestIsOwnership ==
  \A p \in Peer :
    /\ (\A r \in Router : router[r] \in InPriority => hand[r].from # p)
         => \A i \in Piece : HasPiece(bitfield[p], i) => Id[p] \in owners[i]
    /\ OneRouter =>
         FoldSet(LAMBDA q, n : n + interestPoint[q], 0, {q \in Peer : Id[q] = Id[p]})
           = Cardinality({i \in Piece : Id[p] \in owners[i]})

(***************************************************************************)
(* What a peer has sent over an open or a closed connection is handled in  *)
(* the end, once a router runs: a full MsgChan holds readers up, but never *)
(* for ever.                                                               *)
(***************************************************************************)
EverythingHandled ==
  (\E r \in Router : router[r] # "off")
    ~> crash \/ \A p \in Peer : Settled(p)
=============================================================================

-------------------------- MODULE PeerSwarm_proofs --------------------------
(***************************************************************************)
(* Theorems about PeerSwarm, for any number of peers, pieces, routers and  *)
(* messages: none of these gets lost or is handled twice; with one router  *)
(* they take effect in their order; and interest points count the pieces   *)
(* that list a peer as an owner.                                           *)
(***************************************************************************)
EXTENDS PeerSwarm, DataInduction, FiniteSetTheorems, SequenceTheorems, TLAPS

-----------------------------------------------------------------------------
\* The positions in flight, one by one.
OnTheWay(p, k) ==
  \/ \E i \in 1 .. Len(msgChan) : msgChan[i].from = p /\ msgChan[i].k = k
  \/ \E r \in Router : router[r] = "handle" /\ hand[r].from = p /\ hand[r].k = k
  \/ station[p] = "passing" /\ k = read[p]

\* A message is in one place at a time.
OnePlace ==
  /\ \A i, j \in 1 .. Len(msgChan) : msgChan[i] = msgChan[j] => i = j
  /\ \A r, s \in Router :
       router[r] = "handle" /\ router[s] = "handle" /\ hand[r] = hand[s] => r = s
  /\ \A r \in Router, i \in 1 .. Len(msgChan) :
       router[r] = "handle" => hand[r] # msgChan[i]
  /\ \A p \in Peer : station[p] = "passing" =>
       /\ \A i \in 1 .. Len(msgChan) : msgChan[i].from = p => msgChan[i].k # read[p]
       /\ \A r \in Router : router[r] = "handle" /\ hand[r].from = p => hand[r].k # read[p]

\* The inductive invariant of the way of a message.
WayInv == TypeOK /\ NothingLost /\ OnePlace

-----------------------------------------------------------------------------
\* What the only router takes effect in order of.
InOrder ==
  OneRouter =>
    /\ \A p \in Peer : \A j \in 1 .. Len(handled[p]) : handled[p][j] = j
    /\ \A i, j \in 1 .. Len(msgChan) :
         i < j /\ msgChan[i].from = msgChan[j].from => msgChan[i].k < msgChan[j].k
    /\ \A r \in Router, i \in 1 .. Len(msgChan) :
         router[r] = "handle" /\ msgChan[i].from = hand[r].from => hand[r].k < msgChan[i].k

\* The last of the first n messages that is of these kinds.
LastIn(s, n, kinds) ==
  {k \in 1 .. n : /\ s[k].kind \in kinds
                 /\ \A j \in k + 1 .. n : s[j].kind \notin kinds}

LastHandled(p, kinds) == LastIn(said[p], Len(handled[p]), kinds)

\* What is known of a peer is the last of what has been handled.
Effective ==
  OneRouter => \A p \in Peer :
    /\ \A k \in LastHandled(p, {"choke", "unchoke"}) :
         isChocking[p] = (said[p][k].kind = "choke")
    /\ \A k \in LastHandled(p, {"bitfield"}) :
         /\ said[p][k].bits.on \subseteq bitfield[p].on
         /\ said[p][k].bits.bytes = bitfield[p].bytes

OrderInv == InOrder /\ Effective

\* The two halves of InterestIsOwnership, and what the second needs: with one
\* router no other one changes interest points meanwhile.
Calm(p) == \A r \in Router : router[r] \in InPriority => hand[r].from # p
KnownIsOwned ==
  \A p \in Peer : Calm(p) => \A i \in Piece : HasPiece(bitfield[p], i) => Id[p] \in owners[i]

Namesakes(p) == {q \in Peer : Id[q] = Id[p]}
OwnedBy(p) == {i \in Piece : Id[p] \in owners[i]}
NoRace == OneRouter => \A r \in Router : router[r] # "raced"
PointsCount ==
  OneRouter => \A p \in Peer : Total(interestPoint, Namesakes(p)) = Cardinality(OwnedBy(p))

InterestInv == KnownIsOwned /\ NoRace /\ PointsCount

-----------------------------------------------------------------------------
(* Lemmas about the operators.                                              *)

LEMMA InFlightExact ==
  ASSUME NEW p \in Peer
  PROVE  \A k : k \in InFlight(p) <=> OnTheWay(p, k)
  BY DEF InFlight, OnTheWay, ToSet

LEMMA PiecesFinite ==
  /\ IsFiniteSet(Piece)
  /\ \A S \in SUBSET Piece : IsFiniteSet(S) /\ Cardinality(S) \in Nat
<1>1. IsFiniteSet(Piece)
  BY PeerAssumption, FS_Interval DEF Piece
<1> QED
  BY <1>1, FS_Subset, FS_CardinalityType

\* A have message leaves a bitfield that fits its bytes.
LEMMA UpdateFits ==
  ASSUME NEW bf \in Bitfield, NEW i \in Piece
  PROVE  /\ UpdatedBitfield(bf, i) \in Bitfield
         /\ UpdatedBitfield(bf, i).bytes = bf.bytes
         /\ bf.on \subseteq UpdatedBitfield(bf, i).on
<1>1. i \in Nat /\ Piece \subseteq Nat
  BY PeerAssumption DEF Piece
<1> DEFINE byte == i \div 8
           bit == 8 * byte + (byte % 8)
<1>2. byte \in Nat /\ bit \in Nat /\ bit \div 8 = byte
  BY <1>1
<1> HIDE DEF bit, byte
<1>3. CASE bf.bytes <= byte
  BY <1>3 DEF UpdatedBitfield, byte
<1>4. CASE ~(bf.bytes <= byte)
  <2> DEFINE new == [bf EXCEPT !.on = @ \cup ({bit} \cap Piece)]
  <2>1. UpdatedBitfield(bf, i) = new
    BY <1>4 DEF UpdatedBitfield, byte, bit
  <2>2. bf \in [bytes : Nat, on : SUBSET Piece]
    BY DEF Bitfield
  <2>3. /\ new \in [bytes : Nat, on : SUBSET Piece] /\ new.bytes = bf.bytes
        /\ new.on = bf.on \cup ({bit} \cap Piece)
    BY <2>2
  <2>4. \A j \in new.on : j \div 8 < new.bytes
    <3>1. \A j \in bf.on : j \div 8 < bf.bytes
      BY DEF Bitfield
    <3>2. bit \div 8 < bf.bytes
      BY <1>2, <1>4, <2>2
    <3> QED
      BY <2>3, <3>1, <3>2
  <2> QED
    BY <2>1, <2>3, <2>4 DEF Bitfield
<1> QED
  BY <1>3, <1>4

-----------------------------------------------------------------------------
(* Type correctness.                                                        *)

LEMMA InitType == Init => TypeOK
<1> SUFFICES ASSUME Init PROVE TypeOK
  OBVIOUS
<1>1. [bytes |-> 0, on |-> {}] \in Bitfield
  BY DEF Bitfield
<1>2. /\ Len(msgChan) = 0 /\ msgChan \in Seq(Mail)
      /\ \A p \in Peer : said[p] \in Seq(Message) /\ Len(said[p]) = 0
      /\ handled \in [Peer -> Seq(Nat)] /\ \A p \in Peer : DOMAIN handled[p] = {}
  BY DEF Init
<1>3. said \in [Peer -> Seq(Message)] /\ bitfield \in [Peer -> Bitfield]
  BY <1>1, <1>2 DEF Init
<1>4. /\ router \in [Router -> RouterState] /\ hand \in [Router -> Mail \cup {NoMail}]
      /\ \A r \in Router : hand[r] = NoMail <=> router[r] \in {"off", "receive"}
  BY DEF Init, RouterState
<1>5. /\ station \in [Peer -> Station] /\ shaken \in [Peer -> BOOLEAN]
      /\ activePeers \in [{Id[p] : p \in Peer} -> Peer \cup {NoPeer}]
      /\ read \in [Peer -> Nat] /\ closed \in [Peer -> BOOLEAN]
      /\ isChocking \in [Peer -> BOOLEAN] /\ interestPoint \in [Peer -> Nat]
      /\ owners \in [Piece -> SUBSET {Id[p] : p \in Peer}] /\ crash \in BOOLEAN
  BY DEF Init, Station
<1>6. \A p \in Peer : read[p] <= Len(said[p])
  BY <1>2 DEF Init
<1>7. Len(msgChan) <= ChanCap
  BY <1>2, PeerAssumption
<1> QED
  BY <1>2, <1>3, <1>4, <1>5, <1>6, <1>7 DEF TypeOK

\* The steps that only move a connection.
LEMMA ConnectionType ==
  ASSUME TypeOK, NEW p \in Peer,
         AddNewPeer(p) \/ ConnectFails(p) \/ HandshakeWrong(p) \/ Connected(p) \/ ReadFails(p)
  PROVE  TypeOK'
<1> USE DEF TypeOK, Station, connection, stream, peers
<1>1. CASE AddNewPeer(p)
  BY <1>1 DEF AddNewPeer
<1>2. CASE ConnectFails(p)
  BY <1>2 DEF ConnectFails
<1>3. CASE HandshakeWrong(p)
  BY <1>3 DEF HandshakeWrong
<1>4. CASE Connected(p)
  BY <1>4 DEF Connected
<1>5. CASE ReadFails(p)
  BY <1>5 DEF ReadFails
<1> QED
  BY <1>1, <1>2, <1>3, <1>4, <1>5

\* What a peer says, and what is left of it when it closes the connection.
LEMMA RemoteType ==
  ASSUME TypeOK, NEW p \in Peer, Remote(p)
  PROVE  TypeOK'
<1>1. CASE Close(p)
  <2>1. read[p] \in Nat /\ read[p] <= Len(said[p]) /\ said[p] \in Seq(Message)
    BY DEF TypeOK
  <2>2. /\ SubSeq(said[p], 1, read[p]) \in Seq(Message)
        /\ Len(SubSeq(said[p], 1, read[p])) = read[p]
    <3>1. \A i \in 1 .. read[p] : said[p][i] \in Message
      BY <2>1
    <3>2. read[p] \in Int /\ (1 > read[p] => read[p] = 0)
      BY <2>1
    <3> QED
      BY <3>1, <3>2, SubSeqProperties
  <2>3. /\ said' \in [Peer -> Seq(Message)]
        /\ \A q \in Peer : read[q] <= Len(said'[q])
    <3>1. CASE said' = said
      BY <3>1 DEF TypeOK
    <3>2. CASE said' = [said EXCEPT ![p] = SubSeq(@, 1, read[p])]
      BY <2>1, <2>2, <3>2 DEF TypeOK
    <3> QED
      BY <1>1, <3>1, <3>2 DEF Close
  <2> QED
    BY <1>1, <2>3 DEF Close, TypeOK, connection, peers
<1>2. CASE \E m \in Says[p] : Say(p, m)
  <2>1. PICK m \in Says[p] : Say(p, m)
    BY <1>2
  <2>2. m \in Message
    BY PeerAssumption
  <2>3. /\ Append(said[p], m) \in Seq(Message)
        /\ Len(Append(said[p], m)) = Len(said[p]) + 1
    BY <2>2 DEF TypeOK
  <2>4. /\ said' \in [Peer -> Seq(Message)]
        /\ \A q \in Peer : read[q] <= Len(said'[q])
    BY <2>1, <2>3 DEF Say, TypeOK
  <2> QED
    BY <2>1, <2>4 DEF Say, TypeOK, connection, peers
<1> QED
  BY <1>1, <1>2 DEF Remote

\* Reading a message, and passing it on.
LEMMA ReaderType ==
  ASSUME TypeOK, NEW p \in Peer, ReadMsg(p) \/ PassMsg(p)
  PROVE  TypeOK'
<1>1. CASE ReadMsg(p)
  <2>1. /\ \A q \in Peer : read'[q] <= Len(said[q]) /\ read[q] <= read'[q]
        /\ read' \in [Peer -> Nat]
    BY <1>1 DEF ReadMsg, TypeOK
  <2>2. ASSUME NEW q \in Peer, NEW j \in DOMAIN handled[q]
        PROVE  handled[q][j] \in 1 .. read'[q]
    BY <2>1 DEF TypeOK
  <2> QED
    BY <1>1, <2>1, <2>2 DEF ReadMsg, TypeOK, Station, peers
<1>2. CASE PassMsg(p)
  <2>1. [from |-> p, k |-> read[p]] \in Mail
    BY DEF Mail, TypeOK
  <2>2. msgChan' \in Seq(Mail) /\ Len(msgChan') <= ChanCap
    BY <1>2, <2>1, PeerAssumption DEF PassMsg, Room, TypeOK
  <2> QED
    BY <1>2, <2>2 DEF PassMsg, TypeOK, Station, peers, stream
<1> QED
  BY <1>1, <1>2

\* A message is not the absence of one.
LEMMA MailIsSome == \A m \in Mail : m # NoMail
<1> SUFFICES ASSUME NEW m \in Mail, m = NoMail PROVE FALSE
  OBVIOUS
<1>1. DOMAIN m = {"from", "k"}
  BY DEF Mail
<1>2. DOMAIN m = {"k"}
  BY DEF NoMail
<1> QED
  BY <1>1, <1>2

\* The message a router handles is one that has been read.
LEMMA InHand ==
  ASSUME TypeOK, NothingLost, NEW r \in Router, router[r] = "handle"
  PROVE  /\ hand[r] \in Mail /\ hand[r].from \in Peer
         /\ hand[r].k \in InFlight(hand[r].from)
         /\ hand[r].k \in 1 .. read[hand[r].from]
         /\ said[hand[r].from][hand[r].k] \in Message
<1>1. hand[r] \in Mail
  BY DEF TypeOK
<1>2. hand[r].from \in Peer
  BY <1>1 DEF Mail
<1>3. hand[r].k \in InFlight(hand[r].from)
  BY <1>2, InFlightExact DEF OnTheWay
<1>4. hand[r].k \in 1 .. read[hand[r].from]
  BY <1>2, <1>3 DEF NothingLost
<1>5. said[hand[r].from] \in Seq(Message) /\ hand[r].k \in 1 .. Len(said[hand[r].from])
  BY <1>2, <1>4 DEF TypeOK
<1> QED
  BY <1>1, <1>2, <1>3, <1>4, <1>5

\* Starting a router, and receiving from MsgChan.
LEMMA ReceiveType ==
  ASSUME TypeOK, NEW r \in Router, StartRouter(r) \/ RouterReceive(r)
  PROVE  TypeOK'
<1>1. CASE StartRouter(r)
  BY <1>1 DEF StartRouter, TypeOK, RouterState, connection, stream, peers
<1>2. CASE RouterReceive(r)
  <2>1. /\ Head(msgChan) \in Mail /\ Tail(msgChan) \in Seq(Mail)
        /\ Len(Tail(msgChan)) <= ChanCap
    BY <1>2, PeerAssumption DEF RouterReceive, TypeOK
  <2>2. Head(msgChan) # NoMail
    BY <2>1, MailIsSome
  <2> QED
    BY <1>2, <2>1, <2>2
    DEF RouterReceive, MailLeft, TypeOK, RouterState, connection, stream, peers
<1> QED
  BY <1>1, <1>2

\* The handlers.
LEMMA HandleType ==
  ASSUME TypeOK, NothingLost, NEW r \in Router, Handle(r)
  PROVE  TypeOK'
<1> DEFINE p == hand[r].from
           k == hand[r].k
           m == said[p][k]
<1>1. /\ router[r] = "handle" /\ hand[r] \in Mail /\ p \in Peer /\ k \in 1 .. read[p]
      /\ m \in Message
  BY InHand DEF Handle
<1>2. /\ handled' \in [Peer -> Seq(Nat)]
      /\ \A q \in Peer : \A j \in DOMAIN handled'[q] : handled'[q][j] \in 1 .. read[q]
  <2>1. k \in Nat /\ handled' = [handled EXCEPT ![p] = Append(@, k)]
    BY <1>1 DEF Handle, TypeOK
  <2>2. handled[p] \in Seq(Nat) /\ Append(handled[p], k) \in Seq(Nat)
    BY <1>1, <2>1 DEF TypeOK
  <2>3. \A j \in DOMAIN Append(handled[p], k) : Append(handled[p], k)[j] \in 1 .. read[p]
    BY <1>1, <2>1, <2>2 DEF TypeOK
  <2> QED
    BY <1>1, <2>1, <2>2, <2>3 DEF TypeOK
<1>3. isChocking' \in [Peer -> BOOLEAN]
  <2>1. ChokeValue(m.kind) \in BOOLEAN
    BY DEF ChokeValue
  <2> QED
    BY <1>1, <2>1 DEF Handle, HandleChoke, HandleHave, HandleBitField, HandleOther, TypeOK
<1>4. bitfield' \in [Peer -> Bitfield]
  <2>1. CASE HandleHave(r, m)
    <3>1. m.piece \in Piece
      BY <1>1, <2>1 DEF HandleHave, Message
    <3>2. UpdatedBitfield(bitfield[p], m.piece) \in Bitfield
      BY <1>1, <3>1, UpdateFits DEF TypeOK
    <3> QED
      BY <1>1, <2>1, <3>2 DEF HandleHave, TypeOK
  <2>2. CASE HandleBitField(r, m)
    <3>1. m.bits \in Bitfield
      BY <1>1, <2>2 DEF HandleBitField, Message
    <3> QED
      BY <1>1, <2>2, <3>1 DEF HandleBitField, TypeOK
  <2>3. CASE HandleChoke(r, m) \/ HandleOther(r, m)
    BY <2>3 DEF HandleChoke, HandleOther, TypeOK
  <2> QED
    BY <2>1, <2>2, <2>3 DEF Handle
<1>5. /\ router' \in [Router -> RouterState] /\ hand' \in [Router -> Mail \cup {NoMail}]
      /\ \A s \in Router : hand'[s] = NoMail <=> router'[s] \in {"off", "receive"}
  BY <1>1, MailIsSome
  DEF Handle, HandleChoke, HandleHave, HandleBitField, HandleOther, TypeOK, RouterState
<1> QED
  BY <1>2, <1>3, <1>4, <1>5 DEF Handle, TypeOK, connection, stream

\* Working through the pieces, also when two routers do it.
LEMMA PriorityType ==
  ASSUME TypeOK, NEW r \in Router, UpdatePriority(r)
  PROVE  TypeOK'
<1> DEFINE p == hand[r].from
<1>1. hand[r] \in Mail
  BY DEF UpdatePriority, InPriority, TypeOK
<1>2. p \in Peer
  BY <1>1 DEF Mail
<1>3. owners' \in [Piece -> SUBSET {Id[q] : q \in Peer}]
  BY <1>2 DEF UpdatePriority, TypeOK
<1>4. interestPoint' \in [Peer -> Nat]
  <2>1. Cardinality(NewlyOwned(p)) \in Nat
    BY PiecesFinite DEF NewlyOwned
  <2>2. PICK n : /\ n \in Nat
                 /\ interestPoint' = [interestPoint EXCEPT ![p] = n]
    <3> DEFINE raced == router[r] = "raced" \/ Rivals(r) # {}
               own == Cardinality({i \in Piece : HasPiece(bitfield[p], i)})
               sum == interestPoint[p] + Cardinality(NewlyOwned(p))
    <3>1. interestPoint[p] \in Nat
      BY <1>2 DEF TypeOK
    <3>2. \E n \in IF raced THEN 0 .. interestPoint[p] + own ELSE {sum} :
            interestPoint' = [interestPoint EXCEPT ![p] = n]
      BY DEF UpdatePriority
    <3>3. own \in Nat
      BY PiecesFinite
    <3>4. sum \in Nat
      BY <2>1, <3>1
    <3>5. 0 .. interestPoint[p] + own \subseteq Nat
      OBVIOUS
    <3> HIDE DEF raced, own, sum
    <3> QED
      BY <3>2, <3>4, <3>5
  <2> QED
    BY <2>2 DEF TypeOK
<1>5. /\ router' \in [Router -> RouterState] /\ hand' \in [Router -> Mail \cup {NoMail}]
      /\ \A s \in Router : hand'[s] = NoMail <=> router'[s] \in {"off", "receive"}
  <2>1. \A s \in Router : router'[s] = IF s = r THEN "receive"
                                       ELSE IF s \in Rivals(r) THEN "raced" ELSE router[s]
    BY DEF UpdatePriority
  <2>2. hand' = [hand EXCEPT ![r] = NoMail] /\ router' \in [Router -> RouterState]
    BY DEF UpdatePriority, TypeOK, RouterState
  <2> QED
    BY <2>1, <2>2, MailIsSome DEF TypeOK, Rivals, InPriority
<1> QED
  BY <1>3, <1>4, <1>5 DEF UpdatePriority, TypeOK, connection, stream

\* Every step keeps the types, as long as no message is lost.
LEMMA NextType ==
  ASSUME TypeOK, NothingLost, [Next]_vars
  PROVE  TypeOK'
<1>1. CASE Outside
  <2>1. CASE RoutersCollide
    BY <2>1 DEF RoutersCollide, TypeOK, connection, stream, peers
  <2> QED
    BY <1>1, <2>1, ConnectionType, RemoteType, ReceiveType DEF Outside
<1>2. CASE \E p \in Peer : PeerStep(p)
  BY <1>2, ReaderType, ConnectionType DEF PeerStep
<1>3. CASE \E r \in Router : RouterStep(r)
  BY <1>3, ReceiveType, HandleType, PriorityType DEF RouterStep
<1>4. CASE UNCHANGED vars
  BY <1>4 DEF vars, TypeOK, connection, stream, peers
<1> QED
  BY <1>1, <1>2, <1>3, <1>4 DEF Next

-----------------------------------------------------------------------------
(* The way of a message.                                                    *)

LEMMA InFlightFinite ==
  ASSUME TypeOK, NothingLost, NEW p \in Peer
  PROVE  IsFiniteSet(InFlight(p)) /\ Cardinality(InFlight(p)) \in Nat
<1>1. read[p] \in Nat /\ InFlight(p) \in SUBSET (1 .. read[p])
  BY DEF TypeOK, NothingLost
<1>2. IsFiniteSet(1 .. read[p])
  BY <1>1, FS_Interval
<1>3. IsFiniteSet(InFlight(p))
  BY <1>1, <1>2, FS_Subset
<1> QED
  BY <1>3, FS_CardinalityType

LEMMA InFlightNext ==
  ASSUME NEW p \in Peer
  PROVE  \A k : k \in InFlight(p)' <=> OnTheWay(p, k)'
  BY DEF InFlight, OnTheWay, ToSet

\* The steps that move no message.
LEMMA StandStill ==
  ASSUME WayInv,
         msgChan' = msgChan, read' = read, handled' = handled,
         \A r \in Router : /\ router'[r] = "handle" <=> router[r] = "handle"
                           /\ router[r] = "handle" => hand'[r] = hand[r],
         \A p \in Peer : station'[p] = "passing" <=> station[p] = "passing"
  PROVE  NothingLost' /\ OnePlace'
<1>1. ASSUME NEW p \in Peer PROVE InFlight(p)' = InFlight(p)
  <2>1. ASSUME NEW k PROVE OnTheWay(p, k)' <=> OnTheWay(p, k)
    <3>1. (\E i \in 1 .. Len(msgChan) : msgChan[i].from = p /\ msgChan[i].k = k)'
            <=> \E i \in 1 .. Len(msgChan) : msgChan[i].from = p /\ msgChan[i].k = k
      OBVIOUS
    <3>2. (\E r \in Router : router[r] = "handle" /\ hand[r].from = p /\ hand[r].k = k)'
            <=> \E r \in Router : router[r] = "handle" /\ hand[r].from = p /\ hand[r].k = k
      OBVIOUS
    <3>3. (station[p] = "passing" /\ k = read[p])' <=> station[p] = "passing" /\ k = read[p]
      OBVIOUS
    <3> QED
      BY <3>1, <3>2, <3>3 DEF OnTheWay
  <2> QED
    BY <2>1, InFlightExact, InFlightNext
<1>2. NothingLost'
  BY <1>1 DEF WayInv, NothingLost
<1>3. OnePlace'
  <2>1. OnePlace
    BY DEF WayInv
  <2>2. (\A r, s \in Router :
           router[r] = "handle" /\ router[s] = "handle" /\ hand[r] = hand[s] => r = s)'
    BY <2>1 DEF OnePlace
  <2>3. (\A r \in Router, i \in 1 .. Len(msgChan) :
           router[r] = "handle" => hand[r] # msgChan[i])'
    BY <2>1 DEF OnePlace
  <2>4. ASSUME NEW p \in Peer, station'[p] = "passing"
        PROVE  /\ \A i \in 1 .. Len(msgChan) : msgChan[i].from = p => msgChan[i].k # read[p]
               /\ \A r \in Router : router'[r] = "handle" /\ hand'[r].from = p
                                    => hand'[r].k # read[p]
    BY <2>1, <2>4 DEF OnePlace
  <2> QED
    BY <2>1, <2>2, <2>3, <2>4 DEF OnePlace
<1> QED
  BY <1>2, <1>3

\* A message that is read is a new one in flight.
LEMMA ReadWay ==
  ASSUME WayInv, NEW p \in Peer, ReadMsg(p)
  PROVE  NothingLost' /\ OnePlace'
<1> DEFINE n == read[p] + 1
<1>1. /\ read[p] \in Nat /\ read'[p] = n /\ station'[p] = "passing" /\ station[p] = "reading"
      /\ \A q \in Peer \ {p} : read'[q] = read[q] /\ station'[q] = station[q]
      /\ UNCHANGED <<msgChan, router, hand, handled>>
  BY DEF ReadMsg, WayInv, TypeOK
<1>2. \A q \in Peer : \A k : OnTheWay(q, k) => k \in 1 .. read[q]
  BY InFlightExact DEF WayInv, NothingLost
<1>3. InFlight(p)' = InFlight(p) \cup {n} /\ n \notin InFlight(p)
  <2>1. \A k : OnTheWay(p, k)' <=> OnTheWay(p, k) \/ k = n
    BY <1>1 DEF OnTheWay
  <2>2. ~OnTheWay(p, n)
    BY <1>1, <1>2
  <2> QED
    BY <2>1, <2>2, InFlightExact, InFlightNext
<1>4. ASSUME NEW q \in Peer \ {p} PROVE InFlight(q)' = InFlight(q)
  <2>1. \A k : OnTheWay(q, k)' <=> OnTheWay(q, k)
    BY <1>1 DEF OnTheWay
  <2> QED
    BY <2>1, InFlightExact, InFlightNext
<1>5. NothingLost'
  <2>1. IsFiniteSet(InFlight(p)) /\ Cardinality(InFlight(p)) \in Nat
    BY InFlightFinite DEF WayInv
  <2>2. Cardinality(InFlight(p)') = Cardinality(InFlight(p)) + 1
    BY <1>3, <2>1, FS_AddElement
  <2>3. ToSet(handled[p])' \cup InFlight(p)' = 1 .. read'[p]
    <3>1. ToSet(handled[p]) \cup InFlight(p) = 1 .. read[p]
      BY DEF WayInv, NothingLost
    <3>2. 1 .. n = (1 .. read[p]) \cup {n}
      BY <1>1
    <3> QED
      BY <1>1, <1>3, <3>1, <3>2
  <2>4. Len(handled[p])' + Cardinality(InFlight(p))' = read'[p]
    <3>1. Len(handled[p]) \in Nat /\ Len(handled[p]) + Cardinality(InFlight(p)) = read[p]
      BY DEF WayInv, NothingLost, TypeOK
    <3> QED
      BY <1>1, <2>1, <2>2, <3>1
  <2>5. \A q \in Peer \ {p} :
          /\ ToSet(handled[q])' \cup InFlight(q)' = 1 .. read'[q]
          /\ Len(handled[q])' + Cardinality(InFlight(q))' = read'[q]
    BY <1>1, <1>4 DEF WayInv, NothingLost
  <2> QED
    BY <2>3, <2>4, <2>5 DEF NothingLost
<1>6. OnePlace'
  <2>0. ~OnTheWay(p, n)
    BY <1>1, <1>2
  <2>1. \A i \in 1 .. Len(msgChan) : msgChan[i].from = p => msgChan[i].k # n
    BY <2>0 DEF OnTheWay
  <2>2. \A r \in Router : router[r] = "handle" /\ hand[r].from = p => hand[r].k # n
    BY <2>0 DEF OnTheWay
  <2> QED
    BY <1>1, <2>1, <2>2 DEF WayInv, OnePlace
<1> QED
  BY <1>5, <1>6

\* The message that is passed on goes from the reader to the end of MsgChan.
LEMMA PassWay ==
  ASSUME WayInv, NEW p \in Peer, PassMsg(p)
  PROVE  NothingLost' /\ OnePlace'
<1> DEFINE new == [from |-> p, k |-> read[p]]
           n == Len(msgChan)
<1>1. /\ station[p] = "passing" /\ station'[p] = "reading" /\ read[p] \in Nat
      /\ \A q \in Peer \ {p} : station'[q] = station[q]
      /\ UNCHANGED <<read, router, hand, handled>>
  BY DEF PassMsg, WayInv, TypeOK, stream
<1>2. /\ n \in Nat /\ Len(msgChan') = n + 1 /\ msgChan'[n + 1] = new
      /\ \A i \in 1 .. n : msgChan'[i] = msgChan[i]
  <2>1. new \in Mail /\ msgChan \in Seq(Mail) /\ msgChan' = Append(msgChan, new)
    BY <1>1 DEF Mail, PassMsg, WayInv, TypeOK
  <2> HIDE DEF new
  <2> QED
    BY <2>1, AppendProperties
<1>3. new.from = p /\ new.k = read[p]
  OBVIOUS
<1> HIDE DEF new
<1>4. ASSUME NEW q \in Peer PROVE InFlight(q)' = InFlight(q)
  <2>1. \A k : OnTheWay(q, k)' <=> OnTheWay(q, k)
    BY <1>1, <1>2, <1>3 DEF OnTheWay
  <2> QED
    BY <2>1, InFlightExact, InFlightNext
<1>5. NothingLost'
  BY <1>1, <1>4 DEF WayInv, NothingLost
<1>6. /\ \A i \in 1 .. n : msgChan[i] # new
      /\ \A r \in Router : router[r] = "handle" => hand[r] # new
  BY <1>1, <1>3 DEF WayInv, OnePlace
<1>7. OnePlace'
  <2>1. \A i \in 1 .. n + 1 : i \in 1 .. n \/ i = n + 1
    BY <1>2
  <2>2. \A i, j \in 1 .. n + 1 : msgChan'[i] = msgChan'[j] => i = j
    BY <1>2, <1>6, <2>1 DEF WayInv, OnePlace
  <2>3. \A r \in Router, i \in 1 .. n + 1 : router[r] = "handle" => hand[r] # msgChan'[i]
    BY <1>2, <1>6, <2>1 DEF WayInv, OnePlace
  <2>4. \A q \in Peer : station'[q] = "passing" => q # p /\ station[q] = "passing"
    BY <1>1
  <2>5. \A q \in Peer : station'[q] = "passing" =>
          \A i \in 1 .. n + 1 : msgChan'[i].from = q => msgChan'[i].k # read[q]
    BY <1>2, <1>3, <2>1, <2>4 DEF WayInv, OnePlace
  <2> QED
    BY <1>1, <1>2, <2>2, <2>3, <2>4, <2>5 DEF WayInv, OnePlace
<1> QED
  BY <1>5, <1>7

\* The message a router receives is the first of MsgChan.
LEMMA ReceiveWay ==
  ASSUME WayInv, NEW r \in Router, RouterReceive(r)
  PROVE  NothingLost' /\ OnePlace'
<1> DEFINE n == Len(msgChan)
<1>1. /\ router[r] = "receive" /\ router'[r] = "handle"
      /\ \A s \in Router \ {r} : router'[s] = router[s] /\ hand'[s] = hand[s]
      /\ UNCHANGED <<station, read, handled>>
  BY DEF RouterReceive, WayInv, TypeOK, connection, stream
<1>2. /\ n \in Nat \ {0} /\ Len(msgChan') = n - 1 /\ hand'[r] = msgChan[1]
      /\ \A i \in 1 .. n - 1 : msgChan'[i] = msgChan[i + 1]
  <2>1. msgChan \in Seq(Mail) /\ msgChan # <<>>
    BY DEF RouterReceive, WayInv, TypeOK
  <2>2. hand'[r] = Head(msgChan) /\ msgChan' = Tail(msgChan)
    BY DEF RouterReceive, MailLeft, WayInv, TypeOK
  <2> QED
    BY <2>1, <2>2
<1>3. ASSUME NEW q \in Peer PROVE InFlight(q)' = InFlight(q)
  <2>1. ASSUME NEW k, OnTheWay(q, k)' PROVE OnTheWay(q, k)
    BY <1>1, <1>2, <2>1 DEF OnTheWay
  <2>2. ASSUME NEW k, OnTheWay(q, k) PROVE OnTheWay(q, k)'
    <3>1. ASSUME NEW i \in 1 .. n, msgChan[i].from = q, msgChan[i].k = k
          PROVE  OnTheWay(q, k)'
      <4>1. CASE i = 1
        BY <1>1, <1>2, <3>1, <4>1 DEF OnTheWay
      <4>2. CASE i # 1
        <5>1. i - 1 \in 1 .. n - 1 /\ msgChan'[i - 1] = msgChan[i]
          BY <1>2, <4>2
        <5> QED
          BY <1>2, <3>1, <5>1 DEF OnTheWay
      <4> QED
        BY <4>1, <4>2
    <3> QED
      BY <1>1, <2>2, <3>1 DEF OnTheWay
  <2> QED
    BY <2>1, <2>2, InFlightExact, InFlightNext
<1>4. NothingLost'
  BY <1>1, <1>3 DEF WayInv, NothingLost
<1>5. OnePlace'
  BY <1>1, <1>2 DEF WayInv, OnePlace
<1> QED
  BY <1>4, <1>5

\* The message a router has handled is in flight no longer.
LEMMA HandleWay ==
  ASSUME WayInv, NEW r \in Router, Handle(r)
  PROVE  NothingLost' /\ OnePlace'
<1>3. PICK p \in Peer, k \in Nat : hand[r].from = p /\ hand[r].k = k
  BY InHand DEF Handle, WayInv, Mail
<1>1. /\ router[r] = "handle" /\ hand[r] \in Mail /\ p \in Peer /\ k \in InFlight(p)
      /\ k \in 1 .. read[p] /\ read[p] \in Nat
  BY <1>3, InHand DEF Handle, WayInv, TypeOK
<1>2. /\ router'[r] # "handle"
      /\ \A s \in Router \ {r} : router'[s] = router[s] /\ hand'[s] = hand[s]
      /\ UNCHANGED <<station, read, msgChan>>
      /\ handled' = [handled EXCEPT ![p] = Append(@, k)]
  BY <1>3 DEF Handle, HandleChoke, HandleHave, HandleBitField, HandleOther, WayInv, TypeOK,
              connection, stream
<1>4. ASSUME NEW q \in Peer, NEW j
      PROVE  OnTheWay(q, j)' <=> OnTheWay(q, j) /\ ~(q = p /\ j = k)
  <2>1. ASSUME OnTheWay(q, j)' PROVE OnTheWay(q, j)
    BY <1>2, <2>1 DEF OnTheWay
  <2>2. ~OnTheWay(p, k)'
    <3>1. ASSUME NEW i \in 1 .. Len(msgChan), msgChan[i].from = p, msgChan[i].k = k
          PROVE  FALSE
      <4>1. msgChan[i] \in Mail
        BY DEF WayInv, TypeOK
      <4>2. msgChan[i] = hand[r]
        BY <1>1, <1>3, <3>1, <4>1 DEF Mail
      <4> QED
        BY <1>1, <4>2 DEF WayInv, OnePlace
    <3>2. ASSUME NEW s \in Router \ {r}, router[s] = "handle",
                 hand[s].from = p, hand[s].k = k
          PROVE  FALSE
      <4>1. hand[s] \in Mail
        BY <3>2, InHand DEF WayInv
      <4>2. hand[s] = hand[r]
        BY <1>1, <1>3, <3>2, <4>1 DEF Mail
      <4> QED
        BY <1>1, <3>2, <4>2 DEF WayInv, OnePlace
    <3>3. ASSUME station[p] = "passing", k = read[p] PROVE FALSE
      BY <1>1, <1>3, <3>3 DEF WayInv, OnePlace
    <3> QED
      BY <1>2, <3>1, <3>2, <3>3 DEF OnTheWay
  <2>3. ASSUME OnTheWay(q, j), ~(q = p /\ j = k) PROVE OnTheWay(q, j)'
    BY <1>2, <1>3, <2>3 DEF OnTheWay
  <2> QED
    BY <2>1, <2>2, <2>3
<1>5. InFlight(p)' = InFlight(p) \ {k}
  BY <1>1, <1>4, InFlightExact, InFlightNext
<1>6. ASSUME NEW q \in Peer \ {p} PROVE InFlight(q)' = InFlight(q)
  BY <1>4, InFlightExact, InFlightNext
<1>7. NothingLost'
  <2>1. IsFiniteSet(InFlight(p)) /\ Cardinality(InFlight(p)) \in Nat
    BY InFlightFinite DEF WayInv
  <2>2. Cardinality(InFlight(p)') = Cardinality(InFlight(p)) - 1
    BY <1>1, <1>5, <2>1, FS_RemoveElement
  <2>3. handled[p] \in Seq(Nat) /\ k \in Nat /\ handled'[p] = Append(handled[p], k)
    BY <1>1, <1>2 DEF WayInv, TypeOK
  <2>4. Len(handled'[p]) = Len(handled[p]) + 1 /\ ToSet(handled'[p]) = ToSet(handled[p]) \cup {k}
    <3> DEFINE s == handled[p]
               t == Append(s, k)
    <3>1. s \in Seq(Nat) /\ k \in Nat
      BY <2>3
    <3> HIDE DEF s
    <3>2. /\ Len(t) = Len(s) + 1 /\ t[Len(s) + 1] = k /\ Len(s) \in Nat
          /\ \A i \in 1 .. Len(s) : t[i] = s[i]
          /\ DOMAIN t = 1 .. Len(s) + 1 /\ DOMAIN s = 1 .. Len(s)
      BY <3>1, AppendProperties, LenProperties
    <3> HIDE DEF t
    <3>3. \A i \in DOMAIN t : i \in DOMAIN s \/ i = Len(s) + 1
      BY <3>2
    <3>4. ToSet(t) = ToSet(s) \cup {k}
      BY <3>2, <3>3 DEF ToSet
    <3> QED
      BY <2>3, <3>2, <3>4 DEF s, t
  <2>5. ToSet(handled[p])' \cup InFlight(p)' = 1 .. read'[p]
    <3>1. ToSet(handled[p]) \cup InFlight(p) = 1 .. read[p]
      BY <1>1 DEF WayInv, NothingLost
    <3> QED
      BY <1>1, <1>2, <1>5, <2>4, <3>1
  <2>6. Len(handled[p])' + Cardinality(InFlight(p))' = read'[p]
    <3>1. Len(handled[p]) \in Nat /\ Len(handled[p]) + Cardinality(InFlight(p)) = read[p]
      BY <1>1 DEF WayInv, NothingLost, TypeOK
    <3> QED
      BY <1>1, <1>2, <2>1, <2>2, <2>4, <3>1
  <2>7. \A q \in Peer \ {p} :
          /\ ToSet(handled[q])' \cup InFlight(q)' = 1 .. read'[q]
          /\ Len(handled[q])' + Cardinality(InFlight(q))' = read'[q]
    BY <1>1, <1>2, <1>6 DEF WayInv, NothingLost, TypeOK
  <2> QED
    BY <2>5, <2>6, <2>7 DEF NothingLost
<1>8. OnePlace'
  BY <1>2 DEF WayInv, OnePlace
<1> QED
  BY <1>7, <1>8

\* A router that works through the pieces holds a message that is handled.
LEMMA PriorityWay ==
  ASSUME WayInv, NEW r \in Router, UpdatePriority(r)
  PROVE  NothingLost' /\ OnePlace'
<1>1. /\ router[r] # "handle" /\ UNCHANGED <<msgChan, read, handled, station>>
      /\ hand' = [hand EXCEPT ![r] = NoMail]
      /\ \A s \in Router : router'[s] = IF s = r THEN "receive"
                                       ELSE IF s \in Rivals(r) THEN "raced" ELSE router[s]
  BY DEF UpdatePriority, InPriority, connection, stream
<1>2. \A s \in Router : /\ router'[s] = "handle" <=> router[s] = "handle"
                        /\ router[s] = "handle" => hand'[s] = hand[s]
  BY <1>1 DEF Rivals, InPriority, WayInv, TypeOK
<1> QED
  BY <1>1, <1>2, StandStill

LEMMA InitWay == Init => NothingLost /\ OnePlace
<1> SUFFICES ASSUME Init PROVE NothingLost /\ OnePlace
  OBVIOUS
<1>1. /\ Len(msgChan) = 0 /\ \A r \in Router : router[r] # "handle"
      /\ \A p \in Peer : station[p] # "passing" /\ read[p] = 0 /\ handled[p] = <<>>
  BY DEF Init
<1>2. ASSUME NEW p \in Peer PROVE InFlight(p) = {}
  BY <1>1, InFlightExact DEF OnTheWay
<1>3. \A p \in Peer : Len(handled[p]) = 0 /\ ToSet(handled[p]) = {} /\ 1 .. read[p] = {}
  BY <1>1 DEF ToSet
<1>4. NothingLost
  <2>1. Cardinality({}) = 0
    BY FS_EmptySet
  <2>2. ASSUME NEW p \in Peer
        PROVE  /\ ToSet(handled[p]) \cup InFlight(p) = 1 .. read[p]
               /\ Len(handled[p]) + Cardinality(InFlight(p)) = read[p]
    <3>1. InFlight(p) = {} /\ read[p] = 0 /\ Len(handled[p]) = 0
      BY <1>1, <1>2, <1>3
    <3>2. ToSet(handled[p]) = {} /\ 1 .. read[p] = {}
      BY <1>3
    <3> QED
      BY <2>1, <3>1, <3>2
  <2> QED
    BY <2>2 DEF NothingLost
<1>5. OnePlace
  BY <1>1 DEF OnePlace
<1> QED
  BY <1>4, <1>5

LEMMA NextWay ==
  ASSUME WayInv, [Next]_vars
  PROVE  WayInv'
<1>1. NothingLost' /\ OnePlace'
  <2>1. ASSUME NEW p \in Peer,
               \/ AddNewPeer(p) \/ ConnectFails(p) \/ HandshakeWrong(p)
               \/ Connected(p) \/ ReadFails(p)
        PROVE  NothingLost' /\ OnePlace'
    <3>1. \A q \in Peer : station'[q] = "passing" <=> station[q] = "passing"
      BY <2>1 DEF AddNewPeer, ConnectFails, HandshakeWrong, Connected, ReadFails,
                  connection, WayInv, TypeOK
    <3>2. UNCHANGED <<msgChan, read, handled, router, hand>>
      BY <2>1 DEF AddNewPeer, ConnectFails, HandshakeWrong, Connected, ReadFails, stream
    <3> QED
      BY <3>1, <3>2, StandStill
  <2>2. ASSUME NEW p \in Peer, Remote(p) PROVE NothingLost' /\ OnePlace'
    <3>1. UNCHANGED <<msgChan, read, handled, router, hand, station>>
      BY <2>2 DEF Remote, Say, Close, connection
    <3> QED
      BY <3>1, StandStill
  <2>3. ASSUME NEW r \in Router, StartRouter(r) PROVE NothingLost' /\ OnePlace'
    <3>1. \A s \in Router : router'[s] = "handle" <=> router[s] = "handle"
      BY <2>3 DEF StartRouter, WayInv, TypeOK
    <3>2. UNCHANGED <<msgChan, read, handled, hand, station>>
      BY <2>3 DEF StartRouter, connection, stream
    <3> QED
      BY <3>1, <3>2, StandStill
  <2>4. CASE RoutersCollide \/ UNCHANGED vars
    <3>1. UNCHANGED <<msgChan, read, handled, router, hand, station>>
      BY <2>4 DEF RoutersCollide, vars, connection, stream
    <3> QED
      BY <3>1, StandStill
  <2> QED
    BY <2>1, <2>2, <2>3, <2>4, ReadWay, PassWay, ReceiveWay, HandleWay, PriorityWay
    DEF Next, Outside, PeerStep, RouterStep
<1>2. TypeOK'
  BY NextType DEF WayInv
<1> QED
  BY <1>1, <1>2 DEF WayInv

LEMMA WayInvariant == Spec => []WayInv
<1>1. Init => WayInv
  BY InitType, InitWay DEF WayInv
<1> QED
  BY <1>1, NextWay, PTL DEF Spec

\* Every variable keeps its type: no peer, position or piece out of its range,
\* never more messages in MsgChan than fit, and a message in hand exactly while
\* a router has one.
THEOREM TypeCorrect == Spec => []TypeOK
<1>1. WayInv => TypeOK
  BY DEF WayInv
<1> QED
  BY <1>1, WayInvariant, PTL

\* However many peers, routers and pieces there are and however small MsgChan
\* is, a message that is read is handled once or still on its way.
THEOREM NothingIsLost == Spec => []NothingLost
<1>1. WayInv => NothingLost
  BY DEF WayInv
<1> QED
  BY <1>1, WayInvariant, PTL

-----------------------------------------------------------------------------
(* The order of the messages, with one router.                              *)

LEMMA LastInNext ==
  ASSUME NEW s, NEW n \in Nat, NEW kinds
  PROVE  LastIn(s, n + 1, kinds) =
           IF s[n + 1].kind \in kinds THEN {n + 1} ELSE LastIn(s, n, kinds)
<1>1. \A k : k \in 1 .. n + 1 <=> k \in 1 .. n \/ k = n + 1
  OBVIOUS
<1>2. \A k \in 1 .. n : \A j : j \in k + 1 .. n + 1 <=> j \in k + 1 .. n \/ j = n + 1
  OBVIOUS
<1>3. CASE s[n + 1].kind \in kinds
  <2>1. n + 1 \in LastIn(s, n + 1, kinds)
    BY <1>3 DEF LastIn
  <2>2. \A k \in 1 .. n : k \notin LastIn(s, n + 1, kinds)
    BY <1>2, <1>3 DEF LastIn
  <2>3. \A k \in LastIn(s, n + 1, kinds) : k = n + 1
    BY <1>1, <2>2 DEF LastIn
  <2> QED
    BY <1>3, <2>1, <2>3
<1>4. CASE s[n + 1].kind \notin kinds
  <2>1. n + 1 \notin LastIn(s, n + 1, kinds) /\ n + 1 \notin LastIn(s, n, kinds)
    BY <1>4 DEF LastIn
  <2>2. \A k \in 1 .. n : k \in LastIn(s, n + 1, kinds) <=> k \in LastIn(s, n, kinds)
    BY <1>1, <1>2, <1>4 DEF LastIn
  <2>3. LastIn(s, n + 1, kinds) \subseteq 1 .. n + 1 /\ LastIn(s, n, kinds) \subseteq 1 .. n
    BY DEF LastIn
  <2>4. LastIn(s, n + 1, kinds) \subseteq 1 .. n
    BY <1>1, <2>1, <2>3
  <2>5. LastIn(s, n + 1, kinds) = LastIn(s, n, kinds)
    BY <2>2, <2>3, <2>4
  <2> QED
    BY <1>4, <2>5
<1> QED
  BY <1>3, <1>4

\* What is said later does not matter.
LEMMA LastInSame ==
  ASSUME NEW s, NEW t, NEW n \in Nat, NEW kinds, \A k \in 1 .. n : s[k] = t[k]
  PROVE  LastIn(s, n, kinds) = LastIn(t, n, kinds)
<1>1. \A k \in 1 .. n : \A j \in k + 1 .. n : j \in 1 .. n
  OBVIOUS
<1> QED
  BY <1>1 DEF LastIn

\* A router that runs does not stop.
LEMMA RoutersStay ==
  ASSUME TypeOK, [Next]_vars
  PROVE  /\ \A r \in Router : router[r] # "off" => router'[r] # "off"
         /\ OneRouter' => OneRouter
<1>1. ASSUME NEW r \in Router, RouterReceive(r) \/ Handle(r) \/ StartRouter(r)
      PROVE  \A s \in Router : router[s] # "off" => router'[s] # "off"
  BY <1>1 DEF RouterReceive, Handle, HandleChoke, HandleHave, HandleBitField, HandleOther,
              StartRouter, TypeOK
<1>2. ASSUME NEW r \in Router, UpdatePriority(r)
      PROVE  \A s \in Router : router[s] # "off" => router'[s] # "off"
  BY <1>2 DEF UpdatePriority
<1>3. ASSUME NEW p \in Peer, \/ PeerStep(p) \/ Remote(p) \/ AddNewPeer(p)
                             \/ ConnectFails(p) \/ HandshakeWrong(p) \/ Connected(p)
      PROVE  router' = router
  BY <1>3 DEF PeerStep, ReadMsg, PassMsg, ReadFails, Remote, Say, Close, AddNewPeer,
              ConnectFails, HandshakeWrong, Connected
<1>4. RoutersCollide \/ UNCHANGED vars => router' = router
  BY DEF RoutersCollide, vars
<1>5. \A r \in Router : router[r] # "off" => router'[r] # "off"
  BY <1>1, <1>2, <1>3, <1>4 DEF Next, Outside, RouterStep
<1>6. OneRouter' => OneRouter
  <2> HAVE OneRouter'
  <2>1. ASSUME NEW r \in Router, NEW s \in Router, router[r] # "off", router[s] # "off"
        PROVE  r = s
    <3>1. router'[r] # "off" /\ router'[s] # "off"
      BY <1>5, <2>1
    <3> QED
      BY <3>1 DEF OneRouter
  <2> QED
    BY <2>1 DEF OneRouter
<1> QED
  BY <1>5, <1>6

\* With one router the messages in flight are those after the handled ones, and
\* the router has the first of them.
LEMMA FirstInHand ==
  ASSUME WayInv, InOrder, OneRouter, NEW r \in Router, router[r] = "handle",
         NEW p \in Peer, hand[r].from = p
  PROVE  hand[r].k = Len(handled[p]) + 1
<1> DEFINE n == Len(handled[p])
           F == InFlight(p)
<1>1. /\ n \in Nat /\ read[p] \in Nat /\ ToSet(handled[p]) \cup F = 1 .. read[p]
      /\ n + Cardinality(F) = read[p]
  BY DEF WayInv, TypeOK, NothingLost
<1>2. ToSet(handled[p]) = 1 .. n
  <2>1. /\ DOMAIN handled[p] = 1 .. n
        /\ \A j \in 1 .. n : handled[p][j] = j
    BY DEF InOrder, WayInv, TypeOK
  <2> QED
    BY <2>1 DEF ToSet
<1>3. \A k : k \in F <=> OnTheWay(p, k)
  BY InFlightExact
<1>4. IsFiniteSet(F) /\ Cardinality(F) \in Nat
  BY InFlightFinite DEF WayInv
<1>5. hand[r].k \in F
  BY <1>3 DEF OnTheWay
<1> HIDE DEF n, F
<1>6. F = n + 1 .. read[p]
  <2>1. (n + 1 .. read[p]) \in SUBSET F
    BY <1>1, <1>2
  <2>2. n <= read[p] /\ Cardinality(n + 1 .. read[p]) = Cardinality(F)
    <3>1. n + 1 \in Int /\ read[p] \in Int /\ n <= read[p]
      BY <1>1, <1>4
    <3>2. Cardinality(n + 1 .. read[p]) =
            IF n + 1 > read[p] THEN 0 ELSE read[p] - (n + 1) + 1
      BY <3>1, FS_Interval
    <3> QED
      BY <1>1, <1>4, <3>1, <3>2
  <2> QED
    BY <1>4, <2>1, <2>2, FS_Subset
<1>7. OnTheWay(p, n + 1) /\ hand[r].k \in n + 1 .. read[p]
  BY <1>1, <1>3, <1>5, <1>6
<1>8. CASE \E i \in 1 .. Len(msgChan) : msgChan[i].from = p /\ msgChan[i].k = n + 1
  BY <1>1, <1>7, <1>8 DEF InOrder
<1>9. CASE \E s \in Router : router[s] = "handle" /\ hand[s].from = p /\ hand[s].k = n + 1
  BY <1>9 DEF OneRouter, n
<1>10. CASE station[p] = "passing" /\ n + 1 = read[p]
  BY <1>1, <1>7, <1>10 DEF n
<1> QED
  BY <1>7, <1>8, <1>9, <1>10 DEF OnTheWay, n

\* The steps that keep what is passed on, handled and in hand.
LEMMA OrderStands ==
  ASSUME InOrder, OneRouter' => OneRouter, msgChan' = msgChan, handled' = handled,
         \A r \in Router : router'[r] = "handle" => router[r] = "handle" /\ hand'[r] = hand[r]
  PROVE  InOrder'
<1> SUFFICES ASSUME OneRouter'
             PROVE /\ \A p \in Peer : \A j \in 1 .. Len(handled[p]) : handled[p][j] = j
                   /\ \A i, j \in 1 .. Len(msgChan) :
                        i < j /\ msgChan[i].from = msgChan[j].from => msgChan[i].k < msgChan[j].k
                   /\ \A r \in Router, i \in 1 .. Len(msgChan) :
                        router'[r] = "handle" /\ msgChan[i].from = hand'[r].from
                          => hand'[r].k < msgChan[i].k
  BY DEF InOrder
<1> QED
  BY DEF InOrder

\* What is passed on is newer than what is in MsgChan and in hand.
LEMMA PassOrder ==
  ASSUME WayInv, InOrder, NEW p \in Peer, PassMsg(p)
  PROVE  InOrder'
<1> DEFINE new == [from |-> p, k |-> read[p]]
           n == Len(msgChan)
<1>1. /\ station[p] = "passing" /\ read[p] \in Nat
      /\ UNCHANGED <<router, hand, handled>>
  BY DEF PassMsg, WayInv, TypeOK
<1>2. /\ n \in Nat /\ Len(msgChan') = n + 1 /\ msgChan'[n + 1] = new
      /\ \A i \in 1 .. n : msgChan'[i] = msgChan[i]
  <2>1. new \in Mail /\ msgChan \in Seq(Mail) /\ msgChan' = Append(msgChan, new)
    BY <1>1 DEF Mail, PassMsg, WayInv, TypeOK
  <2> HIDE DEF new
  <2> QED
    BY <2>1, AppendProperties
<1>3. new.from = p /\ new.k = read[p]
  OBVIOUS
<1> HIDE DEF new
<1>4. \A k : OnTheWay(p, k) => k \in 1 .. read[p]
  BY InFlightExact DEF WayInv, NothingLost
<1>5. \A i \in 1 .. n : msgChan[i].from = p => msgChan[i].k < read[p]
  <2>1. ASSUME NEW i \in 1 .. n, msgChan[i].from = p PROVE msgChan[i].k < read[p]
    <3>1. msgChan[i].k \in 1 .. read[p]
      BY <1>4, <2>1 DEF OnTheWay
    <3>2. msgChan[i].k # read[p]
      BY <1>1, <2>1 DEF WayInv, OnePlace
    <3> QED
      BY <1>1, <3>1, <3>2
  <2> QED
    BY <2>1
<1>6. \A r \in Router : router[r] = "handle" /\ hand[r].from = p => hand[r].k < read[p]
  <2>1. ASSUME NEW r \in Router, router[r] = "handle", hand[r].from = p
        PROVE  hand[r].k < read[p]
    <3>1. hand[r].k \in 1 .. read[p]
      BY <1>4, <2>1 DEF OnTheWay
    <3>2. hand[r].k # read[p]
      BY <1>1, <2>1 DEF WayInv, OnePlace
    <3> QED
      BY <1>1, <3>1, <3>2
  <2> QED
    BY <2>1
<1>7. \A i \in 1 .. n + 1 : i \in 1 .. n \/ i = n + 1
  BY <1>2
<1> SUFFICES ASSUME OneRouter' PROVE InOrder'
  BY DEF InOrder
<1>8. OneRouter
  BY <1>1 DEF OneRouter
<1>9. \A i, j \in 1 .. n + 1 : i < j /\ msgChan'[i].from = msgChan'[j].from
                              => msgChan'[i].k < msgChan'[j].k
  <2>1. ASSUME NEW i \in 1 .. n + 1, NEW j \in 1 .. n + 1, i < j,
               msgChan'[i].from = msgChan'[j].from
        PROVE  msgChan'[i].k < msgChan'[j].k
    <3>1. i \in 1 .. n
      BY <1>2, <2>1
    <3>2. CASE j \in 1 .. n
      BY <1>2, <1>8, <2>1, <3>1, <3>2 DEF InOrder
    <3>3. CASE j = n + 1
      BY <1>2, <1>3, <1>5, <2>1, <3>1, <3>3
    <3> QED
      BY <1>7, <3>2, <3>3
  <2> QED
    BY <2>1
<1>10. \A r \in Router, i \in 1 .. n + 1 :
         router[r] = "handle" /\ msgChan'[i].from = hand[r].from => hand[r].k < msgChan'[i].k
  <2>1. ASSUME NEW r \in Router, NEW i \in 1 .. n + 1, router[r] = "handle",
               msgChan'[i].from = hand[r].from
        PROVE  hand[r].k < msgChan'[i].k
    <3>1. CASE i \in 1 .. n
      BY <1>2, <1>8, <2>1, <3>1 DEF InOrder
    <3>2. CASE i = n + 1
      BY <1>2, <1>3, <1>6, <2>1, <3>2
    <3> QED
      BY <1>7, <3>1, <3>2
  <2> QED
    BY <2>1
<1>11. \A q \in Peer : \A j \in 1 .. Len(handled[q]) : handled[q][j] = j
  BY <1>8 DEF InOrder
<1> QED
  BY <1>1, <1>2, <1>9, <1>10, <1>11 DEF InOrder

\* The router takes the oldest message of MsgChan.
LEMMA ReceiveOrder ==
  ASSUME WayInv, InOrder, NEW r \in Router, RouterReceive(r), OneRouter' => OneRouter
  PROVE  InOrder'
<1> DEFINE n == Len(msgChan)
<1>1. /\ router[r] = "receive" /\ router'[r] = "handle" /\ handled' = handled
      /\ \A s \in Router \ {r} : router'[s] = router[s] /\ hand'[s] = hand[s]
  BY DEF RouterReceive, WayInv, TypeOK
<1>2. /\ n \in Nat \ {0} /\ Len(msgChan') = n - 1 /\ hand'[r] = msgChan[1]
      /\ \A i \in 1 .. n - 1 : msgChan'[i] = msgChan[i + 1]
  <2>1. msgChan \in Seq(Mail) /\ msgChan # <<>>
    BY DEF RouterReceive, WayInv, TypeOK
  <2>2. hand'[r] = Head(msgChan) /\ msgChan' = Tail(msgChan)
    BY DEF RouterReceive, MailLeft, WayInv, TypeOK
  <2> QED
    BY <2>1, <2>2
<1> SUFFICES ASSUME OneRouter' PROVE InOrder'
  BY DEF InOrder
<1>3. /\ \A i, j \in 1 .. n :
           i < j /\ msgChan[i].from = msgChan[j].from => msgChan[i].k < msgChan[j].k
      /\ \A p \in Peer : \A j \in 1 .. Len(handled[p]) : handled[p][j] = j
      /\ \A s \in Router, i \in 1 .. n :
           router[s] = "handle" /\ msgChan[i].from = hand[s].from => hand[s].k < msgChan[i].k
  BY DEF InOrder
<1>4. \A i \in 1 .. n - 1 : i + 1 \in 1 .. n
  BY <1>2
<1>5. \A i, j \in 1 .. n - 1 : i < j /\ msgChan'[i].from = msgChan'[j].from
                              => msgChan'[i].k < msgChan'[j].k
  <2>1. ASSUME NEW i \in 1 .. n - 1, NEW j \in 1 .. n - 1, i < j,
               msgChan'[i].from = msgChan'[j].from
        PROVE  msgChan'[i].k < msgChan'[j].k
    <3>1. i + 1 \in 1 .. n /\ j + 1 \in 1 .. n /\ i + 1 < j + 1
      BY <1>4, <2>1
    <3> QED
      BY <1>2, <1>3, <2>1, <3>1
  <2> QED
    BY <2>1
<1>6. \A s \in Router, i \in 1 .. n - 1 :
        router'[s] = "handle" /\ msgChan'[i].from = hand'[s].from => hand'[s].k < msgChan'[i].k
  <2>1. ASSUME NEW s \in Router, NEW i \in 1 .. n - 1, router'[s] = "handle",
               msgChan'[i].from = hand'[s].from
        PROVE  hand'[s].k < msgChan'[i].k
    <3>1. CASE s = r
      <4>1. 1 \in 1 .. n /\ i + 1 \in 1 .. n /\ 1 < i + 1
        BY <1>2, <1>4
      <4> QED
        BY <1>2, <1>3, <2>1, <3>1, <4>1
    <3>2. CASE s # r
      BY <1>1, <1>2, <1>3, <1>4, <2>1, <3>2
    <3> QED
      BY <3>1, <3>2
  <2> QED
    BY <2>1
<1> QED
  BY <1>1, <1>2, <1>3, <1>5, <1>6 DEF InOrder

\* The message that is handled is the next one.
LEMMA HandleOrder ==
  ASSUME WayInv, InOrder, NEW r \in Router, Handle(r), OneRouter' => OneRouter
  PROVE  InOrder'
<1>1. PICK p \in Peer, k \in Nat : hand[r].from = p /\ hand[r].k = k
  BY InHand DEF Handle, WayInv, Mail
<1>2. /\ router[r] = "handle" /\ router'[r] # "handle"
      /\ \A s \in Router \ {r} : router'[s] = router[s] /\ hand'[s] = hand[s]
      /\ msgChan' = msgChan /\ handled' = [handled EXCEPT ![p] = Append(@, k)]
  BY <1>1 DEF Handle, HandleChoke, HandleHave, HandleBitField, HandleOther, WayInv, TypeOK
<1> SUFFICES ASSUME OneRouter' PROVE InOrder'
  BY DEF InOrder
<1>3. k = Len(handled[p]) + 1
  BY <1>1, <1>2, FirstInHand
<1>4. \A q \in Peer : \A j \in 1 .. Len(handled'[q]) : handled'[q][j] = j
  <2>1. /\ handled[p] \in Seq(Nat) /\ \A q \in Peer \ {p} : handled'[q] = handled[q]
        /\ handled'[p] = Append(handled[p], k)
    BY <1>2 DEF WayInv, TypeOK
  <2>2. \A q \in Peer : \A j \in 1 .. Len(handled[q]) : handled[q][j] = j
    BY DEF InOrder
  <2>3. \A j \in 1 .. Len(handled'[p]) : handled'[p][j] = j
    BY <1>3, <2>1, <2>2
  <2> QED
    BY <2>1, <2>2, <2>3
<1>5. \A s \in Router, i \in 1 .. Len(msgChan) :
        router'[s] = "handle" /\ msgChan[i].from = hand'[s].from => hand'[s].k < msgChan[i].k
  BY <1>2 DEF InOrder
<1>6. \A i, j \in 1 .. Len(msgChan) :
        i < j /\ msgChan[i].from = msgChan[j].from => msgChan[i].k < msgChan[j].k
  BY DEF InOrder
<1> QED
  BY <1>2, <1>4, <1>5, <1>6 DEF InOrder

LEMMA NextOrder ==
  ASSUME WayInv, InOrder, [Next]_vars
  PROVE  InOrder'
<1>1. OneRouter' => OneRouter
  BY RoutersStay DEF WayInv
<1>2. ASSUME UNCHANGED <<msgChan, handled, router, hand>> PROVE InOrder'
  BY <1>1, <1>2, OrderStands
<1>3. ASSUME NEW p \in Peer, \/ AddNewPeer(p) \/ ConnectFails(p) \/ HandshakeWrong(p)
                             \/ Connected(p) \/ ReadFails(p) \/ Remote(p) \/ ReadMsg(p)
      PROVE  InOrder'
  <2>1. UNCHANGED <<msgChan, handled, router, hand>>
    BY <1>3 DEF AddNewPeer, ConnectFails, HandshakeWrong, Connected, ReadFails, Remote, Say,
                Close, ReadMsg
  <2> QED
    BY <1>2, <2>1
<1>4. ASSUME NEW r \in Router, StartRouter(r) PROVE InOrder'
  <2>1. /\ UNCHANGED <<msgChan, handled, hand>>
        /\ \A s \in Router : router'[s] = "handle" => router[s] = "handle"
    BY <1>4 DEF StartRouter, WayInv, TypeOK
  <2> QED
    BY <1>1, <2>1, OrderStands
<1>5. ASSUME NEW r \in Router, UpdatePriority(r) PROVE InOrder'
  <2>1. UNCHANGED <<msgChan, handled>> /\ hand' = [hand EXCEPT ![r] = NoMail]
    BY <1>5 DEF UpdatePriority
  <2>2. \A s \in Router : router'[s] = IF s = r THEN "receive"
                                       ELSE IF s \in Rivals(r) THEN "raced" ELSE router[s]
    BY <1>5 DEF UpdatePriority
  <2>3. \A s \in Router : router'[s] = "handle" => router[s] = "handle" /\ s # r
    BY <2>2
  <2>4. \A s \in Router : router'[s] = "handle" => hand'[s] = hand[s]
    BY <2>1, <2>3 DEF WayInv, TypeOK
  <2> QED
    BY <1>1, <2>1, <2>3, <2>4, OrderStands
<1>6. CASE RoutersCollide \/ UNCHANGED vars
  <2>1. UNCHANGED <<msgChan, handled, router, hand>>
    BY <1>6 DEF RoutersCollide, vars
  <2> QED
    BY <1>2, <2>1
<1> QED
  BY <1>1, <1>3, <1>4, <1>5, <1>6, PassOrder, ReceiveOrder, HandleOrder
  DEF Next, Outside, PeerStep, RouterStep

-----------------------------------------------------------------------------
(* The last word of a peer, with one router.                                *)

LEMMA HandledRead ==
  ASSUME WayInv, NEW p \in Peer
  PROVE  Len(handled[p]) \in Nat /\ read[p] \in Nat /\ Len(handled[p]) <= read[p]
<1>1. Cardinality(InFlight(p)) \in Nat
  BY InFlightFinite DEF WayInv
<1>2. Len(handled[p]) \in Nat /\ read[p] \in Nat
  BY DEF WayInv, TypeOK
<1>3. Len(handled[p]) + Cardinality(InFlight(p)) = read[p]
  BY DEF WayInv, NothingLost
<1> QED
  BY <1>1, <1>2, <1>3

\* What has been read stays said, also when the connection closes.
LEMMA SaidStays ==
  ASSUME WayInv, [Next]_vars
  PROVE  \A p \in Peer : \A k \in 1 .. read[p] : said'[p][k] = said[p][k]
<1>1. ASSUME NEW p \in Peer, Close(p)
      PROVE  \A q \in Peer : \A k \in 1 .. read[q] : said'[q][k] = said[q][k]
  <2>1. CASE said' = [said EXCEPT ![p] = SubSeq(@, 1, read[p])]
    BY <2>1 DEF WayInv, TypeOK
  <2> QED
    BY <1>1, <2>1 DEF Close
<1>2. ASSUME NEW p \in Peer, NEW m \in Says[p], Say(p, m)
      PROVE  \A q \in Peer : \A k \in 1 .. read[q] : said'[q][k] = said[q][k]
  <2>1. /\ said[p] \in Seq(Message) /\ m \in Message
        /\ read[p] \in Nat /\ read[p] <= Len(said[p])
    BY PeerAssumption DEF WayInv, TypeOK
  <2>2. /\ said'[p] = Append(said[p], m)
        /\ \A q \in Peer \ {p} : said'[q] = said[q]
    BY <1>2 DEF Say, WayInv, TypeOK
  <2>3. \A k \in 1 .. read[p] : said'[p][k] = said[p][k]
    BY <2>1, <2>2
  <2> QED
    BY <2>2, <2>3
<1>3. ASSUME NEW p \in Peer, \/ PeerStep(p) \/ AddNewPeer(p) \/ ConnectFails(p)
                             \/ HandshakeWrong(p) \/ Connected(p)
      PROVE  said' = said
  BY <1>3 DEF PeerStep, ReadMsg, PassMsg, ReadFails, AddNewPeer, ConnectFails,
              HandshakeWrong, Connected, stream
<1>4. ASSUME NEW r \in Router, StartRouter(r) \/ RouterStep(r)
      PROVE  said' = said
  BY <1>4 DEF StartRouter, RouterStep, RouterReceive, Handle, UpdatePriority, stream
<1>5. RoutersCollide \/ UNCHANGED vars => said' = said
  BY DEF RoutersCollide, vars, stream
<1> QED
  BY <1>1, <1>2, <1>3, <1>4, <1>5 DEF Next, Outside, Remote

\* The steps in which nothing takes effect.
LEMMA EffectStands ==
  ASSUME WayInv, Effective, [Next]_vars, UNCHANGED <<handled, isChocking, bitfield>>
  PROVE  Effective'
<1> SUFFICES ASSUME OneRouter', NEW p \in Peer
             PROVE  /\ \A k \in LastHandled(p, {"choke", "unchoke"})' :
                         isChocking[p] = (said'[p][k].kind = "choke")
                    /\ \A k \in LastHandled(p, {"bitfield"})' :
                         /\ said'[p][k].bits.on \subseteq bitfield[p].on
                         /\ said'[p][k].bits.bytes = bitfield[p].bytes
  BY DEF Effective
<1>1. OneRouter
  BY RoutersStay DEF WayInv
<1> DEFINE n == Len(handled[p])
<1>2. n \in Nat /\ \A k \in 1 .. n : said'[p][k] = said[p][k]
  BY HandledRead, SaidStays
<1>3. \A kinds : LastIn(said[p], n, kinds) = LastIn(said'[p], n, kinds)
  <2>1. ASSUME NEW kinds PROVE LastIn(said[p], n, kinds) = LastIn(said'[p], n, kinds)
    <3> HIDE DEF n
    <3> QED
      BY <1>2, LastInSame
  <2> QED
    BY <2>1
<1>4. \A kinds : LastHandled(p, kinds)' = LastHandled(p, kinds)
  BY <1>3 DEF LastHandled
<1>5. \A kinds : LastHandled(p, kinds) \subseteq 1 .. n
  BY DEF LastHandled, LastIn
<1> HIDE DEF n
<1> QED
  BY <1>1, <1>2, <1>4, <1>5 DEF Effective

\* The message that is handled is the last one handled.
LEMMA HandleEffect ==
  ASSUME WayInv, InOrder, Effective, NEW r \in Router, Handle(r), OneRouter' => OneRouter
  PROVE  Effective'
<1>1. PICK p \in Peer, k \in Nat : hand[r].from = p /\ hand[r].k = k
  BY InHand DEF Handle, WayInv, Mail
<1> DEFINE m == said[p][k]
           n == Len(handled[p])
<1>2. /\ m \in Message /\ said' = said
      /\ handled' = [handled EXCEPT ![p] = Append(@, k)]
      /\ handled[p] \in Seq(Nat) /\ n \in Nat
  BY <1>1, InHand DEF Handle, stream, WayInv, TypeOK
<1> SUFFICES ASSUME OneRouter' PROVE Effective'
  BY DEF Effective
<1>3. OneRouter
  OBVIOUS
<1>4. k = n + 1
  BY <1>1, <1>3, FirstInHand DEF Handle
<1>5. /\ Len(handled'[p]) = n + 1
      /\ \A q \in Peer \ {p} : handled'[q] = handled[q]
  BY <1>2 DEF WayInv, TypeOK
<1>6. \A kinds : LastHandled(p, kinds)' =
                    IF m.kind \in kinds THEN {n + 1} ELSE LastHandled(p, kinds)
  <2>1. ASSUME NEW kinds
        PROVE  LastIn(said[p], n + 1, kinds) =
                 IF m.kind \in kinds THEN {n + 1} ELSE LastIn(said[p], n, kinds)
    <3>1. m = said[p][n + 1]
      BY <1>4
    <3> HIDE DEF m, n
    <3> QED
      BY <1>2, <3>1, LastInNext
  <2> QED
    BY <1>2, <1>5, <2>1 DEF LastHandled
<1>7. \A q \in Peer \ {p} : \A kinds : LastHandled(q, kinds)' = LastHandled(q, kinds)
  BY <1>2, <1>5 DEF LastHandled
<1>8. /\ \A j \in LastHandled(p, {"choke", "unchoke"}) :
           isChocking[p] = (said[p][j].kind = "choke")
      /\ \A j \in LastHandled(p, {"bitfield"}) :
           /\ said[p][j].bits.on \subseteq bitfield[p].on
           /\ said[p][j].bits.bytes = bitfield[p].bytes
  BY <1>3 DEF Effective
<1>9. \/ HandleChoke(r, m) \/ HandleHave(r, m) \/ HandleBitField(r, m) \/ HandleOther(r, m)
  BY <1>1 DEF Handle
<1>10. isChocking \in [Peer -> BOOLEAN] /\ bitfield \in [Peer -> Bitfield]
  BY DEF WayInv, TypeOK
<1> HIDE DEF m, n
<1>11. /\ \A q \in Peer \ {p} : isChocking'[q] = isChocking[q] /\ bitfield'[q] = bitfield[q]
       /\ \A j \in LastHandled(p, {"choke", "unchoke"})' :
            isChocking'[p] = (said[p][j].kind = "choke")
       /\ \A j \in LastHandled(p, {"bitfield"})' :
            /\ said[p][j].bits.on \subseteq bitfield'[p].on
            /\ said[p][j].bits.bytes = bitfield'[p].bytes
  <2>1. CASE HandleChoke(r, m)
    <3>1. /\ m.kind \in {"choke", "unchoke"} /\ m.kind # "bitfield"
          /\ isChocking' = [isChocking EXCEPT ![p] = (m.kind = "choke")] /\ bitfield' = bitfield
      BY <1>1, <2>1 DEF HandleChoke, ChokeValue
    <3>2. /\ LastHandled(p, {"choke", "unchoke"})' = {n + 1}
          /\ LastHandled(p, {"bitfield"})' = LastHandled(p, {"bitfield"})
      BY <1>6, <3>1
    <3>3. said[p][n + 1].kind = m.kind
      BY <1>4 DEF m
    <3>4. isChocking'[p] = (m.kind = "choke")
      BY <1>10, <3>1
    <3> QED
      BY <1>8, <1>10, <3>1, <3>2, <3>3, <3>4
  <2>2. CASE HandleHave(r, m)
    <3>1. /\ m.kind = "have" /\ m.piece \in Piece /\ isChocking' = isChocking
          /\ bitfield' = [bitfield EXCEPT ![p] = UpdatedBitfield(@, m.piece)]
      BY <1>1, <1>2, <2>2 DEF HandleHave, Message
    <3>2. /\ LastHandled(p, {"choke", "unchoke"})' = LastHandled(p, {"choke", "unchoke"})
          /\ LastHandled(p, {"bitfield"})' = LastHandled(p, {"bitfield"})
      BY <1>6, <3>1
    <3>3. bitfield[p].on \subseteq bitfield'[p].on /\ bitfield'[p].bytes = bitfield[p].bytes
      BY <1>10, <3>1, UpdateFits
    <3> QED
      BY <1>8, <1>10, <3>1, <3>2, <3>3
  <2>3. CASE HandleBitField(r, m)
    <3>1. /\ m.kind = "bitfield" /\ isChocking' = isChocking
          /\ bitfield' = [bitfield EXCEPT ![p] = m.bits]
      BY <1>1, <2>3 DEF HandleBitField
    <3>2. /\ LastHandled(p, {"choke", "unchoke"})' = LastHandled(p, {"choke", "unchoke"})
          /\ LastHandled(p, {"bitfield"})' = {n + 1}
      BY <1>6, <3>1
    <3>3. said[p][n + 1] = m /\ bitfield'[p] = m.bits
      BY <1>4, <1>10, <3>1 DEF m
    <3> QED
      BY <1>8, <1>10, <3>1, <3>2, <3>3
  <2>4. CASE HandleOther(r, m)
    <3>1. m.kind = "other" /\ isChocking' = isChocking /\ bitfield' = bitfield
      BY <2>4 DEF HandleOther
    <3>2. /\ LastHandled(p, {"choke", "unchoke"})' = LastHandled(p, {"choke", "unchoke"})
          /\ LastHandled(p, {"bitfield"})' = LastHandled(p, {"bitfield"})
      BY <1>6, <3>1
    <3> QED
      BY <1>8, <3>1, <3>2
  <2> QED
    BY <1>9, <2>1, <2>2, <2>3, <2>4
<1>12. \A q \in Peer \ {p} :
         /\ \A j \in LastHandled(q, {"choke", "unchoke"}) :
              isChocking[q] = (said[q][j].kind = "choke")
         /\ \A j \in LastHandled(q, {"bitfield"}) :
              /\ said[q][j].bits.on \subseteq bitfield[q].on
              /\ said[q][j].bits.bytes = bitfield[q].bytes
  BY <1>3 DEF Effective
<1> QED
  BY <1>2, <1>7, <1>11, <1>12 DEF Effective

LEMMA NextEffect ==
  ASSUME WayInv, InOrder, Effective, [Next]_vars
  PROVE  Effective'
<1>1. ASSUME NEW p \in Peer, \/ PeerStep(p) \/ AddNewPeer(p) \/ ConnectFails(p)
                             \/ HandshakeWrong(p) \/ Connected(p) \/ Remote(p)
      PROVE  UNCHANGED <<handled, isChocking, bitfield>>
  BY <1>1 DEF PeerStep, ReadMsg, PassMsg, ReadFails, AddNewPeer, ConnectFails,
              HandshakeWrong, Connected, Remote, Say, Close, peers
<1>2. ASSUME NEW r \in Router, StartRouter(r) \/ RouterReceive(r) \/ UpdatePriority(r)
      PROVE  UNCHANGED <<handled, isChocking, bitfield>>
  BY <1>2 DEF StartRouter, RouterReceive, UpdatePriority, peers
<1>3. RoutersCollide \/ UNCHANGED vars => UNCHANGED <<handled, isChocking, bitfield>>
  BY DEF RoutersCollide, vars, peers
<1>4. OneRouter' => OneRouter
  BY RoutersStay DEF WayInv
<1>5. ASSUME NEW r \in Router, Handle(r) PROVE Effective'
  BY <1>4, <1>5, HandleEffect
<1> QED
  BY <1>1, <1>2, <1>3, <1>5, EffectStands DEF Next, Outside, RouterStep

\* With one router, what has been handled of a peer has taken effect in its order.
LEMMA OrderInvariant == Spec => [](WayInv /\ OrderInv)
<1>1. Init => WayInv /\ OrderInv
  <2> SUFFICES ASSUME Init PROVE OrderInv
    BY InitType, InitWay DEF WayInv
  <2>1. /\ Len(msgChan) = 0 /\ \A r \in Router : router[r] # "handle"
        /\ \A p \in Peer : handled[p] = <<>> /\ Len(handled[p]) = 0
    BY DEF Init
  <2>2. InOrder
    BY <2>1 DEF InOrder
  <2>3. \A p \in Peer : \A kinds : LastHandled(p, kinds) = {}
    BY <2>1 DEF LastHandled, LastIn
  <2>4. Effective
    BY <2>3 DEF Effective
  <2> QED
    BY <2>2, <2>4 DEF OrderInv
<1>2. WayInv /\ OrderInv /\ [Next]_vars => (WayInv /\ OrderInv)'
  BY NextWay, NextOrder, NextEffect DEF OrderInv
<1> QED
  BY <1>1, <1>2, PTL DEF Spec

\* However the goroutines of the peers and the router interleave: when all a
\* peer has said is handled, its last choke or unchoke and its last bitfield
\* are what is known of it, if the torrent has been started once.
THEOREM LastWordHolds == Spec => []LastWordCounts
<1>1. WayInv /\ OrderInv => LastWordCounts
  <2> SUFFICES ASSUME WayInv, OrderInv, OneRouter, NEW p \in Peer, Settled(p)
               PROVE  /\ \A k \in LastOf(p, {"choke", "unchoke"}) :
                           isChocking[p] = (said[p][k].kind = "choke")
                      /\ \A k \in LastOf(p, {"bitfield"}) :
                           \A i \in said[p][k].bits.on : HasPiece(bitfield[p], i)
    BY DEF LastWordCounts
  <2>1. Len(handled[p]) = Len(said[p])
    <3>1. Cardinality(InFlight(p)) = 0 /\ Len(handled[p]) \in Nat
      BY FS_EmptySet DEF Settled, WayInv, TypeOK
    <3>2. Len(handled[p]) + Cardinality(InFlight(p)) = read[p]
      BY DEF WayInv, NothingLost
    <3>3. read[p] = Len(said[p])
      BY DEF Settled
    <3> QED
      BY <3>1, <3>2, <3>3
  <2>2. \A kinds : LastOf(p, kinds) = LastHandled(p, kinds)
    BY <2>1 DEF LastOf, LastHandled, LastIn
  <2>3. ASSUME NEW k \in LastOf(p, {"bitfield"}), NEW i \in said[p][k].bits.on
        PROVE  HasPiece(bitfield[p], i)
    <3>1. said[p][k] \in Message /\ said[p][k].kind = "bitfield"
      BY DEF LastOf, WayInv, TypeOK
    <3>2. said[p][k].bits \in Bitfield
      BY <3>1 DEF Message
    <3>3. i \div 8 < said[p][k].bits.bytes
      BY <3>2 DEF Bitfield
    <3>4. /\ said[p][k].bits.on \subseteq bitfield[p].on
          /\ said[p][k].bits.bytes = bitfield[p].bytes
      BY <2>2 DEF OrderInv, Effective
    <3> QED
      BY <3>3, <3>4 DEF HasPiece
  <2>4. \A k \in LastOf(p, {"choke", "unchoke"}) : isChocking[p] = (said[p][k].kind = "choke")
    BY <2>2 DEF OrderInv, Effective
  <2> QED
    BY <2>3, <2>4
<1> QED
  BY <1>1, OrderInvariant, PTL

-----------------------------------------------------------------------------
(* Interest points.                                                         *)

\* The steps in which no router begins or ends to work through the pieces.
LEMMA InterestStands ==
  ASSUME InterestInv, OneRouter' => OneRouter, UNCHANGED <<bitfield, owners, interestPoint>>,
         \A r \in Router : /\ router'[r] \in InPriority <=> router[r] \in InPriority
                           /\ router'[r] = "raced" => router[r] = "raced"
                           /\ router[r] \in InPriority => hand'[r] = hand[r]
  PROVE  InterestInv'
<1>1. \A p \in Peer : Calm(p)' => Calm(p)
  BY DEF Calm
<1>2. KnownIsOwned'
  BY <1>1 DEF InterestInv, KnownIsOwned
<1>3. NoRace'
  <2> SUFFICES ASSUME OneRouter' PROVE \A r \in Router : router'[r] # "raced"
    BY DEF NoRace
  <2> QED
    BY DEF InterestInv, NoRace
<1>4. PointsCount'
  <2> SUFFICES ASSUME OneRouter', NEW p \in Peer
               PROVE  Total(interestPoint, Namesakes(p)) = Cardinality({i \in Piece : Id[p] \in owners[i]})
    BY DEF PointsCount, Namesakes, OwnedBy
  <2> QED
    BY DEF InterestInv, PointsCount, OwnedBy
<1> QED
  BY <1>2, <1>3, <1>4 DEF InterestInv

\* A handler that changes a bitfield leaves its router to work through it.
LEMMA HandleInterest ==
  ASSUME WayInv, InterestInv, NEW r \in Router, Handle(r), OneRouter' => OneRouter
  PROVE  InterestInv'
<1>1. PICK p \in Peer, k \in Nat : hand[r].from = p /\ hand[r].k = k
  BY InHand DEF Handle, WayInv, Mail
<1> DEFINE m == said[p][k]
<1>2. \/ HandleChoke(r, m) \/ HandleHave(r, m) \/ HandleBitField(r, m) \/ HandleOther(r, m)
  BY <1>1 DEF Handle
<1>3. /\ router[r] = "handle" /\ UNCHANGED <<owners, interestPoint>>
      /\ router \in [Router -> RouterState] /\ bitfield \in [Peer -> Bitfield]
  BY DEF Handle, WayInv, TypeOK
<1> HIDE DEF m
<1>4. CASE HandleChoke(r, m) \/ HandleOther(r, m)
  <2>1. /\ bitfield' = bitfield /\ router' = [router EXCEPT ![r] = "receive"]
        /\ hand' = [hand EXCEPT ![r] = NoMail]
    BY <1>4 DEF HandleChoke, HandleOther
  <2>2. \A s \in Router : /\ router'[s] \in InPriority <=> router[s] \in InPriority
                          /\ router'[s] = "raced" => router[s] = "raced"
                          /\ router[s] \in InPriority => hand'[s] = hand[s]
    BY <1>3, <2>1 DEF InPriority, WayInv, TypeOK
  <2> QED
    BY <1>3, <2>1, <2>2, InterestStands
<1>5. CASE HandleHave(r, m) \/ HandleBitField(r, m)
  <2>1. /\ router' = [router EXCEPT ![r] = "priority"] /\ hand' = hand
        /\ \A q \in Peer \ {p} : bitfield'[q] = bitfield[q]
    BY <1>1, <1>3, <1>5 DEF HandleHave, HandleBitField
  <2>2. ~Calm(p)'
    BY <1>1, <1>3, <2>1 DEF Calm, InPriority
  <2>3. \A q \in Peer : Calm(q)' => Calm(q)
    BY <1>3, <2>1 DEF Calm, InPriority
  <2>4. KnownIsOwned'
    BY <1>3, <2>1, <2>2, <2>3 DEF InterestInv, KnownIsOwned
  <2>5. NoRace'
    <3> SUFFICES ASSUME OneRouter' PROVE \A s \in Router : router'[s] # "raced"
      BY DEF NoRace
    <3> QED
      BY <1>3, <2>1 DEF InterestInv, NoRace
  <2>6. PointsCount'
    <3> SUFFICES ASSUME OneRouter', NEW q \in Peer
                 PROVE  Total(interestPoint, Namesakes(q)) = Cardinality({i \in Piece : Id[q] \in owners[i]})
      BY <1>3 DEF PointsCount, Namesakes, OwnedBy
    <3> QED
      BY DEF InterestInv, PointsCount, OwnedBy
  <2> QED
    BY <2>4, <2>5, <2>6 DEF InterestInv
<1> QED
  BY <1>2, <1>4, <1>5

\* A piece that gets the peer as a new owner gives it one interest point.
LEMMA PriorityInterest ==
  ASSUME WayInv, InterestInv, NEW r \in Router, UpdatePriority(r), OneRouter' => OneRouter
  PROVE  InterestInv'
<1>1. PICK p \in Peer : hand[r].from = p
  <2>1. hand[r] \in Mail
    BY DEF UpdatePriority, InPriority, WayInv, TypeOK
  <2> QED
    BY <2>1 DEF Mail
<1> DEFINE new == NewlyOwned(p)
<1>2. /\ router[r] \in InPriority /\ bitfield' = bitfield
      /\ \A i \in Piece : owners'[i] = IF i \in new THEN owners[i] \cup {Id[p]} ELSE owners[i]
      /\ \A s \in Router : router'[s] = IF s = r THEN "receive"
                                        ELSE IF s \in Rivals(r) THEN "raced" ELSE router[s]
      /\ hand' = [hand EXCEPT ![r] = NoMail]
  BY <1>1 DEF UpdatePriority
<1>3. KnownIsOwned'
  <2> SUFFICES ASSUME NEW q \in Peer, Calm(q)', NEW i \in Piece, HasPiece(bitfield[q], i)
               PROVE  Id[q] \in owners'[i]
    BY <1>2 DEF KnownIsOwned
  <2>1. CASE q = p
    BY <1>2, <2>1 DEF NewlyOwned
  <2>2. CASE q # p
    <3>1. ASSUME NEW s \in Router, router[s] \in InPriority, hand[s].from = q PROVE FALSE
      <4>1. s # r
        BY <1>1, <2>2, <3>1
      <4>2. router'[s] = "raced" /\ hand'[s] = hand[s]
        BY <1>2, <3>1, <4>1 DEF Rivals, WayInv, TypeOK
      <4> QED
        BY <3>1, <4>2 DEF Calm, InPriority
    <3>2. Calm(q)
      BY <3>1 DEF Calm
    <3>3. Id[q] \in owners[i]
      BY <3>2 DEF InterestInv, KnownIsOwned
    <3> QED
      BY <1>2, <3>3
  <2> QED
    BY <2>1, <2>2
<1>4. OneRouter' => Rivals(r) = {} /\ router[r] # "raced"
  <2> HAVE OneRouter'
  <2>1. \A s \in Router : router[s] # "off" => s = r
    BY <1>2 DEF OneRouter, InPriority
  <2>2. Rivals(r) = {}
    BY <2>1 DEF Rivals, InPriority
  <2> QED
    BY <2>2 DEF InterestInv, NoRace
<1>5. NoRace'
  <2> SUFFICES ASSUME OneRouter' PROVE \A s \in Router : router'[s] # "raced"
    BY DEF NoRace
  <2> QED
    BY <1>2, <1>4 DEF InterestInv, NoRace
<1>6. PointsCount'
  <2> SUFFICES ASSUME OneRouter', NEW q \in Peer
               PROVE  Total(interestPoint', Namesakes(q)) =
                        Cardinality({i \in Piece : Id[q] \in owners'[i]})
    BY DEF PointsCount, Namesakes, OwnedBy
  <2> DEFINE d == Cardinality(new)
  <2>1. /\ interestPoint' = [interestPoint EXCEPT ![p] = interestPoint[p] + d]
        /\ interestPoint \in [Peer -> Nat] /\ d \in Nat /\ IsFiniteSet(new)
    <3>1. new \in SUBSET Piece
      BY DEF NewlyOwned
    <3>2. d \in Nat /\ IsFiniteSet(new)
      BY <3>1, PiecesFinite
    <3>3. interestPoint \in [Peer -> Nat]
      BY DEF WayInv, TypeOK
    <3>4. interestPoint' = [interestPoint EXCEPT ![p] = interestPoint[p] + d]
      BY <1>1, <1>4 DEF UpdatePriority
    <3> QED
      BY <3>2, <3>3, <3>4
  <2>2. IsFiniteSet(Namesakes(q)) /\ Namesakes(q) \subseteq Peer
    BY PeerAssumption, FS_Subset DEF Namesakes
  <2>3. Total(interestPoint', Namesakes(q)) =
          Total(interestPoint, Namesakes(q)) + (IF p \in Namesakes(q) THEN d ELSE 0)
    <3>1. \A x \in Namesakes(q) :
            /\ interestPoint[x] \in Nat
            /\ interestPoint'[x] = IF x = p THEN interestPoint[x] + d ELSE interestPoint[x]
      BY <2>1, <2>2
    <3>2. IsFiniteSet(Namesakes(q)) /\ d \in Nat
      BY <2>1, <2>2
    <3> HIDE DEF d
    <3>3. PICK before, later : before = interestPoint /\ later = interestPoint'
      OBVIOUS
    <3>4. \A x \in Namesakes(q) :
            before[x] \in Nat /\ later[x] = IF x = p THEN before[x] + d ELSE before[x]
      BY <3>1, <3>3
    <3>5. Total(later, Namesakes(q)) =
            Total(before, Namesakes(q)) + (IF p \in Namesakes(q) THEN d ELSE 0)
      BY <3>2, <3>4, TotalChanges
    <3> QED
      BY <3>3, <3>5
  <2>4. Total(interestPoint, Namesakes(q)) = Cardinality(OwnedBy(q))
    BY DEF InterestInv, PointsCount
  <2>5. IsFiniteSet(OwnedBy(q)) /\ Cardinality(OwnedBy(q)) \in Nat
    BY PiecesFinite DEF OwnedBy
  <2> DEFINE after == {i \in Piece : Id[q] \in owners'[i]}
  <2>6. CASE Id[q] = Id[p]
    <3>1. after = OwnedBy(q) \cup new /\ OwnedBy(q) \cap new = {}
      BY <1>2, <2>6 DEF OwnedBy, NewlyOwned
    <3>2. Cardinality(OwnedBy(q) \cup new) =
            Cardinality(OwnedBy(q)) + Cardinality(new) - Cardinality(OwnedBy(q) \cap new)
      BY <2>1, <2>5, FS_Union
    <3>3. Cardinality(OwnedBy(q) \cap new) = 0
      BY <3>1, FS_EmptySet
    <3>4. p \in Namesakes(q)
      BY <2>6 DEF Namesakes
    <3>5. Total(interestPoint', Namesakes(q)) = Cardinality(OwnedBy(q)) + d /\ d \in Nat
      BY <2>1, <2>3, <2>4, <3>4
    <3>6. Cardinality(after) = Cardinality(OwnedBy(q)) + d
      <4> HIDE DEF after, new
      <4> QED
        BY <2>5, <3>1, <3>2, <3>3, <3>5
    <3> QED
      BY <3>5, <3>6
  <2>7. CASE Id[q] # Id[p]
    <3>1. after = OwnedBy(q)
      BY <1>2, <2>7 DEF OwnedBy
    <3>2. p \notin Namesakes(q)
      BY <2>7 DEF Namesakes
    <3> QED
      BY <2>3, <2>4, <2>5, <3>1, <3>2
  <2> QED
    BY <2>6, <2>7
<1> QED
  BY <1>3, <1>5, <1>6 DEF InterestInv

LEMMA NextInterest ==
  ASSUME WayInv, InterestInv, [Next]_vars
  PROVE  InterestInv'
<1>1. OneRouter' => OneRouter
  BY RoutersStay DEF WayInv
<1>2. ASSUME NEW p \in Peer, \/ PeerStep(p) \/ AddNewPeer(p) \/ ConnectFails(p)
                             \/ HandshakeWrong(p) \/ Connected(p) \/ Remote(p)
      PROVE  UNCHANGED <<bitfield, owners, interestPoint, router, hand>>
  BY <1>2 DEF PeerStep, ReadMsg, PassMsg, ReadFails, AddNewPeer, ConnectFails,
              HandshakeWrong, Connected, Remote, Say, Close, peers
<1>3. RoutersCollide \/ UNCHANGED vars
        => UNCHANGED <<bitfield, owners, interestPoint, router, hand>>
  BY DEF RoutersCollide, vars, peers
<1>4. ASSUME UNCHANGED <<bitfield, owners, interestPoint, router, hand>> PROVE InterestInv'
  BY <1>1, <1>4, InterestStands
<1>5. ASSUME NEW r \in Router, StartRouter(r) \/ RouterReceive(r) PROVE InterestInv'
  <2>1. UNCHANGED <<bitfield, owners, interestPoint>>
    BY <1>5 DEF StartRouter, RouterReceive, peers
  <2>2. \A s \in Router : /\ router'[s] \in InPriority <=> router[s] \in InPriority
                          /\ router'[s] = "raced" => router[s] = "raced"
                          /\ router[s] \in InPriority => hand'[s] = hand[s]
    BY <1>5 DEF StartRouter, RouterReceive, InPriority, WayInv, TypeOK
  <2> QED
    BY <1>1, <2>1, <2>2, InterestStands
<1> QED
  BY <1>1, <1>2, <1>3, <1>4, <1>5, HandleInterest, PriorityInterest
  DEF Next, Outside, RouterStep

\* For any number of peers with the same address, and of repeated or contradicting
\* messages: what a peer is known to have it owns, and with one router each piece
\* that lists it has given one interest point.
THEOREM InterestHolds == Spec => []InterestIsOwnership
<1>1. Init => WayInv /\ InterestInv
  <2> SUFFICES ASSUME Init PROVE InterestInv
    BY InitType, InitWay DEF WayInv
  <2>1. KnownIsOwned
    BY DEF Init, KnownIsOwned, HasPiece
  <2>2. NoRace
    BY DEF Init, NoRace
  <2>3. ASSUME NEW p \in Peer
        PROVE  Total(interestPoint, Namesakes(p)) = Cardinality(OwnedBy(p))
    <3>1. OwnedBy(p) = {} /\ Cardinality({}) = 0
      BY FS_EmptySet DEF Init, OwnedBy
    <3>2. IsFiniteSet(Namesakes(p)) /\ \A q \in Namesakes(p) : interestPoint[q] = 0
      BY PeerAssumption, FS_Subset DEF Init, Namesakes
    <3>3. Total(interestPoint, Namesakes(p)) = 0
      BY <3>2, TotalZero
    <3> QED
      BY <3>1, <3>3
  <2> QED
    BY <2>1, <2>2, <2>3 DEF InterestInv, PointsCount
<1>2. WayInv /\ InterestInv /\ [Next]_vars => (WayInv /\ InterestInv)'
  BY NextWay, NextInterest
<1>3. WayInv /\ InterestInv => InterestIsOwnership
  BY DEF InterestInv, KnownIsOwned, PointsCount, Calm, Total, Namesakes, OwnedBy,
         InterestIsOwnership
<1> QED
  BY <1>1, <1>2, <1>3, PTL DEF Spec

=============================================================================

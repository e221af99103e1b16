----------------------------- MODULE MCFormats -----------------------------
(***************************************************************************)
(* Inputs for Formats and BencodeFormats: torrents of up to three files of *)
(* zero to five bytes in pieces of one to six, and those of a single file; *)
(* streams of up to two messages of every kind; numbers at the borders of  *)
(* their width; answers with as many peers as fit the buffer, and more;    *)
(* bencoded values of lists and dictionaries in each other.                *)
(***************************************************************************)
EXTENDS BencodeFormats

SeqsUpTo(S, n) == UNION {[1 .. k -> S] : k \in 0 .. n}

MCInfos ==
  {[length |-> 0, name |-> "t", pieceLength |-> p,
    files |-> [i \in DOMAIN ls |-> [length |-> ls[i], path |-> <<i>>]]] :
     ls \in SeqsUpTo(0 .. 5, 3), p \in 1 .. 6}
  \cup
  {[length |-> n, name |-> "t", pieceLength |-> p, files |-> <<>>] :
     n \in 1 .. 7, p \in 1 .. 6}

Border == {0, 1, Radix - 1, Radix, Radix ^ 4 - 1}

MCMessages ==
       {[ID |-> -1], [ID |-> 0], [ID |-> 1], [ID |-> 2], [ID |-> 3], [ID |-> 9]}
  \cup {[ID |-> HaveMsgId, PieceIndex |-> n] : n \in Border}
  \cup {[ID |-> BitfieldMsgId, Bitfield |-> b] : b \in {<<>>, <<5>>, <<0, Radix - 1>>}}
  \cup {[ID |-> id, PieceIndex |-> n, BeginIndex |-> 1, BlockLength |-> Radix] :
          id \in {RequestMsgId, CancelMsgId}, n \in {0, Radix ^ 4 - 1}}
  \cup {[ID |-> PieceMsgId, PieceIndex |-> 1, BeginIndex |-> Radix, Payload |-> b] :
          b \in {<<>>, <<7>>, <<0, 0, 0, 1, 0>>}}

MCStreams == SeqsUpTo(MCMessages, 2)

MCRequests ==
  SeqsUpTo({[PieceIndex |-> p, BeginIndex |-> b, BlockLength |-> 16] :
              p \in Border \cup {Radix ^ 4}, b \in Border}, 2)

Twenty == {[i \in 1 .. 20 |-> (i * f) % Radix] : f \in {1, 7}}

MCHandshakes ==
  {<<h, SubSeq(Append(i, 3), 1, n)>> : h \in Twenty, i \in Twenty, n \in {0, 19, 20, 21}}

MCAnnounces ==
  {[ConnectionID |-> c, Action |-> 1, TransactionID |-> t, Infohash |-> h, PeerId |-> h,
    Downloaded |-> 67, Uploaded |-> 20, Left |-> l, Event |-> 0, Ip |-> 0, Key |-> 2,
    NumWant |-> -1, Port |-> Radix + 3] :
     c \in Border \cup {Radix ^ 6}, t \in Border, h \in Twenty, l \in {0, Radix ^ 5}}

MCAnswers ==
  {<<[Action |-> 1, TransactionID |-> t, Interval |-> 90, NLeechers |-> 1, NSeeders |-> s],
     [i \in 1 .. n |-> [ip |-> <<i, 0, 0, i + 1>>, port |-> Radix + i]]>> :
     t \in Border, s \in Border, n \in 0 .. 5}

Leaf == {Str("a"), Str("1"), Num("1")}
Entry(k, v) == [k |-> k, v |-> v]
List(e) == [t |-> "l", e |-> e]
Dict(e) == [t |-> "d", e |-> e]

Inner ==
       {List(e) : e \in SeqsUpTo(Leaf, 2)}
  \cup {Dict(<<Entry("x", v)>>) : v \in Leaf \cup {List(<<Str("a")>>)}}
Member == Leaf \cup {List(<<Str("a")>>), List(<<List(<<Str("1")>>)>>),
                     Dict(<<Entry("x", Num("1"))>>)}
Small == Leaf \cup Inner \cup {List(e) : e \in SeqsUpTo(Member, 3)}

MCValues ==
       {Dict(<<Entry("x", v)>>) : v \in Small}
  \cup {Dict(<<Entry("x", v), Entry(k, w)>>) : v \in Leaf \cup Inner, w \in Leaf \cup Inner,
                                               k \in {"x", "y"}}
=============================================================================

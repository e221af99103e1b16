---------------------------- MODULE MCPeerSwarm ----------------------------
(***************************************************************************)
(* PeerSwarm for TLC: two objects for one peer, which chokes, unchokes and *)
(* announces pieces in two bytes of its bitfield over the first connection *)
(* and in one byte over the second.                                        *)
(***************************************************************************)
EXTENDS PeerSwarm

CONSTANTS p1, p2

TwoPeers == {p1, p2}
SameId   == [p \in Peer |-> 1]

Full  == [kind |-> "bitfield", bits |-> [bytes |-> 2, on |-> {1}]]
Short == [kind |-> "bitfield", bits |-> [bytes |-> 1, on |-> {0}]]

Sayings ==
  [p \in Peer |->
     IF p = p1
     THEN {[kind |-> "choke"], [kind |-> "unchoke"], Full,
           [kind |-> "have", piece |-> 8]}
     ELSE {Short, [kind |-> "other"]}]

Bounds == [p \in Peer |-> IF p = p1 THEN 2 ELSE 1]
=============================================================================

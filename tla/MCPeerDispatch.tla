--------------------------- MODULE MCPeerDispatch ---------------------------
(***************************************************************************)
(* PeerDispatch for TLC: two workers that compete for places at few peers. *)
(* The objects p1 and p2 have one id: p2 is p1 announced again.            *)
(***************************************************************************)
EXTENDS PeerDispatch

CONSTANTS w1, w2, seed, p1, p2

TwoWorkers == {w1, w2}
Peers      == {seed, p1, p2}
Ids        == [p \in Peers |-> IF p = seed THEN 1 ELSE 2]
OnePeer    == {p1}
Seeds      == {seed}
NoSeeds    == {}
=============================================================================

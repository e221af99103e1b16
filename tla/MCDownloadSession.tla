------------------------- MODULE MCDownloadSession -------------------------
(***************************************************************************)
(* DownloadSession for TLC: up to three workers and four pieces, the first *)
(* of which an earlier session already took.                               *)
(***************************************************************************)
EXTENDS DownloadSession

CONSTANTS w1, w2, w3

ThreeWorkers == {w1, w2, w3}
TwoWorkers   == {w1, w2}
=============================================================================

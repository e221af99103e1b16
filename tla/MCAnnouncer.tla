---------------------------- MODULE MCAnnouncer ----------------------------
(***************************************************************************)
(* Announcer for TLC: two starts of a torrent whose main tracker may       *)
(* fail, with a list that holds a tracker that may fail, one that always   *)
(* answers and one that is reached by HTTP.                                *)
(***************************************************************************)
EXTENDS Announcer

CONSTANTS main, flaky, good, web

List  == <<flaky, good, web>>
Waits == [connect |-> 3, announce |-> 4]
=============================================================================

-------------------------- MODULE SessionContract --------------------------
(***************************************************************************)
(* What one download session promises to the torrent manager that starts   *)
(* it: pieces are handed out in order, each is delivered to the writer at  *)
(* most once, the session is over (mainRoutinesWg.Done()) only when it was *)
(* cancelled or has delivered everything it handed out with no piece left, *)
(* and CompleteTorrent is sent only when no piece is left to hand out.     *)
(* The index is the downloader's, so the schedulers of other sessions move *)
(* it too, one at a time. DownloadSession implements this contract.        *)
(***************************************************************************)
EXTENDS Integers

CONSTANTS NPiece, FirstPiece

VARIABLES
  cancelled,  \* downloaderCtx is done
  next,       \* the next piece to hand out
  inHand,     \* pieces handed out and not delivered
  delivered,  \* pieces delivered to the writer
  phase,      \* "running", "over", "announced"
  dead        \* the process panicked

vars == <<cancelled, next, inHand, delivered, phase, dead>>

Init ==
  /\ cancelled = FALSE
  /\ next = FirstPiece
  /\ inHand = {}
  /\ delivered = {}
  /\ phase = "running"
  /\ dead = FALSE

Cancel ==
  /\ cancelled' = TRUE
  /\ UNCHANGED <<next, inHand, delivered, phase, dead>>

\* A cancelled session may still hand out pieces, even when it is over.
HandOut ==
  /\ next < NPiece
  /\ phase = "running" \/ cancelled
  /\ inHand' = inHand \cup {next}
  /\ next' = next + 1
  /\ UNCHANGED <<cancelled, delivered, phase, dead>>

\* The scheduler of another session takes the next piece.
Elsewhere ==
  /\ next < NPiece
  /\ next' = next + 1
  /\ UNCHANGED <<cancelled, inHand, delivered, phase, dead>>

Deliver(p) ==
  /\ p \in inHand
  /\ inHand' = inHand \ {p}
  /\ delivered' = delivered \cup {p}
  /\ UNCHANGED <<cancelled, next, phase, dead>>

Finish ==
  /\ phase = "running"
  /\ cancelled \/ (next = NPiece /\ inHand = {})
  /\ phase' = "over"
  /\ UNCHANGED <<cancelled, next, inHand, delivered, dead>>

Announce ==
  /\ phase = "over"
  /\ next = NPiece
  /\ phase' = "announced"
  /\ UNCHANGED <<cancelled, next, inHand, delivered, dead>>

Die ==
  /\ dead' = TRUE
  /\ UNCHANGED <<cancelled, next, inHand, delivered, phase>>

Next ==
  /\ ~dead
  /\ \/ Cancel \/ HandOut \/ Elsewhere \/ Finish \/ Announce \/ Die
     \/ \E p \in inHand : Deliver(p)

Spec == Init /\ [][Next]_vars
=============================================================================

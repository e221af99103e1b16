--------------------------- MODULE PieceDownload ---------------------------
(***************************************************************************)
(* How one piece travels (core/piece.go): the worker in Piece.download     *)
(* requests its blocks from the peer, the message router puts the answers  *)
(* into the buffer with putPiece. The two goroutines share                 *)
(* nPendingRequest and downloaded without synchronisation: ++ and -- are a *)
(* load and a store each.                                                  *)
(*                                                                         *)
(* Blocks are their indices. putPiece takes every piece message there is:  *)
(* the answers to the requests, and the strays, which nobody asked for or  *)
(* which come once more, from whichever peer and of any extent. The module *)
(* begins when download has made the buffer.                               *)
(***************************************************************************)
EXTENDS Integers, Sequences, FiniteSets

CONSTANTS
  PieceLengths,  \* the lengths a piece may have
  BlockLen,
  MaxPending,    \* maxPendingRequest
  StrayBegin,    \* BeginIndex and payload length of the messages nobody asked for
  StrayLength,
  MaxStray       \* bound on the number of them

ASSUME LengthAssumption == PieceLengths \subseteq Nat \ {0} /\ BlockLen \in Nat \ {0}
ASSUME PendingAssumption == MaxPending \in Nat \ {0}
ASSUME StrayAssumption ==
  StrayBegin \subseteq Nat /\ StrayLength \subseteq Nat /\ MaxStray \in Nat

VARIABLES
  pieceLength,      \* never changes
  requestIndex,
  endOfPiece,
  nPendingRequest,
  downloaded,
  buffer,           \* the blocks whose answers have been copied into the buffer
  worker,           \* where download is
  todo,             \* requests getNextRequest returned that are still to send
  workerSaw,        \* nPendingRequest as loaded by the worker's ++
  router,           \* where putPiece is
  arrived,          \* the answered block in the hands of putPiece (one at most)
  stray,            \* the stray message in its hands (one at most)
  routerSaw,        \* nPendingRequest as loaded by the router's --
  wire,             \* blocks requested and not answered
  lost,             \* blocks requested that the peer will not answer
  dropped,          \* blocks answered after downloaded had reached pieceLength
  strays,           \* how many stray messages there have been
  extra             \* the bytes of them that downloaded has counted

workerVars == <<worker, todo, workerSaw>>
routerVars == <<router, arrived, stray, routerSaw>>
pieceVars  == <<requestIndex, endOfPiece, nPendingRequest, downloaded, buffer>>
network    == <<wire, lost, dropped, strays, extra>>
vars == <<pieceLength, pieceVars, workerVars, routerVars, network>>

\* A worker writes the interested message; tests downloaded; writes a request; loads
\* and stores nPendingRequest; has returned nil, has returned an error; has panicked.
WorkerState == {"interest", "loop", "send", "load", "store", "done", "failed", "panicked"}

\* The router waits for a block; loads and stores nPendingRequest; copies; has
\* panicked.
RouterState == {"idle", "load", "store", "copy", "panicked"}

Stray == [begin : StrayBegin, length : StrayLength]

\* The number of blocks of the piece, and all of them.
NBlock == (pieceLength + BlockLen - 1) \div BlockLen
Block  == 0..(NBlock - 1)

\* (Mutant: the last block is as long as the others.)
FullLength(i) == BlockLen

\* The length in getBlockRequestInfo(i): pieceLength % startIndex for a block that
\* does not fit. The remainder is only taken with a startIndex that is not 0.
BlockLength(i) ==
  IF BlockLen + BlockLen * i > pieceLength THEN pieceLength % (BlockLen * i)
                                           ELSE BlockLen

\* getBlockRequestInfo(0) of a piece shorter than a block divides by zero.
DividesByZero == requestIndex = 0 /\ BlockLen > pieceLength

Init ==
  /\ pieceLength \in PieceLengths
  /\ requestIndex = 0
  /\ endOfPiece = FALSE
  /\ nPendingRequest = 0
  /\ downloaded = 0
  /\ buffer = {}
  /\ worker = "interest"
  /\ todo = <<>>
  /\ workerSaw = 0
  /\ router = "idle"
  /\ arrived = {}
  /\ stray = {}
  /\ routerSaw = 0
  /\ wire = {}
  /\ lost = {}
  /\ dropped = {}
  /\ strays = 0
  /\ extra = 0

-----------------------------------------------------------------------------
(* Piece.download.                                                          *)

\* The Write of the interested message.
WorkerInterest ==
  /\ worker = "interest"
  /\ worker' = "loop"
  /\ UNCHANGED <<pieceLength, pieceVars, todo, workerSaw, routerVars, network>>

\* The loop ends: downloaded has reached pieceLength.
WorkerDone ==
  /\ worker = "loop"
  /\ downloaded >= pieceLength
  /\ worker' = "done"
  /\ UNCHANGED <<pieceLength, pieceVars, todo, workerSaw, routerVars, network>>

\* (Mutant: getNextRequest takes the last block but one for the end of the piece.)
BatchSizeShort ==
  LET room == MaxPending - nPendingRequest
      left == NBlock - requestIndex - 1
  IN  IF room < left THEN room ELSE left

\* The number of requests getNextRequest(maxPendingRequest - nPendingRequest)
\* returns: it stops behind the last block.
BatchSize ==
  LET room == MaxPending - nPendingRequest
      left == NBlock - requestIndex
  IN  IF room < left THEN room ELSE left

\* (Mutant: requestIndex counts what was asked for, not what was returned.)
IndexAsked == requestIndex + MaxPending - nPendingRequest

IndexAfterBatch == requestIndex + BatchSize

\* getNextRequest returns some requests.
WorkerNextRequests ==
  /\ worker = "loop"
  /\ downloaded < pieceLength
  /\ ~endOfPiece
  /\ BatchSize > 0
  /\ ~DividesByZero
  /\ todo' = [k \in 1..BatchSize |-> requestIndex + k - 1]
  /\ requestIndex' = IndexAfterBatch
  /\ endOfPiece' = (requestIndex + BatchSize = NBlock)
  /\ worker' = "send"
  /\ UNCHANGED <<pieceLength, nPendingRequest, downloaded, buffer, workerSaw,
                 routerVars, network>>

\* `pieceLength % startIndex' with startIndex = 0.
WorkerPanic ==
  /\ worker = "loop"
  /\ downloaded < pieceLength
  /\ ~endOfPiece
  /\ nPendingRequest < MaxPending
  /\ DividesByZero
  /\ worker' = "panicked"
  /\ UNCHANGED <<pieceLength, pieceVars, todo, workerSaw, routerVars, network>>

\* The Write of a request.
WorkerSend ==
  /\ worker = "send"
  /\ wire' = wire \cup {Head(todo)}
  /\ worker' = "load"
  /\ UNCHANGED <<pieceLength, pieceVars, todo, workerSaw, routerVars, lost,
                 dropped, strays, extra>>

\* A Write fails: reset() and return the error.
WorkerFail ==
  /\ worker \in {"interest", "send"}
  /\ downloaded' = 0
  /\ buffer' = {}
  /\ requestIndex' = 0
  /\ worker' = "failed"
  /\ UNCHANGED <<pieceLength, endOfPiece, nPendingRequest, todo, workerSaw,
                 routerVars, network>>

\* nPendingRequest++, the load and the store.
WorkerLoad ==
  /\ worker = "load"
  /\ workerSaw' = nPendingRequest
  /\ worker' = "store"
  /\ UNCHANGED <<pieceLength, pieceVars, todo, routerVars, network>>

\* (Mutant: the range over the requests does not end.)
SendOn == "send"

AfterStore == IF Len(todo) = 1 THEN "loop" ELSE "send"

WorkerStore ==
  /\ worker = "store"
  /\ nPendingRequest' = workerSaw + 1
  /\ todo' = Tail(todo)
  /\ worker' = AfterStore
  /\ UNCHANGED <<pieceLength, requestIndex, endOfPiece, downloaded, buffer,
                 workerSaw, routerVars, network>>

-----------------------------------------------------------------------------
(* HandlePieceMsg, putBlock and Piece.putPiece. hasSubPiece is never true:  *)
(* nothing sets a bit of subPieceMask.                                      *)

\* The peer's answer to the request of block b is handled.
RouterReceive(b) ==
  /\ router = "idle"
  /\ b \in wire
  /\ wire' = wire \ {b}
  /\ IF downloaded < pieceLength
     THEN arrived' = {b} /\ router' = "load" /\ dropped' = dropped
     ELSE UNCHANGED <<arrived, router>> /\ dropped' = dropped \cup {b}
  /\ UNCHANGED <<pieceLength, pieceVars, workerVars, stray, routerSaw, lost,
                 strays, extra>>

\* hasSubPiece(m.begin) is an index into subPieceMask, which has a byte per block.
InMask(m) == (m.begin \div BlockLen) \div 8 < NBlock

\* A message nobody asked for is handled in the same way.
RouterStray(m) ==
  /\ router = "idle"
  /\ strays < MaxStray
  /\ strays' = strays + 1
  /\ \/ ~InMask(m) /\ router' = "panicked" /\ stray' = stray
     \/ InMask(m) /\ downloaded < pieceLength /\ router' = "load" /\ stray' = {m}
     \/ InMask(m) /\ downloaded >= pieceLength /\ UNCHANGED <<router, stray>>
  /\ UNCHANGED <<pieceLength, pieceVars, workerVars, arrived, routerSaw, wire, lost,
                 dropped, extra>>

\* nPendingRequest--, the load and the store.
RouterLoad ==
  /\ router = "load"
  /\ routerSaw' = nPendingRequest
  /\ router' = "store"
  /\ UNCHANGED <<pieceLength, pieceVars, workerVars, arrived, stray, network>>

RouterStore ==
  /\ router = "store"
  /\ nPendingRequest' = routerSaw - 1
  /\ router' = "copy"
  /\ UNCHANGED <<pieceLength, requestIndex, endOfPiece, downloaded, buffer,
                 workerVars, arrived, stray, routerSaw, network>>

\* writeToBuffer, for an answer: it has the bounds of its request.
RouterCopy(b) ==
  /\ router = "copy"
  /\ b \in arrived
  /\ buffer' = buffer \cup {b}
  /\ downloaded' = downloaded + BlockLength(b)
  /\ arrived' = {}
  /\ router' = "idle"
  /\ UNCHANGED <<pieceLength, requestIndex, endOfPiece, nPendingRequest,
                 workerVars, stray, routerSaw, network>>

\* writeToBuffer, for a stray: it is counted like an answer, and a slice expression
\* beyond the buffer panics.
RouterCopyStray(m) ==
  /\ router = "copy"
  /\ m \in stray
  /\ stray' = {}
  /\ IF m.begin + m.length <= pieceLength
     THEN /\ downloaded' = downloaded + m.length
          /\ extra' = extra + m.length
          /\ router' = "idle"
     ELSE UNCHANGED <<downloaded, extra>> /\ router' = "panicked"
  /\ UNCHANGED <<pieceLength, requestIndex, endOfPiece, nPendingRequest, buffer,
                 workerVars, arrived, routerSaw, wire, lost, dropped, strays>>

\* The peer never answers the request of block b.
Lose(b) ==
  /\ b \in wire
  /\ wire' = wire \ {b}
  /\ lost' = lost \cup {b}
  /\ UNCHANGED <<pieceLength, pieceVars, workerVars, routerVars, dropped, strays,
                 extra>>

-----------------------------------------------------------------------------
\* An error of download and a panic both end the process.
Alive == worker \notin {"failed", "panicked"} /\ router # "panicked"

WorkerStep ==
  \/ WorkerInterest \/ WorkerDone \/ WorkerNextRequests \/ WorkerPanic
  \/ WorkerSend     \/ WorkerLoad \/ WorkerStore

RouterStep ==
  \/ RouterLoad \/ RouterStore
  \/ \E b \in arrived : RouterCopy(b)
  \/ \E m \in stray : RouterCopyStray(m)

Next ==
  /\ Alive
  /\ \/ WorkerStep \/ WorkerFail \/ RouterStep
     \/ \E b \in wire : RouterReceive(b) \/ Lose(b)
     \/ \E m \in Stray : RouterStray(m)

Spec == Init /\ [][Next]_vars

\* Both goroutines run. That a request which stays on the wire is answered is
\* the peer's part; one that does not answer moves the request to lost.
FairSpec ==
  /\ Spec
  /\ WF_vars(Alive /\ WorkerStep) /\ WF_vars(Alive /\ RouterStep)
  /\ WF_vars(Alive /\ \E b \in wire : RouterReceive(b))

-----------------------------------------------------------------------------
(* Properties.                                                              *)

\* The types, and: a worker that sends has a request to send.
TypeOK ==
  /\ pieceLength \in PieceLengths
  /\ requestIndex \in Nat
  /\ endOfPiece \in BOOLEAN
  /\ nPendingRequest \in Int
  /\ downloaded \in Nat
  /\ buffer \subseteq Nat
  /\ worker \in WorkerState
  /\ todo \in Seq(Nat)
  /\ worker \in {"send", "load", "store"} => todo # <<>>
  /\ workerSaw \in Int
  /\ router \in RouterState
  /\ arrived \subseteq Nat
  /\ stray \subseteq Stray
  /\ routerSaw \in Int
  /\ wire \subseteq Nat /\ lost \subseteq Nat /\ dropped \subseteq Nat
  /\ strays \in 0..MaxStray
  /\ extra \in Nat

\* The blocks of the requests that are still to send.
Unsent ==
  LET first == IF worker \in {"load", "store"} THEN 2 ELSE 1
  IN  {todo[k] : k \in first..Len(todo)}

\* Whatever happens to nPendingRequest and whatever strays come, no block is
\* requested twice or left out, and no request goes beyond the piece: each block up
\* to requestIndex is in exactly one place, and endOfPiece tells that all of them are.
RequestsOnce ==
  Alive =>
    /\ Unsent \cup wire \cup lost \cup dropped \cup arrived \cup buffer
         = 0..(requestIndex - 1)
    /\ Unsent \cap (wire \cup lost \cup dropped \cup arrived \cup buffer) = {}
    /\ (wire \cup lost \cup dropped) \cap (arrived \cup buffer) = {}
    /\ wire \cap (lost \cup dropped) = {} /\ lost \cap dropped = {}
    /\ arrived \cap buffer = {}
    /\ requestIndex <= NBlock /\ (endOfPiece <=> requestIndex = NBlock)

\* The bytes of the blocks whose answers are in the buffer: the last block is shorter
\* than the others by what NBlock blocks have too much.
Missing == IF NBlock - 1 \in buffer THEN NBlock * BlockLen - pieceLength ELSE 0
Filled  == Cardinality(buffer) * BlockLen - Missing

\* download takes the count of bytes for the piece: when it returns nil, no more bytes
\* of the requested blocks are missing from the buffer than bytes nobody asked for
\* were counted. Without such bytes the buffer is full, and the lengths of the
\* blocks add up to pieceLength exactly.
CompleteIsFull ==
  worker = "done" =>
    /\ pieceLength <= Filled + extra
    /\ extra = 0 => buffer = Block /\ downloaded = pieceLength

Ends == <>(worker \in {"done", "failed"} \/ router = "panicked")

\* A piece of at least one block and no more than may be pending is completed if its
\* requests are all answered, whatever the race on nPendingRequest does, unless a
\* Write fails or a stray message ends the process.
PieceCompletes ==
  BlockLen <= pieceLength /\ NBlock <= MaxPending /\ [](lost = {}) => Ends

\* The steps that the goroutines can take. A worker that finds no room for another
\* request spins: it comes back to the loop with nothing changed.
WorkerCanRun ==
  \/ worker \in {"interest", "send", "load", "store"}
  \/ worker = "loop" /\ (downloaded >= pieceLength \/ (~endOfPiece /\ BatchSize > 0))

RouterCanRun ==
  \/ router \in {"load", "store"}
  \/ router = "copy" /\ (arrived # {} \/ stray # {})
  \/ router = "idle" /\ wire # {}

\* The worker never spins for ever over a piece that PieceCompletes is about: while it
\* can do nothing itself a block is on its way, and no lost ++ or --, and no -- for a
\* stray, makes it miss the last one or keeps it from asking.
PieceNeverStuck ==
  Alive /\ BlockLen <= pieceLength /\ NBlock <= MaxPending /\ lost = {} =>
    worker = "done" \/ WorkerCanRun \/ RouterCanRun

\* How many steps are left: of the worker with the request it is at, with those not
\* sent, of the answers on the wire, of the strays and of the router with what it has.
WorkerRank == [interest |-> 9, loop |-> 8, send |-> 7, load |-> 2, store |-> 1,
               done |-> 0, failed |-> 0, panicked |-> 0]
RouterRank == [idle |-> 0, load |-> 3, store |-> 2, copy |-> 1, panicked |-> 0]

Waiting ==
  8 * (NBlock - requestIndex + Len(todo)) + 4 * Cardinality(wire) + 4 * (MaxStray - strays)

PieceStepsLeft == WorkerRank[worker] + Waiting + RouterRank[router]

\* Every step that does not end the process brings the download closer to its last one,
\* whatever nPendingRequest has become: no block is asked for again. With
\* PieceNeverStuck: a download of such a piece that goes on whenever it can is done.
PieceRunsOut ==
  /\ [](Alive => PieceStepsLeft \in Nat)
  /\ [][Alive' => PieceStepsLeft' < PieceStepsLeft]_vars

\* Requests are computed for a piece of any length. (Not so: pieceLength % 0.)
ShortPieceIsRequested == worker # "panicked"
=============================================================================

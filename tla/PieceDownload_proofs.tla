----------------------- MODULE PieceDownload_proofs -----------------------
(***************************************************************************)
(* Theorems about PieceDownload, for pieces and blocks of any length and   *)
(* any number of pending requests and of strays, whatever the race on      *)
(* nPendingRequest makes of it.                                            *)
(***************************************************************************)
EXTENDS PieceDownload, FiniteSetTheorems, SequenceTheorems, TLAPS

-----------------------------------------------------------------------------
(* The invariant.                                                           *)

\* The requests that have left the worker.
Sent == wire \cup lost \cup dropped \cup arrived \cup buffer

\* The first block that has not been requested from the peer.
FirstUnsent ==
  requestIndex - Len(todo) + (IF worker \in {"load", "store"} THEN 1 ELSE 0)

\* What is still to send are the last blocks before requestIndex, in order.
TodoInOrder ==
  /\ Len(todo) <= requestIndex
  /\ \A k \in 1..Len(todo) : todo[k] = requestIndex - Len(todo) + k - 1
  /\ worker \in {"interest", "loop", "done"} => todo = <<>>

\* What has been sent are the blocks before it, each in one place.
SentExact ==
  /\ Sent = 0..(FirstUnsent - 1)
  /\ (wire \cup lost \cup dropped) \cap (arrived \cup buffer) = {}
  /\ wire \cap (lost \cup dropped) = {}
  /\ lost \cap dropped = {}
  /\ arrived \cap buffer = {}

\* requestIndex is at most the number of blocks, and endOfPiece tells when it
\* is. Of a piece shorter than a block nothing is requested.
IndexBounded ==
  /\ requestIndex <= NBlock
  /\ endOfPiece <=> requestIndex = NBlock
  /\ requestIndex > 0 => BlockLen <= pieceLength

\* putPiece handles one message at a time.
OneArrived ==
  /\ router \in {"idle", "panicked"} <=> arrived = {} /\ stray = {}
  /\ arrived = {} \/ stray = {}
  /\ \A b, c \in arrived : b = c

\* downloaded is the bytes of the answers in the buffer and of the strays.
DownloadedExact == downloaded + Missing = Cardinality(buffer) * BlockLen + extra

\* Answers are dropped only when downloaded has reached the length of the piece.
DroppedLate == dropped # {} => downloaded >= pieceLength

DoneDownloaded == worker = "done" => downloaded >= pieceLength

\* The worker has neither failed nor panicked; the router may have panicked.
Intact == worker \notin {"failed", "panicked"}

IInv ==
  /\ TypeOK
  /\ Intact => /\ TodoInOrder /\ SentExact /\ IndexBounded /\ OneArrived
               /\ DownloadedExact /\ DroppedLate /\ DoneDownloaded

-----------------------------------------------------------------------------
(* The lengths of the blocks.                                               *)

\* A quotient and its remainder.
LEMMA Quotient ==
  ASSUME NEW a \in Nat, NEW b \in Nat \ {0}
  PROVE  /\ a \div b \in Nat
         /\ (a \div b) * b <= a
         /\ a < (a \div b) * b + b
  OBVIOUS

\* What is less than two divisors and no less than one leaves the difference.
LEMMA Remainder ==
  ASSUME NEW a \in Nat, NEW b \in Nat \ {0}, b <= a, a < b + b
  PROVE  a % b = a - b
  OBVIOUS

\* The blocks cover the piece, and one less would not.
LEMMA NBlockBounds ==
  ASSUME pieceLength \in Nat \ {0}
  PROVE  /\ NBlock \in Nat \ {0}
         /\ (NBlock - 1) * BlockLen < pieceLength
         /\ pieceLength <= NBlock * BlockLen
<1>1. BlockLen \in Nat \ {0}
  BY LengthAssumption
<1> DEFINE a == pieceLength + BlockLen - 1
<1>2. a \in Nat
  BY <1>1
<1>3. /\ NBlock \in Nat
      /\ NBlock * BlockLen <= a
      /\ a < NBlock * BlockLen + BlockLen
  BY <1>1, <1>2, Quotient DEF NBlock
<1>4. (NBlock - 1) * BlockLen = NBlock * BlockLen - BlockLen
  BY <1>1, <1>3
<1>5. NBlock # 0
  BY <1>1, <1>3
<1> QED
  BY <1>1, <1>3, <1>4, <1>5

\* Multiplication is monotonic.
LEMMA Monotonic ==
  ASSUME NEW m \in Nat, NEW n \in Nat, NEW b \in Nat, m <= n
  PROVE  m * b <= n * b
<1>1. (n - m) * b >= 0
  OBVIOUS
<1>2. n * b = m * b + (n - m) * b
  OBVIOUS
<1> QED
  BY <1>1, <1>2

\* getBlockRequestInfo: every block but the last has the full length, the last one
\* what is left of the piece.
LEMMA BlockLengths ==
  ASSUME pieceLength \in Nat \ {0}, BlockLen <= pieceLength, NEW i \in Block
  PROVE  BlockLength(i) = IF i = NBlock - 1 THEN pieceLength - (NBlock - 1) * BlockLen
                                            ELSE BlockLen
<1>1. BlockLen \in Nat \ {0}
  BY LengthAssumption
<1>2. /\ NBlock \in Nat \ {0}
      /\ (NBlock - 1) * BlockLen < pieceLength
      /\ pieceLength <= NBlock * BlockLen
  BY NBlockBounds
<1>3. i \in Nat /\ i <= NBlock - 1
  BY <1>2 DEF Block
<1>4. /\ BlockLen * i = i * BlockLen
      /\ BlockLen + BlockLen * i = (i + 1) * BlockLen
      /\ NBlock * BlockLen = (NBlock - 1) * BlockLen + BlockLen
  BY <1>1, <1>2, <1>3
<1>5. CASE i # NBlock - 1
  <2>1. (i + 1) * BlockLen <= (NBlock - 1) * BlockLen
    BY <1>1, <1>2, <1>3, <1>5, Monotonic
  <2> QED
    BY <1>1, <1>2, <1>3, <1>4, <1>5, <2>1 DEF BlockLength
<1>6. CASE i = NBlock - 1 /\ NBlock * BlockLen > pieceLength
  <2>1. i \in Nat \ {0}
    BY <1>1, <1>2, <1>3, <1>6
  <2>2. 1 * BlockLen <= i * BlockLen
    BY <1>1, <2>1, Monotonic
  <2>3. /\ BlockLen * i \in Nat \ {0}
        /\ pieceLength \in Nat
        /\ BlockLen * i <= pieceLength
        /\ pieceLength < BlockLen * i + BlockLen * i
    BY <1>1, <1>2, <1>4, <1>6, <2>1, <2>2
  <2>4. pieceLength % (BlockLen * i) = pieceLength - BlockLen * i
    BY <2>3, Remainder, Zenon
  <2> QED
    BY <1>1, <1>2, <1>4, <1>6, <2>4 DEF BlockLength
<1>7. CASE i = NBlock - 1 /\ NBlock * BlockLen = pieceLength
  BY <1>1, <1>2, <1>4, <1>7 DEF BlockLength
<1> QED
  BY <1>1, <1>2, <1>5, <1>6, <1>7

-----------------------------------------------------------------------------
(* Type correctness.                                                        *)

\* The number of requests in a batch.
LEMMA BatchSizes ==
  ASSUME TypeOK
  PROVE  /\ pieceLength \in Nat \ {0} /\ BlockLen \in Nat \ {0}
         /\ NBlock \in Nat \ {0}
         /\ BatchSize \in Int
         /\ BatchSize <= NBlock - requestIndex
<1>1. pieceLength \in Nat \ {0} /\ BlockLen \in Nat \ {0}
  BY LengthAssumption DEF TypeOK
<1> QED
  BY <1>1, NBlockBounds, PendingAssumption DEF TypeOK, BatchSize

\* The blocks of a batch of n requests from block i on.
LEMMA Numbers ==
  ASSUME NEW n \in Nat \ {0}, NEW i \in Nat, NEW s, s = [k \in 1..n |-> i + k - 1]
  PROVE  s \in Seq(Nat) /\ s # <<>> /\ Len(s) = n /\ \A k \in 1..n : s[k] = i + k - 1
<1>1. s \in [1..n -> Nat]
  OBVIOUS
<1>2. s \in Seq(Nat)
  BY <1>1, SeqDef
<1>3. Len(s) = n
  BY <1>1, <1>2, LenProperties
<1> QED
  BY <1>2, <1>3, EmptySeq

\* The tail of a sequence.
LEMMA TailOf ==
  ASSUME NEW s \in Seq(Nat), s # <<>>, NEW t, t = Tail(s)
  PROVE  /\ t \in Seq(Nat) /\ Len(t) = Len(s) - 1 /\ (Len(s) # 1 => t # <<>>)
         /\ \A k \in 1..Len(t) : t[k] = s[k + 1]
<1>1. /\ t \in Seq(Nat) /\ Len(t) = Len(s) - 1
      /\ \A k \in 1..Len(t) : t[k] = s[k + 1]
  BY HeadTailProperties
<1>2. Len(s) \in Nat /\ (t = <<>> => Len(t) = 0)
  BY LenProperties, EmptySeq
<1> QED
  BY <1>1, <1>2

\* The initial values have their types.
LEMMA InitType == Init => TypeOK
<1> SUFFICES ASSUME Init
             PROVE  TypeOK
  OBVIOUS
<1>1. todo \in Seq(Nat) /\ endOfPiece \in BOOLEAN
  BY EmptySeq, Zenon DEF Init
<1>2. /\ buffer \subseteq Nat /\ arrived \subseteq Nat /\ stray \subseteq Stray
      /\ wire \subseteq Nat /\ lost \subseteq Nat /\ dropped \subseteq Nat
      /\ strays \in 0..MaxStray /\ extra \in Nat
  BY StrayAssumption DEF Init
<1>3. worker = "interest" /\ router = "idle"
  BY DEF Init
<1> QED
  BY <1>1, <1>2, <1>3 DEF Init, TypeOK, WorkerState, RouterState

\* A step keeps the types.
LEMMA NextType ==
  ASSUME TypeOK, [Next]_vars, \A b \in arrived : BlockLength(b) \in Nat
  PROVE  TypeOK'
<1> USE DEF TypeOK, pieceVars, workerVars, routerVars, network, WorkerState, RouterState
<1>1. CASE WorkerInterest
  BY <1>1 DEF WorkerInterest
<1>2. CASE WorkerDone
  BY <1>2 DEF WorkerDone
<1>3. CASE WorkerNextRequests
  <2>1. BatchSize \in Nat \ {0} /\ requestIndex + BatchSize \in Nat
    BY <1>3, BatchSizes DEF WorkerNextRequests
  <2>2. todo' \in Seq(Nat) /\ todo' # <<>>
    BY <1>3, <2>1, Numbers DEF WorkerNextRequests
  <2>3. endOfPiece' \in BOOLEAN
    BY <1>3, Zenon DEF WorkerNextRequests
  <2> QED
    BY <1>3, <2>1, <2>2, <2>3 DEF WorkerNextRequests, IndexAfterBatch
<1>4. CASE WorkerPanic
  BY <1>4 DEF WorkerPanic
<1>5. CASE WorkerSend
  <2>1. Head(todo) \in Nat
    BY <1>5, HeadTailProperties DEF WorkerSend
  <2> QED
    BY <1>5, <2>1 DEF WorkerSend
<1>6. CASE WorkerFail
  <2>1. buffer' \subseteq Nat
    BY <1>6 DEF WorkerFail
  <2>2. worker' = "failed" /\ todo' = todo
    BY <1>6 DEF WorkerFail
  <2> QED
    BY <1>6, <2>1, <2>2 DEF WorkerFail
<1>7. CASE WorkerLoad
  BY <1>7 DEF WorkerLoad
<1>8. CASE WorkerStore
  <2>1. /\ todo' \in Seq(Nat) /\ (Len(todo) # 1 => todo' # <<>>)
    BY <1>8, TailOf DEF WorkerStore
  <2>2. /\ worker' \in {"send", "load", "store"} => todo' # <<>>
        /\ worker' \in WorkerState
    BY <1>8, <2>1 DEF WorkerStore, AfterStore
  <2> QED
    BY <1>8, <2>1, <2>2 DEF WorkerStore
<1>9. CASE RouterLoad
  BY <1>9 DEF RouterLoad
<1>10. CASE RouterStore
  BY <1>10 DEF RouterStore
<1>11. ASSUME NEW b \in arrived, RouterCopy(b)
       PROVE  TypeOK'
  BY <1>11 DEF RouterCopy
<1>12. ASSUME NEW b \in wire, RouterReceive(b)
       PROVE  TypeOK'
  BY <1>12 DEF RouterReceive
<1>13. ASSUME NEW b \in wire, Lose(b)
       PROVE  TypeOK'
  BY <1>13 DEF Lose
<1>15. ASSUME NEW m \in Stray, RouterStray(m)
       PROVE  TypeOK'
  BY <1>15, StrayAssumption DEF RouterStray
<1>16. ASSUME NEW m \in stray, RouterCopyStray(m)
       PROVE  TypeOK'
  <2>1. m.length \in Nat
    BY StrayAssumption DEF Stray
  <2> QED
    BY <1>16, <2>1 DEF RouterCopyStray
<1>14. CASE UNCHANGED vars
  BY <1>14 DEF vars
<1> QED
  BY <1>1, <1>2, <1>3, <1>4, <1>5, <1>6, <1>7, <1>8, <1>9, <1>10, <1>11, <1>12,
     <1>13, <1>14, <1>15, <1>16 DEF Next, WorkerStep, RouterStep

-----------------------------------------------------------------------------
(* The invariant is inductive.                                              *)

\* What depends on the index of the requests only.
LEMMA FrameIndex ==
  ASSUME IndexBounded, UNCHANGED <<pieceLength, requestIndex, endOfPiece>>
  PROVE  IndexBounded'
  BY DEF IndexBounded, NBlock

\* What depends on the buffer only.
LEMMA FrameDownloaded ==
  ASSUME DownloadedExact, UNCHANGED <<pieceLength, buffer, downloaded, extra>>
  PROVE  DownloadedExact'
  BY DEF DownloadedExact, Missing, NBlock

\* What depends on the requests that have left the worker only.
LEMMA FrameSent ==
  ASSUME SentExact, UNCHANGED <<wire, lost, dropped, arrived, buffer>>,
         FirstUnsent' = FirstUnsent
  PROVE  SentExact'
  BY DEF SentExact, Sent

\* Only blocks of the piece are requested, and none of a piece shorter than a block.
LEMMA SentBlocks ==
  ASSUME TypeOK, TodoInOrder, SentExact, IndexBounded
  PROVE  /\ FirstUnsent \in Int /\ FirstUnsent <= requestIndex
         /\ Sent \subseteq Block
         /\ Sent # {} => BlockLen <= pieceLength
<1>1. Len(todo) \in Nat /\ (Len(todo) = 0 => todo = <<>>)
  BY LenProperties, EmptySeq DEF TypeOK
<1>2. worker \in {"load", "store"} => Len(todo) >= 1
  BY <1>1 DEF TypeOK
<1>3. FirstUnsent \in Int /\ FirstUnsent <= requestIndex
  BY <1>1, <1>2 DEF FirstUnsent, TypeOK
<1>4. NBlock \in Nat
  BY BatchSizes
<1> QED
  BY <1>3, <1>4 DEF SentExact, IndexBounded, Block, TypeOK

\* The initial states.
LEMMA InitInv == Init => IInv
<1> SUFFICES ASSUME Init
             PROVE  IInv
  OBVIOUS
<1>1. TypeOK
  BY InitType
<1>2. NBlock \in Nat \ {0}
  BY <1>1, BatchSizes
<1>3. Len(todo) = 0
  BY EmptySeq, Zenon DEF Init
<1>4. TodoInOrder
  BY <1>3 DEF Init, TodoInOrder
<1>5. SentExact
  BY <1>3 DEF Init, SentExact, Sent, FirstUnsent
<1>6. IndexBounded
  BY <1>2 DEF Init, IndexBounded
<1>7. OneArrived
  BY DEF Init, OneArrived
<1>8. DownloadedExact
  <2>1. Cardinality(buffer) = 0 /\ Missing = 0 /\ downloaded = 0 /\ extra = 0
    BY FS_EmptySet DEF Init, Missing
  <2> QED
    BY <2>1, LengthAssumption DEF DownloadedExact
<1>9. DoneDownloaded
  BY DEF Init, DoneDownloaded
<1>10. DroppedLate
  BY DEF Init, DroppedLate
<1> QED
  BY <1>1, <1>4, <1>5, <1>6, <1>7, <1>8, <1>9, <1>10 DEF IInv

\* The steps of the worker that go on.
LEMMA WorkerInv ==
  ASSUME IInv, Alive,
         \/ WorkerInterest \/ WorkerDone \/ WorkerNextRequests
         \/ WorkerSend \/ WorkerLoad \/ WorkerStore
  PROVE  /\ TodoInOrder' /\ SentExact' /\ IndexBounded' /\ OneArrived'
         /\ DownloadedExact' /\ DroppedLate' /\ DoneDownloaded'
<1> USE DEF pieceVars, workerVars, routerVars, network
<1>1. /\ TypeOK
      /\ TodoInOrder /\ SentExact /\ IndexBounded /\ OneArrived
      /\ DownloadedExact /\ DroppedLate /\ DoneDownloaded
  BY DEF IInv, Alive, Intact
<1>2. Len(todo) \in Nat /\ Len(<<>>) = 0
  BY <1>1, LenProperties, EmptySeq DEF TypeOK
<1>3. OneArrived' /\ DownloadedExact' /\ DroppedLate'
  <2>1. /\ UNCHANGED <<router, arrived, stray>>
        /\ UNCHANGED <<pieceLength, buffer, downloaded, extra, dropped>>
    BY DEF WorkerInterest, WorkerDone, WorkerNextRequests, WorkerSend, WorkerLoad, WorkerStore
  <2> QED
    BY <1>1, <2>1, FrameDownloaded DEF OneArrived, DroppedLate
<1>4. DoneDownloaded'
  BY <1>1 DEF DoneDownloaded, WorkerInterest, WorkerDone, WorkerNextRequests, WorkerSend,
              WorkerLoad, WorkerStore, AfterStore
<1>5. CASE WorkerInterest \/ WorkerDone \/ WorkerLoad
  <2>1. /\ UNCHANGED <<pieceLength, requestIndex, endOfPiece, todo>>
        /\ UNCHANGED <<wire, lost, dropped, arrived, buffer>>
        /\ FirstUnsent' = FirstUnsent
    BY <1>5 DEF WorkerInterest, WorkerDone, WorkerLoad, FirstUnsent
  <2>2. TodoInOrder'
    BY <1>1, <1>5, <2>1 DEF TodoInOrder, WorkerInterest, WorkerDone, WorkerLoad
  <2> QED
    BY <1>1, <1>3, <1>4, <2>1, <2>2, FrameIndex, FrameSent
<1>6. CASE WorkerNextRequests
  <2>1. BatchSize \in Nat \ {0} /\ requestIndex + BatchSize <= NBlock /\ requestIndex \in Nat
    BY <1>1, <1>6, BatchSizes DEF WorkerNextRequests, TypeOK
  <2>2. /\ Len(todo') = BatchSize
        /\ \A k \in 1..BatchSize : todo'[k] = requestIndex + k - 1
    BY <1>6, <2>1, Numbers DEF WorkerNextRequests
  <2>3. requestIndex' = requestIndex + BatchSize
    BY <1>6 DEF WorkerNextRequests, IndexAfterBatch
  <2>4. TodoInOrder'
    BY <1>6, <2>1, <2>2, <2>3 DEF TodoInOrder, WorkerNextRequests
  <2>5. FirstUnsent' = FirstUnsent
    <3>1. Len(todo) = 0
      BY <1>1, <1>2, <1>6, Zenon DEF TodoInOrder, WorkerNextRequests
    <3> QED
      BY <1>6, <2>1, <2>2, <2>3, <3>1 DEF FirstUnsent, WorkerNextRequests
  <2>6. SentExact'
    BY <1>1, <1>6, <2>5, FrameSent DEF WorkerNextRequests
  <2>7. IndexBounded'
    <3>1. NBlock' = NBlock /\ (requestIndex' > 0 => BlockLen <= pieceLength')
      BY <1>1, <1>6, <2>1, LengthAssumption
         DEF WorkerNextRequests, NBlock, IndexBounded, DividesByZero, TypeOK
    <3>2. endOfPiece' <=> requestIndex' = NBlock'
      BY <1>6, <2>3, <3>1, Zenon DEF WorkerNextRequests
    <3> QED
      BY <2>1, <2>3, <3>1, <3>2 DEF IndexBounded
  <2> QED
    BY <1>3, <1>4, <2>4, <2>6, <2>7
<1>7. CASE WorkerSend
  <2>1. todo # <<>> /\ Len(todo) >= 1
    BY <1>1, <1>2, <1>7, EmptySeq DEF WorkerSend, TypeOK
  <2>2. Head(todo) = todo[1]
    BY <1>1, <2>1 DEF TypeOK
  <2>3. Head(todo) = FirstUnsent /\ FirstUnsent \in Nat /\ FirstUnsent' = FirstUnsent + 1
    BY <1>1, <1>2, <1>7, <2>1, <2>2 DEF TodoInOrder, FirstUnsent, WorkerSend, TypeOK
  <2>4. SentExact'
    <3>1. /\ wire' = wire \cup {FirstUnsent}
          /\ UNCHANGED <<lost, dropped, arrived, buffer>>
      BY <1>7, <2>3 DEF WorkerSend
    <3>2. FirstUnsent \notin Sent
      BY <1>1, <2>3 DEF SentExact
    <3>3. Sent' = 0..(FirstUnsent' - 1)
      BY <1>1, <2>3, <3>1 DEF SentExact, Sent
    <3> QED
      BY <1>1, <3>1, <3>2, <3>3 DEF SentExact, Sent
  <2>5. TodoInOrder'
    BY <1>1, <1>7 DEF TodoInOrder, WorkerSend
  <2>6. IndexBounded'
    BY <1>1, <1>7, FrameIndex DEF WorkerSend
  <2> QED
    BY <1>3, <1>4, <2>4, <2>5, <2>6
<1>8. CASE WorkerStore
  <2>1. /\ todo # <<>> /\ Len(todo) >= 1
    BY <1>1, <1>2, <1>8, EmptySeq DEF WorkerStore, TypeOK
  <2>2. /\ Len(todo') = Len(todo) - 1
        /\ \A k \in 1..Len(todo') : todo'[k] = todo[k + 1]
        /\ todo' \in Seq(Nat)
    BY <1>1, <1>8, <2>1, TailOf DEF WorkerStore, TypeOK
  <2>3. worker' \in {"interest", "loop", "done"} => todo' = <<>>
    <3>1. worker' \in {"interest", "loop", "done"} => Len(todo') = 0
      BY <1>8, <2>2 DEF WorkerStore, AfterStore
    <3> QED
      BY <2>2, <3>1, EmptySeq
  <2>4. TodoInOrder'
    BY <1>1, <1>2, <1>8, <2>1, <2>2, <2>3 DEF TodoInOrder, WorkerStore, TypeOK
  <2>5. FirstUnsent' = FirstUnsent
    BY <1>1, <1>2, <1>8, <2>1, <2>2 DEF FirstUnsent, WorkerStore, AfterStore, TypeOK
  <2>6. SentExact' /\ IndexBounded'
    BY <1>1, <1>8, <2>5, FrameSent, FrameIndex DEF WorkerStore
  <2> QED
    BY <1>3, <1>4, <2>4, <2>6
<1> QED
  BY <1>5, <1>6, <1>7, <1>8

\* The steps of the router and of the network.
LEMMA RouterInv ==
  ASSUME IInv, Alive,
         \/ RouterStep \/ \E b \in wire : RouterReceive(b) \/ Lose(b)
         \/ \E m \in Stray : RouterStray(m)
  PROVE  /\ TodoInOrder' /\ SentExact' /\ IndexBounded' /\ OneArrived'
         /\ DownloadedExact' /\ DroppedLate' /\ DoneDownloaded'
<1> USE DEF pieceVars, workerVars, routerVars, network
<1>1. /\ TypeOK
      /\ TodoInOrder /\ SentExact /\ IndexBounded /\ OneArrived
      /\ DownloadedExact /\ DroppedLate /\ DoneDownloaded
  BY DEF IInv, Alive, Intact
<1>2. /\ UNCHANGED <<pieceLength, requestIndex, endOfPiece, todo, worker>>
  BY DEF RouterStep, RouterLoad, RouterStore, RouterCopy, RouterCopyStray, RouterReceive,
         Lose, RouterStray
<1>3. TodoInOrder' /\ IndexBounded' /\ FirstUnsent' = FirstUnsent
  BY <1>1, <1>2, FrameIndex DEF TodoInOrder, FirstUnsent
<1>4. CASE RouterLoad \/ RouterStore
  <2>1. UNCHANGED <<wire, lost, dropped, arrived, stray, buffer, downloaded, extra>>
    BY <1>4 DEF RouterLoad, RouterStore
  <2>2. OneArrived' /\ DroppedLate' /\ DoneDownloaded'
    BY <1>1, <1>2, <1>4, <2>1
       DEF RouterLoad, RouterStore, OneArrived, DroppedLate, DoneDownloaded
  <2> QED
    BY <1>1, <1>2, <1>3, <2>1, <2>2, FrameSent, FrameDownloaded
<1>5. ASSUME NEW b \in arrived, RouterCopy(b)
      PROVE  /\ SentExact' /\ OneArrived' /\ DownloadedExact'
             /\ DroppedLate' /\ DoneDownloaded'
  <2>1. arrived = {b} /\ arrived' = {} /\ buffer' = buffer \cup {b}
        /\ UNCHANGED <<wire, lost, dropped, extra, stray>> /\ stray = {}
        /\ router' = "idle"
    BY <1>1, <1>5 DEF OneArrived, RouterCopy
  <2>2. SentExact'
    BY <1>1, <1>3, <2>1 DEF SentExact, Sent
  <2>3. OneArrived'
    BY <2>1 DEF OneArrived
  <2>4. b \in Block /\ b \notin buffer /\ buffer \subseteq Block /\ BlockLen <= pieceLength
    BY <1>1, <2>1, SentBlocks DEF SentExact, Sent
  <2>5. /\ pieceLength \in Nat \ {0} /\ BlockLen \in Nat \ {0} /\ NBlock \in Nat \ {0}
        /\ (NBlock - 1) * BlockLen < pieceLength
        /\ pieceLength <= NBlock * BlockLen
        /\ NBlock * BlockLen = (NBlock - 1) * BlockLen + BlockLen
    BY <1>1, BatchSizes, NBlockBounds
  <2>6. /\ IsFiniteSet(buffer)
        /\ Cardinality(buffer) \in Nat /\ Cardinality(buffer') = Cardinality(buffer) + 1
    <3>1. IsFiniteSet(Block)
      BY <2>5, FS_Interval DEF Block
    <3> QED
      BY <2>1, <2>4, <3>1, FS_Subset, FS_AddElement, FS_CardinalityType
  <2>7. BlockLength(b) = IF b = NBlock - 1 THEN pieceLength - (NBlock - 1) * BlockLen
                                           ELSE BlockLen
    BY <2>4, <2>5, BlockLengths
  <2>8. downloaded' = downloaded + BlockLength(b) /\ downloaded' >= downloaded
    BY <1>1, <1>5, <2>5, <2>7 DEF RouterCopy, TypeOK
  <2>9. DownloadedExact'
    <3>1. Missing' = Missing + (IF b = NBlock - 1 THEN NBlock * BlockLen - pieceLength ELSE 0)
      BY <1>2, <2>1, <2>4, <2>5 DEF Missing, NBlock
    <3>2. (Cardinality(buffer) + 1) * BlockLen = Cardinality(buffer) * BlockLen + BlockLen
      BY <2>5, <2>6
    <3>3. Missing \in Int /\ downloaded \in Int /\ extra \in Int /\ extra' = extra
      BY <1>1, <2>1, <2>5 DEF Missing, TypeOK
    <3> QED
      BY <1>1, <2>5, <2>6, <2>7, <2>8, <3>1, <3>2, <3>3 DEF DownloadedExact
  <2>10. DroppedLate' /\ DoneDownloaded'
    BY <1>1, <1>2, <2>1, <2>5, <2>7, <2>8 DEF DroppedLate, DoneDownloaded, TypeOK
  <2> QED
    BY <2>2, <2>3, <2>9, <2>10
<1>6. ASSUME NEW b \in wire, RouterReceive(b)
      PROVE  /\ SentExact' /\ OneArrived' /\ DownloadedExact'
             /\ DroppedLate' /\ DoneDownloaded'
  <2>1. /\ arrived = {} /\ stray = {} /\ wire' = wire \ {b} /\ router = "idle"
        /\ UNCHANGED <<lost, buffer, downloaded, extra, stray>>
    BY <1>1, <1>6 DEF OneArrived, RouterReceive
  <2>2. CASE downloaded < pieceLength
    <3>1. arrived' = {b} /\ router' = "load" /\ dropped' = dropped
      BY <1>6, <2>2 DEF RouterReceive
    <3>2. SentExact' /\ OneArrived'
      BY <1>1, <1>3, <2>1, <3>1 DEF SentExact, Sent, OneArrived
    <3> QED
      BY <1>1, <1>2, <2>1, <3>1, <3>2, FrameDownloaded DEF DroppedLate, DoneDownloaded
  <2>3. CASE ~(downloaded < pieceLength)
    <3>1. UNCHANGED <<arrived, router>> /\ dropped' = dropped \cup {b}
      BY <1>6, <2>3 DEF RouterReceive
    <3>2. SentExact' /\ OneArrived'
      BY <1>1, <1>3, <2>1, <3>1 DEF SentExact, Sent, OneArrived
    <3>3. downloaded >= pieceLength
      BY <1>1, <2>3, LengthAssumption DEF TypeOK
    <3> QED
      BY <1>1, <1>2, <2>1, <3>2, <3>3, FrameDownloaded DEF DroppedLate, DoneDownloaded
  <2> QED
    BY <2>2, <2>3
<1>7. ASSUME NEW b \in wire, Lose(b)
      PROVE  /\ SentExact' /\ OneArrived' /\ DownloadedExact'
             /\ DroppedLate' /\ DoneDownloaded'
  <2>1. wire' = wire \ {b} /\ lost' = lost \cup {b}
        /\ UNCHANGED <<router, arrived, stray, dropped, buffer, downloaded, extra>>
    BY <1>7 DEF Lose
  <2>2. SentExact' /\ OneArrived'
    BY <1>1, <1>3, <2>1 DEF SentExact, Sent, OneArrived
  <2> QED
    BY <1>1, <1>2, <2>1, <2>2, FrameDownloaded DEF DroppedLate, DoneDownloaded
<1>8. ASSUME NEW m \in Stray, RouterStray(m)
      PROVE  /\ SentExact' /\ OneArrived' /\ DownloadedExact'
             /\ DroppedLate' /\ DoneDownloaded'
  <2>1. /\ router = "idle" /\ arrived = {} /\ stray = {}
        /\ UNCHANGED <<wire, lost, dropped, arrived, buffer, downloaded, extra>>
    BY <1>1, <1>8 DEF OneArrived, RouterStray
  <2>2. OneArrived'
    BY <1>8, <2>1 DEF OneArrived, RouterStray
  <2>3. SentExact'
    BY <1>1, <1>3, <2>1, FrameSent
  <2> QED
    BY <1>1, <1>2, <2>1, <2>2, <2>3, FrameDownloaded DEF DroppedLate, DoneDownloaded
<1>9. ASSUME NEW m \in stray, RouterCopyStray(m)
      PROVE  /\ SentExact' /\ OneArrived' /\ DownloadedExact'
             /\ DroppedLate' /\ DoneDownloaded'
  <2>1. /\ arrived = {} /\ stray' = {} /\ router' \in {"idle", "panicked"}
        /\ UNCHANGED <<wire, lost, dropped, arrived, buffer>>
    BY <1>1, <1>9 DEF OneArrived, RouterCopyStray
  <2>2. SentExact' /\ OneArrived'
    BY <1>1, <1>3, <2>1, FrameSent DEF OneArrived
  <2>3. /\ m.length \in Nat /\ downloaded \in Nat /\ extra \in Nat
        /\ pieceLength \in Nat /\ BlockLen \in Nat /\ NBlock \in Nat
    BY <1>1, StrayAssumption, BatchSizes DEF TypeOK, Stray
  <2>4. \/ downloaded' = downloaded + m.length /\ extra' = extra + m.length
        \/ UNCHANGED <<downloaded, extra>>
    BY <1>9 DEF RouterCopyStray
  <2>5. Missing' = Missing /\ Missing \in Int
    BY <1>2, <2>1, <2>3 DEF Missing, NBlock
  <2>6. DownloadedExact'
    <3> DEFINE filled == Cardinality(buffer) * BlockLen
    <3>1. downloaded + Missing = filled + extra
      BY <1>1 DEF DownloadedExact
    <3>2. filled' = filled
      BY <2>1
    <3> HIDE DEF filled
    <3>3. filled \in Int
      <4>1. buffer \subseteq Block
        BY <1>1, SentBlocks DEF Sent
      <4>2. IsFiniteSet(Block)
        BY <2>3, FS_Interval DEF Block
      <4>3. Cardinality(buffer) \in Nat
        BY <4>1, <4>2, FS_Subset, FS_CardinalityType
      <4> QED
        BY <2>3, <4>3 DEF filled
    <3>4. downloaded' + Missing' = filled' + extra'
      BY <2>3, <2>4, <2>5, <3>1, <3>2, <3>3
    <3> QED
      BY <3>4 DEF DownloadedExact, filled
  <2>7. DroppedLate' /\ DoneDownloaded'
    BY <1>1, <1>2, <2>1, <2>3, <2>4 DEF DroppedLate, DoneDownloaded
  <2> QED
    BY <2>2, <2>6, <2>7
<1> QED
  BY <1>3, <1>4, <1>5, <1>6, <1>7, <1>8, <1>9 DEF RouterStep

\* What the router adds to downloaded is a number: no remainder by zero.
LEMMA LengthsAreNumbers ==
  ASSUME IInv, Alive, NEW b \in arrived
  PROVE  BlockLength(b) \in Nat
<1>1. b \in Block /\ BlockLen <= pieceLength /\ TypeOK
  BY SentBlocks DEF IInv, Sent, Alive, Intact
<1>2. /\ pieceLength \in Nat \ {0} /\ BlockLen \in Nat \ {0} /\ NBlock \in Nat \ {0}
      /\ (NBlock - 1) * BlockLen < pieceLength
  BY <1>1, BatchSizes, NBlockBounds
<1>3. BlockLength(b) = IF b = NBlock - 1 THEN pieceLength - (NBlock - 1) * BlockLen ELSE BlockLen
  BY <1>1, <1>2, BlockLengths
<1> QED
  BY <1>2, <1>3

\* A step keeps the invariant.
LEMMA NextInv == IInv /\ [Next]_vars => IInv'
<1> SUFFICES ASSUME IInv, [Next]_vars
             PROVE  IInv'
  OBVIOUS
<1>1. CASE Next /\ Intact'
  <2>1. Alive
    BY <1>1 DEF Next
  <2>2. TypeOK'
    BY <2>1, NextType, LengthsAreNumbers DEF IInv
  <2>3. ~WorkerPanic /\ ~WorkerFail
    BY <1>1 DEF Intact, WorkerPanic, WorkerFail
  <2> QED
    BY <1>1, <2>1, <2>2, <2>3, WorkerInv, RouterInv DEF Next, WorkerStep, IInv
<1>2. CASE Next /\ ~Intact'
  BY <1>2, NextType, LengthsAreNumbers DEF IInv, Next
<1>3. CASE UNCHANGED vars
  <2> USE <1>3 DEF vars, pieceVars, workerVars, routerVars, network
  <2>1. TypeOK' /\ (Intact' <=> Intact) /\ FirstUnsent' = FirstUnsent
    BY DEF IInv, TypeOK, Intact, FirstUnsent
  <2>2. Intact => /\ TodoInOrder' /\ OneArrived' /\ DroppedLate' /\ DoneDownloaded'
    BY DEF IInv, TodoInOrder, OneArrived, DroppedLate, DoneDownloaded
  <2>3. Intact => SentExact' /\ IndexBounded' /\ DownloadedExact'
    BY <2>1, FrameSent, FrameIndex, FrameDownloaded DEF IInv
  <2> QED
    BY <2>1, <2>2, <2>3 DEF IInv
<1> QED
  BY <1>1, <1>2, <1>3

-----------------------------------------------------------------------------
(* The theorems.                                                            *)

\* The invariant holds for every length of the piece and its blocks.
THEOREM IInvHolds == Spec => []IInv
  BY InitInv, NextInv, PTL DEF Spec

\* The types of Piece.download and putPiece are right: no remainder by zero gets
\* into downloaded, and a worker that sends has a request to send.
THEOREM TypeCorrect == Spec => []TypeOK
<1>1. IInv => TypeOK
  BY DEF IInv
<1> QED
  BY <1>1, IInvHolds, PTL

\* getNextRequest: no block is requested twice, left out or made up.
THEOREM RequestedOnce == Spec => []RequestsOnce
<1>1. IInv => RequestsOnce
  <2> SUFFICES ASSUME IInv, Alive
               PROVE  RequestsOnce
    BY DEF RequestsOnce
  <2>1. TypeOK /\ TodoInOrder /\ SentExact /\ IndexBounded
    BY DEF IInv, Alive, Intact
  <2>2. /\ Len(todo) \in Nat /\ requestIndex \in Nat
        /\ FirstUnsent \in Int /\ FirstUnsent <= requestIndex
    BY <2>1, LenProperties, SentBlocks DEF TypeOK
  <2> DEFINE first == IF worker \in {"load", "store"} THEN 2 ELSE 1
  <2>3. FirstUnsent = requestIndex - Len(todo) + first - 1
    BY <2>2 DEF FirstUnsent
  <2>4. \A k \in first..Len(todo) : todo[k] = requestIndex - Len(todo) + k - 1
    BY <2>1 DEF TodoInOrder
  <2>5. Unsent = FirstUnsent..(requestIndex - 1)
    <3>1. ASSUME NEW k \in first..Len(todo)
          PROVE  todo[k] \in FirstUnsent..(requestIndex - 1)
      BY <2>2, <2>3, <2>4
    <3>2. ASSUME NEW b \in FirstUnsent..(requestIndex - 1)
          PROVE  \E k \in first..Len(todo) : todo[k] = b
      <4> DEFINE k == b - FirstUnsent + first
      <4>1. k \in first..Len(todo) /\ requestIndex - Len(todo) + k - 1 = b
        BY <2>2, <2>3
      <4> QED
        BY <2>4, <4>1
    <3> QED
      BY <3>1, <3>2 DEF Unsent
  <2>6. Sent = 0..(FirstUnsent - 1) /\ FirstUnsent >= 0
    BY <2>1, <2>2, <2>3 DEF SentExact, TodoInOrder
  <2>7. Unsent \cup Sent = 0..(requestIndex - 1) /\ Unsent \cap Sent = {}
    BY <2>2, <2>5, <2>6
  <2> QED
    BY <2>1, <2>7 DEF RequestsOnce, SentExact, IndexBounded, Sent
<1> QED
  BY <1>1, IInvHolds, PTL

\* download: when it returns nil, at most as many bytes of the requested blocks are
\* missing from the buffer as bytes that nobody asked for were counted. Without such
\* bytes the piece is whole: the sum of the lengths reaches pieceLength with the
\* last block, never before.
THEOREM CompletePieceIsFull == Spec => []CompleteIsFull
<1>1. IInv => CompleteIsFull
  <2> SUFFICES ASSUME IInv, worker = "done"
               PROVE  /\ pieceLength <= Filled + extra
                      /\ extra = 0 => buffer = Block /\ downloaded = pieceLength
    BY DEF CompleteIsFull
  <2>1. /\ TypeOK /\ TodoInOrder /\ SentExact /\ IndexBounded
        /\ DownloadedExact /\ downloaded >= pieceLength
    BY DEF IInv, Intact, DoneDownloaded
  <2>2. /\ pieceLength \in Nat \ {0} /\ BlockLen \in Nat \ {0} /\ NBlock \in Nat \ {0}
        /\ (NBlock - 1) * BlockLen < pieceLength
        /\ pieceLength <= NBlock * BlockLen
        /\ NBlock * BlockLen = (NBlock - 1) * BlockLen + BlockLen
    BY <2>1, BatchSizes, NBlockBounds
  <2>3. IsFiniteSet(Block) /\ Cardinality(Block) = NBlock
    BY <2>2, FS_Interval DEF Block
  <2>4. buffer \subseteq Block
    BY <2>1, SentBlocks DEF Sent
  <2>5. IsFiniteSet(buffer) /\ Cardinality(buffer) \in Nat /\ Cardinality(buffer) <= NBlock
    BY <2>3, <2>4, FS_Subset, FS_CardinalityType
  <2>6. /\ Missing \in Int /\ Missing >= 0 /\ downloaded \in Nat /\ extra \in Nat
        /\ Cardinality(buffer) * BlockLen \in Nat
    BY <2>1, <2>2, <2>5 DEF Missing, TypeOK
  <2>7. pieceLength <= Filled + extra
    BY <2>1, <2>2, <2>6 DEF DownloadedExact, Filled
  <2>8. ASSUME extra = 0
        PROVE  buffer = Block /\ downloaded = pieceLength
    <3>1. Cardinality(buffer) * BlockLen > (NBlock - 1) * BlockLen
      BY <2>1, <2>2, <2>5, <2>8 DEF DownloadedExact, Missing, TypeOK
    <3>2. Cardinality(buffer) = NBlock
      <4>1. CASE Cardinality(buffer) <= NBlock - 1
        <5>1. Cardinality(buffer) * BlockLen <= (NBlock - 1) * BlockLen
          BY <2>2, <2>5, <4>1, Monotonic
        <5> QED
          BY <2>2, <2>5, <3>1, <5>1
      <4> QED
        BY <2>2, <2>5, <4>1
    <3>3. buffer = Block
      BY <2>3, <2>4, <3>2, FS_Subset
    <3>4. downloaded = pieceLength
      BY <2>1, <2>2, <2>8, <3>2, <3>3 DEF DownloadedExact, Missing, Block, TypeOK
    <3> QED
      BY <3>3, <3>4
  <2> QED
    BY <2>7, <2>8
<1> QED
  BY <1>1, IInvHolds, PTL

-----------------------------------------------------------------------------
(* The download does not get stuck, and it does not go on for ever.         *)

\* A piece of no more blocks than may be pending is asked for in one batch; before it
\* nothing is pending, strays can only have lowered the count, so no lost ++ or --
\* keeps the worker from asking.
FirstBatch ==
  NBlock <= MaxPending /\ Alive /\ ~endOfPiece =>
    /\ requestIndex = 0 /\ nPendingRequest <= 0
    /\ router = "store" => routerSaw <= 0

\* Before the first batch there is nothing to send or to handle.
LEMMA BeforeFirst ==
  ASSUME IInv, Alive, requestIndex = 0
  PROVE  /\ worker \notin {"send", "load", "store"}
         /\ todo = <<>> /\ Sent = {}
<1>1. TypeOK /\ TodoInOrder /\ SentExact /\ IndexBounded /\ OneArrived
  BY DEF IInv, Alive, Intact
<1>2. Len(todo) \in Nat /\ (Len(todo) = 0 => todo = <<>>)
  BY <1>1, LenProperties, EmptySeq DEF TypeOK
<1>3. todo = <<>>
  BY <1>1, <1>2 DEF TodoInOrder
<1>4. FirstUnsent \in Int /\ FirstUnsent <= 0
  BY <1>1, SentBlocks
<1>5. Sent = {}
  BY <1>1, <1>4 DEF SentExact
<1> QED
  BY <1>1, <1>3, <1>5 DEF TypeOK

\* The batch is the first, and the last.
LEMMA FirstBatchNext ==
  ASSUME IInv, FirstBatch, [Next]_vars
  PROVE  FirstBatch'
<1> USE DEF pieceVars, workerVars, routerVars, network
<1>1. CASE UNCHANGED vars
  BY <1>1 DEF vars, FirstBatch, Alive, NBlock
<1>2. CASE Next
  <2> SUFFICES ASSUME NBlock' <= MaxPending, Alive', ~endOfPiece'
               PROVE  /\ requestIndex' = 0 /\ nPendingRequest' <= 0
                      /\ router' = "store" => routerSaw' <= 0
    BY DEF FirstBatch
  <2>1. Alive /\ ~WorkerPanic /\ ~WorkerFail
    BY <1>2 DEF Next, Alive, WorkerPanic, WorkerFail
  <2>2. pieceLength' = pieceLength /\ NBlock' = NBlock
    BY <1>2 DEF Next, WorkerStep, WorkerInterest, WorkerDone, WorkerNextRequests, WorkerPanic,
                WorkerSend, WorkerFail, WorkerLoad, WorkerStore, RouterStep, RouterLoad,
                RouterStore, RouterCopy, RouterCopyStray, RouterReceive, RouterStray, Lose,
                NBlock
  <2>3. NBlock \in Nat \ {0} /\ requestIndex \in Nat
    BY BatchSizes DEF IInv, TypeOK
  <2>4. ~endOfPiece
    <3>1. CASE WorkerNextRequests
      BY <3>1 DEF WorkerNextRequests
    <3>2. CASE ~WorkerNextRequests
      BY <1>2, <2>1, <3>2
         DEF Next, WorkerStep, WorkerInterest, WorkerDone, WorkerSend, WorkerLoad, WorkerStore,
             RouterStep, RouterLoad, RouterStore, RouterCopy, RouterCopyStray, RouterReceive,
             RouterStray, Lose
    <3> QED
      BY <3>1, <3>2
  <2>5. /\ requestIndex = 0 /\ nPendingRequest <= 0
        /\ router = "store" => routerSaw <= 0
        /\ nPendingRequest \in Int /\ routerSaw \in Int
    BY <2>1, <2>2, <2>4 DEF FirstBatch, IInv, TypeOK
  <2>6. worker \notin {"send", "load", "store"}
    BY <2>1, <2>5, BeforeFirst
  <2>7. ~WorkerNextRequests
    <3>1. ASSUME WorkerNextRequests
          PROVE  FALSE
      <4>1. BatchSize = NBlock
        BY <2>2, <2>3, <2>5, PendingAssumption DEF BatchSize
      <4>2. endOfPiece' = (requestIndex + BatchSize = NBlock)
        BY <3>1 DEF WorkerNextRequests
      <4>3. requestIndex + BatchSize = NBlock
        BY <2>3, <2>5, <4>1
      <4> QED
        BY <4>2, <4>3, Zenon
    <3> QED
      BY <3>1
  <2> QED
    BY <1>2, <2>1, <2>5, <2>6, <2>7
       DEF Next, WorkerStep, WorkerInterest, WorkerDone, WorkerSend, WorkerLoad, WorkerStore,
           RouterStep, RouterLoad, RouterStore, RouterCopy, RouterCopyStray, RouterReceive,
           RouterStray, Lose
<1> QED
  BY <1>1, <1>2

\* With the answers of all the blocks in the buffer, downloaded has reached the end.
LEMMA FullBuffer ==
  ASSUME TypeOK, DownloadedExact, buffer = Block
  PROVE  downloaded >= pieceLength
<1>1. /\ pieceLength \in Nat \ {0} /\ BlockLen \in Nat \ {0} /\ NBlock \in Nat \ {0}
  BY BatchSizes
<1>2. Cardinality(Block) = NBlock /\ NBlock - 1 \in Block
  BY <1>1, FS_Interval DEF Block
<1> QED
  BY <1>1, <1>2 DEF DownloadedExact, Missing, TypeOK

\* Piece.download and putPiece: while the worker of such a piece can do nothing, an answer
\* is on its way or being handled, whatever the race on nPendingRequest did before.
THEOREM PieceNeverStuckHolds == Spec => []PieceNeverStuck
<1>1. Init => FirstBatch
  BY DEF Init, FirstBatch
<1>2. IInv /\ FirstBatch /\ [Next]_vars => FirstBatch'
  BY FirstBatchNext
<1>3. IInv /\ FirstBatch => PieceNeverStuck
  <2> SUFFICES ASSUME IInv, FirstBatch, Alive, BlockLen <= pieceLength, NBlock <= MaxPending,
                      lost = {}, worker # "done", ~WorkerCanRun, ~RouterCanRun
               PROVE  FALSE
    BY DEF PieceNeverStuck
  <2>1. /\ TypeOK /\ TodoInOrder /\ SentExact /\ IndexBounded /\ OneArrived
        /\ DownloadedExact /\ DroppedLate
    BY DEF IInv, Alive, Intact
  <2>2. worker = "loop" /\ ~(downloaded >= pieceLength) /\ (endOfPiece \/ ~(BatchSize > 0))
    BY <2>1 DEF WorkerCanRun, Alive, TypeOK, WorkerState
  <2>3. pieceLength \in Nat \ {0} /\ NBlock \in Nat \ {0} /\ downloaded \in Nat
    BY <2>1, BatchSizes DEF TypeOK
  <2>4. router = "idle" /\ arrived = {} /\ wire = {} /\ dropped = {}
    BY <2>1, <2>2, <2>3 DEF RouterCanRun, OneArrived, DroppedLate, TypeOK, RouterState, Alive
  <2>5. CASE ~endOfPiece
    <3>1. requestIndex = 0 /\ nPendingRequest <= 0 /\ nPendingRequest \in Int
      BY <2>1, <2>5 DEF FirstBatch, TypeOK
    <3>2. BatchSize > 0
      BY <2>3, <3>1, PendingAssumption DEF BatchSize
    <3> QED
      BY <2>2, <2>5, <3>2
  <2>6. CASE endOfPiece
    <3>1. todo = <<>> /\ requestIndex = NBlock
      BY <2>1, <2>2, <2>6 DEF TodoInOrder, IndexBounded
    <3>2. FirstUnsent = NBlock
      BY <2>2, <2>3, <3>1, EmptySeq DEF FirstUnsent
    <3>3. buffer = Block
      BY <2>1, <2>4, <3>2 DEF SentExact, Sent, Block
    <3>4. downloaded >= pieceLength
      BY <2>1, <3>3, FullBuffer
    <3> QED
      BY <2>2, <2>3, <3>4
  <2> QED
    BY <2>5, <2>6
<1> QED
  BY IInvHolds, <1>1, <1>2, <1>3, PTL DEF Spec

\* The ranks are numbers.
LEMMA PieceRanks ==
  ASSUME TypeOK
  PROVE  WorkerRank[worker] \in Nat /\ RouterRank[router] \in Nat
  BY DEF TypeOK, WorkerState, RouterState, WorkerRank, RouterRank

\* How many strays may still come, times what each costs.
StraysLeft == 4 * (MaxStray - strays)

\* What is counted, when the process goes on.
LEMMA PieceCounted ==
  ASSUME IInv, Alive
  PROVE  /\ NBlock \in Nat /\ requestIndex \in Nat /\ Len(todo) \in Nat
         /\ requestIndex <= NBlock
         /\ IsFiniteSet(wire) /\ Cardinality(wire) \in Nat
         /\ StraysLeft \in Nat
<1>1. TypeOK /\ TodoInOrder /\ SentExact /\ IndexBounded
  BY DEF IInv, Alive, Intact
<1>2. NBlock \in Nat /\ requestIndex \in Nat /\ Len(todo) \in Nat /\ requestIndex <= NBlock
  BY <1>1, BatchSizes, LenProperties DEF TypeOK, IndexBounded
<1>3. IsFiniteSet(Block)
  BY <1>2, FS_Interval DEF Block
<1>4. wire \subseteq Block
  BY <1>1, SentBlocks DEF Sent
<1>5. StraysLeft \in Nat
  BY <1>1, StrayAssumption DEF StraysLeft, TypeOK
<1> QED
  BY <1>2, <1>3, <1>4, <1>5, FS_Subset, FS_CardinalityType

\* What waits for the two goroutines, in parts.
BlocksLeft == 8 * (NBlock - requestIndex + Len(todo))

LEMMA WaitingParts ==
  /\ Waiting = BlocksLeft + 4 * Cardinality(wire) + StraysLeft
  /\ Waiting' = BlocksLeft' + 4 * Cardinality(wire') + StraysLeft'
  BY DEF Waiting, BlocksLeft, StraysLeft

\* The parts are numbers.
LEMMA WaitingType ==
  ASSUME IInv, Alive
  PROVE  /\ BlocksLeft \in Nat /\ Cardinality(wire) \in Nat /\ StraysLeft \in Nat
         /\ Waiting \in Nat /\ IsFiniteSet(wire)
         /\ WorkerRank[worker] \in Nat /\ RouterRank[router] \in Nat
<1>1. /\ NBlock \in Nat /\ requestIndex \in Nat /\ Len(todo) \in Nat
      /\ requestIndex <= NBlock
      /\ IsFiniteSet(wire) /\ Cardinality(wire) \in Nat /\ StraysLeft \in Nat
      /\ WorkerRank[worker] \in Nat /\ RouterRank[router] \in Nat
  BY PieceCounted, PieceRanks DEF IInv
<1>2. BlocksLeft \in Nat
  BY <1>1 DEF BlocksLeft
<1> QED
  BY <1>1, <1>2, WaitingParts

\* A step of the worker that goes on.
LEMMA WorkerRunsOut ==
  ASSUME IInv, Alive, WorkerStep, ~WorkerPanic
  PROVE  PieceStepsLeft' < PieceStepsLeft
<1> USE DEF pieceVars, workerVars, routerVars, network
<1> DEFINE w == WorkerRank[worker]
           v == WorkerRank[worker']
           r == RouterRank[router]
<1>1. /\ BlocksLeft \in Nat /\ Cardinality(wire) \in Nat /\ StraysLeft \in Nat
      /\ Waiting \in Nat /\ IsFiniteSet(wire) /\ w \in Nat /\ r \in Nat
  BY WaitingType
<1>2. TypeOK /\ TodoInOrder
  BY DEF IInv, Alive, Intact
<1>3. NBlock \in Nat /\ requestIndex \in Nat /\ Len(todo) \in Nat
  BY PieceCounted
<1>4. router' = router /\ NBlock' = NBlock /\ StraysLeft' = StraysLeft
  BY DEF WorkerStep, WorkerInterest, WorkerDone, WorkerNextRequests, WorkerPanic,
         WorkerSend, WorkerLoad, WorkerStore, NBlock, StraysLeft
<1>5. CASE WorkerInterest \/ WorkerDone \/ WorkerLoad
  <2>1. UNCHANGED <<requestIndex, todo, wire>>
    BY <1>5 DEF WorkerInterest, WorkerDone, WorkerLoad
  <2>2. Waiting' = Waiting
    BY <1>4, <2>1, WaitingParts DEF BlocksLeft
  <2>3. v \in Nat /\ v < w
    BY <1>5 DEF WorkerInterest, WorkerDone, WorkerLoad, WorkerRank
  <2>4. PieceStepsLeft' = v + Waiting + r /\ PieceStepsLeft = w + Waiting + r
    BY <1>4, <2>2 DEF PieceStepsLeft
  <2> HIDE DEF w, v, r
  <2> QED
    BY <1>1, <2>3, <2>4
<1>6. CASE WorkerNextRequests
  <2>1. BatchSize \in Nat \ {0}
    BY <1>2, <1>6, BatchSizes DEF WorkerNextRequests
  <2>2. Len(todo') = BatchSize
    BY <1>3, <1>6, <2>1, Numbers DEF WorkerNextRequests
  <2>3. Len(todo) = 0
    BY <1>2, <1>6, EmptySeq DEF TodoInOrder, WorkerNextRequests
  <2>4. requestIndex' = requestIndex + BatchSize /\ wire' = wire
    BY <1>6 DEF WorkerNextRequests, IndexAfterBatch
  <2>5. BlocksLeft' = BlocksLeft
    BY <1>3, <1>4, <2>1, <2>2, <2>3, <2>4 DEF BlocksLeft
  <2>6. Waiting' = Waiting
    BY <1>4, <2>4, <2>5, WaitingParts
  <2>7. v \in Nat /\ v < w
    BY <1>6 DEF WorkerNextRequests, WorkerRank
  <2>8. PieceStepsLeft' = v + Waiting + r /\ PieceStepsLeft = w + Waiting + r
    BY <1>4, <2>6 DEF PieceStepsLeft
  <2> HIDE DEF w, v, r
  <2> QED
    BY <1>1, <2>7, <2>8
<1>7. CASE WorkerSend
  <2>1. UNCHANGED <<requestIndex, todo>> /\ wire' = wire \cup {Head(todo)}
    BY <1>7 DEF WorkerSend
  <2>2. Cardinality(wire') = Cardinality(wire) \/ Cardinality(wire') = Cardinality(wire) + 1
    BY <1>1, <2>1, FS_AddElement
  <2>3. BlocksLeft' = BlocksLeft
    BY <1>4, <2>1 DEF BlocksLeft
  <2>4. Waiting' = Waiting \/ Waiting' = Waiting + 4
    <3>1. CASE Cardinality(wire') = Cardinality(wire)
      BY <1>4, <2>3, <3>1, WaitingParts
    <3>2. CASE Cardinality(wire') = Cardinality(wire) + 1
      <4>1. Waiting' = BlocksLeft + 4 * (Cardinality(wire) + 1) + StraysLeft
        BY <1>4, <2>3, <3>2, WaitingParts
      <4> QED
        BY <1>1, <4>1, WaitingParts
    <3> QED
      BY <2>2, <3>1, <3>2
  <2>5. w = 7 /\ v = 2
    BY <1>7 DEF WorkerSend, WorkerRank
  <2>6. PieceStepsLeft' = 2 + Waiting' + r /\ PieceStepsLeft = 7 + Waiting + r
    BY <1>4, <2>5 DEF PieceStepsLeft
  <2> HIDE DEF w, v, r
  <2>7. CASE Waiting' = Waiting
    BY <1>1, <2>6, <2>7
  <2>8. CASE Waiting' = Waiting + 4
    BY <1>1, <2>6, <2>8
  <2> QED
    BY <2>4, <2>7, <2>8
<1>8. CASE WorkerStore
  <2>1. UNCHANGED <<requestIndex, wire>> /\ todo' = Tail(todo) /\ todo # <<>>
    BY <1>2, <1>8 DEF WorkerStore, TypeOK
  <2>2. Len(todo') = Len(todo) - 1
    BY <1>2, <2>1, TailOf DEF TypeOK
  <2>3. BlocksLeft' = BlocksLeft - 8
    BY <1>3, <1>4, <2>1, <2>2 DEF BlocksLeft
  <2>4. Waiting' = Waiting - 8
    <3>1. Waiting' = (BlocksLeft - 8) + 4 * Cardinality(wire) + StraysLeft
      BY <1>4, <2>1, <2>3, WaitingParts
    <3> QED
      BY <1>1, <3>1, WaitingParts
  <2>5. w = 1 /\ v \in Nat /\ v <= 8
    BY <1>8 DEF WorkerStore, AfterStore, WorkerRank
  <2>6. PieceStepsLeft' = v + (Waiting - 8) + r /\ PieceStepsLeft = 1 + Waiting + r
    BY <1>4, <2>4, <2>5 DEF PieceStepsLeft
  <2> HIDE DEF w, v, r
  <2> QED
    BY <1>1, <2>5, <2>6
<1> QED
  BY <1>5, <1>6, <1>7, <1>8 DEF WorkerStep

\* A step of the router and of the network that does not end the process.
LEMMA RouterRunsOut ==
  ASSUME IInv, Alive, Alive',
         \/ RouterStep
         \/ \E b \in wire : RouterReceive(b) \/ Lose(b)
         \/ \E m \in Stray : RouterStray(m)
  PROVE  PieceStepsLeft' < PieceStepsLeft
<1> USE DEF pieceVars, workerVars, routerVars, network
<1> DEFINE w == WorkerRank[worker]
           r == RouterRank[router]
           q == RouterRank[router']
<1>1. /\ BlocksLeft \in Nat /\ Cardinality(wire) \in Nat /\ StraysLeft \in Nat
      /\ Waiting \in Nat /\ IsFiniteSet(wire) /\ w \in Nat /\ r \in Nat
  BY WaitingType
<1>2. UNCHANGED <<requestIndex, todo, worker>> /\ NBlock' = NBlock
  BY DEF RouterStep, RouterLoad, RouterStore, RouterCopy, RouterCopyStray, RouterReceive,
         RouterStray, Lose, NBlock
<1>3. BlocksLeft' = BlocksLeft
  BY <1>2 DEF BlocksLeft
<1>4. TypeOK
  BY DEF IInv
<1>5. CASE RouterStep
  <2>1. wire' = wire /\ StraysLeft' = StraysLeft
    BY <1>5 DEF RouterStep, RouterLoad, RouterStore, RouterCopy, RouterCopyStray, StraysLeft
  <2>2. Waiting' = Waiting
    BY <1>3, <2>1, WaitingParts
  <2>3. q \in Nat /\ q < r
    BY <1>5 DEF Alive, RouterStep, RouterLoad, RouterStore, RouterCopy, RouterCopyStray, RouterRank
  <2>4. PieceStepsLeft' = w + Waiting + q /\ PieceStepsLeft = w + Waiting + r
    BY <1>2, <2>2 DEF PieceStepsLeft
  <2> HIDE DEF w, r, q
  <2> QED
    BY <1>1, <2>3, <2>4
<1>6. ASSUME NEW b \in wire, RouterReceive(b) \/ Lose(b)
      PROVE  PieceStepsLeft' < PieceStepsLeft
  <2>1. wire' = wire \ {b} /\ StraysLeft' = StraysLeft
    BY <1>6 DEF RouterReceive, Lose, StraysLeft
  <2>2. Cardinality(wire') = Cardinality(wire) - 1
    BY <1>1, <2>1, FS_RemoveElement
  <2>3. Waiting' = Waiting - 4
    <3>1. Waiting' = BlocksLeft + 4 * (Cardinality(wire) - 1) + StraysLeft
      BY <1>3, <2>1, <2>2, WaitingParts
    <3> QED
      BY <1>1, <3>1, WaitingParts
  <2>4. q \in Nat /\ q <= r + 3
    BY <1>1, <1>6 DEF RouterReceive, Lose, RouterRank
  <2>5. PieceStepsLeft' = w + (Waiting - 4) + q /\ PieceStepsLeft = w + Waiting + r
    BY <1>2, <2>3 DEF PieceStepsLeft
  <2> HIDE DEF w, r, q
  <2> QED
    BY <1>1, <2>4, <2>5
<1>7. ASSUME NEW m \in Stray, RouterStray(m)
      PROVE  PieceStepsLeft' < PieceStepsLeft
  <2>1. wire' = wire /\ strays' = strays + 1
    BY <1>7 DEF RouterStray
  <2>2. StraysLeft' = StraysLeft - 4
    BY <1>4, <2>1, StrayAssumption DEF StraysLeft, TypeOK
  <2>3. Waiting' = Waiting - 4
    <3>1. Waiting' = BlocksLeft + 4 * Cardinality(wire) + (StraysLeft - 4)
      BY <1>3, <2>1, <2>2, WaitingParts
    <3> QED
      BY <1>1, <3>1, WaitingParts
  <2>4. q \in Nat /\ q <= r + 3
    BY <1>1, <1>7 DEF Alive, RouterStray, RouterRank
  <2>5. PieceStepsLeft' = w + (Waiting - 4) + q /\ PieceStepsLeft = w + Waiting + r
    BY <1>2, <2>3 DEF PieceStepsLeft
  <2> HIDE DEF w, r, q
  <2> QED
    BY <1>1, <2>4, <2>5
<1> QED
  BY <1>5, <1>6, <1>7

\* Piece.download and putPiece: the steps of a download are numbered, however ++ and --
\* interleave. What is left of them is a number and gets less with each.
THEOREM PieceRunsOutHolds == Spec => PieceRunsOut
<1>1. IInv /\ [Next]_vars => [Alive' => PieceStepsLeft' < PieceStepsLeft]_vars
  <2> SUFFICES ASSUME IInv, Next, Alive'
               PROVE  PieceStepsLeft' < PieceStepsLeft
    OBVIOUS
  <2>1. Alive /\ ~WorkerPanic /\ ~WorkerFail
    BY DEF Next, Alive, WorkerPanic, WorkerFail
  <2> QED
    BY <2>1, WorkerRunsOut, RouterRunsOut DEF Next
<1>2. IInv => (Alive => PieceStepsLeft \in Nat)
  <2> SUFFICES ASSUME IInv, Alive
               PROVE  PieceStepsLeft \in Nat
    OBVIOUS
  <2> QED
    BY WaitingType DEF PieceStepsLeft
<1> QED
  BY IInvHolds, <1>1, <1>2, PTL DEF Spec, PieceRunsOut
=============================================================================

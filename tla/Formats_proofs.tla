--------------------------- MODULE Formats_proofs ---------------------------
(***************************************************************************)
(* Theorems about Formats and the modules it is made of, for inputs of any  *)
(* length. The loop of writePiece, one file at a time: what it knows before *)
(* a file is enough to put exactly the bytes the piece and the file share   *)
(* where they belong, and to know the same before the next file; the rest is *)
(* an induction over the files. Messages go the same way: numbers as bytes, *)
(* fields of a message, messages of a stream and peers of an answer, each   *)
(* with a lemma for one step and an induction over the sequence. The folds  *)
(* and recursive functions this is about are shown to exist and to do what  *)
(* their steps say, by DataInduction.                                       *)
(***************************************************************************)
EXTENDS Formats, DataInduction, SequenceTheorems, TLAPS

Pieces == [pieceStartIndex : Nat, pieceLength : Nat \ {0}]

\* A file, as buildFileSegment describes it, that begins at an index.
SegmentAt(seg, start) ==
  /\ seg.StartIndex = start /\ seg.Length \in Nat
  /\ seg.EndIndex = start + seg.Length

\* How many bytes of the piece are before an index of the torrent.
Before(piece, index) ==
  IF index <= piece.pieceStartIndex THEN 0
  ELSE IF index - piece.pieceStartIndex <= piece.pieceLength
       THEN index - piece.pieceStartIndex ELSE piece.pieceLength

\* What writePiece knows when the files before index are done.
LoopInv(piece, w, index) ==
  /\ w.panic = FALSE
  /\ w.remaining = piece.pieceLength - Before(piece, index)
  /\ w.to = piece.pieceLength
  /\ index <= piece.pieceStartIndex => w.from = 0

\* The bytes that a piece and a file share, where they belong in the file.
Shared(piece, seg) ==
  {<<seg.Path, b - seg.StartIndex, b>> :
     b \in {x \in seg.StartIndex .. seg.EndIndex - 1 :
              /\ piece.pieceStartIndex <= x
              /\ x < piece.pieceStartIndex + piece.pieceLength}}

-----------------------------------------------------------------------------
\* Numbers that are reached from two ends.
LEMMA SameBytes ==
  ASSUME NEW path, NEW seg, NEW piece \in Pieces, NEW s,
         seg.StartIndex \in Nat, seg.EndIndex \in Nat, seg.Path = path,
         s.from \in Int, s.to \in Int, s.writeAt \in Int,
         s.writeAt = piece.pieceStartIndex + s.from - seg.StartIndex,
         \A b \in Int : /\ piece.pieceStartIndex + s.from <= b
                        /\ b < piece.pieceStartIndex + s.to
                        <=> /\ seg.StartIndex <= b /\ b < seg.EndIndex
                            /\ piece.pieceStartIndex <= b
                            /\ b < piece.pieceStartIndex + piece.pieceLength
  PROVE  WriteToFile(path, piece, s) = Shared(piece, seg)
<1> DEFINE P == piece.pieceStartIndex
<1>1. P \in Nat /\ piece.pieceLength \in Nat
  BY DEF Pieces
<1>2. ASSUME NEW k \in 0 .. s.to - s.from - 1
      PROVE  <<path, s.writeAt + k, P + s.from + k>> \in Shared(piece, seg)
  <2> DEFINE b == P + s.from + k
  <2>1. b \in Int /\ P + s.from <= b /\ b < P + s.to
    BY <1>1, <1>2
  <2>2. /\ b \in seg.StartIndex .. seg.EndIndex - 1
        /\ P <= b /\ b < P + piece.pieceLength
    BY <1>1, <2>1
  <2>3. s.writeAt + k = b - seg.StartIndex
    BY <1>1, <1>2
  <2> QED
    BY <2>2, <2>3 DEF Shared
<1>3. ASSUME NEW b \in {x \in seg.StartIndex .. seg.EndIndex - 1 :
                          P <= x /\ x < P + piece.pieceLength}
      PROVE  <<seg.Path, b - seg.StartIndex, b>> \in WriteToFile(path, piece, s)
  <2> DEFINE k == b - P - s.from
  <2>1. P + s.from <= b /\ b < P + s.to
    BY <1>1, <1>3
  <2>2. k \in 0 .. s.to - s.from - 1
    BY <1>1, <1>3, <2>1
  <2>3. b - seg.StartIndex = s.writeAt + k /\ b = P + s.from + k
    BY <1>1, <1>3
  <2> QED
    BY <2>2, <2>3 DEF WriteToFile
<1> QED
  BY <1>2, <1>3 DEF WriteToFile, Shared

\* The invariant holds before the first file.
THEOREM LoopBegins ==
  ASSUME NEW piece \in Pieces
  PROVE  LoopInv(piece, NothingWritten(piece), 0) /\ NothingWritten(piece).written = {}
  BY DEF LoopInv, NothingWritten, Before, Pieces

\* The slice of a file that is reached while bytes of the piece remain.
LEMMA SliceExact ==
  ASSUME NEW piece \in Pieces, NEW start \in Nat, NEW seg, SegmentAt(seg, start),
         NEW w, LoopInv(piece, w, start),
         start < piece.pieceStartIndex + piece.pieceLength,
         Touches(seg, piece.pieceStartIndex, piece.pieceStartIndex + piece.pieceLength),
         NEW s, s = SegmentSlice(seg, piece, w.from, w.to)
  PROVE  /\ s.from = Before(piece, start) /\ s.to = Before(piece, seg.EndIndex)
         /\ s.writeAt = piece.pieceStartIndex + s.from - start
<1> DEFINE P == piece.pieceStartIndex
           L == piece.pieceLength
<1>1. /\ P \in Nat /\ L \in Nat \ {0} /\ seg.StartIndex = start
      /\ seg.Length \in Nat /\ seg.EndIndex = start + seg.Length
  BY DEF Pieces, SegmentAt
<1>2. w.to = L /\ (start <= P => w.from = 0)
  BY DEF LoopInv
<1>3. CASE CaseA(seg, P, P + L)
  <2>1. s = [from |-> start - P, to |-> start - P + seg.Length, writeAt |-> 0]
    BY <1>1, <1>3 DEF SegmentSlice
  <2> QED
    BY <1>1, <1>3, <2>1 DEF CaseA, Before
<1>4. CASE ~CaseA(seg, P, P + L) /\ CaseB(seg, P, P + L)
  <2>1. s = [from |-> 0,
             to |-> IF P + L > seg.EndIndex THEN L - (P + L - seg.EndIndex) ELSE L,
             writeAt |-> P - start]
    BY <1>1, <1>2, <1>4 DEF SegmentSlice, CaseB
  <2> QED
    BY <1>1, <1>4, <2>1 DEF CaseB, Before
<1>5. CASE ~CaseA(seg, P, P + L) /\ ~CaseB(seg, P, P + L)
  <2>1. s = [from |-> start - P, to |-> L, writeAt |-> 0]
    BY <1>1, <1>5 DEF SegmentSlice
  <2>2. P < start /\ P + L <= seg.EndIndex
    BY <1>1, <1>5 DEF Touches, CaseB, CaseC
  <2> QED
    BY <1>1, <2>1, <2>2 DEF Before
<1> QED
  BY <1>3, <1>4, <1>5

\* Each file keeps the invariant and gets exactly the bytes it shares with the
\* piece, at their places; no slice leaves the buffer.
THEOREM SegmentInPlace ==
  ASSUME NEW piece \in Pieces, NEW start \in Nat, NEW seg, SegmentAt(seg, start),
         NEW w, LoopInv(piece, w, start)
  PROVE  LET after == WriteSegment(piece, w, seg)
         IN  /\ LoopInv(piece, after, seg.EndIndex)
             /\ after.written = w.written \cup Shared(piece, seg)
<1> DEFINE P == piece.pieceStartIndex
           L == piece.pieceLength
           after == WriteSegment(piece, w, seg)
<1>1. /\ P \in Nat /\ L \in Nat \ {0} /\ seg.StartIndex = start
      /\ seg.Length \in Nat /\ seg.EndIndex = start + seg.Length
  BY DEF Pieces, SegmentAt
<1>2. /\ w.panic = FALSE /\ w.remaining = L - Before(piece, start) /\ w.to = L
      /\ start <= P => w.from = 0
  BY DEF LoopInv
<1>3. CASE w.remaining = 0
  <2>1. after = w /\ start >= P + L
    BY <1>1, <1>2, <1>3 DEF WriteSegment, Before
  <2>2. Shared(piece, seg) = {}
    BY <1>1, <2>1 DEF Shared
  <2>3. LoopInv(piece, w, seg.EndIndex)
    BY <1>1, <1>2, <2>1 DEF LoopInv, Before
  <2> QED
    BY <2>1, <2>2, <2>3
<1>4. CASE w.remaining # 0 /\ ~Touches(seg, P, P + L)
  <2>1. after = w
    BY <1>4 DEF WriteSegment
  <2>2. seg.EndIndex < P
    BY <1>1, <1>2, <1>4 DEF Touches, CaseA, CaseB, CaseC, Before
  <2>3. Shared(piece, seg) = {}
    BY <1>1, <2>2 DEF Shared
  <2>4. LoopInv(piece, w, seg.EndIndex)
    BY <1>1, <1>2, <2>2 DEF LoopInv, Before
  <2> QED
    BY <2>1, <2>3, <2>4
<1>5. CASE w.remaining # 0 /\ Touches(seg, P, P + L)
  <2> DEFINE s == SegmentSlice(seg, piece, w.from, w.to)
  <2>1. start < P + L
    BY <1>1, <1>2, <1>5 DEF Before
  <2>2. /\ s.from = Before(piece, start) /\ s.to = Before(piece, seg.EndIndex)
        /\ s.writeAt = P + s.from - start
    BY <1>5, <2>1, SliceExact
  <2> DEFINE panics == w.panic \/ ~(0 <= s.from /\ s.from <= s.to /\ s.to <= L)
  <2> HIDE DEF s, panics
  <2>3. /\ s.from \in Int /\ s.to \in Int /\ s.writeAt \in Int
        /\ 0 <= s.from /\ s.from <= s.to /\ s.to <= L
    BY <1>1, <2>2 DEF Before
  <2>4. after = [written |-> w.written \cup WriteToFile(seg.Path, piece, s),
                 panic |-> panics,
                 remaining |-> w.remaining - (s.to - s.from),
                 from |-> s.to, to |-> L]
    BY <1>5 DEF WriteSegment, s, panics
  <2>5. WriteToFile(seg.Path, piece, s) = Shared(piece, seg)
    <3>1. \A b \in Int : /\ P + s.from <= b /\ b < P + s.to
                         <=> /\ seg.StartIndex <= b /\ b < seg.EndIndex
                             /\ P <= b /\ b < P + L
      BY <1>1, <2>1, <2>2, <2>3 DEF Before
    <3> QED
      BY <1>1, <2>2, <2>3, <3>1, SameBytes
  <2>6. after.panic = FALSE
    <3>1. panics = FALSE
      BY <1>2, <2>3, Zenon DEF panics
    <3> QED
      BY <2>4, <3>1
  <2>7. /\ after.remaining = L - Before(piece, seg.EndIndex) /\ after.to = L
        /\ after.from = Before(piece, seg.EndIndex)
    BY <1>1, <1>2, <2>2, <2>3, <2>4 DEF Before
  <2>8. LoopInv(piece, after, seg.EndIndex)
    BY <1>1, <2>6, <2>7 DEF LoopInv, Before
  <2> QED
    BY <2>4, <2>5, <2>8
<1> QED
  BY <1>3, <1>4, <1>5

-----------------------------------------------------------------------------
(* A whole torrent.                                                         *)

Torrent(info) ==
  /\ info.length \in Nat /\ info.pieceLength \in Nat \ {0}
  /\ info.files \in Seq(ToSet(info.files))
  /\ \A f \in ToSet(info.files) : f.length \in Nat

\* e holds the ends of the n files, from 0.
Ends(e, n, info) ==
  /\ n \in Nat /\ e \in [0 .. n -> Nat] /\ e[0] = 0
  /\ DOMAIN FileSegments(info) = 1 .. n /\ Len(FileSegments(info)) = n
  /\ \A i \in 1 .. n : /\ SegmentAt(FileSegments(info)[i], e[i - 1])
                       /\ FileSegments(info)[i].EndIndex = e[i]
  /\ TorrentLength(info) = e[n]

LEMMA SequenceOf ==
  ASSUME NEW n \in Nat, NEW S, NEW f \in [1 .. n -> S]
  PROVE  f \in Seq(S)
BY SeqDef

LEMMA LengthOf ==
  ASSUME NEW n \in Nat, NEW f, f = [i \in 1 .. n |-> f[i]]
  PROVE  DOMAIN f = 1 .. n /\ Len(f) = n
<1> DEFINE S == {f[i] : i \in 1 .. n}
<1>1. f \in [1 .. n -> S]
  OBVIOUS
<1>2. f \in Seq(S)
  BY <1>1, SequenceOf
<1>3. Len(f) \in Nat /\ DOMAIN f = 1 .. Len(f) /\ DOMAIN f = 1 .. n
  BY <1>1, <1>2, LenProperties
<1> QED
  BY <1>3

LEMMA FilesOf ==
  ASSUME NEW info, Torrent(info)
  PROVE  \E n \in Nat : /\ DOMAIN File(info) = 1 .. n /\ Len(File(info)) = n
                       /\ \A i \in 1 .. n : File(info)[i].Length \in Nat
<1>1. CASE FileMode(info) = "single"
  <2> DEFINE file == <<[Length |-> info.length, Path |-> Path(info, 1)]>>
  <2>1. File(info) = file
    BY <1>1 DEF File
  <2>2. DOMAIN file = 1 .. 1 /\ Len(file) = 1 /\ file[1].Length = info.length
    OBVIOUS
  <2>3. \A i \in 1 .. 1 : i = 1
    OBVIOUS
  <2> HIDE DEF file
  <2> QED
    BY <2>1, <2>2, <2>3 DEF Torrent
<1>2. CASE FileMode(info) # "single"
  <2> DEFINE n == Len(info.files)
  <2>1. n \in Nat /\ DOMAIN info.files = 1 .. n
    BY DEF Torrent
  <2>2. File(info) = [i \in 1 .. n |-> [Length |-> info.files[i].length, Path |-> Path(info, i)]]
    BY <1>2, <2>1 DEF File
  <2> HIDE DEF n
  <2>3. DOMAIN File(info) = 1 .. n /\ Len(File(info)) = n
    <3>1. File(info) = [i \in 1 .. n |-> File(info)[i]]
      BY <2>2
    <3> QED
      BY <2>1, <3>1, LengthOf
  <2>4. \A i \in 1 .. n : info.files[i] \in ToSet(info.files)
    BY <2>1 DEF ToSet
  <2>5. \A i \in 1 .. n : File(info)[i].Length \in Nat
    BY <2>2, <2>4 DEF Torrent
  <2> QED
    BY <2>1, <2>3, <2>5
<1> QED
  BY <1>1, <1>2

LEMMA EndsExist ==
  ASSUME NEW info, Torrent(info)
  PROVE  \E n, e : Ends(e, n, info)
<1>1. PICK n \in Nat : /\ DOMAIN File(info) = 1 .. n /\ Len(File(info)) = n
                     /\ \A i \in 1 .. n : File(info)[i].Length \in Nat
  BY FilesOf
<1> DEFINE len == [i \in 1 .. n |-> File(info)[i].Length]
           T == [x \in Nat \X (1 .. n) |-> x[1] + len[x[2]]]
           IsEnds(e) == e = [i \in 0 .. n |-> IF i = 0 THEN 0 ELSE e[i - 1] + File(info)[i].Length]
           end == CHOOSE e : IsEnds(e)
           IsSum(h) == h = [s \in SUBSET (1 .. n) |->
                              IF s = {} THEN 0 ELSE h[s \ {Max(s)}] + File(info)[Max(s)].Length]
           sum == CHOOSE h : IsSum(h)
<1>2. T \in [Nat \X (1 .. n) -> Nat] /\ \A x \in Nat, i \in 1 .. n : T[<<x, i>>] = x + File(info)[i].Length
  BY <1>1
<1> HIDE DEF T, len
<1>3. IsEnds(end)
  <2>1. PICK e \in [0 .. n -> Nat] : Recursive(e, T, 0, n)
    BY <1>2, RecursionExists
  <2>2. \A i \in 0 .. n : e[i] = IF i = 0 THEN 0 ELSE e[i - 1] + File(info)[i].Length
    <3>1. ASSUME NEW i \in 0 .. n, i # 0 PROVE e[i] = e[i - 1] + File(info)[i].Length
      <4>1. e[i] = T[<<e[i - 1], i>>]
        BY <2>1, <3>1 DEF Recursive
      <4>2. e[i - 1] \in Nat /\ i \in 1 .. n
        BY <3>1
      <4> QED
        BY <1>2, <4>1, <4>2
    <3>2. e[0] = 0
      BY <2>1 DEF Recursive
    <3> QED
      BY <3>1, <3>2
  <2>3. e = [i \in 0 .. n |-> e[i]]
    OBVIOUS
  <2>4. IsEnds(e)
    BY <2>2, <2>3
  <2> QED
    BY <2>4
<1>4. IsSum(sum)
  <2>1. PICK h \in [SUBSET (1 .. n) -> Nat] : Folded(h, T, 0, n)
    BY <1>2, FoldedExists
  <2>2. \A s \in SUBSET (1 .. n) :
          h[s] = IF s = {} THEN 0 ELSE h[s \ {Max(s)}] + File(info)[Max(s)].Length
    <3>1. ASSUME NEW s \in SUBSET (1 .. n), s # {}
          PROVE  h[s] = h[s \ {Max(s)}] + File(info)[Max(s)].Length
      <4>1. h[s] = T[<<h[s \ {Max(s)}], Max(s)>>]
        BY <2>1, <3>1 DEF Folded
      <4>2. h[s \ {Max(s)}] \in Nat /\ Max(s) \in 1 .. n
        BY <3>1, MaxIn
      <4> QED
        BY <1>2, <4>1, <4>2
    <3>2. h[{}] = 0
      BY <2>1 DEF Folded
    <3> QED
      BY <3>1, <3>2
  <2>3. h = [s \in SUBSET (1 .. n) |-> h[s]]
    OBVIOUS
  <2>4. IsSum(h)
    BY <2>2, <2>3
  <2> QED
    BY <2>4
<1>5. FileSegments(info) = [i \in 1 .. n |->
        [Path |-> File(info)[i].Path, Length |-> File(info)[i].Length,
         StartIndex |-> end[i - 1], EndIndex |-> end[i]]]
  BY <1>1 DEF FileSegments
<1>6. TorrentLength(info) = sum[1 .. n]
  BY <1>1 DEF TorrentLength, FoldLeft, MapThenFoldSet
<1>7. /\ end = [i \in 0 .. n |-> end[i]] /\ end[0] = 0
      /\ \A i \in 1 .. n : end[i] = end[i - 1] + File(info)[i].Length
  <2> HIDE DEF end
  <2>1. end = [i \in 0 .. n |-> IF i = 0 THEN 0 ELSE end[i - 1] + File(info)[i].Length]
    BY <1>3
  <2> QED
    BY <2>1
<1>8. /\ sum[{}] = 0
      /\ \A i \in 1 .. n : sum[1 .. i] = sum[1 .. i - 1] + File(info)[i].Length
  <2> HIDE DEF sum
  <2>1. \A s \in SUBSET (1 .. n) :
          sum[s] = IF s = {} THEN 0 ELSE sum[s \ {Max(s)}] + File(info)[Max(s)].Length
    BY <1>4
  <2>2. ASSUME NEW i \in 1 .. n
        PROVE  sum[1 .. i] = sum[1 .. i - 1] + File(info)[i].Length
    <3> DEFINE s == 1 .. i
    <3>1. s \in SUBSET (1 .. n)
      OBVIOUS
    <3>2. s # {} /\ Max(s) = i /\ s \ {i} = 1 .. i - 1
      BY MaxOfPrefix
    <3> HIDE DEF s
    <3>3. sum[s] = sum[s \ {i}] + File(info)[i].Length
      BY <2>1, <3>1, <3>2
    <3> QED
      BY <3>2, <3>3 DEF s
  <2> QED
    BY <2>1, <2>2
<1> HIDE DEF end, sum, IsEnds, IsSum
<1> DEFINE N == {k \in Nat : k <= n => end[k] \in Nat /\ sum[1 .. k] = end[k]}
<1>9. Nat \subseteq N
  <2>1. 0 \in N
    <3>1. 1 .. 0 = {}
      OBVIOUS
    <3> QED
      BY <1>7, <1>8, <3>1
  <2>2. ASSUME NEW k \in Nat, k \in N PROVE k + 1 \in N
    <3> SUFFICES ASSUME k + 1 <= n PROVE end[k + 1] \in Nat /\ sum[1 .. k + 1] = end[k + 1]
      OBVIOUS
    <3>1. end[k] \in Nat /\ sum[1 .. k] = end[k]
      BY <2>2
    <3>2. k + 1 \in 1 .. n /\ (k + 1) - 1 = k
      OBVIOUS
    <3>3. /\ end[k + 1] = end[k] + File(info)[k + 1].Length
          /\ sum[1 .. k + 1] = sum[1 .. k] + File(info)[k + 1].Length
          /\ File(info)[k + 1].Length \in Nat
      BY <1>1, <1>7, <1>8, <3>2
    <3> QED
      BY <3>1, <3>3
  <2> HIDE DEF N
  <2> QED
    BY <2>1, <2>2, Induction
<1>10. end \in [0 .. n -> Nat] /\ TorrentLength(info) = end[n]
  <2>1. \A k \in 0 .. n : end[k] \in Nat /\ sum[1 .. k] = end[k]
    <3>1. \A k \in N : k <= n => end[k] \in Nat /\ sum[1 .. k] = end[k]
      OBVIOUS
    <3> HIDE DEF N
    <3> QED
      BY <1>9, <3>1
  <2> HIDE DEF N
  <2>2. end \in [0 .. n -> Nat]
    BY <1>7, <2>1
  <2> QED
    BY <1>6, <2>1, <2>2
<1>11. /\ DOMAIN FileSegments(info) = 1 .. n /\ Len(FileSegments(info)) = n
       /\ \A i \in 1 .. n : /\ SegmentAt(FileSegments(info)[i], end[i - 1])
                           /\ FileSegments(info)[i].EndIndex = end[i]
  <2>1. FileSegments(info) = [i \in 1 .. n |-> FileSegments(info)[i]]
    BY <1>5
  <2>2. DOMAIN FileSegments(info) = 1 .. n /\ Len(FileSegments(info)) = n
    BY <2>1, LengthOf
  <2>3. \A i \in 1 .. n : /\ SegmentAt(FileSegments(info)[i], end[i - 1])
                          /\ FileSegments(info)[i].EndIndex = end[i]
    <3> TAKE i \in 1 .. n
    <3>1. FileSegments(info)[i] =
            [Path |-> File(info)[i].Path, Length |-> File(info)[i].Length,
             StartIndex |-> end[i - 1], EndIndex |-> end[i]]
      BY <1>5
    <3>2. end[i] = end[i - 1] + File(info)[i].Length /\ File(info)[i].Length \in Nat
      BY <1>1, <1>7
    <3> QED
      BY <3>1, <3>2 DEF SegmentAt
  <2> QED
    BY <2>2, <2>3
<1> QED
  BY <1>7, <1>10, <1>11 DEF Ends

-----------------------------------------------------------------------------
(* The loop of writePiece over the files of a torrent.                      *)

\* What writePiece may know between two files.
Progress(paths) ==
  [written : SUBSET (paths \X Int \X Int), panic : BOOLEAN,
   remaining : Int, from : Int, to : Int]

LEMMA ProgressKept ==
  ASSUME NEW piece \in Pieces, NEW paths, NEW start \in Nat, NEW seg,
         SegmentAt(seg, start), seg.Path \in paths, NEW w \in Progress(paths)
  PROVE  WriteSegment(piece, w, seg) \in Progress(paths)
<1> DEFINE s == SegmentSlice(seg, piece, w.from, w.to)
           bytes == WriteToFile(seg.Path, piece, s)
           panics == w.panic \/ ~(0 <= s.from /\ s.from <= s.to /\ s.to <= piece.pieceLength)
           after == [written |-> w.written \cup bytes, panic |-> panics,
                     remaining |-> w.remaining - (s.to - s.from),
                     from |-> s.to, to |-> piece.pieceLength]
<1>1. /\ w.written \in SUBSET (paths \X Int \X Int) /\ w.panic \in BOOLEAN
      /\ w.remaining \in Int /\ w.from \in Int /\ w.to \in Int
  BY DEF Progress
<1>2. s.from \in Int /\ s.to \in Int /\ s.writeAt \in Int
  BY <1>1 DEF Pieces, SegmentAt, SegmentSlice
<1>3. WriteSegment(piece, w, seg) = w \/ WriteSegment(piece, w, seg) = after
  BY DEF WriteSegment
<1> HIDE DEF s
<1>4. bytes \in SUBSET (paths \X Int \X Int)
  BY <1>2 DEF WriteToFile, Pieces
<1>5. panics \in BOOLEAN
  BY <1>1, Zenon
<1> HIDE DEF bytes, panics
<1>6. after \in Progress(paths)
  BY <1>1, <1>2, <1>4, <1>5 DEF Progress, Pieces
<1> QED
  BY <1>3, <1>6

\* What writePiece knows after each file.
Passes(g, piece, seg, n) ==
  /\ g[0] = NothingWritten(piece)
  /\ \A i \in 1 .. n : g[i] = WriteSegment(piece, g[i - 1], seg[i])

LEMMA PassesExist ==
  ASSUME NEW piece \in Pieces, NEW info, NEW n, NEW e, Ends(e, n, info)
  PROVE  \E g : /\ Passes(g, piece, FileSegments(info), n)
               /\ WritePiece(FileSegments(info), piece) = g[n]
<1> DEFINE seg == FileSegments(info)
           paths == {seg[i].Path : i \in 1 .. n}
           base == NothingWritten(piece)
           T == [x \in Progress(paths) \X (1 .. n) |-> WriteSegment(piece, x[1], seg[x[2]])]
           IsFold(h) == h = [s \in SUBSET (1 .. n) |->
                               IF s = {} THEN base
                               ELSE WriteSegment(piece, h[s \ {Max(s)}], seg[Max(s)])]
           fold == CHOOSE h : IsFold(h)
<1>1. /\ n \in Nat /\ e \in [0 .. n -> Nat] /\ DOMAIN seg = 1 .. n
      /\ \A i \in 1 .. n : SegmentAt(seg[i], e[i - 1]) /\ e[i - 1] \in Nat
  BY DEF Ends
<1>2. WritePiece(seg, piece) = fold[1 .. n]
  BY <1>1 DEF WritePiece, FoldLeft, MapThenFoldSet
<1>3. base \in Progress(paths)
  BY DEF NothingWritten, Progress, Pieces
<1>4. \A i \in 1 .. n : seg[i].Path \in paths
  OBVIOUS
<1> HIDE DEF seg, paths, base
<1>5. T \in [Progress(paths) \X (1 .. n) -> Progress(paths)]
  <2>1. ASSUME NEW w \in Progress(paths), NEW i \in 1 .. n
        PROVE  WriteSegment(piece, w, seg[i]) \in Progress(paths)
    BY <1>1, <1>4, ProgressKept
  <2> QED
    BY <2>1
<1>6. \A w \in Progress(paths), i \in 1 .. n : T[<<w, i>>] = WriteSegment(piece, w, seg[i])
  OBVIOUS
<1> HIDE DEF T
<1>7. IsFold(fold)
  <2>1. PICK h \in [SUBSET (1 .. n) -> Progress(paths)] : Folded(h, T, base, n)
    BY <1>1, <1>3, <1>5, FoldedExists
  <2>2. \A s \in SUBSET (1 .. n) :
          h[s] = IF s = {} THEN base ELSE WriteSegment(piece, h[s \ {Max(s)}], seg[Max(s)])
    <3>1. ASSUME NEW s \in SUBSET (1 .. n), s # {}
          PROVE  h[s] = WriteSegment(piece, h[s \ {Max(s)}], seg[Max(s)])
      <4>1. h[s] = T[<<h[s \ {Max(s)}], Max(s)>>]
        BY <2>1, <3>1 DEF Folded
      <4>2. h[s \ {Max(s)}] \in Progress(paths) /\ Max(s) \in 1 .. n
        BY <1>1, <3>1, MaxIn
      <4> QED
        BY <1>6, <4>1, <4>2
    <3>2. h[{}] = base
      BY <2>1 DEF Folded
    <3> QED
      BY <3>1, <3>2
  <2>3. h = [s \in SUBSET (1 .. n) |-> h[s]]
    OBVIOUS
  <2>4. IsFold(h)
    BY <2>2, <2>3
  <2> QED
    BY <2>4
<1> DEFINE g == [i \in 0 .. n |-> fold[1 .. i]]
<1>8. \A s \in SUBSET (1 .. n) :
        fold[s] = IF s = {} THEN base
                  ELSE WriteSegment(piece, fold[s \ {Max(s)}], seg[Max(s)])
  BY <1>7
<1> HIDE DEF fold, IsFold
<1>9. g[0] = base
  <2>1. 1 .. 0 = {} /\ 1 .. 0 \in SUBSET (1 .. n)
    OBVIOUS
  <2>2. fold[{}] = base
    BY <1>8, <2>1
  <2> QED
    BY <1>1, <2>1, <2>2
<1>10. ASSUME NEW i \in 1 .. n PROVE g[i] = WriteSegment(piece, g[i - 1], seg[i])
  <2> DEFINE s == 1 .. i
  <2>0. i \in Nat \ {0}
    BY <1>1
  <2>1. s \in SUBSET (1 .. n)
    BY <1>1
  <2>2. s # {} /\ Max(s) = i /\ s \ {i} = 1 .. i - 1
    BY <2>0, MaxOfPrefix
  <2>3. g[i] = fold[s] /\ g[i - 1] = fold[1 .. i - 1]
    BY <1>1
  <2> HIDE DEF s, g
  <2>4. fold[s] = WriteSegment(piece, fold[s \ {i}], seg[i])
    BY <1>8, <2>1, <2>2
  <2> QED
    BY <2>2, <2>3, <2>4
<1>11. g[n] = fold[1 .. n]
  BY <1>1
<1> HIDE DEF g
<1>12. Passes(g, piece, seg, n) /\ WritePiece(seg, piece) = g[n]
  BY <1>2, <1>9, <1>10, <1>11 DEF Passes, base
<1> QED
  BY <1>12 DEF seg

\* After k files, exactly the bytes that the piece shares with them are written.
LEMMA PassesInPlace ==
  ASSUME NEW piece \in Pieces, NEW info, NEW n, NEW e, Ends(e, n, info),
         NEW g, Passes(g, piece, FileSegments(info), n)
  PROVE  \A k \in 0 .. n :
           /\ LoopInv(piece, g[k], e[k])
           /\ g[k].written = UNION {Shared(piece, FileSegments(info)[j]) : j \in 1 .. k}
<1> DEFINE seg == FileSegments(info)
           Kept(k) == /\ LoopInv(piece, g[k], e[k])
                      /\ g[k].written = UNION {Shared(piece, seg[j]) : j \in 1 .. k}
           N == {k \in Nat : k <= n => Kept(k)}
<1>1. /\ n \in Nat /\ e \in [0 .. n -> Nat] /\ e[0] = 0
      /\ \A i \in 1 .. n : SegmentAt(seg[i], e[i - 1]) /\ seg[i].EndIndex = e[i]
  BY DEF Ends
<1>2. /\ g[0] = NothingWritten(piece)
      /\ \A i \in 1 .. n : g[i] = WriteSegment(piece, g[i - 1], seg[i])
  BY DEF Passes
<1> HIDE DEF seg
<1>3. Kept(0)
  <2>1. UNION {Shared(piece, seg[j]) : j \in 1 .. 0} = {}
    OBVIOUS
  <2> QED
    BY <1>1, <1>2, <2>1, LoopBegins
<1> HIDE DEF Kept
<1>4. ASSUME NEW k \in Nat, k + 1 <= n, Kept(k) PROVE Kept(k + 1)
  <2>1. k + 1 \in 1 .. n /\ (k + 1) - 1 = k
    <3>1. n \in Nat /\ k \in Nat /\ k + 1 <= n
      BY <1>1, <1>4
    <3> QED
      BY <3>1
  <2>2. /\ SegmentAt(seg[k + 1], e[k]) /\ seg[k + 1].EndIndex = e[k + 1]
        /\ g[k + 1] = WriteSegment(piece, g[k], seg[k + 1]) /\ e[k] \in Nat
    BY <1>1, <1>2, <1>4, <2>1
  <2>3. LoopInv(piece, g[k], e[k])
    BY <1>4 DEF Kept
  <2>4. /\ LoopInv(piece, g[k + 1], e[k + 1])
        /\ g[k + 1].written = g[k].written \cup Shared(piece, seg[k + 1])
    BY <2>2, <2>3, SegmentInPlace
  <2>5. UNION {Shared(piece, seg[j]) : j \in 1 .. k + 1}
          = (UNION {Shared(piece, seg[j]) : j \in 1 .. k}) \cup Shared(piece, seg[k + 1])
    <3>1. \A j : j \in 1 .. k + 1 <=> j \in 1 .. k \/ j = k + 1
      OBVIOUS
    <3> QED
      BY <3>1
  <2> QED
    BY <1>4, <2>4, <2>5 DEF Kept
<1>5. 0 \in N /\ \A k \in Nat : k \in N => k + 1 \in N
  BY <1>1, <1>3, <1>4
<1>6. \A k \in N : k <= n => Kept(k)
  OBVIOUS
<1> HIDE DEF N
<1>7. Nat \subseteq N
  BY <1>5, Induction
<1>8. \A k \in 0 .. n : Kept(k)
  BY <1>1, <1>6, <1>7
<1> QED
  BY <1>8 DEF Kept, seg

\* The loop of writePiece over all files, for a piece inside the torrent: no
\* slice leaves the buffer, every byte is written, each where it belongs.
THEOREM PieceInPlace ==
  ASSUME NEW piece \in Pieces, NEW info, Torrent(info),
         piece.pieceStartIndex + piece.pieceLength <= TorrentLength(info)
  PROVE  LET w == WritePiece(FileSegments(info), piece)
         IN  /\ ~w.panic /\ w.remaining = 0
             /\ w.written = InPlace(info, piece.pieceStartIndex,
                                    piece.pieceStartIndex + piece.pieceLength - 1)
<1> DEFINE P == piece.pieceStartIndex
           L == piece.pieceLength
           seg == FileSegments(info)
           w == WritePiece(seg, piece)
<1>0. P \in Nat /\ L \in Nat \ {0}
  BY DEF Pieces
<1>1. PICK n, e : Ends(e, n, info)
  BY EndsExist
<1>2. PICK g : Passes(g, piece, seg, n) /\ w = g[n]
  BY <1>1, PassesExist
<1>3. /\ n \in Nat /\ e[n] \in Nat /\ DOMAIN seg = 1 .. n /\ TorrentLength(info) = e[n]
      /\ \A i \in 1 .. n : seg[i].StartIndex \in Nat /\ seg[i].EndIndex \in Nat
  BY <1>1 DEF Ends, SegmentAt
<1>4. /\ LoopInv(piece, g[n], e[n])
      /\ g[n].written = UNION {Shared(piece, seg[j]) : j \in 1 .. n}
  BY <1>1, <1>2, <1>3, PassesInPlace
<1>5. Before(piece, e[n]) = L
  BY <1>0, <1>3 DEF Before
<1>6. w.panic = FALSE /\ w.remaining = 0
  BY <1>0, <1>2, <1>4, <1>5 DEF LoopInv
<1>7. ASSUME NEW j \in 1 .. n
      PROVE  Shared(piece, seg[j])
               = {<<seg[j].Path, b - seg[j].StartIndex, b>> :
                    b \in {x \in P .. P + L - 1 : seg[j].StartIndex <= x /\ x < seg[j].EndIndex}}
  <2>1. {x \in seg[j].StartIndex .. seg[j].EndIndex - 1 : P <= x /\ x < P + L}
          = {x \in P .. P + L - 1 : seg[j].StartIndex <= x /\ x < seg[j].EndIndex}
    BY <1>0, <1>3
  <2> QED
    BY <2>1 DEF Shared
<1>8. w.written = InPlace(info, P, P + L - 1)
  BY <1>2, <1>3, <1>4, <1>7 DEF InPlace
<1> QED
  BY <1>6, <1>8

-----------------------------------------------------------------------------
(* The pieces of a torrent.                                                 *)

LEMMA Quotient ==
  ASSUME NEW a \in Nat, NEW d \in Nat \ {0}
  PROVE  a \div d \in Nat /\ (a \div d) * d <= a /\ a < (a \div d) * d + d
  OBVIOUS

LEMMA Multiples ==
  ASSUME NEW m \in Nat, NEW n \in Nat, NEW d \in Nat
  PROVE  /\ m * d \in Nat /\ (m + 1) * d = m * d + d
         /\ m <= n => m * d <= n * d
<1>1. m * d \in Nat /\ (m + 1) * d = m * d + d
  OBVIOUS
<1>2. ASSUME m <= n PROVE m * d <= n * d
  <2>1. n * d = m * d + (n - m) * d /\ (n - m) * d \in Nat
    BY <1>2
  <2> QED
    BY <1>1, <2>1
<1> QED
  BY <1>1, <1>2

\* The pieces of a torrent cover it: each is inside, each byte is in one.
LEMMA PiecesCover ==
  ASSUME NEW info, Torrent(info)
  PROVE  /\ TorrentLength(info) \in Nat /\ NPiece(info) \in Nat
         /\ \A i \in 0 .. NPiece(info) - 1 :
              LET piece == NewPiece(info, i)
              IN  /\ piece \in Pieces
                  /\ piece.pieceStartIndex + piece.pieceLength <= TorrentLength(info)
         /\ \A b \in 0 .. TorrentLength(info) - 1 :
              \E i \in 0 .. NPiece(info) - 1 :
                LET piece == NewPiece(info, i)
                IN  /\ piece.pieceStartIndex <= b
                    /\ b < piece.pieceStartIndex + piece.pieceLength
<1> DEFINE total == TorrentLength(info)
           len == info.pieceLength
           q == NPiece(info)
<1>1. total \in Nat /\ len \in Nat \ {0} /\ total + len - 1 \in Nat
  BY EndsExist DEF Ends, Torrent
<1>2. q = (total + len - 1) \div len
  BY DEF NPiece
<1> HIDE DEF total, len, q
<1>3. q \in Nat /\ q * len <= total + len - 1 /\ total + len - 1 < q * len + len
  BY <1>1, <1>2, Quotient
<1>4. \A i : NewPiece(info, i)
              = [pieceStartIndex |-> i * len,
                 pieceLength |-> IF i * len + len > total THEN total - i * len ELSE len]
  BY DEF NewPiece, total, len
<1>5. ASSUME NEW i \in 0 .. q - 1
      PROVE  /\ NewPiece(info, i) \in Pieces
             /\ NewPiece(info, i).pieceStartIndex + NewPiece(info, i).pieceLength <= total
  <2>1. i \in Nat /\ i + 1 \in Nat /\ i + 1 <= q
    BY <1>3
  <2>2. i * len \in Nat /\ (i + 1) * len = i * len + len /\ (i + 1) * len <= q * len
    BY <1>1, <1>3, <2>1, Multiples
  <2>3. q * len \in Nat
    BY <1>1, <1>3
  <2>4. i * len < total
    BY <1>1, <1>3, <2>2, <2>3
  <2> DEFINE start == i * len
  <2> HIDE DEF start
  <2>5. /\ start \in Nat /\ start < total
        /\ NewPiece(info, i)
            = [pieceStartIndex |-> start,
               pieceLength |-> IF start + len > total THEN total - start ELSE len]
    BY <1>4, <2>2, <2>4 DEF start
  <2> QED
    BY <1>1, <2>5 DEF Pieces
<1>6. ASSUME NEW b \in 0 .. total - 1
      PROVE  \E i \in 0 .. q - 1 :
               /\ NewPiece(info, i).pieceStartIndex <= b
               /\ b < NewPiece(info, i).pieceStartIndex + NewPiece(info, i).pieceLength
  <2> DEFINE i == b \div len
             start == i * len
  <2>1. b \in Nat /\ b < total
    BY <1>1
  <2>2. i \in Nat /\ start <= b /\ b < start + len
    BY <1>1, <2>1, Quotient
  <2> HIDE DEF i
  <2>3. i < q
    <3>1. SUFFICES ASSUME q <= i PROVE FALSE
      BY <1>3, <2>2
    <3>2. q * len <= start /\ start \in Nat /\ q * len \in Nat
      BY <1>1, <1>3, <2>2, <3>1, Multiples
    <3> HIDE DEF start
    <3> QED
      BY <1>1, <1>3, <2>1, <2>2, <3>2
  <2>4. start \in Nat
    BY <1>1, <2>2
  <2>5. NewPiece(info, i)
          = [pieceStartIndex |-> start,
             pieceLength |-> IF start + len > total THEN total - start ELSE len]
    BY <1>4
  <2> HIDE DEF start
  <2>6. /\ NewPiece(info, i).pieceStartIndex <= b
        /\ b < NewPiece(info, i).pieceStartIndex + NewPiece(info, i).pieceLength
    BY <1>1, <2>1, <2>2, <2>4, <2>5
  <2>7. i \in 0 .. q - 1
    BY <1>3, <2>2, <2>3
  <2> QED
    BY <2>6, <2>7
<1> QED
  BY <1>1, <1>3, <1>5, <1>6 DEF total, q

\* writePiece puts every piece of every torrent where it belongs.
LEMMA TorrentInPlace ==
  ASSUME NEW info, Torrent(info)
  PROVE  WritesInPlace(info)
  BY PiecesCover, PieceInPlace DEF WritesInPlace

\* The pieces that buildQueue makes leave no byte of a file out.
LEMMA NoByteLeftOut ==
  ASSUME NEW info, Torrent(info)
  PROVE  FilesComplete(info)
<1> DEFINE seg == FileSegments(info)
           total == TorrentLength(info)
           I == 0 .. NPiece(info) - 1
           first(i) == NewPiece(info, i).pieceStartIndex
           next(i) == first(i) + NewPiece(info, i).pieceLength
           At(j, b) == <<seg[j].Path, b - seg[j].StartIndex, b>>
           Holds(j, b) == seg[j].StartIndex <= b /\ b < seg[j].EndIndex
<1>1. /\ total \in Nat
      /\ \A i \in I : first(i) \in Nat /\ next(i) \in Nat /\ next(i) <= total
      /\ \A b \in 0 .. total - 1 : \E i \in I : first(i) <= b /\ b < next(i)
  BY PiecesCover DEF Pieces
<1>2. \A i \in I : WritePiece(seg, NewPiece(info, i)).written
                     = InPlace(info, first(i), next(i) - 1)
  <2>1. WritesInPlace(info)
    BY TorrentInPlace
  <2> TAKE i \in I
  <2> DEFINE piece == NewPiece(info, i)
             w == WritePiece(seg, piece)
  <2>2. w.written = InPlace(info, piece.pieceStartIndex,
                            piece.pieceStartIndex + piece.pieceLength - 1)
    BY <2>1 DEF WritesInPlace
  <2>3. piece.pieceStartIndex \in Nat /\ piece.pieceLength \in Nat
    BY PiecesCover DEF Pieces
  <2>4. piece.pieceStartIndex + piece.pieceLength - 1
          = (piece.pieceStartIndex + piece.pieceLength) - 1
    BY <2>3
  <2> QED
    BY <2>2, <2>4
<1>3. \A m, n, t : t \in InPlace(info, m, n) <=>
                     \E j \in DOMAIN seg : \E b \in m .. n : Holds(j, b) /\ t = At(j, b)
  BY DEF InPlace
<1>4. \A b : b \in 0 .. total - 1 <=> \E i \in I : b \in first(i) .. next(i) - 1
  <2>1. ASSUME NEW i \in I, NEW b \in first(i) .. next(i) - 1 PROVE b \in 0 .. total - 1
    <3>1. first(i) \in Nat /\ next(i) \in Nat /\ next(i) <= total
      BY <1>1
    <3> HIDE DEF first, next, total
    <3> QED
      BY <1>1, <3>1
  <2>2. ASSUME NEW b \in 0 .. total - 1 PROVE \E i \in I : b \in first(i) .. next(i) - 1
    <3>1. PICK i \in I : first(i) <= b /\ b < next(i)
      BY <1>1
    <3>2. first(i) \in Nat /\ next(i) \in Nat
      BY <1>1
    <3> HIDE DEF first, next, total, I
    <3> QED
      BY <1>1, <3>1, <3>2
  <2> QED
    BY <2>1, <2>2
<1> DEFINE all == UNION {WritePiece(seg, NewPiece(info, i)).written : i \in I}
<1> HIDE DEF first, next, total, I, At, Holds, seg
<1>5. \A t : t \in all <=> \E i \in I : t \in InPlace(info, first(i), next(i) - 1)
  BY <1>2
<1> HIDE DEF all
<1>6. \A t : t \in all <=> t \in InPlace(info, 0, total - 1)
  BY <1>3, <1>4, <1>5
<1>7. all = InPlace(info, 0, total - 1)
  BY <1>6
<1> QED
  BY <1>7 DEF FilesComplete, all, I, seg, total

-----------------------------------------------------------------------------
(* Parts of sequences: slices of the code.                                  *)

LEMMA SliceOf ==
  ASSUME NEW S, NEW s \in Seq(S), NEW i \in Nat, NEW j \in Nat, i <= j, j <= Len(s)
  PROVE  /\ Slice(s, i, j) \in Seq(S) /\ Len(Slice(s, i, j)) = j - i
         /\ \A k \in 1 .. j - i : Slice(s, i, j)[k] = s[i + k]
<1>1. \A k \in i + 1 .. j : s[k] \in S
  BY ElementOfSeq
<1>2. /\ SubSeq(s, i + 1, j) \in Seq(S)
      /\ Len(SubSeq(s, i + 1, j)) = IF i + 1 <= j THEN j - (i + 1) + 1 ELSE 0
      /\ \A k \in 1 .. j - (i + 1) + 1 : SubSeq(s, i + 1, j)[k] = s[i + 1 + k - 1]
  BY <1>1, SubSeqProperties
<1>3. \A k \in 1 .. j - i : i + 1 + k - 1 = i + k
  OBVIOUS
<1> QED
  BY <1>2, <1>3 DEF Slice

LEMMA SliceAll ==
  ASSUME NEW S, NEW s \in Seq(S)
  PROVE  Slice(s, 0, Len(s)) = s
  BY SubSeqFull DEF Slice

\* Two sequences in one: a slice of the first one, and one of the second.
LEMMA SlicesOfJoined ==
  ASSUME NEW S, NEW s \in Seq(S), NEW t \in Seq(S)
  PROVE  /\ \A i, j \in Nat : i <= j /\ j <= Len(s) => Slice(s \o t, i, j) = Slice(s, i, j)
         /\ \A i, j \in Nat : i <= j /\ j <= Len(t)
                => Slice(s \o t, Len(s) + i, Len(s) + j) = Slice(t, i, j)
<1>1. PICK u : u = s \o t
  OBVIOUS
<1>2. Len(s) \in Nat /\ Len(t) \in Nat
  BY LenProperties
<1>3. /\ u \in Seq(S) /\ Len(u) = Len(s) + Len(t)
      /\ \A k \in 1 .. Len(s) : u[k] = s[k]
      /\ \A k \in 1 .. Len(t) : u[Len(s) + k] = t[k]
  BY <1>1
<1>4. ASSUME NEW i \in Nat, NEW j \in Nat, i <= j, j <= Len(s)
      PROVE  Slice(u, i, j) = Slice(s, i, j)
  <2>1. /\ Slice(s, i, j) \in Seq(S) /\ Len(Slice(s, i, j)) = j - i
        /\ \A k \in 1 .. j - i : Slice(s, i, j)[k] = s[i + k]
    BY <1>4, SliceOf
  <2>2. /\ Slice(u, i, j) \in Seq(S) /\ Len(Slice(u, i, j)) = j - i
        /\ \A k \in 1 .. j - i : Slice(u, i, j)[k] = u[i + k]
    <3>1. u \in Seq(S) /\ j <= Len(u)
      BY <1>2, <1>3, <1>4
    <3> QED
      BY <1>4, <3>1, SliceOf
  <2>3. \A k \in 1 .. j - i : u[i + k] = s[i + k]
    BY <1>2, <1>3, <1>4
  <2> QED
    BY <2>1, <2>2, <2>3, SeqEqual
<1>5. ASSUME NEW i \in Nat, NEW j \in Nat, i <= j, j <= Len(t)
      PROVE  Slice(u, Len(s) + i, Len(s) + j) = Slice(t, i, j)
  <2> DEFINE m == Len(s) + i
             n == Len(s) + j
  <2>1. /\ Slice(t, i, j) \in Seq(S) /\ Len(Slice(t, i, j)) = j - i
        /\ \A k \in 1 .. j - i : Slice(t, i, j)[k] = t[i + k]
    BY <1>5, SliceOf
  <2>2. m \in Nat /\ n \in Nat /\ m <= n /\ n <= Len(u) /\ n - m = j - i
    BY <1>2, <1>3, <1>5
  <2>3. \A k \in 1 .. j - i : u[m + k] = t[i + k]
    <3> TAKE k \in 1 .. j - i
    <3>1. i + k \in 1 .. Len(t) /\ m + k = Len(s) + (i + k)
      BY <1>2, <1>5
    <3> QED
      BY <1>3, <3>1
  <2> HIDE DEF m, n
  <2>4. /\ Slice(u, m, n) \in Seq(S) /\ Len(Slice(u, m, n)) = n - m
        /\ \A k \in 1 .. n - m : Slice(u, m, n)[k] = u[m + k]
    <3>1. u \in Seq(S)
      BY <1>3
    <3> QED
      BY <2>2, <3>1, SliceOf
  <2>5. \A k \in 1 .. j - i : Slice(u, m, n)[k] = Slice(t, i, j)[k]
    BY <2>1, <2>2, <2>3, <2>4
  <2>6. Slice(u, m, n) = Slice(t, i, j)
    BY <2>1, <2>2, <2>4, <2>5, SeqEqual
  <2> QED
    BY <2>6 DEF m, n
<1> QED
  BY <1>1, <1>4, <1>5

-----------------------------------------------------------------------------
(* Bytes, so many of them.                                                  *)

Bytes(n) == {s \in Seq(Byte) : Len(s) = n}

LEMMA Joined ==
  ASSUME NEW m \in Nat, NEW n \in Nat, NEW s \in Bytes(m), NEW t \in Bytes(n)
  PROVE  s \o t \in Bytes(m + n)
  BY DEF Bytes

LEMMA FieldOfFirst ==
  ASSUME NEW m \in Nat, NEW n \in Nat, NEW s \in Bytes(m), NEW t \in Bytes(n),
         NEW i \in Nat, NEW j \in Nat, i <= j, j <= m
  PROVE  Slice(s \o t, i, j) = Slice(s, i, j)
  BY SlicesOfJoined DEF Bytes

LEMMA FieldOfSecond ==
  ASSUME NEW m \in Nat, NEW n \in Nat, NEW s \in Bytes(m), NEW t \in Bytes(n),
         NEW i \in Nat, NEW j \in Nat, i <= j, j <= n
  PROVE  Slice(s \o t, m + i, m + j) = Slice(t, i, j)
<1>1. s \in Seq(Byte) /\ t \in Seq(Byte)
  BY DEF Bytes
<1>2. j <= Len(t) => Slice(s \o t, Len(s) + i, Len(s) + j) = Slice(t, i, j)
  BY <1>1, SlicesOfJoined
<1>3. Len(s) = m /\ Len(t) = n
  BY DEF Bytes
<1> QED
  BY <1>2, <1>3

LEMMA WholeField ==
  ASSUME NEW n \in Nat, NEW s \in Bytes(n)
  PROVE  Slice(s, 0, n) = s
  BY SliceAll DEF Bytes

-----------------------------------------------------------------------------
(* Handshakes.                                                              *)

LEMMA HandshakeKept ==
  ASSUME NEW h \in Bytes(20), NEW n \in Nat, NEW p \in Bytes(n)
  PROVE  HandshakeUnderstood(h, p)
<1>1. Greeting \in Bytes(28)
  <2>1. Radix \in Nat /\ 19 < Radix
    BY RadixAssumption
  <2>2. \A i \in 1 .. 28 : Greeting[i] \in Byte
    BY <2>1 DEF Greeting, Byte
  <2>3. Greeting = [i \in 1 .. 28 |-> Greeting[i]]
    BY DEF Greeting
  <2>4. Greeting \in [1 .. 28 -> Byte]
    BY <2>2, <2>3
  <2> QED
    BY <2>3, <2>4, LengthOf, SeqDef DEF Bytes
<1> DEFINE front == Greeting \o h
           data == front \o p
<1>2. front \in Bytes(48)
  BY <1>1, Joined
<1>3. data \in Bytes(48 + n)
  BY <1>2, Joined
<1>4. Slice(data, 28, 48) = h
  <2>1. Slice(data, 28, 48) = Slice(front, 28, 48)
    BY <1>2, FieldOfFirst
  <2>2. Slice(front, 28 + 0, 28 + 20) = Slice(h, 0, 20)
    BY <1>1, FieldOfSecond
  <2> HIDE DEF front, data
  <2> QED
    BY <2>1, <2>2, WholeField
<1>5. newHandShakeMsg(h, p) = data
  BY DEF newHandShakeMsg
<1>6. Len(data) = 48 + n /\ Len(p) = n
  BY <1>3 DEF Bytes
<1>7. CASE n < 20
  <2> HIDE DEF data
  <2> QED
    BY <1>5, <1>6, <1>7 DEF HandshakeUnderstood, parseHandShake
<1>8. CASE n >= 20
  <2>1. Slice(data, 48 + 0, 48 + 20) = Slice(p, 0, 20)
    BY <1>2, <1>8, FieldOfSecond
  <2>2. Slice(p, 0, 20) = SubSeq(p, 1, 20)
    BY DEF Slice
  <2> HIDE DEF data
  <2>3. parseHandShake(data) = [infoHash |-> Slice(data, 28, 48), peerID |-> Slice(data, 48, 68)]
    BY <1>6, <1>8 DEF parseHandShake, HashStart
  <2> QED
    <3>1. Slice(data, 48, 68) = Slice(p, 0, 20)
      BY <2>1
    <3>2. parseHandShake(data) = [infoHash |-> h, peerID |-> SubSeq(p, 1, 20)]
      BY <1>4, <2>2, <2>3, <3>1
    <3> QED
      BY <1>5, <1>6, <1>8, <3>2 DEF HandshakeUnderstood
<1> QED
  BY <1>7, <1>8

-----------------------------------------------------------------------------
(* Numbers as bytes.                                                        *)

LEMMA RadixIs == Radix \in Nat /\ Radix > 18
  BY RadixAssumption

LEMMA DigitIs ==
  ASSUME NEW n \in Int
  PROVE  /\ n \div Radix \in Int /\ n % Radix \in Byte
         /\ n = (n \div Radix) * Radix + (n % Radix)
  BY RadixIs DEF Byte

LEMMA ShiftSteps ==
  ASSUME NEW n \in Int
  PROVE  /\ ShiftRight(n, 0) = n
         /\ \A k \in Nat : /\ ShiftRight(n, k) \in Int
                          /\ ShiftRight(n, k + 1) = ShiftRight(n, k) \div Radix
<1> DEFINE IsShift(f, k) == f = [i \in 0 .. k |-> IF i = 0 THEN n ELSE f[i - 1] \div Radix]
           shift(k) == CHOOSE f : IsShift(f, k)
<1>1. ASSUME NEW k \in Nat PROVE IsShift(shift(k), k)
  <2> DEFINE T == [x \in Int \X (1 .. k) |-> x[1] \div Radix]
  <2>1. T \in [Int \X (1 .. k) -> Int]
    BY DigitIs
  <2>2. \A x \in Int, i \in 1 .. k : T[<<x, i>>] = x \div Radix
    OBVIOUS
  <2> HIDE DEF T
  <2>3. PICK f \in [0 .. k -> Int] : Recursive(f, T, n, k)
    BY <2>1, RecursionExists
  <2>4. ASSUME NEW i \in 0 .. k PROVE f[i] = IF i = 0 THEN n ELSE f[i - 1] \div Radix
    <3>1. CASE i = 0
      BY <2>3, <3>1 DEF Recursive
    <3>2. CASE i # 0
      <4>1. i \in 1 .. k /\ f[i - 1] \in Int
        BY <3>2
      <4> QED
        BY <2>2, <2>3, <3>2, <4>1 DEF Recursive
    <3> QED
      BY <3>1, <3>2
  <2>5. f = [i \in 0 .. k |-> f[i]]
    OBVIOUS
  <2>6. IsShift(f, k)
    BY <2>4, <2>5
  <2> QED
    BY <2>6
<1>2. ASSUME NEW k \in Nat PROVE ShiftRight(n, k) = shift(k)[k]
  BY DEF ShiftRight
<1>3. ASSUME NEW k \in Nat, NEW i \in 0 .. k
      PROVE  shift(k)[i] = IF i = 0 THEN n ELSE shift(k)[i - 1] \div Radix
  <2> DEFINE f == shift(k)
  <2>1. f = [j \in 0 .. k |-> IF j = 0 THEN n ELSE f[j - 1] \div Radix]
    BY <1>1
  <2> HIDE DEF f
  <2>2. f[i] = IF i = 0 THEN n ELSE f[i - 1] \div Radix
    BY <2>1
  <2> QED
    BY <2>2 DEF f
<1> HIDE DEF shift, IsShift
<1> DEFINE N == {i \in Nat : \A k \in Nat : i <= k => /\ shift(k)[i] = shift(i)[i]
                                                     /\ shift(k)[i] \in Int}
<1>4. 0 \in N
  BY <1>3
<1>5. ASSUME NEW i \in Nat, i \in N PROVE i + 1 \in N
  <2>1. ASSUME NEW k \in Nat, i + 1 <= k
        PROVE  shift(k)[i + 1] = shift(i)[i] \div Radix
    <3>1. shift(k)[i] = shift(i)[i]
      BY <1>5, <2>1
    <3>2. i + 1 \in 0 .. k /\ i + 1 # 0 /\ (i + 1) - 1 = i
      BY <2>1
    <3> QED
      BY <1>3, <3>1, <3>2
  <2>2. shift(i)[i] \div Radix \in Int
    BY <1>5, DigitIs
  <2> HIDE DEF N
  <2>3. \A k \in Nat : i + 1 <= k => shift(k)[i + 1] = shift(i)[i] \div Radix
    BY <2>1
  <2>4. shift(i + 1)[i + 1] = shift(i)[i] \div Radix
    BY <2>3
  <2> QED
    BY <2>2, <2>3, <2>4 DEF N
<1>6. \A i, k \in Nat : i <= k => shift(k)[i] = shift(i)[i] /\ shift(k)[i] \in Int
  <2>1. \A i \in N, k \in Nat : i <= k => shift(k)[i] = shift(i)[i] /\ shift(k)[i] \in Int
    OBVIOUS
  <2> HIDE DEF N
  <2>2. Nat \subseteq N
    BY <1>4, <1>5, Induction
  <2> QED
    BY <2>1, <2>2
<1>7. ASSUME NEW k \in Nat
      PROVE  ShiftRight(n, k) \in Int /\ ShiftRight(n, k + 1) = ShiftRight(n, k) \div Radix
  <2>1. shift(k)[k] \in Int /\ shift(k + 1)[k] = shift(k)[k]
    BY <1>6
  <2>2. k + 1 \in Nat /\ k + 1 \in 0 .. k + 1 /\ k + 1 # 0 /\ (k + 1) - 1 = k
    OBVIOUS
  <2>3. shift(k + 1)[k + 1] = shift(k + 1)[k] \div Radix
    BY <1>3, <2>2
  <2> QED
    BY <1>2, <2>1, <2>2, <2>3
<1>8. ShiftRight(n, 0) = n
  BY <1>2, <1>3
<1> QED
  BY <1>7, <1>8

\* The number that bytes are read as, byte by byte.
Reads(v, s, m) ==
  /\ v \in [0 .. m -> Nat] /\ v[0] = 0
  /\ \A i \in 1 .. m : v[i] = v[i - 1] * Radix + s[i]

LEMMA UintSteps ==
  ASSUME NEW m \in Nat, NEW s \in Bytes(m)
  PROVE  \E v : Reads(v, s, m) /\ Uint(s) = v[m]
<1> DEFINE T == [x \in Nat \X (1 .. m) |-> x[1] * Radix + s[x[2]]]
           IsFold(h) == h = [d \in SUBSET (1 .. m) |->
                               IF d = {} THEN 0 ELSE h[d \ {Max(d)}] * Radix + s[Max(d)]]
           fold == CHOOSE h : IsFold(h)
           v == [i \in 0 .. m |-> fold[1 .. i]]
<1>1. DOMAIN s = 1 .. m /\ \A i \in 1 .. m : s[i] \in Nat
  BY RadixIs DEF Bytes, Byte
<1>2. Uint(s) = fold[1 .. m]
  BY <1>1 DEF Uint, FoldLeft, MapThenFoldSet
<1>3. T \in [Nat \X (1 .. m) -> Nat]
      /\ \A x \in Nat, i \in 1 .. m : T[<<x, i>>] = x * Radix + s[i]
  <2>1. \A x \in Nat, i \in 1 .. m : x * Radix + s[i] \in Nat
    BY <1>1, RadixIs
  <2> QED
    BY <2>1
<1> HIDE DEF T
<1>4. PICK h \in [SUBSET (1 .. m) -> Nat] : Folded(h, T, 0, m)
  BY <1>3, FoldedExists
<1>5. IsFold(h)
  <2>1. ASSUME NEW d \in SUBSET (1 .. m)
        PROVE  h[d] = IF d = {} THEN 0 ELSE h[d \ {Max(d)}] * Radix + s[Max(d)]
    <3>1. CASE d = {}
      BY <1>4, <3>1 DEF Folded
    <3>2. CASE d # {}
      <4>1. h[d] = T[<<h[d \ {Max(d)}], Max(d)>>]
        BY <1>4, <3>2 DEF Folded
      <4>2. h[d \ {Max(d)}] \in Nat /\ Max(d) \in 1 .. m
        BY <3>2, MaxIn
      <4> QED
        BY <1>3, <3>2, <4>1, <4>2
    <3> QED
      BY <3>1, <3>2
  <2>2. h = [d \in SUBSET (1 .. m) |-> h[d]]
    OBVIOUS
  <2> QED
    BY <2>1, <2>2
<1>6. IsFold(fold)
  BY <1>5
<1>7. \A d \in SUBSET (1 .. m) :
        fold[d] = IF d = {} THEN 0 ELSE fold[d \ {Max(d)}] * Radix + s[Max(d)]
  BY <1>6
<1> HIDE DEF fold, IsFold
<1>8. v[0] = 0 /\ v[m] = fold[1 .. m]
  <2>1. 1 .. 0 = {} /\ 1 .. 0 \in SUBSET (1 .. m)
    OBVIOUS
  <2>2. fold[{}] = 0
    BY <1>7, <2>1
  <2> QED
    BY <2>1, <2>2
<1>9. ASSUME NEW i \in 1 .. m PROVE v[i] = v[i - 1] * Radix + s[i]
  <2> DEFINE d == 1 .. i
  <2>0. i \in Nat \ {0}
    OBVIOUS
  <2>1. d \in SUBSET (1 .. m)
    OBVIOUS
  <2>2. d # {} /\ Max(d) = i /\ d \ {i} = 1 .. i - 1
    BY <2>0, MaxOfPrefix
  <2>3. v[i] = fold[d] /\ v[i - 1] = fold[1 .. i - 1]
    OBVIOUS
  <2> HIDE DEF d, v
  <2>4. fold[d] = fold[d \ {i}] * Radix + s[i]
    BY <1>7, <2>1, <2>2
  <2> QED
    BY <2>2, <2>3, <2>4
<1>10. v = [i \in 0 .. m |-> v[i]]
  OBVIOUS
<1> HIDE DEF v
<1> DEFINE N == {i \in Nat : i <= m => v[i] \in Nat}
<1>11. 0 \in N
  BY <1>8
<1>12. ASSUME NEW i \in Nat, i \in N PROVE i + 1 \in N
  <2> SUFFICES ASSUME i + 1 <= m PROVE v[i + 1] \in Nat
    OBVIOUS
  <2>1. v[i] \in Nat /\ i + 1 \in 1 .. m /\ (i + 1) - 1 = i
    BY <1>12
  <2>2. v[i + 1] = v[i] * Radix + s[i + 1] /\ s[i + 1] \in Nat
    BY <1>1, <1>9, <2>1
  <2> QED
    BY <2>1, <2>2, RadixIs
<1>13. \A i \in 0 .. m : v[i] \in Nat
  <2>1. \A i \in N : i <= m => v[i] \in Nat
    OBVIOUS
  <2> HIDE DEF N
  <2>2. Nat \subseteq N
    BY <1>11, <1>12, Induction
  <2> QED
    BY <2>1, <2>2
<1> QED
  BY <1>2, <1>8, <1>9, <1>10, <1>13 DEF Reads

LEMMA PutUintIs ==
  ASSUME NEW n \in Int, NEW w \in Nat
  PROVE  /\ PutUint(n, w) \in Bytes(w)
         /\ \A i \in 1 .. w : PutUint(n, w)[i] = ShiftRight(n, w - i) % Radix
<1>1. \A i \in 1 .. w : w - i \in Nat
  OBVIOUS
<1>2. \A i \in 1 .. w : ShiftRight(n, w - i) % Radix \in Byte
  BY <1>1, ShiftSteps, DigitIs
<1>3. PutUint(n, w) \in [1 .. w -> Byte]
      /\ PutUint(n, w) = [i \in 1 .. w |-> PutUint(n, w)[i]]
  BY <1>2 DEF PutUint
<1>4. PutUint(n, w) \in Seq(Byte) /\ Len(PutUint(n, w)) = w
  BY <1>3, LengthOf, SeqDef
<1> QED
  BY <1>4 DEF Bytes, PutUint

\* A number that fits its bytes is read as it was written.
LEMMA NumberKept ==
  ASSUME NEW w \in Nat, NEW n, Fits(n, w)
  PROVE  PutUint(n, w) \in Bytes(w) /\ Uint(PutUint(n, w)) = n
<1> DEFINE s == PutUint(n, w)
<1>1. n \in Int /\ ShiftRight(n, w) = 0
  BY DEF Fits
<1>2. s \in Bytes(w) /\ \A i \in 1 .. w : s[i] = ShiftRight(n, w - i) % Radix
  BY <1>1, PutUintIs
<1> HIDE DEF s
<1>3. PICK v : Reads(v, s, w) /\ Uint(s) = v[w]
  BY <1>2, UintSteps
<1> DEFINE N == {k \in Nat : k <= w => v[k] = ShiftRight(n, w - k)}
<1>4. 0 \in N
  BY <1>1, <1>3 DEF Reads
<1>5. ASSUME NEW k \in Nat, k \in N PROVE k + 1 \in N
  <2> SUFFICES ASSUME k + 1 <= w PROVE v[k + 1] = ShiftRight(n, w - (k + 1))
    OBVIOUS
  <2> DEFINE j == w - (k + 1)
  <2>1. j \in Nat /\ j + 1 = w - k /\ k + 1 \in 1 .. w /\ (k + 1) - 1 = k
    OBVIOUS
  <2>2. v[k] = ShiftRight(n, j + 1)
    BY <1>5, <2>1
  <2>3. s[k + 1] = ShiftRight(n, j) % Radix
    BY <1>2, <2>1
  <2> HIDE DEF j
  <2>4. v[k + 1] = v[k] * Radix + s[k + 1]
    BY <1>3, <2>1 DEF Reads
  <2>5. ShiftRight(n, j) \in Int /\ ShiftRight(n, j + 1) = ShiftRight(n, j) \div Radix
    BY <1>1, <2>1, ShiftSteps
  <2>6. v[k + 1] = ShiftRight(n, j)
    BY <2>2, <2>3, <2>4, <2>5, DigitIs
  <2> QED
    BY <2>6 DEF j
<1>6. w \in N
  <2> HIDE DEF N
  <2> QED
    BY <1>4, <1>5, Induction
<1>7. v[w] = ShiftRight(n, 0)
  BY <1>6
<1>8. Uint(s) = n
  BY <1>1, <1>3, <1>7, ShiftSteps
<1> QED
  BY <1>2, <1>8 DEF s

\* Of other numbers, four bytes keep the low four digits.
LEMMA LowDigit ==
  ASSUME NEW n \in Int, NEW s \in Int, NEW P \in Nat, NEW u \in Nat, u < P,
         n = s * P + u
  PROVE  /\ P * Radix \in Nat /\ (s % Radix) * P + u \in Nat
         /\ (s % Radix) * P + u < P * Radix
         /\ n = (s \div Radix) * (P * Radix) + ((s % Radix) * P + u)
<1> DEFINE t == s \div Radix
           d == s % Radix
<1>1. Radix \in Nat /\ t \in Int /\ d \in Nat /\ d <= Radix - 1 /\ s = t * Radix + d
  BY DigitIs, RadixIs DEF Byte
<1> HIDE DEF t, d
<1>2. s * P = t * (P * Radix) + d * P
  BY <1>1
<1>3. d * P \in Nat /\ P * Radix \in Nat
  BY <1>1
<1>4. d * P + P <= P * Radix
  <2>1. (d + 1) * P = d * P + P /\ (d + 1) * P <= Radix * P /\ Radix * P = P * Radix
    BY <1>1, Multiples
  <2> QED
    BY <2>1
<1>5. n = t * (P * Radix) + (d * P + u)
  <2> DEFINE a == t * (P * Radix)
             b == d * P
             c == s * P
  <2>1. a \in Int /\ b \in Int /\ c = a + b /\ n = c + u
    BY <1>1, <1>2, <1>3
  <2> HIDE DEF a, b, c
  <2>2. n = a + (b + u)
    BY <2>1
  <2> QED
    BY <2>2 DEF a, b
<1>6. d * P + u \in Nat /\ d * P + u < P * Radix
  BY <1>3, <1>4
<1> QED
  BY <1>3, <1>5, <1>6 DEF t, d

LEMMA Remainder ==
  ASSUME NEW n \in Int, NEW q \in Int, NEW M \in Nat, NEW v \in Nat, v < M, n = q * M + v
  PROVE  n % M = v
<1> DEFINE p == n \div M
           r == n % M
<1>1. p \in Int /\ r \in Nat /\ r < M /\ n = p * M + r
  OBVIOUS
<1> HIDE DEF p, r
<1>2. (q - p) * M = r - v
  <2>1. (q - p) * M = q * M - p * M /\ q * M \in Int /\ p * M \in Int
    BY <1>1
  <2> QED
    BY <1>1, <2>1
<1>3. CASE q - p >= 1
  <2>1. (q - p) * M = M + (q - p - 1) * M /\ (q - p - 1) * M \in Nat
    BY <1>1, <1>3
  <2> QED
    BY <1>1, <1>2, <2>1
<1>4. CASE q - p <= -1
  <2>1. (q - p) * M = -M - (p - q - 1) * M /\ (p - q - 1) * M \in Nat
    BY <1>1, <1>4
  <2> QED
    BY <1>1, <1>2, <2>1
<1>5. CASE q = p
  BY <1>1, <1>2, <1>5
<1>6. q - p >= 1 \/ q - p <= -1 \/ q = p
  BY <1>1
<1>7. r = v
  BY <1>3, <1>4, <1>5, <1>6 DEF r
<1> QED
  BY <1>7 DEF r

LEMMA LowFour ==
  ASSUME NEW n \in Int
  PROVE  PutUint(n, 4) \in Bytes(4) /\ Uint(PutUint(n, 4)) = Uint32(n)
<1> DEFINE R == Radix
           s == PutUint(n, 4)
           sh(k) == ShiftRight(n, k)
           d(k) == sh(k) % R
<1>1. R \in Nat /\ 1 < R
  BY RadixIs
<1>2. s \in Bytes(4) /\ s[1] = d(3) /\ s[2] = d(2) /\ s[3] = d(1) /\ s[4] = d(0)
  BY PutUintIs
<1>3. /\ sh(0) = n /\ sh(0) \in Int /\ sh(1) \in Int /\ sh(2) \in Int /\ sh(3) \in Int
      /\ sh(0 + 1) = sh(0) \div R /\ sh(1 + 1) = sh(1) \div R
      /\ sh(2 + 1) = sh(2) \div R /\ sh(3 + 1) = sh(3) \div R
  BY ShiftSteps
<1>4. sh(1) = sh(0) \div R /\ sh(2) = sh(1) \div R /\ sh(3) = sh(2) \div R
  BY <1>3
<1>5. d(0) \in Nat /\ d(1) \in Nat /\ d(2) \in Nat /\ d(3) \in Nat
  BY <1>1, <1>3
<1> HIDE DEF s, sh
<1>6. PICK v : Reads(v, s, 4) /\ Uint(s) = v[4]
  BY <1>2, UintSteps
<1>7. Uint(s) = ((d(3) * R + d(2)) * R + d(1)) * R + d(0)
  <2>1. /\ v[0] = 0 /\ v[1] = v[0] * R + s[1] /\ v[2] = v[1] * R + s[2]
        /\ v[3] = v[2] * R + s[3] /\ v[4] = v[3] * R + s[4]
    <3>1. \A i \in 1 .. 4 : v[i] = v[i - 1] * R + s[i]
      BY <1>6 DEF Reads
    <3>2. v[0] = 0
      BY <1>6 DEF Reads
    <3>3. v[1] = v[1 - 1] * R + s[1] /\ v[2] = v[2 - 1] * R + s[2]
          /\ v[3] = v[3 - 1] * R + s[3] /\ v[4] = v[4 - 1] * R + s[4]
      BY <3>1
    <3> QED
      BY <3>2, <3>3
  <2>2. v[1] = d(3)
    BY <1>1, <1>2, <1>5, <2>1
  <2> HIDE DEF d
  <2>3. v[2] = d(3) * R + d(2)
    BY <1>2, <2>1, <2>2
  <2>4. v[3] = (d(3) * R + d(2)) * R + d(1)
    BY <1>2, <2>1, <2>3
  <2> QED
    BY <1>2, <1>6, <2>1, <2>4
<1> DEFINE u1 == d(0)
           u2 == d(1) * R + u1
           u3 == d(2) * (R * R) + u2
           u4 == d(3) * (R * R * R) + u3
<1>8. u1 \in Nat /\ u1 < R /\ n = sh(1) * R + u1
  <2>1. n = (n \div R) * R + (n % R) /\ n % R \in 0 .. R - 1
    BY DigitIs DEF Byte
  <2> QED
    BY <1>1, <1>3, <1>4, <2>1
<1> HIDE DEF u1
<1>9. R * R \in Nat /\ u2 \in Nat /\ u2 < R * R /\ n = sh(2) * (R * R) + u2
  <2>1. /\ R * Radix \in Nat /\ (sh(1) % Radix) * R + u1 \in Nat
        /\ (sh(1) % Radix) * R + u1 < R * Radix
        /\ n = (sh(1) \div Radix) * (R * Radix) + ((sh(1) % Radix) * R + u1)
    <3>1. sh(1) \in Int /\ R \in Nat
      BY <1>1, <1>3
    <3> QED
      BY <1>8, <3>1, LowDigit
  <2> QED
    BY <1>4, <2>1
<1> HIDE DEF u2
<1>10. R * R * R \in Nat /\ u3 \in Nat /\ u3 < R * R * R /\ n = sh(3) * (R * R * R) + u3
  BY <1>1, <1>3, <1>4, <1>9, LowDigit
<1> HIDE DEF u3
<1>11. /\ R * R * R * R \in Nat /\ u4 \in Nat /\ u4 < R * R * R * R
       /\ n = (sh(3) \div R) * (R * R * R * R) + u4
  BY <1>1, <1>3, <1>4, <1>10, LowDigit
<1> HIDE DEF u4
<1>12. n % (R * R * R * R) = u4
  <2>1. sh(3) \div R \in Int
    BY <1>3, DigitIs
  <2> QED
    BY <1>11, <2>1, Remainder
<1> HIDE DEF d
<1>13. Uint(s) = u4
  <2>1. (d(3) * R + d(2)) * R + d(1) = d(3) * (R * R) + d(2) * R + d(1)
    BY <1>1, <1>5
  <2>2. ((d(3) * R + d(2)) * R + d(1)) * R
          = d(3) * (R * R * R) + d(2) * (R * R) + d(1) * R
    BY <1>1, <1>5
  <2> QED
    BY <1>1, <1>5, <1>7, <2>2 DEF u1, u2, u3, u4
<1> QED
  BY <1>2, <1>12, <1>13 DEF s, Uint32

-----------------------------------------------------------------------------
(* Announcements.                                                           *)

\* s has m bytes, and field by field what is in its places.
Fields(s, m, places) ==
  /\ m \in Nat /\ s \in Bytes(m)
  /\ \A p \in places : /\ p[1] \in Nat /\ p[2] \in Nat /\ p[1] <= p[2] /\ p[2] <= m
                       /\ Slice(s, p[1], p[2]) = p[3]

LEMMA FirstField ==
  ASSUME NEW n \in Nat, NEW t \in Bytes(n)
  PROVE  Fields(t, n, {<<0, n, t>>})
  BY WholeField DEF Fields

LEMMA NextField ==
  ASSUME NEW s, NEW m, NEW places, Fields(s, m, places),
         NEW n \in Nat, NEW t \in Bytes(n), NEW k, k = m + n
  PROVE  Fields(s \o t, k, places \cup {<<m, k, t>>})
<1>1. m \in Nat /\ s \in Bytes(m) /\ k \in Nat /\ m <= k
  BY DEF Fields
<1>2. s \o t \in Bytes(k)
  BY <1>1, Joined
<1>3. Slice(s \o t, m, k) = t
  <2>1. Slice(s \o t, m + 0, m + n) = Slice(t, 0, n)
    BY <1>1, FieldOfSecond
  <2>2. m + 0 = m
    BY <1>1
  <2> QED
    BY <2>1, <2>2, WholeField
<1>4. ASSUME NEW p \in places
      PROVE  /\ p[1] \in Nat /\ p[2] \in Nat /\ p[1] <= p[2] /\ p[2] <= k
             /\ Slice(s \o t, p[1], p[2]) = p[3]
  <2>1. /\ p[1] \in Nat /\ p[2] \in Nat /\ p[1] <= p[2] /\ p[2] <= m
        /\ Slice(s, p[1], p[2]) = p[3]
    BY DEF Fields
  <2>2. Slice(s \o t, p[1], p[2]) = Slice(s, p[1], p[2])
    BY <1>1, <2>1, FieldOfFirst
  <2> QED
    BY <1>1, <2>1, <2>2
<1> QED
  BY <1>1, <1>2, <1>3, <1>4 DEF Fields

LEMMA IntToByteIs ==
  ASSUME NEW n \in Int, NEW w \in {2, 4, 8}
  PROVE  IntToByte(n, w) = PutUint(n, w) /\ IntToByte(n, w) \in Bytes(w)
<1>1. PutUint(n, w) \in Bytes(w)
  BY PutUintIs
<1>2. ASSUME NEW s \in Seq(Byte) PROVE s \o Zeros(0) = s
  <2>1. Zeros(0) \in [1 .. 0 -> Byte]
    BY DEF Zeros
  <2>2. Zeros(0) \in Seq(Byte) /\ Zeros(0) = <<>>
    BY <2>1, SeqDef
  <2> QED
    BY <2>2, ConcatEmptySeq
<1>3. PutUint(n, 2) \o Zeros(0) = PutUint(n, 2) /\ PutUint(n, 4) \o Zeros(0) = PutUint(n, 4)
  BY <1>2, PutUintIs DEF Bytes
<1>4. 2 - 2 = 0 /\ 4 - 4 = 0
  OBVIOUS
<1>5. IntToByte(n, w) = PutUint(n, w)
  BY <1>3, <1>4 DEF IntToByte
<1> QED
  BY <1>1, <1>5

LEMMA FieldKept ==
  ASSUME NEW n, NEW w \in {2, 4, 8}, Fits(n, w)
  PROVE  IntToByte(n, w) \in Bytes(w) /\ Uint(IntToByte(n, w)) = n
  BY IntToByteIs, NumberKept DEF Fits

Announcement(msg) ==
  /\ \A n \in {msg.ConnectionID, msg.Downloaded, msg.Left, msg.Uploaded} : Fits(n, 8)
  /\ \A n \in {msg.Action, msg.TransactionID, msg.Event, msg.Ip, msg.Key} : Fits(n, 4)
  /\ Fits(msg.Port, 2) /\ msg.NumWant \in Int
  /\ msg.Infohash \in Bytes(20) /\ msg.PeerId \in Bytes(20)

LEMMA AnnouncementKept ==
  ASSUME NEW msg, Announcement(msg)
  PROVE  AnnounceUnderstood(msg)
<1> DEFINE c == IntToByte(msg.ConnectionID, 8)
           a == IntToByte(msg.Action, 4)
           t == IntToByte(msg.TransactionID, 4)
           h == msg.Infohash
           p == msg.PeerId
           x == IntToByte(msg.Downloaded, 8)
           y == IntToByte(msg.Left, 8)
           z == IntToByte(msg.Uploaded, 8)
           e == IntToByte(msg.Event, 4)
           i == IntToByte(msg.Ip, 4)
           k == IntToByte(msg.Key, 4)
           w == IntToByte(msg.NumWant, 4)
           q == IntToByte(msg.Port, 2)
           f1 == c \o a
           f2 == f1 \o t
           f3 == f2 \o h
           f4 == f3 \o p
           m1 == x \o y
           m2 == m1 \o z
           f5 == f4 \o m2
           f6 == f5 \o e
           f7 == f6 \o i
           f8 == f7 \o k
           f9 == f8 \o w
           d == f9 \o q
<1>1. NewUdpAnnounceRequest(msg) = d
  BY DEF NewUdpAnnounceRequest, Transfer
<1>2. /\ c \in Bytes(8) /\ Uint(c) = msg.ConnectionID
      /\ a \in Bytes(4) /\ Uint(a) = msg.Action
      /\ t \in Bytes(4) /\ Uint(t) = msg.TransactionID
      /\ h \in Bytes(20) /\ p \in Bytes(20)
  BY FieldKept DEF Announcement
<1>3. /\ x \in Bytes(8) /\ Uint(x) = msg.Downloaded
      /\ y \in Bytes(8) /\ Uint(y) = msg.Left
      /\ z \in Bytes(8) /\ Uint(z) = msg.Uploaded
  BY FieldKept DEF Announcement
<1>4. /\ e \in Bytes(4) /\ Uint(e) = msg.Event
      /\ i \in Bytes(4) /\ Uint(i) = msg.Ip
      /\ k \in Bytes(4) /\ Uint(k) = msg.Key
      /\ q \in Bytes(2) /\ Uint(q) = msg.Port
  BY FieldKept DEF Announcement
<1>5. w \in Bytes(4) /\ Uint(w) = Uint32(msg.NumWant)
  BY IntToByteIs, LowFour DEF Announcement
<1> HIDE DEF c, a, t, h, p, x, y, z, e, i, k, w, q, f1, f2, f3, f4, f5, f6, f7, f8, f9, m1, m2, d
<1>6. \E g : Fields(f4, 56, g) /\ {<<0, 8, c>>, <<8, 12, a>>, <<12, 16, t>>, <<16, 36, h>>, <<36, 56, p>>} \subseteq g
  <2> DEFINE g0 == {<<0, 8, c>>}
             g1 == g0 \cup {<<8, 12, a>>}
             g2 == g1 \cup {<<12, 16, t>>}
             g3 == g2 \cup {<<16, 36, h>>}
             g4 == g3 \cup {<<36, 56, p>>}
  <2>1. {<<0, 8, c>>, <<8, 12, a>>, <<12, 16, t>>, <<16, 36, h>>, <<36, 56, p>>} \subseteq g4
    OBVIOUS
  <2>2. Fields(c, 8, g0)
    BY <1>2, FirstField
  <2> HIDE DEF g0
  <2>3. Fields(f1, 12, g1)
    BY <1>2, <2>2, NextField DEF f1
  <2> HIDE DEF g1
  <2>4. Fields(f2, 16, g2)
    BY <1>2, <2>3, NextField DEF f2
  <2> HIDE DEF g2
  <2>5. Fields(f3, 36, g3)
    BY <1>2, <2>4, NextField DEF f3
  <2> HIDE DEF g3
  <2>6. Fields(f4, 56, g4)
    BY <1>2, <2>5, NextField DEF f4
  <2> HIDE DEF g4
  <2> QED
    BY <2>1, <2>6
<1>7. f5 = ((f4 \o x) \o y) \o z
  <2>1. f4 \in Seq(Byte) /\ x \in Seq(Byte) /\ y \in Seq(Byte) /\ z \in Seq(Byte)
    BY <1>3, <1>6 DEF Fields, Bytes
  <2>2. f4 \o ((x \o y) \o z) = ((f4 \o x) \o y) \o z
    <3>1. PICK u, v : u = f4 \o ((x \o y) \o z) /\ v = ((f4 \o x) \o y) \o z
      OBVIOUS
    <3>2. /\ u \in Seq(Byte) /\ v \in Seq(Byte) /\ Len(u) = Len(v)
          /\ \A l \in 1 .. Len(u) : u[l] = v[l]
      BY <2>1, <3>1
    <3> QED
      BY <3>1, <3>2, SeqEqual
  <2>3. f5 = f4 \o ((x \o y) \o z)
    BY DEF f5, m2, m1
  <2> QED
    BY <2>2, <2>3, Zenon
<1> DEFINE places ==
      {<<0, 8, c>>, <<8, 12, a>>, <<12, 16, t>>, <<16, 36, h>>, <<36, 56, p>>,
       <<56, 64, x>>, <<64, 72, y>>, <<72, 80, z>>, <<80, 84, e>>, <<84, 88, i>>,
       <<88, 92, k>>, <<92, 96, w>>, <<96, 98, q>>}
<1>8. \E g : Fields(d, 98, g) /\ places \subseteq g
  <2>1. PICK g4 : /\ Fields(f4, 56, g4)
                  /\ {<<0, 8, c>>, <<8, 12, a>>, <<12, 16, t>>, <<16, 36, h>>, <<36, 56, p>>} \subseteq g4
    BY <1>6
  <2> DEFINE s1 == f4 \o x
             s2 == s1 \o y
             g5 == g4 \cup {<<56, 64, x>>}
             g6 == g5 \cup {<<64, 72, y>>}
             g7 == g6 \cup {<<72, 80, z>>}
             g8 == g7 \cup {<<80, 84, e>>}
             g9 == g8 \cup {<<84, 88, i>>}
             g10 == g9 \cup {<<88, 92, k>>}
             g11 == g10 \cup {<<92, 96, w>>}
             g12 == g11 \cup {<<96, 98, q>>}
  <2>2. places \subseteq g12
    BY <2>1
  <2>3. Fields(s1, 64, g5)
    BY <1>3, <2>1, NextField
  <2> HIDE DEF g5, s1
  <2>4. Fields(s2, 72, g6)
    BY <1>3, <2>3, NextField
  <2> HIDE DEF g6, s2
  <2>5. f5 = s2 \o z
    BY <1>7 DEF s1, s2
  <2>6. Fields(f5, 80, g7)
    <3>1. Fields(s2 \o z, 80, g7)
      BY <1>3, <2>4, NextField
    <3> QED
      BY <2>5, <3>1
  <2> HIDE DEF g7
  <2>7. Fields(f6, 84, g8)
    BY <1>4, <2>6, NextField DEF f6
  <2> HIDE DEF g8
  <2>8. Fields(f7, 88, g9)
    BY <1>4, <2>7, NextField DEF f7
  <2> HIDE DEF g9
  <2>9. Fields(f8, 92, g10)
    BY <1>4, <2>8, NextField DEF f8
  <2> HIDE DEF g10
  <2>10. Fields(f9, 96, g11)
    BY <1>5, <2>9, NextField DEF f9
  <2> HIDE DEF g11
  <2>11. Fields(d, 98, g12)
    BY <1>4, <2>10, NextField DEF d
  <2> HIDE DEF g12, places
  <2> QED
    BY <2>2, <2>11
<1>9. /\ d \in Bytes(98)
      /\ Slice(d, 0, 8) = c /\ Slice(d, 8, 12) = a /\ Slice(d, 12, 16) = t
      /\ Slice(d, 16, 36) = h /\ Slice(d, 36, 56) = p /\ Slice(d, 56, 64) = x
      /\ Slice(d, 64, 72) = y /\ Slice(d, 72, 80) = z /\ Slice(d, 80, 84) = e
      /\ Slice(d, 84, 88) = i /\ Slice(d, 88, 92) = k /\ Slice(d, 92, 96) = w
      /\ Slice(d, 96, 98) = q
  <2>1. \A l \in places : Slice(d, l[1], l[2]) = l[3]
    BY <1>8 DEF Fields
  <2>2. ASSUME NEW m, NEW n, NEW v, <<m, n, v>> \in places
        PROVE  Slice(d, m, n) = v
    BY <2>1, <2>2
  <2>3. /\ <<0, 8, c>> \in places /\ <<8, 12, a>> \in places /\ <<12, 16, t>> \in places
        /\ <<16, 36, h>> \in places /\ <<36, 56, p>> \in places /\ <<56, 64, x>> \in places
        /\ <<64, 72, y>> \in places /\ <<72, 80, z>> \in places /\ <<80, 84, e>> \in places
        /\ <<84, 88, i>> \in places /\ <<88, 92, k>> \in places /\ <<92, 96, w>> \in places
        /\ <<96, 98, q>> \in places
    OBVIOUS
  <2>4. d \in Bytes(98)
    BY <1>8 DEF Fields
  <2> HIDE DEF places
  <2> QED
    BY <2>2, <2>3, <2>4
<1>10. Len(d) = 98
  BY <1>9 DEF Bytes
<1> HIDE DEF places
<1> QED
  BY <1>1, <1>2, <1>3, <1>4, <1>5, <1>9, <1>10 DEF AnnounceUnderstood, h, p

\* The answer to a connection, and the request for it.
LEMMA ConnectionIsKept ==
  ASSUME NEW msg, Announcement(msg)
  PROVE  ConnectionKept(msg)
<1> DEFINE o == PutUint(0, 4)
           t == PutUint(msg.TransactionID, 4)
           c == PutUint(msg.ConnectionID, 8)
           front == o \o t
           answer == front \o c
<1>1. o \in Bytes(4) /\ t \in Bytes(4)
  BY PutUintIs DEF Announcement, Fits
<1>2. c \in Bytes(8) /\ Uint(c) = msg.ConnectionID
  BY NumberKept DEF Announcement
<1> HIDE DEF o, t, c
<1>3. front \in Bytes(8)
  <2>1. front \in Bytes(4 + 4)
    BY <1>1, Joined
  <2> QED
    BY <2>1
<1>4. Slice(answer, 8, 16) = c
  <2> HIDE DEF front
  <2>1. Slice(answer, 8 + 0, 8 + 8) = Slice(c, 0, 8)
    BY <1>2, <1>3, FieldOfSecond
  <2> HIDE DEF answer
  <2> QED
    BY <1>2, <2>1, WholeField
<1>5. Len(NewUdpConnectionRequest(msg.TransactionID)) = 16
  <2> DEFINE u == IntToByte(udpProtocolId, 8)
             v == IntToByte(0, 4)
             w == IntToByte(msg.TransactionID, 4)
             f == u \o v
             r == f \o w
  <2>1. u \in Bytes(8) /\ v \in Bytes(4) /\ w \in Bytes(4)
    BY IntToByteIs, BufferAssumption DEF Announcement, Fits
  <2> HIDE DEF u, v, w
  <2>2. f \in Bytes(8 + 4)
    BY <2>1, Joined
  <2>3. f \in Bytes(12)
    BY <2>2
  <2> HIDE DEF f
  <2>4. r \in Bytes(12 + 4)
    BY <2>1, <2>3, Joined
  <2>5. Len(r) = 16
    <3> HIDE DEF r
    <3> QED
      BY <2>4 DEF Bytes
  <2> QED
    BY <2>5 DEF NewUdpConnectionRequest, u, v, w, f, r
<1> HIDE DEF answer
<1>6. ParseUdpConnectionResponse(answer).ConnectionID = msg.ConnectionID
  BY <1>2, <1>4 DEF ParseUdpConnectionResponse
<1> QED
  BY <1>5, <1>6 DEF ConnectionKept, answer, front, o, t, c

-----------------------------------------------------------------------------
(* Answers.                                                                 *)

\* Sequences that are joined one after the other.
Joins(f, ss, n) == f[0] = <<>> /\ \A i \in 1 .. n : f[i] = f[i - 1] \o ss[i]

LEMMA FlattenSteps ==
  ASSUME NEW n \in Nat, NEW S, NEW ss \in [1 .. n -> Seq(S)]
  PROVE  \E f \in [0 .. n -> Seq(S)] : Joins(f, ss, n) /\ FlattenSeq(ss) = f[n]
<1> DEFINE T == [x \in Seq(S) \X (1 .. n) |-> x[1] \o ss[x[2]]]
           IsFlat(g) == g = [i \in 1 .. n |-> IF i = 1 THEN ss[i] ELSE g[i - 1] \o ss[i]]
           flat == CHOOSE g : IsFlat(g)
<1>1. \A i \in 1 .. n : ss[i] \in Seq(S)
  OBVIOUS
<1>2. /\ T \in [Seq(S) \X (1 .. n) -> Seq(S)]
      /\ \A s \in Seq(S), i \in 1 .. n : T[<<s, i>>] = s \o ss[i]
  <2>1. ASSUME NEW s \in Seq(S), NEW t \in Seq(S) PROVE s \o t \in Seq(S)
    OBVIOUS
  <2>2. \A s \in Seq(S), i \in 1 .. n : s \o ss[i] \in Seq(S)
    BY <1>1, <2>1
  <2> QED
    BY <2>2
<1> HIDE DEF T
<1>3. <<>> \in Seq(S)
  OBVIOUS
<1>4. PICK f \in [0 .. n -> Seq(S)] : Recursive(f, T, <<>>, n)
  BY <1>2, <1>3, RecursionExists
<1>5. f[0] = <<>>
  BY <1>4 DEF Recursive
<1>6. ASSUME NEW i \in 1 .. n PROVE f[i] = f[i - 1] \o ss[i]
  <2>1. i - 1 \in 0 .. n
    OBVIOUS
  <2>2. f[i - 1] \in Seq(S)
    BY <1>4, <2>1, Zenon
  <2>3. f[i] = T[<<f[i - 1], i>>]
    BY <1>4, Zenon DEF Recursive
  <2> QED
    BY <1>2, <2>2, <2>3, Zenon
<1>7. CASE n = 0
  <2>1. Len(ss) = 0 /\ ss = <<>>
    BY <1>7
  <2>2. FlattenSeq(ss) = <<>>
    BY <2>1 DEF FlattenSeq
  <2> QED
    BY <1>5, <1>6, <1>7, <2>2 DEF Joins
<1>8. CASE n # 0
  <2>0. f[1] = ss[1]
    <3>1. 1 \in 1 .. n /\ 1 - 1 = 0
      BY <1>8
    <3>2. ss[1] \in Seq(S) /\ f[1] = <<>> \o ss[1]
      BY <1>1, <1>5, <1>6, <3>1, Zenon
    <3> QED
      BY <3>2, ConcatEmptySeq, Zenon
  <2>1. Len(ss) = n
    <3>1. ss = [i \in 1 .. n |-> ss[i]]
      OBVIOUS
    <3> QED
      BY <3>1, LengthOf
  <2>2. FlattenSeq(ss) = flat[n]
    BY <1>8, <2>1 DEF FlattenSeq
  <2>3. IsFlat(flat)
    <3> DEFINE g == [i \in 1 .. n |-> f[i]]
    <3>1. ASSUME NEW i \in 1 .. n PROVE g[i] = IF i = 1 THEN ss[i] ELSE g[i - 1] \o ss[i]
      <4>1. CASE i = 1
        BY <2>0, <4>1
      <4>2. CASE i # 1
        <5>1. i - 1 \in 1 .. n
          BY <4>2
        <5> QED
          BY <1>6, <4>2, <5>1
      <4> QED
        BY <4>1, <4>2
    <3>2. g = [i \in 1 .. n |-> g[i]]
      OBVIOUS
    <3> HIDE DEF g
    <3>3. IsFlat(g)
      BY <3>1, <3>2
    <3> QED
      BY <3>3
  <2>4. \A i \in 1 .. n : flat[i] = IF i = 1 THEN ss[i] ELSE flat[i - 1] \o ss[i]
    BY <2>3
  <2> HIDE DEF flat, IsFlat
  <2> DEFINE N == {i \in Nat : i + 1 <= n => flat[i + 1] = f[i + 1]}
  <2>5. 0 \in N
    <3>1. flat[1] = ss[1]
      BY <1>8, <2>4
    <3> QED
      BY <2>0, <3>1
  <2>6. ASSUME NEW i \in Nat, i \in N PROVE i + 1 \in N
    <3> SUFFICES ASSUME i + 1 + 1 <= n PROVE flat[i + 1 + 1] = f[i + 1 + 1]
      OBVIOUS
    <3>1. i + 1 + 1 \in 1 .. n /\ i + 1 + 1 # 1 /\ (i + 1 + 1) - 1 = i + 1
      OBVIOUS
    <3>2. flat[i + 1] = f[i + 1]
      BY <2>6, <3>1
    <3> HIDE DEF N
    <3>3. flat[i + 1 + 1] = flat[i + 1] \o ss[i + 1 + 1]
      BY <2>4, <3>1
    <3>4. f[i + 1 + 1] = f[i + 1] \o ss[i + 1 + 1]
      BY <1>6, <3>1
    <3> QED
      BY <3>2, <3>3, <3>4
  <2>7. n - 1 \in N
    <3> HIDE DEF N
    <3>1. Nat \subseteq N
      BY <2>5, <2>6, Induction
    <3> QED
      BY <1>8, <3>1
  <2>8. flat[n] = f[n]
    <3>1. (n - 1) + 1 = n
      OBVIOUS
    <3> QED
      BY <2>7, <3>1
  <2> QED
    BY <1>5, <1>6, <2>2, <2>8 DEF Joins
<1> QED
  BY <1>7, <1>8

\* Entries of six bytes.
LEMMA EntriesJoined ==
  ASSUME NEW n \in Nat, NEW ss \in [1 .. n -> Bytes(6)]
  PROVE  /\ FlattenSeq(ss) \in Bytes(6 * n)
         /\ \A j \in 1 .. n : Slice(FlattenSeq(ss), 6 * (j - 1), 6 * j) = ss[j]
<1>1. ss \in [1 .. n -> Seq(Byte)]
  BY DEF Bytes
<1>2. PICK f \in [0 .. n -> Seq(Byte)] : Joins(f, ss, n) /\ FlattenSeq(ss) = f[n]
  BY <1>1, FlattenSteps
<1> DEFINE N == {i \in Nat : i <= n => /\ f[i] \in Bytes(6 * i)
                                      /\ \A j \in 1 .. i : Slice(f[i], 6 * (j - 1), 6 * j) = ss[j]}
<1>3. 0 \in N
  <2>1. <<>> \in Bytes(0)
    BY DEF Bytes
  <2>2. f[0] = <<>> /\ 6 * 0 = 0
    BY <1>2 DEF Joins
  <2> QED
    BY <2>1, <2>2
<1>4. ASSUME NEW i \in Nat, i \in N PROVE i + 1 \in N
  <2> SUFFICES ASSUME i + 1 <= n
               PROVE  /\ f[i + 1] \in Bytes(6 * (i + 1))
                      /\ \A j \in 1 .. i + 1 : Slice(f[i + 1], 6 * (j - 1), 6 * j) = ss[j]
    OBVIOUS
  <2> DEFINE s == f[i]
             t == ss[i + 1]
             u == f[i + 1]
  <2>1. s \in Bytes(6 * i) /\ \A j \in 1 .. i : Slice(s, 6 * (j - 1), 6 * j) = ss[j]
    BY <1>4
  <2>2. i + 1 \in 1 .. n /\ (i + 1) - 1 = i
    OBVIOUS
  <2>3. t \in Bytes(6) /\ u = s \o t
    BY <1>2, <2>2 DEF Joins
  <2> HIDE DEF N, s, t
  <2>4. u \in Bytes(6 * i + 6)
    <3>1. s \o t \in Bytes(6 * i + 6)
      BY <2>1, <2>3, Joined
    <3> QED
      BY <2>3, <3>1
  <2>5. ASSUME NEW j \in 1 .. i PROVE Slice(u, 6 * (j - 1), 6 * j) = ss[j]
    <3>1. 6 * (j - 1) \in Nat /\ 6 * j \in Nat /\ 6 * (j - 1) <= 6 * j /\ 6 * j <= 6 * i
      OBVIOUS
    <3>2. Slice(s \o t, 6 * (j - 1), 6 * j) = Slice(s, 6 * (j - 1), 6 * j)
      BY <2>1, <2>3, <3>1, FieldOfFirst
    <3> QED
      BY <2>1, <2>3, <3>2
  <2>6. Slice(u, 6 * i, 6 * (i + 1)) = t
    <3>1. Slice(s \o t, 6 * i + 0, 6 * i + 6) = Slice(t, 0, 6)
      BY <2>1, <2>3, FieldOfSecond
    <3>2. 6 * i + 0 = 6 * i /\ 6 * i + 6 = 6 * (i + 1)
      OBVIOUS
    <3>3. Slice(t, 0, 6) = t
      BY <2>3, WholeField
    <3> QED
      BY <2>3, <3>1, <3>2, <3>3
  <2>7. \A j \in 1 .. i + 1 : j \in 1 .. i \/ j = i + 1
    OBVIOUS
  <2>8. Slice(u, 6 * ((i + 1) - 1), 6 * (i + 1)) = ss[i + 1]
    BY <2>2, <2>6 DEF t
  <2>9. 6 * (i + 1) = 6 * i + 6
    OBVIOUS
  <2> HIDE DEF u
  <2>10. /\ u \in Bytes(6 * (i + 1))
         /\ \A j \in 1 .. i + 1 : Slice(u, 6 * (j - 1), 6 * j) = ss[j]
    BY <2>4, <2>5, <2>7, <2>8, <2>9
  <2> QED
    BY <2>10 DEF u
<1>5. \A i \in N : i <= n => /\ f[i] \in Bytes(6 * i)
                             /\ \A j \in 1 .. i : Slice(f[i], 6 * (j - 1), 6 * j) = ss[j]
  OBVIOUS
<1> HIDE DEF N
<1>6. n \in N
  BY <1>3, <1>4, Induction
<1> QED
  BY <1>2, <1>5, <1>6

Header(h) ==
  /\ h \in [Action : Nat, TransactionID : Nat, Interval : Nat, NLeechers : Nat, NSeeders : Nat]
  /\ Fits(h.Action, 4) /\ Fits(h.TransactionID, 4) /\ Fits(h.Interval, 4)
  /\ Fits(h.NLeechers, 4) /\ Fits(h.NSeeders, 4)

\* The peers of an answer, n of them.
Swarm(peers, n) ==
  /\ n \in Nat /\ Len(peers) = n /\ peers \in Seq([ip : Seq(Byte), port : Nat])
  /\ \A i \in 1 .. n : /\ peers[i] \in [ip : Seq(Byte), port : Nat]
                       /\ peers[i].ip \in Bytes(4) /\ Fits(peers[i].port, 2)

\* A tracker's answer has its numbers in the first twenty bytes, and a peer in every
\* six bytes after them.
LEMMA AnswerIs ==
  ASSUME NEW h, Header(h), NEW n, NEW peers, Swarm(peers, n)
  PROVE  LET d == Answer(h, peers)
         IN  /\ d \in Bytes(20 + 6 * n)
             /\ Uint(Slice(d, 0, 4)) = h.Action /\ Uint(Slice(d, 4, 8)) = h.TransactionID
             /\ Uint(Slice(d, 8, 12)) = h.Interval /\ Uint(Slice(d, 12, 16)) = h.NLeechers
             /\ Uint(Slice(d, 16, 20)) = h.NSeeders
             /\ \A j \in 1 .. n :
                  NewPeerFromBytes(Slice(d, 20 + 6 * (j - 1), 20 + 6 * j)) = peers[j]
<1> DEFINE a == PutUint(h.Action, 4)
           t == PutUint(h.TransactionID, 4)
           i == PutUint(h.Interval, 4)
           l == PutUint(h.NLeechers, 4)
           s == PutUint(h.NSeeders, 4)
           f1 == a \o t
           f2 == f1 \o i
           f3 == f2 \o l
           f4 == f3 \o s
           entry(j) == peers[j].ip \o PutUint(peers[j].port, 2)
           ss == [j \in 1 .. n |-> entry(j)]
           rest == FlattenSeq(ss)
           d == f4 \o rest
<1>1. /\ n \in Nat /\ DOMAIN peers = 1 .. n
      /\ \A j \in 1 .. n : /\ peers[j] \in [ip : Seq(Byte), port : Nat]
                           /\ peers[j].ip \in Bytes(4) /\ Fits(peers[j].port, 2)
  BY LenProperties DEF Swarm
<1>2. Answer(h, peers) = d
  BY <1>1 DEF Answer
<1>3. /\ a \in Bytes(4) /\ Uint(a) = h.Action
      /\ t \in Bytes(4) /\ Uint(t) = h.TransactionID
      /\ i \in Bytes(4) /\ Uint(i) = h.Interval
      /\ l \in Bytes(4) /\ Uint(l) = h.NLeechers
      /\ s \in Bytes(4) /\ Uint(s) = h.NSeeders
  BY NumberKept DEF Header
<1> HIDE DEF a, t, i, l, s
<1> DEFINE places == {<<0, 4, a>>, <<4, 8, t>>, <<8, 12, i>>, <<12, 16, l>>, <<16, 20, s>>}
<1>4. \E g : Fields(f4, 20, g) /\ places \subseteq g
  <2> DEFINE g0 == {<<0, 4, a>>}
             g1 == g0 \cup {<<4, 8, t>>}
             g2 == g1 \cup {<<8, 12, i>>}
             g3 == g2 \cup {<<12, 16, l>>}
             g4 == g3 \cup {<<16, 20, s>>}
  <2> HIDE DEF f1, f2, f3, f4
  <2>1. places \subseteq g4
    OBVIOUS
  <2>2. Fields(a, 4, g0)
    BY <1>3, FirstField
  <2> HIDE DEF g0
  <2>3. Fields(f1, 8, g1)
    BY <1>3, <2>2, NextField DEF f1
  <2> HIDE DEF g1
  <2>4. Fields(f2, 12, g2)
    BY <1>3, <2>3, NextField DEF f2
  <2> HIDE DEF g2
  <2>5. Fields(f3, 16, g3)
    BY <1>3, <2>4, NextField DEF f3
  <2> HIDE DEF g3
  <2>6. Fields(f4, 20, g4)
    BY <1>3, <2>5, NextField DEF f4
  <2> HIDE DEF g4, places
  <2> QED
    BY <2>1, <2>6
<1> HIDE DEF f1, f2, f3, f4
<1>5. /\ f4 \in Bytes(20)
      /\ Slice(f4, 0, 4) = a /\ Slice(f4, 4, 8) = t /\ Slice(f4, 8, 12) = i
      /\ Slice(f4, 12, 16) = l /\ Slice(f4, 16, 20) = s
  <2>1. \A p \in places : Slice(f4, p[1], p[2]) = p[3]
    BY <1>4 DEF Fields
  <2>2. ASSUME NEW m, NEW k, NEW v, <<m, k, v>> \in places
        PROVE  Slice(f4, m, k) = v
    BY <2>1, <2>2
  <2>3. /\ <<0, 4, a>> \in places /\ <<4, 8, t>> \in places /\ <<8, 12, i>> \in places
        /\ <<12, 16, l>> \in places /\ <<16, 20, s>> \in places
    OBVIOUS
  <2>4. f4 \in Bytes(20)
    BY <1>4 DEF Fields
  <2> HIDE DEF places
  <2> QED
    BY <2>2, <2>3, <2>4
<1> HIDE DEF places
<1>6. ASSUME NEW j \in 1 .. n PROVE entry(j) \in Bytes(6) /\ NewPeerFromBytes(entry(j)) = peers[j]
  <2> DEFINE ip == peers[j].ip
             port == PutUint(peers[j].port, 2)
  <2>1. /\ ip \in Bytes(4) /\ port \in Bytes(2) /\ Uint(port) = peers[j].port
        /\ peers[j] = [ip |-> peers[j].ip, port |-> peers[j].port]
    BY <1>1, NumberKept
  <2> HIDE DEF ip, port
  <2>2. ip \o port \in Bytes(4 + 2)
    BY <2>1, Joined
  <2>3. Slice(ip \o port, 0, 4) = Slice(ip, 0, 4) /\ Slice(ip, 0, 4) = ip
    BY <2>1, FieldOfFirst, WholeField
  <2>4. Slice(ip \o port, 4 + 0, 4 + 2) = Slice(port, 0, 2) /\ Slice(port, 0, 2) = port
    BY <2>1, FieldOfSecond, WholeField
  <2>5. PICK e : e = ip \o port
    OBVIOUS
  <2>6. e \in Bytes(6) /\ Slice(e, 0, 4) = ip /\ Slice(e, 4, 6) = port
    BY <2>2, <2>3, <2>4, <2>5
  <2>7. NewPeerFromBytes(e) = peers[j]
    BY <2>1, <2>6 DEF NewPeerFromBytes, ip
  <2> QED
    BY <2>5, <2>6, <2>7 DEF ip, port
<1> HIDE DEF entry
<1>7. ss \in [1 .. n -> Bytes(6)] /\ \A j \in 1 .. n : ss[j] = entry(j)
  BY <1>6
<1> HIDE DEF ss
<1>8. rest \in Bytes(6 * n) /\ \A j \in 1 .. n : Slice(rest, 6 * (j - 1), 6 * j) = ss[j]
  BY <1>1, <1>7, EntriesJoined
<1> HIDE DEF rest
<1>9. 6 * n \in Nat /\ 20 + 6 * n \in Nat
  BY <1>1
<1>10. d \in Bytes(20 + 6 * n)
  BY <1>5, <1>8, <1>9, Joined
<1>11. /\ Slice(d, 0, 4) = a /\ Slice(d, 4, 8) = t /\ Slice(d, 8, 12) = i
       /\ Slice(d, 12, 16) = l /\ Slice(d, 16, 20) = s
  <2>1. ASSUME NEW m \in Nat, NEW k \in Nat, m <= k, k <= 20
        PROVE  Slice(d, m, k) = Slice(f4, m, k)
    BY <1>5, <1>8, <1>9, <2>1, FieldOfFirst
  <2> HIDE DEF d
  <2> QED
    BY <1>5, <2>1
<1>12. ASSUME NEW j \in 1 .. n
       PROVE  NewPeerFromBytes(Slice(d, 20 + 6 * (j - 1), 20 + 6 * j)) = peers[j]
  <2>1. /\ 6 * (j - 1) \in Nat /\ 6 * j \in Nat /\ 6 * (j - 1) <= 6 * j /\ 6 * j <= 6 * n
    BY <1>1
  <2>2. Slice(d, 20 + 6 * (j - 1), 20 + 6 * j) = Slice(rest, 6 * (j - 1), 6 * j)
    BY <1>5, <1>8, <1>9, <2>1, FieldOfSecond
  <2> HIDE DEF d
  <2>3. Slice(rest, 6 * (j - 1), 6 * j) = entry(j)
    BY <1>7, <1>8
  <2> QED
    BY <1>6, <2>2, <2>3
<1> HIDE DEF d
<1> QED
  BY <1>2, <1>3, <1>10, <1>11, <1>12

\* What is read of an answer that ends in the buffer, or is cut off by it.
LEMMA BufferIs ==
  ASSUME NEW n \in Nat, NEW d \in Bytes(n)
  PROVE  /\ Buffer(d) \in Bytes(BufferSize)
         /\ \A i, j \in Nat : i <= j /\ j <= n /\ j <= BufferSize
              => Slice(Buffer(d), i, j) = Slice(d, i, j)
<1>1. BufferSize \in Nat /\ d \in Seq(Byte) /\ Len(d) = n /\ \A k \in 1 .. n : d[k] \in Byte
  BY BufferAssumption DEF Bytes
<1>2. 0 \in Byte
  BY RadixIs DEF Byte
<1> DEFINE b == Buffer(d)
<1>3. /\ b = [k \in 1 .. BufferSize |-> b[k]] /\ b \in [1 .. BufferSize -> Byte]
      /\ \A k \in 1 .. BufferSize : k <= n => b[k] = d[k]
  <2>1. b = [k \in 1 .. BufferSize |-> IF k <= n THEN d[k] ELSE 0]
    BY <1>1 DEF Buffer
  <2>2. \A k \in 1 .. BufferSize : (IF k <= n THEN d[k] ELSE 0) \in Byte
    BY <1>1, <1>2
  <2> HIDE DEF b
  <2> QED
    BY <2>1, <2>2
<1> HIDE DEF b
<1>4. b \in Seq(Byte) /\ Len(b) = BufferSize
  BY <1>1, <1>3, LengthOf, SeqDef
<1>5. ASSUME NEW i \in Nat, NEW j \in Nat, i <= j, j <= n, j <= BufferSize
      PROVE  Slice(b, i, j) = Slice(d, i, j)
  <2>1. /\ Slice(b, i, j) \in Seq(Byte) /\ Len(Slice(b, i, j)) = j - i
        /\ \A k \in 1 .. j - i : Slice(b, i, j)[k] = b[i + k]
    <3>1. j <= Len(b)
      BY <1>4, <1>5
    <3> QED
      BY <1>4, <1>5, <3>1, SliceOf
  <2>2. /\ Slice(d, i, j) \in Seq(Byte) /\ Len(Slice(d, i, j)) = j - i
        /\ \A k \in 1 .. j - i : Slice(d, i, j)[k] = d[i + k]
    <3>1. j <= Len(d)
      BY <1>1, <1>5
    <3> QED
      BY <1>1, <1>5, <3>1, SliceOf
  <2>3. \A k \in 1 .. j - i : b[i + k] = d[i + k]
    BY <1>1, <1>3, <1>5
  <2> QED
    BY <2>1, <2>2, <2>3, SeqEqual
<1> QED
  BY <1>4, <1>5 DEF Bytes, b

LEMMA AnswerKept ==
  ASSUME NEW h, Header(h), NEW n, NEW peers, Swarm(peers, n)
  PROVE  AnswerUnderstood(h, peers)
<1> DEFINE d == Answer(h, peers)
           b == Buffer(d)
<1>1. /\ d \in Bytes(20 + 6 * n)
      /\ Uint(Slice(d, 0, 4)) = h.Action /\ Uint(Slice(d, 4, 8)) = h.TransactionID
      /\ Uint(Slice(d, 8, 12)) = h.Interval /\ Uint(Slice(d, 12, 16)) = h.NLeechers
      /\ Uint(Slice(d, 16, 20)) = h.NSeeders
  BY AnswerIs
<1> HIDE DEF d
<1>2. ASSUME NEW i \in Nat, NEW j \in Nat, i <= j, j <= 20
      PROVE  Slice(b, i, j) = Slice(d, i, j)
  <2>1. 20 + 6 * n \in Nat /\ j <= 20 + 6 * n
    BY <1>2 DEF Swarm
  <2>2. BufferSize \in Nat /\ j <= BufferSize
    BY <1>2, BufferAssumption
  <2> QED
    BY <1>1, <1>2, <2>1, <2>2, BufferIs
<1> HIDE DEF b
<1>3. /\ Uint(Slice(b, 0, 4)) = h.Action /\ Uint(Slice(b, 4, 8)) = h.TransactionID
      /\ Uint(Slice(b, 8, 12)) = h.Interval /\ Uint(Slice(b, 12, 16)) = h.NLeechers
      /\ Uint(Slice(b, 16, 20)) = h.NSeeders
  BY <1>1, <1>2
<1>4. h = [Action |-> h.Action, TransactionID |-> h.TransactionID, Interval |-> h.Interval,
           NLeechers |-> h.NLeechers, NSeeders |-> h.NSeeders]
  BY DEF Header
<1>5. ParseAnnounceResponseUdpMsg(b) = h
  BY <1>3, <1>4 DEF ParseAnnounceResponseUdpMsg
<1> QED
  BY <1>5 DEF AnswerUnderstood, b, d

\* The program reads six bytes for a peer from the 26th byte on: from the second
\* peer on.
LEMMA PeersRead ==
  ASSUME NEW h, Header(h), NEW n, NEW peers, Swarm(peers, n),
         NEW m \in Nat, m = 0 \/ m < n, 26 + 6 * m <= BufferSize
  PROVE  [i \in 1 .. m |-> NewPeerFromBytes(Slice(Buffer(Answer(h, peers)),
                                                  PeersFrom + 6 * (i - 1), PeersFrom + 6 * i))]
           = SubSeq(peers, 2, m + 1)
<1> DEFINE d == Answer(h, peers)
           b == Buffer(d)
           found == [i \in 1 .. m |-> NewPeerFromBytes(Slice(b, PeersFrom + 6 * (i - 1),
                                                              PeersFrom + 6 * i))]
           Entry == [ip : Seq(Byte), port : Nat]
<1>1. /\ n \in Nat /\ peers \in Seq(Entry) /\ Len(peers) = n /\ BufferSize \in Nat
      /\ \A i \in 1 .. n : peers[i] \in Entry
  BY BufferAssumption DEF Swarm
<1>2. /\ d \in Bytes(20 + 6 * n)
      /\ \A j \in 1 .. n : NewPeerFromBytes(Slice(d, 20 + 6 * (j - 1), 20 + 6 * j)) = peers[j]
  BY AnswerIs
<1> HIDE DEF d
<1>3. ASSUME NEW i \in Nat, NEW j \in Nat, i <= j, j <= 20 + 6 * n, j <= BufferSize
      PROVE  Slice(b, i, j) = Slice(d, i, j)
  <2>1. 20 + 6 * n \in Nat
    BY <1>1
  <2> QED
    BY <1>2, <1>3, <2>1, BufferIs
<1> HIDE DEF b
<1>4. ASSUME NEW i \in 1 .. m PROVE found[i] = peers[i + 1]
  <2> DEFINE from == PeersFrom + 6 * (i - 1)
             to == PeersFrom + 6 * i
  <2>1. /\ from \in Nat /\ to \in Nat /\ from <= to /\ to <= 20 + 6 * n /\ to <= BufferSize
        /\ from = 20 + 6 * ((i + 1) - 1) /\ to = 20 + 6 * (i + 1) /\ i + 1 \in 1 .. n
    BY <1>1 DEF PeersFrom
  <2>2. found[i] = NewPeerFromBytes(Slice(b, from, to))
    OBVIOUS
  <2> HIDE DEF from, to, found
  <2>3. Slice(b, from, to) = Slice(d, from, to)
    BY <1>3, <2>1
  <2>4. NewPeerFromBytes(Slice(d, from, to)) = peers[i + 1]
    BY <1>2, <2>1
  <2> QED
    BY <2>2, <2>3, <2>4
<1>5. /\ SubSeq(peers, 2, m + 1) \in Seq(Entry)
      /\ Len(SubSeq(peers, 2, m + 1)) = m
      /\ \A i \in 1 .. m : SubSeq(peers, 2, m + 1)[i] = peers[i + 1]
  <2>1. \A i \in 2 .. m + 1 : peers[i] \in Entry
    BY <1>1
  <2>2. /\ SubSeq(peers, 2, m + 1) \in Seq(Entry)
        /\ Len(SubSeq(peers, 2, m + 1)) = IF 2 <= m + 1 THEN (m + 1) - 2 + 1 ELSE 0
        /\ \A i \in 1 .. (m + 1) - 2 + 1 : SubSeq(peers, 2, m + 1)[i] = peers[2 + i - 1]
    BY <2>1, SubSeqProperties
  <2>3. (m + 1) - 2 + 1 = m /\ \A i \in 1 .. m : 2 + i - 1 = i + 1
    OBVIOUS
  <2> QED
    BY <2>2, <2>3
<1>6. found \in Seq(Entry) /\ Len(found) = m
  <2>1. \A i \in 1 .. m : i + 1 \in 1 .. n
    BY <1>1
  <2>2. found = [i \in 1 .. m |-> found[i]]
    OBVIOUS
  <2> HIDE DEF found
  <2>3. found \in [1 .. m -> Entry]
    BY <1>1, <1>4, <2>1, <2>2
  <2>4. found \in Seq(Entry)
    <3> HIDE DEF Entry
    <3> QED
      BY <2>3, SeqDef
  <2>5. Len(found) = m
    BY <2>2, LengthOf
  <2> QED
    BY <2>4, <2>5
<1>7. found = SubSeq(peers, 2, m + 1)
  <2> HIDE DEF found
  <2> QED
    BY <1>4, <1>5, <1>6, SeqEqual
<1> QED
  BY <1>7 DEF found, b, d

\* How many peers are read, of the bytes that are.
LEMMA PeersCounted ==
  ASSUME NEW n \in Nat, NEW z \in Nat, z = 20 + 6 * n
  PROVE  LET read == IF z < BufferSize THEN z ELSE BufferSize
             m == (PeersAddresses(read) + 5) \div 6
             fit == (BufferSize - 20) \div 6
         IN  /\ m \in Nat
             /\ z <= BufferSize => /\ 26 + 6 * m <= BufferSize
                                   /\ m = IF n = 0 THEN 0 ELSE n - 1
             /\ z > BufferSize /\ (BufferSize - 20) % 6 = 0
                  => 26 + 6 * m <= BufferSize /\ m < n /\ m + 1 = fit
             /\ z > BufferSize /\ (BufferSize - 20) % 6 # 0 => 26 + 6 * m > BufferSize
  BY BufferAssumption DEF PeersAddresses, PeersFrom

LEMMA PeersFound ==
  ASSUME NEW h, Header(h), NEW n, NEW peers, Swarm(peers, n)
  PROVE  PeersUnderstood(h, peers)
<1> DEFINE d == Answer(h, peers)
           z == 20 + 6 * n
           read == IF z < BufferSize THEN z ELSE BufferSize
           m == (PeersAddresses(read) + 5) \div 6
           fit == (BufferSize - 20) \div 6
           found == [i \in 1 .. m |-> NewPeerFromBytes(Slice(Buffer(d),
                                                  PeersFrom + 6 * (i - 1), PeersFrom + 6 * i))]
<1>1. n \in Nat /\ z \in Nat /\ BufferSize \in Nat
      /\ peers \in Seq([ip : Seq(Byte), port : Nat]) /\ Len(peers) = n
  BY BufferAssumption DEF Swarm
<1>2. d \in Bytes(z)
  BY AnswerIs
<1>3. Len(d) = z /\ BytesRead(d) = read
  <2> HIDE DEF d, z
  <2> QED
    BY <1>2 DEF Bytes, BytesRead
<1>4. PeersOf(d) = IF PeersFrom + 6 * m > BufferSize THEN Panic ELSE found
  BY <1>3, Zenon DEF PeersOf, CreatePeersFromUDPTracker
<1>5. /\ m \in Nat
      /\ z <= BufferSize => 26 + 6 * m <= BufferSize /\ m = IF n = 0 THEN 0 ELSE n - 1
      /\ z > BufferSize /\ (BufferSize - 20) % 6 = 0
           => 26 + 6 * m <= BufferSize /\ m < n /\ m + 1 = fit
      /\ z > BufferSize /\ (BufferSize - 20) % 6 # 0 => 26 + 6 * m > BufferSize
  BY <1>1, PeersCounted
<1> HIDE DEF m, read
<1>6. (m = 0 \/ m < n) /\ 26 + 6 * m <= BufferSize => found = SubSeq(peers, 2, m + 1)
  BY <1>5, PeersRead
<1> HIDE DEF d, z, fit, found
<1>7. CASE z <= BufferSize
  <2>1. PeersOf(d) = SubSeq(peers, 2, m + 1)
    BY <1>1, <1>4, <1>5, <1>6, <1>7 DEF PeersFrom
  <2>2. SubSeq(peers, 2, m + 1) = IF peers = <<>> THEN <<>> ELSE Tail(peers)
    <3>1. CASE n = 0
      <4>1. peers = <<>>
        BY <1>1, <3>1, EmptySeq
      <4>2. m + 1 = 1
        BY <1>5, <1>7, <3>1
      <4> QED
        BY <4>1, <4>2, SubSeqEmpty
    <3>2. CASE n # 0
      <4>1. peers # <<>>
        BY <1>1, <3>2, EmptySeq
      <4>2. m + 1 = n
        BY <1>1, <1>5, <1>7, <3>2
      <4> QED
        BY <1>1, <4>1, <4>2, TailIsSubSeq
    <3> QED
      BY <3>1, <3>2
  <2> QED
    BY <1>3, <1>7, <2>1, <2>2 DEF PeersUnderstood, d
<1>8. CASE z > BufferSize /\ (BufferSize - 20) % 6 = 0
  <2>1. PeersOf(d) = SubSeq(peers, 2, fit)
    BY <1>1, <1>4, <1>5, <1>6, <1>8 DEF PeersFrom
  <2>2. ~(Len(d) <= BufferSize)
    BY <1>1, <1>3, <1>8
  <2> QED
    BY <1>8, <2>1, <2>2 DEF PeersUnderstood, d, fit
<1>9. CASE z > BufferSize /\ (BufferSize - 20) % 6 # 0
  <2>1. PeersOf(d) = Panic
    BY <1>1, <1>4, <1>5, <1>9 DEF PeersFrom
  <2>2. ~(Len(d) <= BufferSize)
    BY <1>1, <1>3, <1>9
  <2> QED
    BY <1>9, <2>1, <2>2 DEF PeersUnderstood, d
<1> QED
  BY <1>1, <1>7, <1>8, <1>9

-----------------------------------------------------------------------------
(* Streams of messages.                                                     *)

\* Where the message that begins at pos ends, and what is read of it.
NextAt(stream, pos) == pos + 4 + Uint(Slice(stream, pos, pos + 4))
MessageAt(stream, pos) == ParseMsg(Slice(stream, pos, NextAt(stream, pos)))

\* The messages of the stream from each of its positions on.
ReadsOn(from, stream) ==
  \A pos \in 0 .. Len(stream) :
    from[pos] = IF pos + 4 > Len(stream) \/ NextAt(stream, pos) > Len(stream) THEN <<>>
                ELSE <<MessageAt(stream, pos)>> \o from[NextAt(stream, pos)]

LEMMA UintIs ==
  ASSUME NEW n \in Nat, NEW s \in Bytes(n)
  PROVE  Uint(s) \in Nat
<1>1. PICK v : Reads(v, s, n) /\ Uint(s) = v[n]
  BY UintSteps
<1> DEFINE N == {k \in Nat : k <= n => v[k] \in Nat}
<1>2. \A i \in 1 .. n : s[i] \in Nat
  <2>1. s \in Seq(Byte) /\ Len(s) = n
    BY DEF Bytes
  <2>2. \A i \in 1 .. n : s[i] \in Byte
    BY <2>1, ElementOfSeq
  <2> QED
    BY <2>2 DEF Byte
<1>3. 0 \in N
  BY <1>1 DEF Reads
<1>4. ASSUME NEW k \in Nat, k \in N PROVE k + 1 \in N
  <2> SUFFICES ASSUME k + 1 <= n PROVE v[k + 1] \in Nat
    OBVIOUS
  <2>1. k + 1 \in 1 .. n /\ (k + 1) - 1 = k /\ v[k] \in Nat
    BY <1>4
  <2>2. v[k + 1] = v[k] * Radix + s[k + 1]
    BY <1>1, <2>1 DEF Reads
  <2> QED
    BY <1>2, <2>1, <2>2, RadixIs
<1>5. n \in N
  <2> HIDE DEF N
  <2> QED
    BY <1>3, <1>4, Induction
<1> QED
  BY <1>1, <1>5

LEMMA MessagesSteps ==
  ASSUME NEW stream \in Seq(Byte)
  PROVE  \E from : ReadsOn(from, stream) /\ Messages(stream) = from[0]
<1> DEFINE total == Len(stream)
           IsFrom(f) ==
             f = [pos \in 0 .. total |->
                    IF pos + 4 > total \/ NextAt(stream, pos) > total THEN <<>>
                    ELSE <<MessageAt(stream, pos)>> \o f[NextAt(stream, pos)]]
           from == CHOOSE f : IsFrom(f)
           hop == [pos \in 0 .. total |->
                     IF pos + 4 > total \/ NextAt(stream, pos) > total THEN total + 1
                     ELSE NextAt(stream, pos)]
           M == {MessageAt(stream, pos) : pos \in 0 .. total}
           T == [x \in (0 .. total) \X Seq(M) |-> <<MessageAt(stream, x[1])>> \o x[2]]
<1>1. total \in Nat
  BY LenProperties
<1>2. ASSUME NEW pos \in 0 .. total, pos + 4 <= total
      PROVE  NextAt(stream, pos) \in Nat /\ NextAt(stream, pos) > pos
  <2>1. Slice(stream, pos, pos + 4) \in Bytes(4)
    <3>1. pos \in Nat /\ pos + 4 \in Nat /\ pos <= pos + 4 /\ (pos + 4) - pos = 4
      BY <1>1
    <3> DEFINE t == Slice(stream, pos, pos + 4)
    <3>2. t \in Seq(Byte) /\ Len(t) = (pos + 4) - pos
      BY <1>2, <3>1, SliceOf
    <3> HIDE DEF t
    <3>3. t \in Bytes(4)
      BY <3>1, <3>2 DEF Bytes
    <3> QED
      BY <3>3 DEF t
  <2>2. Uint(Slice(stream, pos, pos + 4)) \in Nat
    BY <2>1, UintIs
  <2> QED
    BY <1>1, <2>2 DEF NextAt
<1>3. hop \in [0 .. total -> Nat] /\ \A pos \in 0 .. total : hop[pos] > pos
  BY <1>1, <1>2
<1>4. ASSUME NEW pos \in 0 .. total
      PROVE  IF pos + 4 > total \/ NextAt(stream, pos) > total THEN hop[pos] > total
             ELSE hop[pos] = NextAt(stream, pos) /\ ~(hop[pos] > total) /\ hop[pos] \in 0 .. total
  BY <1>1, <1>2
<1>5. /\ \A pos \in 0 .. total : MessageAt(stream, pos) \in M
      /\ \A x \in M, s \in Seq(M) : <<x>> \o s \in Seq(M)
  <2>1. ASSUME NEW x \in M, NEW s \in Seq(M) PROVE <<x>> \o s \in Seq(M)
    <3> HIDE DEF M
    <3>1. <<x>> \in Seq(M)
      OBVIOUS
    <3> QED
      BY <3>1, ConcatProperties
  <2>2. \A pos \in 0 .. total : MessageAt(stream, pos) \in M
    OBVIOUS
  <2> HIDE DEF M
  <2> QED
    BY <2>1, <2>2
<1> HIDE DEF hop, M
<1>6. /\ T \in [(0 .. total) \X Seq(M) -> Seq(M)]
      /\ \A pos \in 0 .. total, s \in Seq(M) : T[<<pos, s>>] = <<MessageAt(stream, pos)>> \o s
  BY <1>5
<1> HIDE DEF T
<1>7. <<>> \in Seq(M)
  OBVIOUS
<1>8. PICK f \in [0 .. total -> Seq(M)] : Onward(f, T, <<>>, hop, total)
  BY <1>1, <1>3, <1>6, <1>7, OnwardExists
<1>9. ASSUME NEW pos \in 0 .. total
      PROVE  f[pos] = IF pos + 4 > total \/ NextAt(stream, pos) > total THEN <<>>
                      ELSE <<MessageAt(stream, pos)>> \o f[NextAt(stream, pos)]
  <2>1. f[pos] = IF hop[pos] > total THEN <<>> ELSE T[<<pos, f[hop[pos]]>>]
    BY <1>8 DEF Onward
  <2> HIDE DEF total
  <2>2. CASE pos + 4 > total \/ NextAt(stream, pos) > total
    BY <1>4, <2>1, <2>2
  <2>3. CASE ~(pos + 4 > total \/ NextAt(stream, pos) > total)
    <3>1. hop[pos] = NextAt(stream, pos) /\ ~(hop[pos] > total) /\ hop[pos] \in 0 .. total
      BY <1>4, <2>3
    <3>2. f[hop[pos]] \in Seq(M)
      BY <1>8, <3>1
    <3>3. T[<<pos, f[hop[pos]]>>] = <<MessageAt(stream, pos)>> \o f[hop[pos]]
      BY <1>6, <3>2
    <3> QED
      BY <2>1, <2>3, <3>1, <3>3
  <2> QED
    BY <2>2, <2>3
<1>10. IsFrom(f)
  <2>1. f = [pos \in 0 .. total |-> f[pos]]
    OBVIOUS
  <2> QED
    BY <1>9, <2>1
<1>11. IsFrom(from)
  <2> HIDE DEF IsFrom
  <2> QED
    BY <1>10
<1>12. Messages(stream) = from[0]
  BY DEF Messages, NextAt, MessageAt
<1> HIDE DEF from
<1>13. ReadsOn(from, stream)
  <2>1. \A pos \in 0 .. total :
          from[pos] = IF pos + 4 > total \/ NextAt(stream, pos) > total THEN <<>>
                      ELSE <<MessageAt(stream, pos)>> \o from[NextAt(stream, pos)]
    BY <1>11
  <2> QED
    BY <2>1 DEF ReadsOn
<1> QED
  BY <1>12, <1>13

\* f is m as a message in a stream.
Framed(f, m) ==
  /\ f \in Seq(Byte) /\ Len(f) >= 4 /\ 4 + Uint(Slice(f, 0, 4)) = Len(f)
  /\ ParseMsg(f) = m

\* Where the frames of a stream are.
LEMMA FramesInPlace ==
  ASSUME NEW n \in Nat, NEW fs \in [1 .. n -> Seq(Byte)],
         NEW f \in [0 .. n -> Seq(Byte)], Joins(f, fs, n)
  PROVE  \A k \in 1 .. n :
           /\ Len(f[k - 1]) + Len(fs[k]) = Len(f[k]) /\ Len(f[k]) <= Len(f[n])
           /\ \A i, j \in Nat : i <= j /\ j <= Len(fs[k])
                => Slice(f[n], Len(f[k - 1]) + i, Len(f[k - 1]) + j) = Slice(fs[k], i, j)
<1>1. \A k \in 0 .. n : f[k] \in Seq(Byte) /\ Len(f[k]) \in Nat
  BY LenProperties
<1>2. \A k \in 1 .. n : fs[k] \in Seq(Byte) /\ Len(fs[k]) \in Nat
  BY LenProperties
<1>3. ASSUME NEW k \in 1 .. n
      PROVE  f[k] = f[k - 1] \o fs[k] /\ Len(f[k]) = Len(f[k - 1]) + Len(fs[k])
  <2>1. k - 1 \in 0 .. n /\ k \in 0 .. n
    OBVIOUS
  <2>2. f[k] = f[k - 1] \o fs[k]
    BY DEF Joins
  <2>3. f[k - 1] \in Seq(Byte) /\ fs[k] \in Seq(Byte)
    BY <1>1, <1>2, <2>1
  <2>4. Len(f[k - 1] \o fs[k]) = Len(f[k - 1]) + Len(fs[k])
    BY <2>3, ConcatProperties
  <2> QED
    BY <2>2, <2>4
\* The bytes up to a message's end stay where they are.
<1> DEFINE Stays(k, m) == /\ Len(f[k]) <= Len(f[m])
                          /\ \A i, j \in Nat : i <= j /\ j <= Len(f[k])
                               => Slice(f[m], i, j) = Slice(f[k], i, j)
           N == {d \in Nat : \A k \in 0 .. n : k + d <= n => Stays(k, k + d)}
<1>4. 0 \in N
  BY <1>1
<1>5. ASSUME NEW d \in Nat, d \in N PROVE d + 1 \in N
  <2> SUFFICES ASSUME NEW k \in 0 .. n, k + (d + 1) <= n PROVE Stays(k, k + (d + 1))
    <3> HIDE DEF Stays
    <3> QED
      OBVIOUS
  <2> DEFINE m == k + d
             l == k + (d + 1)
  <2>1. /\ l \in 1 .. n /\ l - 1 = m /\ m \in 0 .. n /\ m <= n /\ l \in 0 .. n
    OBVIOUS
  <2>2. Stays(k, m)
    <3> HIDE DEF Stays
    <3> QED
      BY <1>5, <2>1
  <2> HIDE DEF N, m, l
  <2>3. f[l] = f[m] \o fs[l] /\ Len(f[l]) = Len(f[m]) + Len(fs[l])
    BY <1>3, <2>1
  <2>4. Len(f[k]) \in Nat /\ Len(f[m]) \in Nat /\ Len(fs[l]) \in Nat
        /\ f[m] \in Seq(Byte) /\ fs[l] \in Seq(Byte)
    BY <1>1, <1>2, <2>1
  <2>5. \A i, j \in Nat : i <= j /\ j <= Len(f[m]) => Slice(f[m] \o fs[l], i, j) = Slice(f[m], i, j)
    <3>1. f[m] \in Seq(Byte) /\ fs[l] \in Seq(Byte)
      BY <2>4
    <3> HIDE DEF Stays
    <3> QED
      BY <3>1, SlicesOfJoined
  <2>6. ASSUME NEW i \in Nat, NEW j \in Nat, i <= j, j <= Len(f[k])
        PROVE  Slice(f[l], i, j) = Slice(f[k], i, j)
    <3>1. j <= Len(f[m])
      BY <2>2, <2>4, <2>6
    <3>2. Slice(f[m] \o fs[l], i, j) = Slice(f[m], i, j)
      BY <2>5, <2>6, <3>1
    <3>3. Slice(f[m], i, j) = Slice(f[k], i, j)
      BY <2>2, <2>6
    <3> QED
      BY <2>3, <3>2, <3>3
  <2>7. Len(f[k]) <= Len(f[l])
    <3>1. Len(f[k]) <= Len(f[m])
      BY <2>2
    <3>2. Len(f[l]) = Len(f[m]) + Len(fs[l])
      BY <2>3
    <3>3. Len(f[k]) \in Nat /\ Len(f[m]) \in Nat /\ Len(fs[l]) \in Nat
      BY <2>4
    <3>4. \A a, b, e \in Nat : a <= b => a <= b + e
      OBVIOUS
    <3> HIDE DEF Stays
    <3> QED
      BY <3>1, <3>2, <3>3, <3>4, Zenon
  <2>8. Stays(k, l)
    BY <2>6, <2>7
  <2> HIDE DEF Stays
  <2> QED
    BY <2>8 DEF l
<1>6. \A k \in 0 .. n : Stays(k, n)
  <2>1. \A d \in N : \A k \in 0 .. n : k + d <= n => Stays(k, k + d)
    OBVIOUS
  <2> HIDE DEF N, Stays
  <2>2. Nat \subseteq N
    BY <1>4, <1>5, Induction
  <2>3. ASSUME NEW k \in 0 .. n PROVE Stays(k, n)
    <3>1. PICK d \in Nat : k + d = n
      <4>1. n - k \in Nat /\ k + (n - k) = n
        OBVIOUS
      <4> QED
        BY <4>1
    <3>2. d \in N /\ k + d <= n
      BY <2>2, <3>1
    <3>3. Stays(k, k + d)
      BY <2>1, <3>2
    <3> QED
      BY <3>1, <3>3
  <2> QED
    BY <2>3
<1>7. ASSUME NEW k \in 1 .. n, NEW i \in Nat, NEW j \in Nat, i <= j, j <= Len(fs[k])
      PROVE  Slice(f[n], Len(f[k - 1]) + i, Len(f[k - 1]) + j) = Slice(fs[k], i, j)
  <2> DEFINE p == f[k - 1]
             a == Len(p) + i
             b == Len(p) + j
  <2>1. k - 1 \in 0 .. n /\ k \in 0 .. n
    OBVIOUS
  <2>2. p \in Seq(Byte) /\ Len(p) \in Nat /\ fs[k] \in Seq(Byte) /\ Len(fs[k]) \in Nat
    BY <1>1, <1>2, <2>1
  <2>3. f[k] = p \o fs[k] /\ Len(f[k]) = Len(p) + Len(fs[k])
    BY <1>3
  <2> HIDE DEF p
  <2>4. Slice(p \o fs[k], a, b) = Slice(fs[k], i, j)
    BY <1>7, <2>2, SlicesOfJoined
  <2>5. a \in Nat /\ b \in Nat /\ a <= b /\ b <= Len(f[k])
    BY <1>7, <2>2, <2>3
  <2> HIDE DEF a, b
  <2>6. Slice(f[n], a, b) = Slice(f[k], a, b)
    BY <1>6, <2>1, <2>5
  <2> QED
    BY <2>3, <2>4, <2>6 DEF a, b, p
<1>8. \A k \in 1 .. n : Len(f[k]) <= Len(f[n])
  BY <1>6
<1> HIDE DEF N, Stays
<1> QED
  BY <1>3, <1>7, <1>8

\* A stream of frames comes out message by message.
LEMMA StreamCut ==
  ASSUME NEW n \in Nat, NEW fs \in [1 .. n -> Seq(Byte)],
         NEW ms, ms = [i \in 1 .. n |-> ms[i]], \A i \in 1 .. n : Framed(fs[i], ms[i])
  PROVE  Messages(FlattenSeq(fs)) = ms
<1>1. PICK f \in [0 .. n -> Seq(Byte)] : Joins(f, fs, n) /\ FlattenSeq(fs) = f[n]
  BY FlattenSteps
<1> DEFINE stream == f[n]
           c(k) == Len(f[k])
           M == {ms[i] : i \in 1 .. n}
           rest(k) == [i \in 1 .. n - k |-> ms[k + i]]
<1>2. stream \in Seq(Byte) /\ \A k \in 0 .. n : c(k) \in Nat
  BY LenProperties
<1>3. PICK from : ReadsOn(from, stream) /\ Messages(stream) = from[0]
  BY <1>2, MessagesSteps
<1>4. ASSUME NEW k \in 1 .. n PROVE from[c(k - 1)] = <<ms[k]>> \o from[c(k)]
  <2>1. /\ c(k - 1) + Len(fs[k]) = c(k) /\ c(k) <= Len(stream)
        /\ \A i, j \in Nat : i <= j /\ j <= Len(fs[k])
             => Slice(stream, c(k - 1) + i, c(k - 1) + j) = Slice(fs[k], i, j)
    BY <1>1, FramesInPlace
  <2>2. /\ fs[k] \in Seq(Byte) /\ Len(fs[k]) \in Nat /\ Len(fs[k]) >= 4
        /\ 4 + Uint(Slice(fs[k], 0, 4)) = Len(fs[k]) /\ ParseMsg(fs[k]) = ms[k]
    BY LenProperties DEF Framed
  <2>3. c(k - 1) \in Nat /\ c(k) \in Nat /\ Len(stream) \in Nat
    <3>1. k - 1 \in 0 .. n /\ k \in 0 .. n /\ n \in 0 .. n
      OBVIOUS
    <3> QED
      BY <1>2, <3>1
  <2> DEFINE pos == c(k - 1)
             len == Len(fs[k])
             u == Uint(Slice(fs[k], 0, 4))
  <2>4. ASSUME NEW i \in Nat, NEW j \in Nat, i <= j, j <= len
        PROVE  Slice(stream, pos + i, pos + j) = Slice(fs[k], i, j)
    BY <2>1, <2>4
  <2>5. len \in Nat /\ 4 <= len /\ len = 4 + u
    BY <2>2
  <2>6. PICK four \in Nat : four = 4
    OBVIOUS
  <2>7. pos \in Nat /\ len \in Nat /\ pos + len = c(k)
    BY <2>1, <2>2, <2>3
  <2> HIDE DEF pos, len, u
  <2>8. /\ Slice(stream, pos, pos + 4) = Slice(fs[k], 0, 4)
        /\ Slice(stream, pos, pos + len) = fs[k]
    <3>1. pos + 0 = pos
      BY <2>7
    <3>2. 0 <= four /\ four <= len /\ 0 <= len /\ len <= len /\ 0 \in Nat
      BY <2>5, <2>6
    <3>3. Slice(stream, pos + 0, pos + four) = Slice(fs[k], 0, four)
      BY <2>4, <2>5, <3>2, Zenon
    <3>4. Slice(stream, pos + 0, pos + len) = Slice(fs[k], 0, len)
      BY <2>4, <2>5, <3>2, Zenon
    <3>5. Slice(fs[k], 0, len) = fs[k]
      BY <2>2, SliceAll DEF len
    <3> QED
      BY <2>6, <3>1, <3>3, <3>4, <3>5
  <2>9. NextAt(stream, pos) = pos + 4 + u
    BY <2>8 DEF NextAt, u
  <2> HIDE DEF stream, c
  <2>10. NextAt(stream, pos) = c(k) /\ pos + 4 <= Len(stream) /\ pos \in 0 .. Len(stream)
    <3>1. u \in Nat
      <4>1. Slice(fs[k], 0, 4) \in Bytes(4)
        <5>1. four <= Len(fs[k]) /\ fs[k] \in Seq(Byte) /\ 0 <= four
          BY <2>2, <2>6
        <5>2. Slice(fs[k], 0, four) \in Seq(Byte) /\ Len(Slice(fs[k], 0, four)) = four - 0
          BY <5>1, SliceOf
        <5>3. four - 0 = 4
          BY <2>6
        <5> QED
          BY <2>6, <5>2, <5>3 DEF Bytes
      <4> QED
        BY <4>1, UintIs DEF u
    <3>2. c(k) <= Len(stream) /\ c(k) \in Nat /\ Len(stream) \in Nat
      BY <2>1, <2>3
    <3> QED
      BY <2>5, <2>7, <2>9, <3>1, <3>2
  <2>11. MessageAt(stream, pos) = ms[k]
    BY <2>2, <2>7, <2>8, <2>10 DEF MessageAt
  <2>12. from[pos] = <<MessageAt(stream, pos)>> \o from[NextAt(stream, pos)]
    <3>1. ~(pos + 4 > Len(stream)) /\ ~(NextAt(stream, pos) > Len(stream))
      BY <2>1, <2>3, <2>7, <2>10
    <3> QED
      BY <1>3, <2>10, <3>1 DEF ReadsOn
  <2> QED
    BY <2>10, <2>11, <2>12 DEF pos
<1>5. from[c(n)] = <<>>
  <2>1. c(n) \in 0 .. c(n) /\ c(n) + 4 > c(n)
    BY <1>2
  <2> QED
    BY <1>3, <2>1 DEF ReadsOn
<1>6. ASSUME NEW k \in 0 .. n
      PROVE  rest(k) \in Seq(M) /\ Len(rest(k)) = n - k /\ \A i \in 1 .. n - k : rest(k)[i] = ms[k + i]
  <2> DEFINE r == rest(k)
             m == n - k
  <2>1. m \in Nat /\ \A i \in 1 .. m : k + i \in 1 .. n
    OBVIOUS
  <2>2. \A i \in 1 .. m : r[i] = ms[k + i] /\ ms[k + i] \in M
    BY <2>1
  <2>3. r = [i \in 1 .. m |-> r[i]]
    OBVIOUS
  <2> HIDE DEF M, r, m
  <2>4. r \in [1 .. m -> M]
    BY <2>2, <2>3
  <2>5. r \in Seq(M)
    BY <2>1, <2>4, SequenceOf
  <2>6. Len(r) = m
    BY <2>1, <2>3, LengthOf
  <2> QED
    BY <2>2, <2>5, <2>6 DEF r, m
<1> HIDE DEF rest
<1>7. ASSUME NEW k \in 1 .. n PROVE <<ms[k]>> \o rest(k) = rest(k - 1)
  <2>1. k - 1 \in 0 .. n /\ k \in 0 .. n /\ n - (k - 1) = (n - k) + 1 /\ n - k \in Nat
    OBVIOUS
  <2>2. /\ rest(k) \in Seq(M) /\ Len(rest(k)) = n - k
        /\ \A i \in 1 .. n - k : rest(k)[i] = ms[k + i]
    BY <1>6, <2>1
  <2>3. /\ rest(k - 1) \in Seq(M) /\ Len(rest(k - 1)) = (n - k) + 1
        /\ \A i \in 1 .. (n - k) + 1 : rest(k - 1)[i] = ms[(k - 1) + i]
    BY <1>6, <2>1
  <2>4. ms[k] \in M
    OBVIOUS
  <2>5. PICK u : u = <<ms[k]>> \o rest(k)
    OBVIOUS
  <2> HIDE DEF M
  <2>6. <<ms[k]>> \in Seq(M) /\ Len(<<ms[k]>>) = 1
    BY <2>4
  <2>7. /\ u \in Seq(M) /\ Len(u) = 1 + Len(rest(k))
        /\ \A i \in 1 .. 1 + Len(rest(k)) : u[i] = IF i <= 1 THEN ms[k] ELSE rest(k)[i - 1]
    BY <2>2, <2>5, <2>6, ConcatProperties
  <2>8. \A i \in 1 .. (n - k) + 1 : u[i] = rest(k - 1)[i]
    <3> TAKE i \in 1 .. (n - k) + 1
    <3>1. /\ rest(k - 1)[i] = ms[(k - 1) + i]
          /\ u[i] = IF i <= 1 THEN ms[k] ELSE rest(k)[i - 1]
      <4>1. i \in 1 .. 1 + Len(rest(k))
        BY <2>1, <2>2
      <4> QED
        BY <2>3, <2>7, <4>1
    <3>2. CASE i = 1
      <4>1. (k - 1) + 1 = k
        OBVIOUS
      <4> QED
        BY <3>1, <3>2, <4>1
    <3>3. CASE i # 1
      <4>1. i - 1 \in 1 .. n - k /\ k + (i - 1) = (k - 1) + i /\ ~(i <= 1)
        BY <2>1, <3>3
      <4>2. rest(k)[i - 1] = ms[k + (i - 1)]
        BY <2>2, <4>1
      <4> QED
        BY <3>1, <4>1, <4>2
    <3> QED
      BY <3>2, <3>3
  <2>9. Len(u) = (n - k) + 1
    BY <2>1, <2>2, <2>7
  <2>10. u = rest(k - 1)
    BY <2>3, <2>7, <2>8, <2>9, SeqEqual
  <2> QED
    BY <2>5, <2>10
<1> DEFINE N == {d \in Nat : d <= n => from[c(n - d)] = rest(n - d)}
<1>8. 0 \in N
  <2>1. rest(n) = <<>>
    <3>1. rest(n) \in Seq(M) /\ Len(rest(n)) = 0
      BY <1>6
    <3> HIDE DEF M
    <3> QED
      BY <3>1, EmptySeq
  <2>2. n - 0 = n
    OBVIOUS
  <2> HIDE DEF c
  <2> QED
    BY <1>5, <2>1, <2>2
<1>9. ASSUME NEW d \in Nat, d \in N PROVE d + 1 \in N
  <2> SUFFICES ASSUME d + 1 <= n PROVE from[c(n - (d + 1))] = rest(n - (d + 1))
    <3> HIDE DEF c
    <3> QED
      OBVIOUS
  <2> DEFINE k == n - d
  <2>1. k \in 1 .. n /\ n - (d + 1) = k - 1
    OBVIOUS
  <2>2. from[c(k)] = rest(k)
    BY <1>9, <2>1
  <2> HIDE DEF N, k, c
  <2> QED
    BY <1>4, <1>7, <2>1, <2>2
<1>10. from[c(0)] = rest(0)
  <2>1. \A d \in N : d <= n => from[c(n - d)] = rest(n - d)
    OBVIOUS
  <2> HIDE DEF N, c
  <2>2. n \in N
    BY <1>8, <1>9, Induction
  <2>3. n - n = 0
    OBVIOUS
  <2> QED
    BY <2>1, <2>2, <2>3
<1>11. c(0) = 0
  BY <1>1 DEF Joins
<1>12. rest(0) = ms
  <2>1. \A i \in 1 .. n : 0 + i = i
    OBVIOUS
  <2>2. rest(0) = [i \in 1 .. n |-> ms[i]]
    BY <2>1 DEF rest
  <2> QED
    BY <2>2
<1> HIDE DEF c
<1> QED
  BY <1>1, <1>3, <1>10, <1>11, <1>12

-----------------------------------------------------------------------------
(* Messages as frames.                                                      *)

LEMMA SmallFits ==
  ASSUME NEW n \in Nat, n < Radix
  PROVE  Fits(n, 4)
<1>1. n \div Radix = 0 /\ 0 \div Radix = 0
  BY RadixIs
<1>2. ShiftRight(n, 1) = 0
  <2>1. ShiftRight(n, 0 + 1) = ShiftRight(n, 0) \div Radix /\ ShiftRight(n, 0) = n
    BY ShiftSteps
  <2> QED
    BY <1>1, <2>1
<1>3. ASSUME NEW k \in Nat, ShiftRight(n, k) = 0 PROVE ShiftRight(n, k + 1) = 0
  <2>1. ShiftRight(n, k + 1) = ShiftRight(n, k) \div Radix
    BY ShiftSteps
  <2> QED
    BY <1>1, <1>3, <2>1
<1>4. ShiftRight(n, 2) = 0
  BY <1>2, <1>3
<1>5. ShiftRight(n, 3) = 0
  BY <1>3, <1>4
<1>6. ShiftRight(n, 4) = 0
  BY <1>3, <1>5
<1> QED
  BY <1>6 DEF Fits

\* A message with an id and r bytes behind it.
Message(u, r, id) ==
  /\ r \in Nat /\ id \in Nat /\ id < Radix \div 2
  /\ u \in Bytes(5 + r) /\ Uint(Slice(u, 0, 4)) = r + 1 /\ u[5] = id

LEMMA MessageParsed ==
  ASSUME NEW u, NEW r, NEW id, Message(u, r, id)
  PROVE  /\ \A m : ParseMsg(u) = m => Framed(u, m)
         /\ ParseMsg(u) =
              CASE id = BitfieldMsgId -> parseBitfieldMsg(u, r + 1)
                [] id \in {RequestMsgId, CancelMsgId} -> parseRequestMsg(id, u, r + 1)
                [] id = PieceMsgId -> parsePieceMsg(u, r + 1)
                [] id = HaveMsgId -> parseHaveMsg(u, r + 1)
                [] OTHER -> Simple(id)
<1>1. Uvarint(u[5]) = id
  BY DEF Message, Uvarint
<1>2. Uint(Slice(u, 0, 4)) = r + 1 /\ r + 1 # 0
  BY DEF Message
<1>3. ParseMsg(u) =
        CASE id = BitfieldMsgId -> parseBitfieldMsg(u, r + 1)
          [] id \in {RequestMsgId, CancelMsgId} -> parseRequestMsg(id, u, r + 1)
          [] id = PieceMsgId -> parsePieceMsg(u, r + 1)
          [] id = HaveMsgId -> parseHaveMsg(u, r + 1)
          [] OTHER -> Simple(id)
  BY <1>1, <1>2, Zenon DEF ParseMsg
<1>4. u \in Seq(Byte) /\ Len(u) >= 4 /\ 4 + Uint(Slice(u, 0, 4)) = Len(u)
  <2>1. u \in Seq(Byte) /\ Len(u) = 5 + r /\ r \in Nat
    BY DEF Message, Bytes
  <2> QED
    BY <1>2, <2>1
<1> QED
  BY <1>3, <1>4, Zenon DEF Framed

LEMMA HaveRead ==
  ASSUME NEW u, Message(u, 4, HaveMsgId), NEW p, Slice(u, 5, 9) = p
  PROVE  Framed(u, [ID |-> HaveMsgId, PieceIndex |-> Uint(p)])
<1>1. ParseMsg(u) = parseHaveMsg(u, 5)
  BY MessageParsed DEF BitfieldMsgId, RequestMsgId, CancelMsgId, PieceMsgId, HaveMsgId
<1>2. parseHaveMsg(u, 5) = [ID |-> HaveMsgId, PieceIndex |-> Uint(p)]
  BY DEF parseHaveMsg
<1> QED
  BY <1>1, <1>2, MessageParsed, Zenon

LEMMA RequestRead ==
  ASSUME NEW id \in {RequestMsgId, CancelMsgId}, NEW u, Message(u, 12, id),
         NEW p, NEW b, NEW l,
         Slice(u, 5, 9) = p, Slice(u, 9, 13) = b, Slice(u, 13, 17) = l
  PROVE  Framed(u, [ID |-> id, PieceIndex |-> Uint(p), BeginIndex |-> Uint(b),
                    BlockLength |-> Uint(l)])
<1>1. ParseMsg(u) = parseRequestMsg(id, u, 13)
  BY MessageParsed DEF BitfieldMsgId, RequestMsgId, CancelMsgId, PieceMsgId, HaveMsgId
<1>2. parseRequestMsg(id, u, 13) = [ID |-> id, PieceIndex |-> Uint(p), BeginIndex |-> Uint(b),
                                    BlockLength |-> Uint(l)]
  BY DEF parseRequestMsg
<1> QED
  BY <1>1, <1>2, MessageParsed, Zenon

LEMMA PieceRead ==
  ASSUME NEW n \in Nat, NEW u, Message(u, 8 + n, PieceMsgId), NEW p, NEW b, NEW data,
         Slice(u, 5, 9) = p, Slice(u, 9, 13) = b, Slice(u, 13, 13 + n) = data
  PROVE  Framed(u, [ID |-> PieceMsgId, PieceIndex |-> Uint(p), BeginIndex |-> Uint(b),
                    Payload |-> data])
<1>1. ParseMsg(u) = parsePieceMsg(u, (8 + n) + 1)
  BY MessageParsed DEF BitfieldMsgId, RequestMsgId, CancelMsgId, PieceMsgId, HaveMsgId
<1>2. ~((8 + n) + 1 < 9) /\ BlockEnd((8 + n) + 1) = 13 + n
  BY DEF BlockEnd, pieceMsgLen
<1>3. parsePieceMsg(u, (8 + n) + 1)
        = [ID |-> PieceMsgId, PieceIndex |-> Uint(p), BeginIndex |-> Uint(b), Payload |-> data]
  BY <1>2, Zenon DEF parsePieceMsg
<1> QED
  BY <1>1, <1>3, MessageParsed, Zenon

LEMMA BitfieldRead ==
  ASSUME NEW n \in Nat, NEW u, Message(u, n, BitfieldMsgId), NEW bits,
         Slice(u, 5, 5 + n) = bits
  PROVE  Framed(u, [ID |-> BitfieldMsgId, Bitfield |-> bits])
<1>1. ParseMsg(u) = parseBitfieldMsg(u, n + 1)
  BY MessageParsed DEF BitfieldMsgId, RequestMsgId, CancelMsgId, PieceMsgId, HaveMsgId
<1>2. (n + 1) - defaultMsgLen + 5 = 5 + n
  BY DEF defaultMsgLen
<1>3. parseBitfieldMsg(u, n + 1) = [ID |-> BitfieldMsgId, Bitfield |-> bits]
  BY <1>2, Zenon DEF parseBitfieldMsg
<1> QED
  BY <1>1, <1>3, MessageParsed, Zenon

LEMMA SimpleRead ==
  ASSUME NEW u, NEW r, NEW id, Message(u, r, id),
         id \notin {HaveMsgId, RequestMsgId, CancelMsgId, PieceMsgId, BitfieldMsgId}
  PROVE  Framed(u, Simple(id))
<1>1. ParseMsg(u) = Simple(id)
  BY MessageParsed
<1> QED
  BY <1>1, MessageParsed, Zenon

\* A frame: the length, the id and the rest.
IsFrame(u, body, r, id, rest) ==
  /\ r \in Nat /\ rest \in Bytes(r) /\ id \in Nat /\ id < Radix \div 2
  /\ body = <<id>> \o rest /\ Fits(Len(body), 4) /\ u = PutUint(Len(body), 4) \o body

LEMMA FrameParts ==
  ASSUME NEW u, NEW body, NEW r, NEW id, NEW rest, IsFrame(u, body, r, id, rest)
  PROVE  /\ Message(u, r, id)
         /\ \A i, j \in Nat : i <= j /\ j <= r => Slice(u, 5 + i, 5 + j) = Slice(rest, i, j)
<1>0. /\ r \in Nat /\ rest \in Bytes(r) /\ id \in Nat /\ id < Radix \div 2
      /\ body = <<id>> \o rest /\ Fits(Len(body), 4) /\ u = PutUint(Len(body), 4) \o body
  BY DEF IsFrame
<1> DEFINE first == <<id>>
<1>1. first \in Bytes(1) /\ first[1] = id
  <2>1. id \in Byte
    BY <1>0, RadixIs DEF Byte
  <2> QED
    BY <2>1 DEF Bytes
<1> HIDE DEF first
<1>2. body \in Bytes(1 + r) /\ body = first \o rest
  <2>1. first \o rest \in Bytes(1 + r)
    BY <1>0, <1>1, Joined
  <2> QED
    BY <1>0, <2>1 DEF first
<1>3. Len(body) = 1 + r
  BY <1>0, <1>2 DEF Bytes
<1> DEFINE len == PutUint(Len(body), 4)
<1>4. len \in Bytes(4) /\ Uint(len) = 1 + r
  BY <1>0, <1>3, NumberKept
<1> HIDE DEF len
<1>5. u = len \o body
  BY <1>0 DEF len
<1>6. u \in Bytes(5 + r)
  <2>1. len \o body \in Bytes(4 + (1 + r))
    BY <1>0, <1>2, <1>4, Joined
  <2>2. 4 + (1 + r) = 5 + r
    BY <1>0
  <2> QED
    BY <1>5, <2>1, <2>2
<1>7. Slice(u, 0, 4) = len
  <2>1. Slice(len \o body, 0, 4) = Slice(len, 0, 4)
    BY <1>0, <1>2, <1>4, FieldOfFirst
  <2> QED
    BY <1>4, <1>5, <2>1, WholeField
<1>8. ASSUME NEW i \in Nat, NEW j \in Nat, i <= j, j <= 1 + r
      PROVE  Slice(u, 4 + i, 4 + j) = Slice(body, i, j)
  <2>1. Slice(len \o body, 4 + i, 4 + j) = Slice(body, i, j)
    BY <1>0, <1>2, <1>4, <1>8, FieldOfSecond
  <2> QED
    BY <1>5, <2>1
<1>9. ASSUME NEW i \in Nat, NEW j \in Nat, i <= j, j <= r
      PROVE  Slice(u, 5 + i, 5 + j) = Slice(rest, i, j)
  <2> DEFINE a == 1 + i
             b == 1 + j
  <2>1. /\ a \in Nat /\ b \in Nat /\ a <= b /\ b <= 1 + r
        /\ 4 + a = 5 + i /\ 4 + b = 5 + j
    BY <1>0, <1>9
  <2>2. Slice(first \o rest, a, b) = Slice(rest, i, j)
    BY <1>0, <1>1, <1>9, FieldOfSecond
  <2> HIDE DEF a, b
  <2>3. Slice(u, 4 + a, 4 + b) = Slice(body, a, b)
    BY <1>8, <2>1
  <2> QED
    BY <1>2, <2>1, <2>2, <2>3
<1>10. u[5] = id
  <2>1. PICK one \in Nat : one = 1
    OBVIOUS
  <2>2. one <= 1 + r /\ 0 <= one /\ 4 + 0 = 4 /\ 4 + one = 5 /\ one - 0 = 1 /\ 5 - 4 = one
    BY <1>0, <2>1
  <2>3. Slice(u, 4 + 0, 4 + one) = Slice(body, 0, one)
    BY <1>8, <2>2, Zenon
  <2>4. Slice(first \o rest, 0, one) = Slice(first, 0, one) /\ Slice(first, 0, one) = first
    BY <1>0, <1>1, <2>1, FieldOfFirst, WholeField
  <2>5. Slice(u, 4, 5) = first
    BY <1>2, <2>2, <2>3, <2>4
  <2>6. u \in Seq(Byte) /\ 5 <= Len(u)
    BY <1>0, <1>6 DEF Bytes
  <2>7. \A k \in 1 .. 5 - 4 : Slice(u, 4, 5)[k] = u[4 + k]
    <3>1. ASSUME NEW i \in Nat, NEW j \in Nat, i <= j, j <= Len(u)
          PROVE  \A k \in 1 .. j - i : Slice(u, i, j)[k] = u[i + k]
      BY <2>6, <3>1, SliceOf
    <3>2. 4 \in Nat /\ 5 \in Nat /\ 4 <= 5
      OBVIOUS
    <3> QED
      BY <2>6, <3>1, <3>2, Zenon
  <2>8. first[1] = u[5]
    <3>1. 1 \in 1 .. 5 - 4 /\ 4 + 1 = 5
      OBVIOUS
    <3> QED
      BY <2>5, <2>7, <3>1
  <2> QED
    BY <1>1, <2>8
<1>11. 1 + r = r + 1
  BY <1>0
<1> QED
  BY <1>0, <1>4, <1>6, <1>7, <1>9, <1>10, <1>11, Zenon DEF Message

\* What another client writes is read as it was meant, with every field.
LEMMA FrameKept ==
  ASSUME NEW m, Writable(m)
  PROVE  Framed(Frame(m), m)
<1> DEFINE body == Body(m)
           u == Frame(m)
           id == m.ID
<1>1. Fits(Len(body), 4) /\ u = PutUint(Len(body), 4) \o body
  BY DEF Writable, Frame
<1>2. 8 < Radix \div 2 /\ Radix \div 2 \in Nat
  BY RadixAssumption
<1> HIDE DEF u, body
<1>3. CASE m.ID = HaveMsgId
  <2> DEFINE p == PutUint(m.PieceIndex, 4)
  <2>1. m \in [ID : Int, PieceIndex : Nat] /\ Fits(m.PieceIndex, 4)
    BY <1>3 DEF Writable, HaveMsgId, RequestMsgId, CancelMsgId, PieceMsgId, BitfieldMsgId
  <2>2. p \in Bytes(4) /\ Uint(p) = m.PieceIndex
    BY <2>1, NumberKept
  <2>3. body = <<HaveMsgId>> \o p
    <3>1. m.ID # -1 /\ m.ID # RequestMsgId /\ m.ID # CancelMsgId
          /\ m.ID # PieceMsgId /\ m.ID # BitfieldMsgId
      BY <1>3 DEF HaveMsgId, RequestMsgId, CancelMsgId, PieceMsgId, BitfieldMsgId
    <3> QED
      BY <1>3, <3>1, Zenon DEF Body, body
  <2> HIDE DEF p
  <2>4. HaveMsgId \in Nat /\ HaveMsgId < Radix \div 2
    BY <1>2 DEF HaveMsgId
  <2>5. /\ Message(u, 4, HaveMsgId)
        /\ \A i, j \in Nat : i <= j /\ j <= 4 => Slice(u, 5 + i, 5 + j) = Slice(p, i, j)
    <3>1. IsFrame(u, body, 4, HaveMsgId, p)
      BY <1>1, <2>2, <2>3, <2>4 DEF IsFrame
    <3> QED
      BY <3>1, FrameParts
  <2>6. Slice(u, 5, 9) = p
    <3>1. Slice(u, 5 + 0, 5 + 4) = Slice(p, 0, 4)
      BY <2>5
    <3> QED
      BY <2>2, <3>1, WholeField
  <2>7. m = [ID |-> HaveMsgId, PieceIndex |-> Uint(p)]
    BY <1>3, <2>1, <2>2
  <2> QED
    BY <2>5, <2>6, <2>7, HaveRead DEF u
<1>4. CASE m.ID \in {RequestMsgId, CancelMsgId}
  <2> DEFINE p == PutUint(m.PieceIndex, 4)
             b == PutUint(m.BeginIndex, 4)
             l == PutUint(m.BlockLength, 4)
             f == p \o b
             rest == f \o l
  <2>1. /\ m \in [ID : Int, PieceIndex : Nat, BeginIndex : Nat, BlockLength : Nat]
        /\ Fits(m.PieceIndex, 4) /\ Fits(m.BeginIndex, 4) /\ Fits(m.BlockLength, 4)
    BY <1>4 DEF Writable, HaveMsgId, RequestMsgId, CancelMsgId, PieceMsgId, BitfieldMsgId
  <2>2. /\ p \in Bytes(4) /\ Uint(p) = m.PieceIndex
        /\ b \in Bytes(4) /\ Uint(b) = m.BeginIndex
        /\ l \in Bytes(4) /\ Uint(l) = m.BlockLength
    BY <2>1, NumberKept
  <2>3. body = <<id>> \o rest
    <3>1. m.ID # -1 /\ m.ID # HaveMsgId /\ m.ID # PieceMsgId /\ m.ID # BitfieldMsgId
      BY <1>4 DEF HaveMsgId, RequestMsgId, CancelMsgId, PieceMsgId, BitfieldMsgId
    <3> QED
      BY <1>4, <3>1, Zenon DEF Body, body
  <2> HIDE DEF p, b, l, f, rest
  <2> DEFINE g1 == {<<0, 4, p>>}
             g2 == g1 \cup {<<4, 8, b>>}
             g3 == g2 \cup {<<8, 12, l>>}
  <2>4. Fields(rest, 12, g3)
    <3>1. Fields(p, 4, g1)
      BY <2>2, FirstField
    <3> HIDE DEF g1
    <3>2. Fields(f, 8, g2)
      BY <2>2, <3>1, NextField DEF f
    <3> HIDE DEF g2
    <3> QED
      BY <2>2, <3>2, NextField DEF rest
  <2>5. rest \in Bytes(12) /\ Slice(rest, 0, 4) = p /\ Slice(rest, 4, 8) = b /\ Slice(rest, 8, 12) = l
    <3>1. \A x \in g3 : Slice(rest, x[1], x[2]) = x[3]
      BY <2>4 DEF Fields
    <3>2. ASSUME NEW i, NEW k, NEW v, <<i, k, v>> \in g3 PROVE Slice(rest, i, k) = v
      BY <3>1, <3>2
    <3>3. <<0, 4, p>> \in g3 /\ <<4, 8, b>> \in g3 /\ <<8, 12, l>> \in g3
      OBVIOUS
    <3>4. rest \in Bytes(12)
      BY <2>4 DEF Fields
    <3> HIDE DEF g3
    <3> QED
      BY <3>2, <3>3, <3>4
  <2>6. id \in Nat /\ id < Radix \div 2 /\ id \in {RequestMsgId, CancelMsgId}
    BY <1>2, <1>4 DEF RequestMsgId, CancelMsgId
  <2> HIDE DEF g3
  <2>7. /\ Message(u, 12, id)
        /\ \A i, j \in Nat : i <= j /\ j <= 12 => Slice(u, 5 + i, 5 + j) = Slice(rest, i, j)
    <3>1. IsFrame(u, body, 12, id, rest)
      BY <1>1, <2>3, <2>5, <2>6 DEF IsFrame
    <3> QED
      BY <3>1, FrameParts
  <2>8. Slice(u, 5, 9) = p /\ Slice(u, 9, 13) = b /\ Slice(u, 13, 17) = l
    <3>1. /\ Slice(u, 5 + 0, 5 + 4) = Slice(rest, 0, 4)
          /\ Slice(u, 5 + 4, 5 + 8) = Slice(rest, 4, 8)
          /\ Slice(u, 5 + 8, 5 + 12) = Slice(rest, 8, 12)
      BY <2>7
    <3> QED
      BY <2>5, <3>1
  <2>9. m = [ID |-> id, PieceIndex |-> Uint(p), BeginIndex |-> Uint(b), BlockLength |-> Uint(l)]
    BY <2>1, <2>2
  <2> HIDE DEF id
  <2> QED
    BY <2>6, <2>7, <2>8, <2>9, RequestRead DEF u
<1>5. CASE m.ID = PieceMsgId
  <2> DEFINE p == PutUint(m.PieceIndex, 4)
             b == PutUint(m.BeginIndex, 4)
             data == m.Payload
             n == Len(data)
             f == p \o b
             rest == f \o data
  <2>1. /\ m \in [ID : Int, PieceIndex : Nat, BeginIndex : Nat, Payload : Seq(Byte)]
        /\ Fits(m.PieceIndex, 4) /\ Fits(m.BeginIndex, 4)
    BY <1>5 DEF Writable, HaveMsgId, RequestMsgId, CancelMsgId, PieceMsgId, BitfieldMsgId
  <2>2. /\ p \in Bytes(4) /\ Uint(p) = m.PieceIndex
        /\ b \in Bytes(4) /\ Uint(b) = m.BeginIndex
    BY <2>1, NumberKept
  <2>3. body = <<PieceMsgId>> \o rest
    <3>1. m.ID # -1 /\ m.ID # HaveMsgId /\ m.ID # RequestMsgId
          /\ m.ID # CancelMsgId /\ m.ID # BitfieldMsgId
      BY <1>5 DEF HaveMsgId, RequestMsgId, CancelMsgId, PieceMsgId, BitfieldMsgId
    <3> QED
      BY <1>5, <3>1, Zenon DEF Body, body
  <2>4. n \in Nat /\ data \in Bytes(n)
    BY <2>1, LenProperties DEF Bytes
  <2>5. m = [ID |-> PieceMsgId, PieceIndex |-> Uint(p), BeginIndex |-> Uint(b), Payload |-> data]
    BY <1>5, <2>1, <2>2
  <2> HIDE DEF p, b, data, n, f, rest
  <2>6. f \in Bytes(8) /\ Slice(f, 0, 4) = p /\ Slice(f, 4, 8) = b
    <3>1. f \in Bytes(4 + 4)
      BY <2>2, Joined DEF f
    <3>2. Slice(f, 0, 4) = Slice(p, 0, 4)
      BY <2>2, FieldOfFirst DEF f
    <3>3. Slice(f, 4 + 0, 4 + 4) = Slice(b, 0, 4)
      BY <2>2, FieldOfSecond DEF f
    <3> QED
      BY <2>2, <3>1, <3>2, <3>3, WholeField
  <2>7. rest \in Bytes(8 + n)
    BY <2>4, <2>6, Joined DEF rest
  <2>8. Slice(rest, 0, 4) = p /\ Slice(rest, 4, 8) = b
    <3>1. Slice(rest, 0, 4) = Slice(f, 0, 4) /\ Slice(rest, 4, 8) = Slice(f, 4, 8)
      BY <2>4, <2>6, FieldOfFirst DEF rest
    <3> QED
      BY <2>6, <3>1
  <2>9. Slice(rest, 8, 8 + n) = data
    <3>1. Slice(rest, 8 + 0, 8 + n) = Slice(data, 0, n)
      BY <2>4, <2>6, FieldOfSecond DEF rest
    <3> QED
      BY <2>4, <3>1, WholeField
  <2>10. PieceMsgId \in Nat /\ PieceMsgId < Radix \div 2
    BY <1>2 DEF PieceMsgId
  <2>11. 8 + n \in Nat
    BY <2>4
  <2>12. /\ Message(u, 8 + n, PieceMsgId)
         /\ \A i, j \in Nat : i <= j /\ j <= 8 + n => Slice(u, 5 + i, 5 + j) = Slice(rest, i, j)
    <3>1. IsFrame(u, body, 8 + n, PieceMsgId, rest)
      BY <1>1, <2>3, <2>7, <2>10, <2>11 DEF IsFrame
    <3> QED
      BY <3>1, FrameParts
  <2>13. Slice(u, 5, 9) = p /\ Slice(u, 9, 13) = b /\ Slice(u, 13, 13 + n) = data
    <3>1. /\ Slice(u, 5 + 0, 5 + 4) = Slice(rest, 0, 4)
          /\ Slice(u, 5 + 4, 5 + 8) = Slice(rest, 4, 8)
      BY <2>4, <2>12
    <3>2. Slice(u, 5 + 8, 5 + (8 + n)) = Slice(rest, 8, 8 + n)
      BY <2>4, <2>12
    <3>3. 5 + (8 + n) = 13 + n
      BY <2>4
    <3> QED
      BY <2>8, <2>9, <3>1, <3>2, <3>3
  <2> QED
    BY <2>4, <2>5, <2>12, <2>13, PieceRead DEF u
<1>6. CASE m.ID = BitfieldMsgId
  <2> DEFINE bits == m.Bitfield
             n == Len(bits)
  <2>1. m \in [ID : Int, Bitfield : Seq(Byte)]
    BY <1>6 DEF Writable, HaveMsgId, RequestMsgId, CancelMsgId, PieceMsgId, BitfieldMsgId
  <2>2. n \in Nat /\ bits \in Bytes(n)
    BY <2>1, LenProperties DEF Bytes
  <2>3. body = <<BitfieldMsgId>> \o bits
    <3>1. m.ID # -1 /\ m.ID # HaveMsgId /\ m.ID # RequestMsgId
          /\ m.ID # CancelMsgId /\ m.ID # PieceMsgId
      BY <1>6 DEF HaveMsgId, RequestMsgId, CancelMsgId, PieceMsgId, BitfieldMsgId
    <3> QED
      BY <1>6, <3>1, Zenon DEF Body, body
  <2>4. m = [ID |-> BitfieldMsgId, Bitfield |-> bits]
    BY <1>6, <2>1
  <2> HIDE DEF bits, n
  <2>5. BitfieldMsgId \in Nat /\ BitfieldMsgId < Radix \div 2
    BY <1>2 DEF BitfieldMsgId
  <2>6. /\ Message(u, n, BitfieldMsgId)
        /\ \A i, j \in Nat : i <= j /\ j <= n => Slice(u, 5 + i, 5 + j) = Slice(bits, i, j)
    <3>1. IsFrame(u, body, n, BitfieldMsgId, bits)
      BY <1>1, <2>2, <2>3, <2>5 DEF IsFrame
    <3> QED
      BY <3>1, FrameParts
  <2>7. Slice(u, 5, 5 + n) = bits
    <3>1. Slice(u, 5 + 0, 5 + n) = Slice(bits, 0, n)
      BY <2>2, <2>6
    <3> QED
      BY <2>2, <3>1, WholeField
  <2> QED
    BY <2>2, <2>4, <2>6, <2>7, BitfieldRead DEF u
<1>7. CASE id \notin {HaveMsgId, RequestMsgId, CancelMsgId, PieceMsgId, BitfieldMsgId}
  <2>1. m \in [ID : -1 .. Radix \div 2 - 1]
    BY <1>7 DEF Writable
  <2>2. m = Simple(id) /\ id \in -1 .. Radix \div 2 - 1
    BY <2>1 DEF Simple
  <2>3. CASE id = -1
    <3>1. body = <<>>
      BY <2>3 DEF Body, body
    <3>2. Len(body) = 0 /\ body \in Bytes(0)
      BY <3>1 DEF Bytes
    <3> DEFINE len == PutUint(Len(body), 4)
    <3>3. len \in Bytes(4) /\ Uint(len) = 0
      BY <1>1, <3>2, NumberKept
    <3>4. u = len
      <4>1. len \o <<>> = len
        BY <3>3, ConcatEmptySeq DEF Bytes
      <4> QED
        BY <1>1, <3>1, <4>1
    <3> HIDE DEF len
    <3>5. Slice(u, 0, 4) = u
      BY <3>3, <3>4, WholeField
    <3>6. u \in Seq(Byte) /\ Len(u) = 4 /\ Uint(u) = 0
      BY <3>3, <3>4 DEF Bytes
    <3>7. ParseMsg(u) = Simple(-1)
      BY <3>5, <3>6 DEF ParseMsg
    <3>8. Framed(u, Simple(-1))
      BY <3>5, <3>6, <3>7 DEF Framed
    <3> QED
      BY <2>2, <2>3, <3>8 DEF u
  <2>4. CASE id # -1
    <3>1. id \in Nat /\ id < Radix \div 2
      BY <2>2, <2>4, RadixIs
    <3>2. body = <<id>> \o <<>>
      BY <1>7, <2>4, Zenon DEF Body, body
    <3>3. <<>> \in Bytes(0)
      BY DEF Bytes
    <3>4. Message(u, 0, id)
      <4>1. IsFrame(u, body, 0, id, <<>>)
        BY <1>1, <3>1, <3>2, <3>3 DEF IsFrame
      <4> QED
        BY <4>1, FrameParts
    <3> HIDE DEF id
    <3>5. Framed(u, Simple(id))
      BY <1>7, <3>4, SimpleRead
    <3> QED
      BY <2>2, <3>5 DEF u
  <2> QED
    BY <2>3, <2>4
<1> QED
  BY <1>3, <1>4, <1>5, <1>6, <1>7

-----------------------------------------------------------------------------
(* Whole streams: what other clients send, and the requests that this       *)
(* program sends.                                                           *)

LEMMA StreamKept ==
  ASSUME NEW S, NEW ms \in Seq(S), \A m \in S : Writable(m)
  PROVE  StreamUnderstood(ms)
<1> DEFINE n == Len(ms)
           fs == [i \in DOMAIN ms |-> Frame(ms[i])]
<1>1. /\ n \in Nat /\ DOMAIN ms = 1 .. n /\ ms = [i \in 1 .. n |-> ms[i]]
      /\ \A i \in 1 .. n : ms[i] \in S
  BY LenProperties, ElementOfSeq
<1>2. \A i \in 1 .. n : Framed(Frame(ms[i]), ms[i])
  BY <1>1, FrameKept
<1> HIDE DEF n
<1>3. \A i \in 1 .. n : Frame(ms[i]) \in Seq(Byte)
  BY <1>2 DEF Framed
<1>4. fs \in [1 .. n -> Seq(Byte)] /\ \A i \in 1 .. n : fs[i] = Frame(ms[i])
  BY <1>1, <1>3
<1> HIDE DEF fs
<1>5. Messages(FlattenSeq(fs)) = ms
  BY <1>1, <1>2, <1>4, StreamCut
<1> QED
  BY <1>5 DEF StreamUnderstood, fs

\* The bytes of an interested message, and of a request.
LEMMA InterestedRead == Framed(MarshalInterested, Simple(InterestedMsgId))
<1> DEFINE body == <<InterestedMsgId>>
<1>1. body = <<InterestedMsgId>> \o <<>> /\ Len(body) = defaultMsgLen
  BY DEF defaultMsgLen
<1>2. Fits(defaultMsgLen, 4) /\ InterestedMsgId \in Nat /\ InterestedMsgId < Radix \div 2
  BY SmallFits, RadixAssumption DEF defaultMsgLen, InterestedMsgId
<1>3. MarshalInterested = PutUint(defaultMsgLen, 4) \o body
  <2>1. IntToByte(defaultMsgLen, 4) = PutUint(defaultMsgLen, 4)
    BY IntToByteIs DEF defaultMsgLen
  <2> QED
    BY <2>1 DEF MarshalInterested, IntToByte
<1>4. <<>> \in Bytes(0)
  BY DEF Bytes
<1> HIDE DEF body
<1>5. IsFrame(MarshalInterested, body, 0, InterestedMsgId, <<>>)
  BY <1>1, <1>2, <1>3, <1>4 DEF IsFrame
<1>6. Message(MarshalInterested, 0, InterestedMsgId)
  BY <1>5, FrameParts
<1>7. InterestedMsgId \notin {HaveMsgId, RequestMsgId, CancelMsgId, PieceMsgId, BitfieldMsgId}
  BY DEF InterestedMsgId, HaveMsgId, RequestMsgId, CancelMsgId, PieceMsgId, BitfieldMsgId
<1> QED
  BY <1>6, <1>7, SimpleRead

Asked(r) ==
  [ID |-> RequestMsgId, PieceIndex |-> Uint32(r.PieceIndex),
   BeginIndex |-> Uint32(r.BeginIndex), BlockLength |-> Uint32(r.BlockLength)]

LEMMA AskedRead ==
  ASSUME NEW r \in [PieceIndex : Int, BeginIndex : Int, BlockLength : Int]
  PROVE  Framed(MarshalRequest(r), Asked(r))
<1> DEFINE len == IntToByte(RequestLength, 4)
           id == IntToByte(RequestMsgId, 1)
           p == IntToByte(r.PieceIndex, 4)
           b == IntToByte(r.BeginIndex, 4)
           l == IntToByte(r.BlockLength, 4)
           f1 == len \o id
           f2 == f1 \o p
           f3 == f2 \o b
           u == f3 \o l
<1>1. /\ p \in Bytes(4) /\ Uint(p) = Uint32(r.PieceIndex)
      /\ b \in Bytes(4) /\ Uint(b) = Uint32(r.BeginIndex)
      /\ l \in Bytes(4) /\ Uint(l) = Uint32(r.BlockLength)
  BY IntToByteIs, LowFour
<1>2. len \in Bytes(4) /\ Uint(len) = 13
  <2>1. Fits(RequestLength, 4)
    BY SmallFits, RadixIs DEF RequestLength, requestMsgLen
  <2> QED
    BY <2>1, FieldKept DEF RequestLength, requestMsgLen
<1>3. id \in Bytes(1) /\ id[1] = RequestMsgId
  <2>1. RequestMsgId \in Byte
    BY RadixIs DEF RequestMsgId, Byte
  <2>2. id = <<RequestMsgId>>
    BY DEF IntToByte
  <2> HIDE DEF id
  <2>3. id \in Seq(Byte) /\ Len(id) = 1 /\ id[1] = RequestMsgId
    BY <2>1, <2>2
  <2> QED
    BY <2>3 DEF Bytes
<1> HIDE DEF len, id, p, b, l, f1, f2, f3, u
<1> DEFINE g0 == {<<0, 4, len>>}
           g1 == g0 \cup {<<4, 5, id>>}
           g2 == g1 \cup {<<5, 9, p>>}
           g3 == g2 \cup {<<9, 13, b>>}
           g4 == g3 \cup {<<13, 17, l>>}
<1>4. Fields(u, 17, g4)
  <2>1. Fields(len, 4, g0)
    BY <1>2, FirstField
  <2> HIDE DEF g0
  <2>2. Fields(f1, 5, g1)
    BY <1>3, <2>1, NextField DEF f1
  <2> HIDE DEF g1
  <2>3. Fields(f2, 9, g2)
    BY <1>1, <2>2, NextField DEF f2
  <2> HIDE DEF g2
  <2>4. Fields(f3, 13, g3)
    BY <1>1, <2>3, NextField DEF f3
  <2> HIDE DEF g3
  <2> QED
    BY <1>1, <2>4, NextField DEF u
<1>5. /\ u \in Bytes(17) /\ Slice(u, 0, 4) = len /\ Slice(u, 4, 5) = id
      /\ Slice(u, 5, 9) = p /\ Slice(u, 9, 13) = b /\ Slice(u, 13, 17) = l
  <2>1. \A x \in g4 : Slice(u, x[1], x[2]) = x[3]
    BY <1>4 DEF Fields
  <2>2. ASSUME NEW i, NEW k, NEW v, <<i, k, v>> \in g4 PROVE Slice(u, i, k) = v
    BY <2>1, <2>2
  <2>3. /\ <<0, 4, len>> \in g4 /\ <<4, 5, id>> \in g4
        /\ <<5, 9, p>> \in g4 /\ <<9, 13, b>> \in g4 /\ <<13, 17, l>> \in g4
    OBVIOUS
  <2>4. u \in Bytes(17)
    BY <1>4 DEF Fields
  <2> HIDE DEF g4
  <2> QED
    BY <2>2, <2>3, <2>4
<1> HIDE DEF g4
<1>6. u[5] = RequestMsgId
  <2>1. u \in Seq(Byte) /\ 5 <= Len(u)
    <3>1. PICK m \in Nat : m = 17
      OBVIOUS
    <3>2. u \in Bytes(m) /\ 5 <= m
      BY <1>5, <3>1
    <3> QED
      BY <3>2 DEF Bytes
  <2>2. ASSUME NEW i \in Nat, NEW j \in Nat, i <= j, j <= Len(u)
        PROVE  \A k \in 1 .. j - i : Slice(u, i, j)[k] = u[i + k]
    BY <2>1, <2>2, SliceOf
  <2>3. 4 \in Nat /\ 5 \in Nat /\ 4 <= 5
    OBVIOUS
  <2>4. \A k \in 1 .. 5 - 4 : Slice(u, 4, 5)[k] = u[4 + k]
    BY <2>1, <2>2, <2>3, Zenon
  <2>5. id[1] = u[5]
    <3>1. 1 \in 1 .. 5 - 4 /\ 4 + 1 = 5
      OBVIOUS
    <3> QED
      BY <1>5, <2>4, <3>1
  <2> QED
    BY <1>3, <2>5
<1>7. Message(u, 12, RequestMsgId)
  <2>1. 5 + 12 = 17 /\ 12 + 1 = 13
    OBVIOUS
  <2>2. RequestMsgId \in Nat /\ RequestMsgId < Radix \div 2
    BY RadixAssumption DEF RequestMsgId
  <2> QED
    BY <1>2, <1>5, <1>6, <2>1, <2>2 DEF Message
<1>8. RequestMsgId \in {RequestMsgId, CancelMsgId}
  OBVIOUS
<1>9. Framed(u, Asked(r))
  <2>1. Framed(u, [ID |-> RequestMsgId, PieceIndex |-> Uint(p), BeginIndex |-> Uint(b),
                   BlockLength |-> Uint(l)])
    BY <1>5, <1>7, <1>8, RequestRead
  <2> QED
    BY <1>1, <2>1, Zenon DEF Asked
<1> QED
  BY <1>9 DEF MarshalRequest, u, f3, f2, f1, len, id, p, b, l

LEMMA Associative ==
  ASSUME NEW s \in Seq(Byte), NEW t \in Seq(Byte), NEW u \in Seq(Byte)
  PROVE  (s \o t) \o u = s \o (t \o u)
  BY ConcatAssociative

\* One sequence before others.
LEMMA FlattenFirst ==
  ASSUME NEW n \in Nat, NEW first \in Seq(Byte), NEW fs \in [1 .. n -> Seq(Byte)],
         NEW gs \in [1 .. n + 1 -> Seq(Byte)], gs[1] = first,
         \A i \in 1 .. n : gs[i + 1] = fs[i]
  PROVE  FlattenSeq(gs) = first \o FlattenSeq(fs)
<1>1. PICK f \in [0 .. n -> Seq(Byte)] : Joins(f, fs, n) /\ FlattenSeq(fs) = f[n]
  BY FlattenSteps
<1>2. n + 1 \in Nat
  OBVIOUS
<1>3. PICK g \in [0 .. n + 1 -> Seq(Byte)] : Joins(g, gs, n + 1) /\ FlattenSeq(gs) = g[n + 1]
  BY <1>2, FlattenSteps
<1> DEFINE P(k) == g[k + 1] = first \o f[k]
           N == {k \in Nat : k <= n => P(k)}
<1>4. P(0)
  <2>1. f[0] = <<>> /\ g[0] = <<>>
    BY <1>1, <1>3 DEF Joins
  <2>2. 1 \in 1 .. n + 1 /\ 1 - 1 = 0 /\ 0 + 1 = 1
    OBVIOUS
  <2>3. g[1] = g[0] \o gs[1]
    BY <1>3, <2>2 DEF Joins
  <2>4. <<>> \o first = first /\ first \o <<>> = first
    BY ConcatEmptySeq
  <2> QED
    BY <2>1, <2>2, <2>3, <2>4, Zenon
<1>5. ASSUME NEW k \in Nat, k + 1 <= n, P(k) PROVE P(k + 1)
  <2>1. /\ k + 1 \in 1 .. n /\ (k + 1) - 1 = k /\ k \in 0 .. n
        /\ (k + 1) + 1 \in 1 .. n + 1 /\ ((k + 1) + 1) - 1 = k + 1
    BY <1>5
  <2>2. f[k + 1] = f[k] \o fs[k + 1]
    BY <1>1, <2>1 DEF Joins
  <2>3. g[(k + 1) + 1] = g[k + 1] \o gs[(k + 1) + 1] /\ gs[(k + 1) + 1] = fs[k + 1]
    BY <1>3, <2>1 DEF Joins
  <2>4. f[k] \in Seq(Byte) /\ fs[k + 1] \in Seq(Byte)
    BY <2>1
  <2>5. ASSUME NEW s \in Seq(Byte), NEW t \in Seq(Byte)
        PROVE  (first \o s) \o t = first \o (s \o t)
    BY Associative, Zenon
  <2> QED
    BY <1>5, <2>2, <2>3, <2>4, <2>5, Zenon
<1> HIDE DEF P
<1>6. 0 \in N /\ \A k \in Nat : k \in N => k + 1 \in N
  BY <1>4, <1>5
<1>7. \A k \in N : k <= n => P(k)
  OBVIOUS
<1>8. n \in N
  <2> HIDE DEF N
  <2> QED
    BY <1>6, Induction
<1>9. P(n)
  <2> HIDE DEF N
  <2> QED
    BY <1>7, <1>8
<1> QED
  BY <1>1, <1>3, <1>9, Zenon DEF P

LEMMA RequestsKept ==
  ASSUME NEW rs \in Seq([PieceIndex : Int, BeginIndex : Int, BlockLength : Int])
  PROVE  RequestsUnderstood(rs)
<1> DEFINE R == [PieceIndex : Int, BeginIndex : Int, BlockLength : Int]
           n == Len(rs)
           first == MarshalInterested
           fs == [i \in DOMAIN rs |-> MarshalRequest(rs[i])]
           gs == [i \in 1 .. n + 1 |-> IF i = 1 THEN first ELSE fs[i - 1]]
           asked == [i \in DOMAIN rs |-> Asked(rs[i])]
           ms == [i \in 1 .. n + 1 |-> IF i = 1 THEN Simple(InterestedMsgId) ELSE asked[i - 1]]
<1>1. n \in Nat /\ DOMAIN rs = 1 .. n /\ \A i \in 1 .. n : rs[i] \in R
  BY LenProperties, ElementOfSeq
<1> HIDE DEF R, n
<1>2. \A i \in 1 .. n : Framed(MarshalRequest(rs[i]), Asked(rs[i]))
  BY <1>1, AskedRead DEF R
<1>3. first \in Seq(Byte) /\ Framed(first, Simple(InterestedMsgId))
  BY InterestedRead DEF Framed
<1> HIDE DEF first
<1>4. /\ fs \in [1 .. n -> Seq(Byte)] /\ \A i \in 1 .. n : fs[i] = MarshalRequest(rs[i])
      /\ asked = [i \in 1 .. n |-> asked[i]] /\ \A i \in 1 .. n : asked[i] = Asked(rs[i])
  BY <1>1, <1>2 DEF Framed
<1> HIDE DEF fs, asked
<1>5. \A i \in 1 .. n + 1 : i # 1 => i - 1 \in 1 .. n
  BY <1>1
<1>6. gs \in [1 .. n + 1 -> Seq(Byte)] /\ gs[1] = first /\ \A i \in 1 .. n : gs[i + 1] = fs[i]
  BY <1>1, <1>3, <1>4, <1>5
<1>7. /\ ms = [i \in 1 .. n + 1 |-> ms[i]] /\ ms[1] = Simple(InterestedMsgId)
      /\ \A i \in 1 .. n : ms[i + 1] = asked[i]
  BY <1>1
<1>8. \A i \in 1 .. n + 1 : Framed(gs[i], ms[i])
  <2>1. ASSUME NEW i \in 1 .. n + 1, i # 1 PROVE Framed(gs[i], ms[i])
    <3>1. i - 1 \in 1 .. n /\ (i - 1) + 1 = i
      BY <1>5, <2>1
    <3>2. gs[i] = fs[i - 1] /\ ms[i] = asked[i - 1]
      BY <2>1
    <3> HIDE DEF gs, ms
    <3> QED
      BY <1>2, <1>4, <3>1, <3>2
  <2> HIDE DEF gs, ms
  <2>2. Framed(gs[1], ms[1])
    BY <1>3, <1>6, <1>7
  <2> QED
    BY <2>1, <2>2
<1> HIDE DEF gs, ms
<1>9. n + 1 \in Nat
  BY <1>1
<1>10. Messages(FlattenSeq(gs)) = ms
  BY <1>6, <1>7, <1>8, <1>9, StreamCut
<1>11. FlattenSeq(gs) = first \o FlattenSeq(fs)
  BY <1>1, <1>3, <1>4, <1>6, FlattenFirst
<1>12. ms = <<Simple(InterestedMsgId)>> \o asked
  <2> DEFINE M == {Simple(InterestedMsgId)} \cup {Asked(rs[i]) : i \in 1 .. n}
             one == <<Simple(InterestedMsgId)>>
  <2>1. asked \in [1 .. n -> M] /\ one \in Seq(M) /\ Len(one) = 1 /\ one[1] = Simple(InterestedMsgId)
    BY <1>4
  <2>2. asked \in Seq(M) /\ Len(asked) = n
    <3>1. asked \in Seq(M)
      <4> HIDE DEF M
      <4> QED
        BY <1>1, <2>1, SeqDef
    <3>2. Len(asked) = n
      BY <1>1, <1>4, LengthOf
    <3> QED
      BY <3>1, <3>2
  <2> HIDE DEF M, one
  <2>3. PICK u : u = one \o asked
    OBVIOUS
  <2>4. /\ u \in Seq(M) /\ Len(u) = 1 + n
        /\ \A i \in 1 .. 1 + n : u[i] = IF i <= 1 THEN one[i] ELSE asked[i - 1]
    <3>1. /\ u \in Seq(M) /\ Len(u) = Len(one) + Len(asked)
          /\ \A i \in 1 .. Len(one) + Len(asked) :
               u[i] = IF i <= Len(one) THEN one[i] ELSE asked[i - Len(one)]
      BY <2>1, <2>2, <2>3, ConcatProperties, Zenon
    <3> QED
      BY <2>1, <2>2, <3>1
  <2>5. ASSUME NEW i \in 1 .. n + 1 PROVE ms[i] = u[i]
    <3>1. CASE i = 1
      BY <1>1, <1>7, <2>1, <2>4, <3>1
    <3>2. CASE i # 1
      <4>1. i - 1 \in 1 .. n /\ (i - 1) + 1 = i /\ i \in 1 .. 1 + n /\ ~(i <= 1)
        BY <1>1, <1>5, <3>2
      <4> QED
        BY <1>7, <2>4, <4>1
    <3> QED
      BY <3>1, <3>2
  <2>6. ms \in Seq(M) /\ Len(ms) = n + 1
    <3>1. Len(ms) = n + 1
      BY <1>7, <1>9, LengthOf
    <3>2. \A i \in 1 .. n + 1 : u[i] \in M
      <4>1. \A i \in 1 .. Len(u) : u[i] \in M
        BY <2>4, ElementOfSeq
      <4> QED
        BY <1>1, <2>4, <4>1
    <3>3. ms \in [1 .. n + 1 -> M]
      BY <1>7, <2>5, <3>2
    <3>4. ms \in Seq(M)
      BY <1>9, <3>3, SeqDef
    <3> QED
      BY <3>1, <3>4
  <2>7. ms = u
    BY <1>1, <2>4, <2>5, <2>6, SeqEqual
  <2> QED
    BY <2>3, <2>7 DEF one
<1>13. Messages(first \o FlattenSeq(fs)) = <<Simple(InterestedMsgId)>> \o asked
  BY <1>10, <1>11, <1>12, Zenon
<1> QED
  BY <1>13, Zenon DEF RequestsUnderstood, first, fs, asked, Asked

-----------------------------------------------------------------------------
(* The invariants of Formats.                                               *)

\* The input is one of those the program may meet.
Given ==
  \/ input = None
  \/ \E x \in Infos : input = [kind |-> "info", x |-> x]
  \/ \E x \in Streams : input = [kind |-> "stream", x |-> x]
  \/ \E x \in Requests : input = [kind |-> "requests", x |-> x]
  \/ \E x \in Handshakes : input = [kind |-> "handshake", x |-> x]
  \/ \E x \in Announces : input = [kind |-> "announce", x |-> x]
  \/ \E x \in Answers : input = [kind |-> "answer", x |-> x]
  \/ \E x \in Values : input = [kind |-> "value", x |-> x]

LEMMA InputGiven == Spec => []Given
<1>1. Init => Given
  BY DEF Init, Given
<1>2. Given /\ [Next]_input => Given'
  BY DEF Given, Next, Operation, Done
<1> QED
  BY <1>1, <1>2, PTL DEF Spec

\* Every piece of every torrent is written in its place, and all of them leave no
\* byte out: writePiece, buildFileSegment, buildQueue and NewPiece, for torrents of
\* any length with any files and any length of a piece.
THEOREM WrittenInPlace == Spec => []PiecesInPlace
<1>1. \A info \in Infos : Torrent(info)
  BY InfoAssumption DEF Torrent
<1>2. Given => PiecesInPlace
  <2> SUFFICES ASSUME Given, Is("info") PROVE WritesInPlace(input.x) /\ FilesComplete(input.x)
    BY DEF PiecesInPlace
  <2>1. input.x \in Infos
    BY DEF Given, Is, None
  <2> QED
    BY <1>1, <2>1, TorrentInPlace, NoByteLeftOut
<1> QED
  BY <1>2, InputGiven, PTL

\* What is read of a tracker's answer is what the tracker has written, but for its
\* first peer, and an answer that is longer than the buffer may end the process:
\* ParseAnnounceResponseUdpMsg, CreatePeersFromUDPTracker and NewPeerFromBytes, for
\* answers with any number of peers and any length of the buffer.
THEOREM AnswersKept == Spec => []AnswersUnderstood
<1>1. ASSUME NEW a \in Answers
      PROVE  Header(a[1]) /\ Swarm(a[2], Len(a[2]))
  <2> DEFINE H == [Action : Nat, TransactionID : Nat, Interval : Nat, NLeechers : Nat,
                   NSeeders : Nat]
  <2>1. /\ a[1] \in H /\ \A field \in DOMAIN a[1] : Fits(a[1][field], 4)
        /\ a[2] \in Seq([ip : Seq(Byte), port : Nat])
        /\ \A i \in DOMAIN a[2] : Len(a[2][i].ip) = 4 /\ Fits(a[2][i].port, 2)
    BY AnswerAssumption
  <2>2. Header(a[1])
    <3>1. DOMAIN a[1] = {"Action", "TransactionID", "Interval", "NLeechers", "NSeeders"}
      BY <2>1
    <3>2. \A field \in {"Action", "TransactionID", "Interval", "NLeechers", "NSeeders"} :
            Fits(a[1][field], 4)
      BY <2>1, <3>1
    <3> QED
      BY <2>1, <3>2 DEF Header
  <2>3. /\ Len(a[2]) \in Nat /\ DOMAIN a[2] = 1 .. Len(a[2])
        /\ \A i \in 1 .. Len(a[2]) : a[2][i] \in [ip : Seq(Byte), port : Nat]
    BY <2>1, LenProperties, ElementOfSeq
  <2>4. \A i \in 1 .. Len(a[2]) : a[2][i].ip \in Bytes(4) /\ Fits(a[2][i].port, 2)
    BY <2>1, <2>3 DEF Bytes
  <2> QED
    BY <2>1, <2>2, <2>3, <2>4 DEF Swarm
<1>2. Given => AnswersUnderstood
  <2> SUFFICES ASSUME Given, Is("answer")
               PROVE  /\ PeersUnderstood(input.x[1], input.x[2])
                      /\ AnswerUnderstood(input.x[1], input.x[2])
    BY DEF AnswersUnderstood
  <2>1. input.x \in Answers
    BY DEF Given, Is, None
  <2> QED
    BY <1>1, <2>1, PeersFound, AnswerKept
<1> QED
  BY <1>2, InputGiven, PTL

\* What other clients send is read as it was meant: the hash and the id of a handshake,
\* by newHandShakeMsg and parseHandShake, for every hash and id, and the messages
\* of the stream behind it one by one, with every field, by HandleMsgStream, ParseMsg
\* and the parsers of msg_parser.go, for streams of any messages, as many as there are
\* and as long as they are.
THEOREM ClientsKept == Spec => []ClientsUnderstood
<1>1. Given /\ Is("handshake") => HandshakeUnderstood(input.x[1], input.x[2])
  <2> SUFFICES ASSUME Given, Is("handshake")
               PROVE  HandshakeUnderstood(input.x[1], input.x[2])
    OBVIOUS
  <2>1. input.x \in Handshakes
    BY DEF Given, Is, None
  <2>2. input.x[1] \in Bytes(20) /\ input.x[2] \in Seq(Byte)
    BY <2>1, HandshakeAssumption DEF Bytes
  <2>3. Len(input.x[2]) \in Nat /\ input.x[2] \in Bytes(Len(input.x[2]))
    BY <2>2, LenProperties DEF Bytes
  <2> QED
    BY <2>2, <2>3, HandshakeKept
<1>2. Given /\ Is("stream") => StreamUnderstood(input.x)
  <2> SUFFICES ASSUME Given, Is("stream") PROVE StreamUnderstood(input.x)
    OBVIOUS
  <2>1. input.x \in Streams
    BY DEF Given, Is, None
  <2>2. input.x \in Seq(ToSet(input.x)) /\ \A m \in ToSet(input.x) : Writable(m)
    BY <2>1, StreamAssumption
  <2> QED
    BY <2>2, StreamKept
<1>3. Given => ClientsUnderstood
  BY <1>1, <1>2 DEF ClientsUnderstood
<1> QED
  BY <1>3, InputGiven, PTL

\* Requests are read as they were made and each where it begins, and a tracker finds
\* every field of an announcement in its place: RequestMsg.Marshal,
\* InterestedMsg.Marshal, IntToByte, NewUdpAnnounceRequest, NewUdpConnectionRequest
\* and ParseUdpConnectionResponse, for every request and every number that fits its
\* field.
THEOREM RequestsKeepTheirFields == Spec => []RequestsArrive
<1>1. Given /\ Is("requests") => RequestsUnderstood(input.x)
  <2> SUFFICES ASSUME Given, Is("requests") PROVE RequestsUnderstood(input.x)
    OBVIOUS
  <2>1. input.x \in Requests
    BY DEF Given, Is, None
  <2> QED
    BY <2>1, RequestAssumption, RequestsKept
<1>2. Given /\ Is("announce") => AnnounceUnderstood(input.x) /\ ConnectionKept(input.x)
  <2> SUFFICES ASSUME Given, Is("announce")
               PROVE  AnnounceUnderstood(input.x) /\ ConnectionKept(input.x)
    OBVIOUS
  <2>1. input.x \in Announces
    BY DEF Given, Is, None
  <2>2. Announcement(input.x)
    BY <2>1, AnnounceAssumption DEF Announcement, Bytes
  <2> QED
    BY <2>2, AnnouncementKept, ConnectionIsKept
<1>3. Given => RequestsArrive
  BY <1>1, <1>2 DEF RequestsArrive
<1> QED
  BY <1>3, InputGiven, PTL

=============================================================================

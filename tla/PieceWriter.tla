---------------------------- MODULE PieceWriter ----------------------------
(***************************************************************************)
(* Where the bytes of a torrent belong: the files of a torrent             *)
(* (core/torrent/Torrent.go), its pieces (core/downloader.go,              *)
(* core/piece.go) and the parts of a piece that are written to each file   *)
(* (core/writer.go).                                                       *)
(*                                                                         *)
(* A byte is its number in the torrent. What is on disk is a set of        *)
(* <<path, offset, byte>>. Opening and creating files and directories is   *)
(* left out; a failure of one ends the process.                            *)
(***************************************************************************)
EXTENDS Integers, Sequences, SequencesExt

(***************************************************************************)
(* The info dictionary: the length, which is 0 when the key is absent, the *)
(* name, the files, and the length of a piece.                             *)
(***************************************************************************)
FileMode(info) == IF info.length # 0 THEN "single" ELSE "multiple"

\* GetPath for a segment.
Path(info, i) ==
  IF FileMode(info) = "single" THEN <<info.name>> ELSE <<info.name>> \o info.files[i].path

File(info) ==
  IF FileMode(info) = "single"
  THEN <<[Length |-> info.length, Path |-> Path(info, 1)]>>
  ELSE [i \in DOMAIN info.files |->
          [Length |-> info.files[i].length, Path |-> Path(info, i)]]

\* buildFileSegment: EndIndex is the index after the last byte.
FileSegments(info) ==
  LET file == File(info)
      EndIndex[i \in 0 .. Len(file)] == IF i = 0 THEN 0 ELSE EndIndex[i - 1] + file[i].Length
  IN  [i \in DOMAIN file |->
         [Path |-> file[i].Path, Length |-> file[i].Length,
          StartIndex |-> EndIndex[i - 1], EndIndex |-> EndIndex[i]]]

TorrentLength(info) == FoldLeft(LAMBDA n, f : n + f.Length, 0, File(info))

-----------------------------------------------------------------------------
\* buildQueue, NewPiece: pieces count from 0, the last one may be shorter.
NPiece(info) == (TorrentLength(info) + info.pieceLength - 1) \div info.pieceLength

NewPiece(info, i) ==
  LET start == i * info.pieceLength
  IN  [pieceStartIndex |-> start,
       pieceLength |-> IF start + info.pieceLength > TorrentLength(info)
                       THEN TorrentLength(info) - start ELSE info.pieceLength]

-----------------------------------------------------------------------------
\* The cases of writePiece, for a segment and a piece from start to end. A file
\* inside the piece; a file that holds the start of the piece or ends there; a
\* file that holds the end of the piece.
CaseA(seg, start, end) == start < seg.StartIndex /\ end > seg.EndIndex
CaseB(seg, start, end) == seg.StartIndex <= start /\ start <= seg.EndIndex

\* (Mutant: a piece that ends with the file is left out.)
CaseCStrict(seg, start, end) == start <= seg.StartIndex /\ end < seg.EndIndex

CaseC(seg, start, end) == start <= seg.StartIndex /\ end <= seg.EndIndex

(***************************************************************************)
(* The part of the piece that goes to a file: its first index and the index*)
(* after its last one in the piece, and where it goes in the file. from and*)
(* to are relativeStartIndex and relativeEndIndex as the last file has left*)
(* them.                                                                   *)
(***************************************************************************)
SegmentSlice(seg, piece, from, to) ==
  LET start == piece.pieceStartIndex
      end == start + piece.pieceLength
      offset == seg.StartIndex - start
  IN  IF CaseA(seg, start, end)
      THEN [from |-> offset, to |-> offset + seg.Length, writeAt |-> 0]
      ELSE IF CaseB(seg, start, end)
      THEN [from |-> from,
            to |-> IF end > seg.EndIndex THEN piece.pieceLength - (end - seg.EndIndex) ELSE to,
            writeAt |-> start - seg.StartIndex]
      ELSE [from |-> offset, to |-> piece.pieceLength, writeAt |-> 0]

Touches(seg, start, end) ==
  CaseA(seg, start, end) \/ CaseB(seg, start, end) \/ CaseC(seg, start, end)

\* writeToFile.
WriteToFile(path, piece, s) ==
  {<<path, s.writeAt + k, piece.pieceStartIndex + s.from + k>> : k \in 0 .. s.to - s.from - 1}

\* writePiece: what it knows before the first file, and what it does with a file.
\* panic: a slice out of the bounds of the buffer.
NothingWritten(piece) ==
  [written |-> {}, panic |-> FALSE, remaining |-> piece.pieceLength,
   from |-> 0, to |-> piece.pieceLength]

WriteSegment(piece, w, seg) ==
  IF w.remaining = 0 \/ ~Touches(seg, piece.pieceStartIndex,
                                 piece.pieceStartIndex + piece.pieceLength)
  THEN w
  ELSE LET s == SegmentSlice(seg, piece, w.from, w.to)
       IN  [written |-> w.written \cup WriteToFile(seg.Path, piece, s),
            panic |-> w.panic \/ ~(0 <= s.from /\ s.from <= s.to /\ s.to <= piece.pieceLength),
            remaining |-> w.remaining - (s.to - s.from),
            from |-> s.to, to |-> piece.pieceLength]

WritePiece(segments, piece) ==
  FoldLeft(LAMBDA w, seg : WriteSegment(piece, w, seg), NothingWritten(piece), segments)

-----------------------------------------------------------------------------
\* The bytes from first to last where they belong.
InPlace(info, first, last) ==
  LET seg == FileSegments(info)
  IN  UNION {{<<seg[i].Path, b - seg[i].StartIndex, b>> :
                b \in {x \in first .. last : seg[i].StartIndex <= x /\ x < seg[i].EndIndex}} :
             i \in DOMAIN seg}

\* Every piece puts each of its bytes where it belongs, and nothing else
\* anywhere, however the borders of files and pieces fall.
WritesInPlace(info) ==
  \A i \in 0 .. NPiece(info) - 1 :
    LET piece == NewPiece(info, i)
        w == WritePiece(FileSegments(info), piece)
    IN  /\ ~w.panic
        /\ w.remaining = 0
        /\ w.written = InPlace(info, piece.pieceStartIndex,
                               piece.pieceStartIndex + piece.pieceLength - 1)

\* When every piece is written, in whatever order, the files are complete.
FilesComplete(info) ==
  UNION {WritePiece(FileSegments(info), NewPiece(info, i)).written :
         i \in 0 .. NPiece(info) - 1}
    = InPlace(info, 0, TorrentLength(info) - 1)
=============================================================================

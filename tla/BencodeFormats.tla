--------------------------- MODULE BencodeFormats ---------------------------
(***************************************************************************)
(* The inputs of Formats, with the meaning of its bencoded values.         *)
(***************************************************************************)
EXTENDS Formats, Bencode

\* UnmarshallFromArray against the meaning of the value, part by part; and
\* ToBencode after it gives the text back, of which the info hash is taken.
ValuesUnderstood == Is("value") => DecodesParts(input.x) /\ WrittenAsRead(input.x)
=============================================================================

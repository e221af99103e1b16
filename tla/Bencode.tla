------------------------------ MODULE Bencode ------------------------------
(***************************************************************************)
(* The decoder and encoder of core's HTTP tracker and earlier torrent type *)
(* (parser/bencode_parser.go).                                             *)
(*                                                                         *)
(* A file is a sequence of tokens: a string with its length, a number with *)
(* its i and e, and the letters d, l and e of containers. The content of a *)
(* string or a number is a member of a small set; Numeral holds those that *)
(* strconv.Atoi accepts. Positions kept for later use are left out, but for*)
(* Index. The module is for model checking: the decoder is recursive.      *)
(***************************************************************************)
EXTENDS Naturals, Sequences, SequencesExt, FiniteSets

CONSTANT Numeral

Str(v) == [t |-> "s", v |-> v]
Num(v) == [t |-> "i", v |-> v]
Letter(c) == [t |-> c]

(***************************************************************************)
(* getField reads two tokens. A string or a number is read and passed, at  *)
(* the letter of a container nothing moves. field is the last letter seen, *)
(* and e for a number as well. Only the digits of a number are kept, so a  *)
(* negative one is a Num without its sign.                                 *)
(***************************************************************************)
\* (Mutant: a number is not marked as the end of a field.)
FieldOfTextOnly(token, field) == IF token.t \in {"s", "i"} THEN field ELSE token.t

FieldAfter(token, field) ==
  CASE token.t = "s" -> field
    [] token.t = "i" -> "e"
    [] OTHER -> token.t

ReadToken(file, r) ==
  LET token == file[r.pos]
      text == token.t \in {"s", "i"}
  IN  [data |-> IF text THEN Append(r.data, token.v) ELSE r.data,
       pos |-> IF text THEN r.pos + 1 ELSE r.pos,
       field |-> FieldAfter(token, r.field)]

getField(file, pos) ==
  ReadToken(file, ReadToken(file, [data |-> <<>>, pos |-> pos, field |-> "0"]))

(***************************************************************************)
(* A BMap and a BList. DataList of a map has the key and type of every     *)
(* entry, that of a list has the type: an entry's Index is its place there.*)
(***************************************************************************)
NewBMap == [DataList |-> <<>>, Strings |-> <<>>, BMaps |-> <<>>, BLists |-> <<>>]
NewBList == NewBMap

\* An entry of a Go map, as a function from the keys.
Put(map, key, value) ==
  [k \in DOMAIN map \cup {key} |-> IF k = key THEN value ELSE map[k]]

Listed(c, entry) == [c EXCEPT !.DataList = Append(@, entry)]

RECURSIVE Parse(_, _), ParseMap(_, _, _), ParseList(_, _, _)

\* The container whose letter is at pos, and the position of its e.
Parse(file, pos) ==
  IF file[pos].t = "d" THEN ParseMap(file, pos + 1, NewBMap)
  ELSE ParseList(file, pos + 1, NewBList)

\* One turn of the loop for a map.
ParseMap(file, pos, map) ==
  LET f == getField(file, pos)
      key == f.data[1]
      inner == Parse(file, f.pos)
      then(m, p) == IF file[p].t = "e" THEN [c |-> m, position |-> p]
                    ELSE ParseMap(file, p, m)
      listed == Listed(map, [key |-> key, dType |-> IF f.field = "e" THEN "0" ELSE f.field])
  IN  CASE f.field \in {"0", "e"} ->
             then([listed EXCEPT !.Strings = Put(@, key, f.data[2])], f.pos)
        [] f.field = "l" ->
             then([listed EXCEPT !.BLists = Put(@, key, inner.c)], inner.position + 1)
        [] f.field = "d" ->
             then([listed EXCEPT !.BMaps = Put(@, key, inner.c)], inner.position + 1)

\* One turn of the loop for a list. Two strings in a row have field 0, and no
\* branch takes them.
ParseList(file, pos, list) ==
  LET f == getField(file, pos)
      inner == Parse(file, f.pos)
      then(l, p) == IF file[p].t = "e" THEN [c |-> l, position |-> p]
                    ELSE ParseList(file, p, l)
      listed == Listed(list, [dType |-> IF f.field = "e" THEN "0" ELSE f.field])
  IN  CASE f.field = "0" -> then(list, f.pos)
        [] f.field = "e" ->
             then([listed EXCEPT !.Strings = Append(@, f.data[1])], f.pos)
        [] f.field = "l" ->
             then([listed EXCEPT !.BLists = Append(@, inner.c)], inner.position + 1)
        [] f.field = "d" ->
             then([listed EXCEPT !.BMaps = Append(@, inner.c)], inner.position + 1)

\* UnmarshallFromArray.
UnmarshallFromArray(file) == Parse(file, 1).c

-----------------------------------------------------------------------------
Text(v) == IF v \in Numeral THEN Num(v) ELSE Str(v)

RECURSIVE MapTokens(_), ListTokens(_)

\* ToBencode, for a map and for a list. A list looks its entries up by their
\* place in DataList.
MapTokens(map) ==
  LET entry(info) ==
        <<Str(info.key)>> \o
          (CASE info.dType = "0" -> <<Text(map.Strings[info.key])>>
             [] info.dType = "l" -> ListTokens(map.BLists[info.key])
             [] info.dType = "d" -> MapTokens(map.BMaps[info.key]))
  IN  <<Letter("d")>> \o FlattenSeq([i \in DOMAIN map.DataList |-> entry(map.DataList[i])])
        \o <<Letter("e")>>

ListTokens(list) ==
  LET entry(i) ==
        CASE list.DataList[i].dType = "0" -> <<Str(list.Strings[i])>>
          [] list.DataList[i].dType = "l" -> ListTokens(list.BLists[i])
          [] list.DataList[i].dType = "d" -> MapTokens(list.BMaps[i])
  IN  <<Letter("l")>> \o FlattenSeq([i \in DOMAIN list.DataList |-> entry(i)])
        \o <<Letter("e")>>

-----------------------------------------------------------------------------
(***************************************************************************)
(* A value of bencode: a string or number as its token, a list as the      *)
(* sequence of its members, a dictionary as the sequence of its keys and   *)
(* values in the order of the file.                                        *)
(***************************************************************************)
RECURSIVE Tokens(_)

\* How another program writes a value.
Tokens(x) ==
  CASE x.t \in {"s", "i"} -> <<x>>
    [] x.t = "l" -> <<Letter("l")>> \o FlattenSeq([i \in DOMAIN x.e |-> Tokens(x.e[i])])
                      \o <<Letter("e")>>
    [] x.t = "d" -> <<Letter("d")>>
                      \o FlattenSeq([i \in DOMAIN x.e |-> <<Str(x.e[i].k)>> \o Tokens(x.e[i].v)])
                      \o <<Letter("e")>>

IsText(x) == x.t \in {"s", "i"}

\* What a list keeps: its containers, and its last text when no other one is
\* read with it. Texts are read in pairs, of which the first is kept if one of
\* the two is a number; a text before a container is lost.
RECURSIVE Kept(_)
Kept(e) ==
  IF e = <<>> THEN <<>>
  ELSE IF ~IsText(e[1]) THEN <<e[1]>> \o Kept(Tail(e))
  ELSE IF Len(e) = 1 THEN e
  ELSE IF ~IsText(e[2]) THEN Kept(Tail(e))
  ELSE (IF e[1].t = "i" \/ e[2].t = "i" THEN <<e[1]>> ELSE <<>>) \o Kept(Tail(Tail(e)))

RECURSIVE Image(_)

\* The Go value for a list or a dictionary, from the parts of it.
Image(x) ==
  IF x.t = "d"
  THEN LET keys(ts) == {x.e[i].k : i \in {j \in DOMAIN x.e : x.e[j].v.t \in ts}}
           last(k, ts) == CHOOSE i \in DOMAIN x.e :
                            /\ x.e[i].k = k /\ x.e[i].v.t \in ts
                            /\ \A j \in i + 1 .. Len(x.e) : ~(x.e[j].k = k /\ x.e[j].v.t \in ts)
       IN  [DataList |-> [i \in DOMAIN x.e |->
                            [key |-> x.e[i].k,
                             dType |-> IF IsText(x.e[i].v) THEN "0" ELSE x.e[i].v.t]],
            Strings |-> [k \in keys({"s", "i"}) |-> x.e[last(k, {"s", "i"})].v.v],
            BMaps |-> [k \in keys({"d"}) |-> Image(x.e[last(k, {"d"})].v)],
            BLists |-> [k \in keys({"l"}) |-> Image(x.e[last(k, {"l"})].v)]]
  ELSE LET kept == Kept(x.e)
           of(ts) == SelectSeq(kept, LAMBDA y : y.t \in ts)
           texts == of({"s", "i"})
           maps == of({"d"})
           lists == of({"l"})
       IN  [DataList |-> [i \in DOMAIN kept |->
                            [dType |-> IF IsText(kept[i]) THEN "0" ELSE kept[i].t]],
            Strings |-> [i \in DOMAIN texts |-> texts[i].v],
            BMaps |-> [i \in DOMAIN maps |-> Image(maps[i])],
            BLists |-> [i \in DOMAIN lists |-> Image(lists[i])]]

\* Every container of the value has a member; an empty one ends the process.
RECURSIVE NoneEmpty(_)
NoneEmpty(x) ==
  CASE IsText(x) -> TRUE
    [] x.t = "l" -> x.e # <<>> /\ \A i \in DOMAIN x.e : NoneEmpty(x.e[i])
    [] x.t = "d" -> x.e # <<>> /\ \A i \in DOMAIN x.e : NoneEmpty(x.e[i].v)

\* The values that survive: keys are not repeated, a number of a dictionary is
\* not written as a string there, and a list is a single string or has
\* containers of one kind only.
RECURSIVE Kind(_)
Kind(x) ==
  CASE IsText(x) -> TRUE
    [] x.t = "d" ->
         /\ \A i, j \in DOMAIN x.e : x.e[i].k = x.e[j].k => i = j
         /\ \A i \in DOMAIN x.e :
              Kind(x.e[i].v) /\ (x.e[i].v.t = "s" => x.e[i].v.v \notin Numeral)
    [] x.t = "l" ->
         \/ Len(x.e) = 1 /\ x.e[1].t = "s"
         \/ \E t \in {"l", "d"} : \A i \in DOMAIN x.e : x.e[i].t = t /\ Kind(x.e[i])

\* What the decoder makes of a file, by position and with its two tokens at a
\* time, is what it should make of the value, part by part: every entry of a
\* dictionary under its key, and nothing of a list but what Kept says.
DecodesParts(x) == NoneEmpty(x) => UnmarshallFromArray(Tokens(x)) = Image(x)

\* A value that survives is written again as it was read, token by token: the
\* info hash of the earlier torrent type is taken from this text.
WrittenAsRead(x) ==
  NoneEmpty(x) /\ Kind(x) => MapTokens(UnmarshallFromArray(Tokens(x))) = Tokens(x)
=============================================================================

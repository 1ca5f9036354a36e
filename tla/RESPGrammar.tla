----------------------------- MODULE RESPGrammar -----------------------------
(***************************************************************************)
(* The grammar of RESP: what a whole value is, told by its parts and not   *)
(* by how to find where it ends.  RESPParser is measured against it.       *)
(*                                                                         *)
(* A part of an input is a pair of positions, those of its first and of    *)
(* its last byte.                                                          *)
(***************************************************************************)
EXTENDS RESPParser

Parts(input) == (1 .. Len(input) + 1) \X (0 .. Len(input))

endsLine(bytes) ==
  Len(bytes) >= 2 /\ bytes[Len(bytes) - 1] = CR /\ bytes[Len(bytes)] = LF

(* One line, whose text is what stands between its marker and its end      *)
isLine(bytes) ==
  /\ Len(bytes) >= 3
  /\ endsLine(bytes)
  /\ \A i \in 2 .. Len(bytes) - 2 : ~(bytes[i] = CR /\ bytes[i + 1] = LF)

lineText(bytes) == SubSeq(bytes, 2, Len(bytes) - 2)

isNumberLine(bytes, marker, numbers) ==
  /\ isLine(bytes)
  /\ bytes[1] = char(marker)
  /\ isNumber(lineText(bytes)) /\ numberIn(lineText(bytes)) \in numbers

(* The words of n values in a row that make up a part, in a set; those of  *)
(* one value are in value.                                                 *)
noValues(input) ==
  [part \in Parts(input) |-> IF part[2] = part[1] - 1 THEN {<<>>} ELSE {}]

inTurn(these, those) == {words \o more : words \in these, more \in those}

oneMoreValue(input, row, value) ==
  [part \in Parts(input) |->
     UNION {inTurn(row[<<part[1], cut>>], value[<<cut + 1, part[2]>>])
            : cut \in part[1] - 1 .. part[2] - 1}]

inARow(input, n, value) ==
  LET row[i \in 0 .. n] ==
        IF i = 0 THEN noValues(input) ELSE oneMoreValue(input, row[i - 1], value)
  IN  row

(* The words of a value that makes up a part, in a set: none if there is   *)
(* no such value; value is the same for the values nested in it.           *)
oneLineValue(bytes) ==
  CASE isLine(bytes) /\ bytes[1] \in {char("+"), char("-")} -> {<<lineText(bytes)>>}
    [] isNumberLine(bytes, ":", -(LLMax + 1) .. LLMax) ->
         {<< <<num(numberIn(lineText(bytes)))>> >>}
    [] isNumberLine(bytes, "$", {-1}) \/ isNumberLine(bytes, "*", {-1}) -> {NullWords}
    [] OTHER -> {}

bulkString(input, from, to) ==
  {<<SubSeq(input, header + 1, to - 2)>> : header \in
     {h \in from .. to - 2 :
        /\ endsLine(SubSeq(input, h + 1, to)) /\ to - 2 - h <= MAX_STRING_LENGTH
        /\ isNumberLine(SubSeq(input, from, h), "$", {to - 2 - h})}}

arrayOf(input, from, to, value) ==
  UNION {LET n == numberIn(lineText(SubSeq(input, from, header)))
         IN  inARow(input, n, value)[n][<<header + 1, to>>] : header \in
           {h \in from .. to : isNumberLine(SubSeq(input, from, h), "*", 0 .. MAX_ARGS)}}

(* The values at a depth, those nested in them being value                 *)
wholeValues(input, depth, value) ==
  [part \in Parts(input) |->
     IF depth > MAX_DEPTH
     THEN {}
     ELSE oneLineValue(SubSeq(input, part[1], part[2]))
            \cup bulkString(input, part[1], part[2])
            \cup arrayOf(input, part[1], part[2], value)]

meanings(input) ==
  LET value[depth \in 0 .. MAX_DEPTH + 1] == wholeValues(input, depth, value[depth + 1])
  IN  value
===============================================================================

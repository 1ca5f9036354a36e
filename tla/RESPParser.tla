------------------------------ MODULE RESPParser ------------------------------
(***************************************************************************)
(* class RESPParser (resp/resp_parser.cpp): a pure function from the bytes *)
(* a connection has received to the first message in them.                 *)
(*                                                                         *)
(* A byte is <<"char", c>>, or <<"num", n>>: the digits of a number, with  *)
(* the minus sign of a negative one, stand as one byte.  Of a RESPValue    *)
(* only what toStringVector makes of it is kept, its args: the server      *)
(* looks at nothing else.  The words in args are byte sequences; those of  *)
(* an array are the words of its elements, nested ones flattened.          *)
(***************************************************************************)
EXTENDS Integers, Sequences, SequencesExt

CONSTANTS
  Characters,           \* the characters but digits
  MAX_STRING_LENGTH,    \* 1 MB in the code
  MAX_ARGS,             \* 1000
  MAX_DEPTH,            \* 100
  IntMax,               \* largest int
  LLMax                 \* largest long long

char(c) == <<"char", c>>
num(n)  == <<"num", n>>

Bytes == ({"char"} \X Characters) \cup ({"num"} \X Int)

ASSUME ParserAssumption ==
  /\ {MAX_STRING_LENGTH, MAX_ARGS, MAX_DEPTH, IntMax, LLMax} \subseteq Nat
  /\ MAX_STRING_LENGTH <= IntMax /\ MAX_ARGS <= IntMax
  /\ {"+", "-", ":", "$", "*", "CR", "LF"} \subseteq Characters

CR == char("CR")
LF == char("LF")

(* What the parse functions return through result and pos, or that they    *)
(* return false.  next is the position after the value.                    *)
Unparsed == [ok |-> FALSE, args |-> <<>>, next |-> 1]

Parsed(args, next) == [ok |-> TRUE, args |-> args, next |-> next]

(* Mutant: the last end of a line and not the first                        *)
findLastCRLF(input, start) ==
  LET ends == {i \in start .. Len(input) - 1 : input[i] = CR /\ input[i + 1] = LF}
  IN  IF ends = {} THEN 0 ELSE Max(ends)

(* Where the line that goes on at start ends; 0 when it does not           *)
findCRLF(input, start) ==
  LET ends == {i \in start .. Len(input) - 1 : input[i] = CR /\ input[i + 1] = LF}
  IN  IF ends = {} THEN 0 ELSE Min(ends)

(* std::stoll that takes the whole text: a number, before which white      *)
(* space and a plus sign may stand                                         *)
isNumber(str) ==
  /\ str # <<>> /\ Last(str)[1] = "num"
  /\ \E i \in 1 .. Len(str) :
       /\ \A j \in 1 .. i - 1 : str[j] \in {CR, LF}
       /\ \/ i = Len(str)
          \/ i = Len(str) - 1 /\ str[i] = char("+") /\ Last(str)[2] >= 0

numberIn(str) == Last(str)[2]

(* safeStringToInt and safeStringToLongLong: is the text a number that     *)
(* fits?                                                                   *)
isIntegerUpTo(str, max) == isNumber(str) /\ numberIn(str) \in -(max + 1) .. max

(* toStringVector: a value that is no array is one word, and NULL_VALUE an *)
(* empty one.                                                              *)
oneWord(text) == <<text>>

NullWords == oneWord(<<>>)

parseLine(input, pos) ==                  \* parseSimpleString and parseError
  LET end == findCRLF(input, pos + 1)
  IN  IF end = 0
      THEN Unparsed
      ELSE Parsed(oneWord(SubSeq(input, pos + 1, end - 1)), end + 2)

parseInteger(input, pos) ==
  LET line == parseLine(input, pos)
  IN  IF line.ok /\ isIntegerUpTo(line.args[1], LLMax)
      THEN Parsed(oneWord(<<num(numberIn(line.args[1]))>>), line.next)
      ELSE Unparsed

(* The int after "$" or "*"                                                *)
parseCount(input, pos) ==
  LET line == parseLine(input, pos)
  IN  IF line.ok /\ isIntegerUpTo(line.args[1], IntMax) THEN line ELSE Unparsed

countOf(line) == numberIn(line.args[1])

(* Mutant: what follows the payload is not looked at                       *)
parseBulkStringUnclosed(input, pos) ==
  LET line == parseCount(input, pos)
      len  == countOf(line)
      end  == line.next + len
  IN  CASE ~line.ok                          -> Unparsed
        [] line.ok /\ len = -1               -> Parsed(NullWords, line.next)
        [] line.ok /\ len # -1 ->
             IF 0 <= len /\ len <= MAX_STRING_LENGTH /\ end - 1 <= Len(input)
             THEN Parsed(oneWord(SubSeq(input, line.next, end - 1)), end + 2)
             ELSE Unparsed

(* The payload is len bytes, whatever they are, and CRLF                   *)
parseBulkString(input, pos) ==
  LET line == parseCount(input, pos)
      len  == countOf(line)
      end  == line.next + len             \* the position after the payload
  IN  CASE ~line.ok                          -> Unparsed
        [] line.ok /\ len = -1               -> Parsed(NullWords, line.next)
        [] line.ok /\ len # -1 ->
             IF /\ 0 <= len /\ len <= MAX_STRING_LENGTH
                /\ end + 1 <= Len(input)
                /\ input[end] = CR /\ input[end + 1] = LF
             THEN Parsed(oneWord(SubSeq(input, line.next, end - 1)), end + 2)
             ELSE Unparsed

(* The elements follow one another, and so do their words; elementAt[p] is *)
(* the value that begins at p.                                             *)
addElement(elements, elementAt) ==
  LET e == elementAt[elements.next]
  IN  IF elements.ok /\ e.ok THEN Parsed(elements.args \o e.args, e.next) ELSE Unparsed

(* The first i elements of an array, the first of which begins at start    *)
elementsFrom(start, n, elementAt) ==
  LET elements[i \in 0 .. n] ==
        IF i = 0 THEN Parsed(<<>>, start) ELSE addElement(elements[i - 1], elementAt)
  IN  elements

parseArray(input, pos, elementAt) ==
  LET line == parseCount(input, pos)
      n    == countOf(line)
  IN  CASE ~line.ok                          -> Unparsed
        [] line.ok /\ n = -1                 -> Parsed(NullWords, line.next)
        [] line.ok /\ n # -1 ->
             IF 0 <= n /\ n <= MAX_ARGS
             THEN elementsFrom(line.next, n, elementAt)[n]
             ELSE Unparsed

(* The values at every position, those nested in them being elementAt      *)
parseByMarker(input, depth, elementAt) ==
  [pos \in 1 .. Len(input) + 1 |->
     IF pos > Len(input) \/ depth > MAX_DEPTH
     THEN Unparsed
     ELSE CASE input[pos] \in {char("+"), char("-")} -> parseLine(input, pos)
            [] input[pos] = char(":") -> parseInteger(input, pos)
            [] input[pos] = char("$") -> parseBulkString(input, pos)
            [] input[pos] = char("*") -> parseArray(input, pos, elementAt)
            [] OTHER -> Unparsed]

parseValue(input) ==
  LET value[depth \in 0 .. MAX_DEPTH + 1] == parseByMarker(input, depth, value[depth + 1])
  IN  value

(* parse and toStringVector: whether a message has been found, its words,  *)
(* and the number of bytes it takes                                        *)
message(v) == [ok |-> v.ok, args |-> v.args, consumed |-> v.next - 1]

parse(input) == message(parseValue(input)[0][1])
===============================================================================

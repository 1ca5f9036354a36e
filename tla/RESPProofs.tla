------------------------------ MODULE RESPProofs ------------------------------
(***************************************************************************)
(* Proofs about RESP, for every limit and every bytes: the parser finds    *)
(* what the grammar says is there, bytes that follow a message change      *)
(* nothing of it, and the answers of the formatter read back as what was   *)
(* meant.                                                                  *)
(***************************************************************************)
EXTENDS RESPFormatter, RESPStream, RESPParserProofs

-----------------------------------------------------------------------------
(* The stream                                                              *)

LEMMA AppendExtends ==
  ASSUME NEW bytes \in Seq(Bytes), NEW b \in Bytes
  PROVE  Append(bytes, b) \in Seq(Bytes) /\ extends(Append(bytes, b), bytes)
BY AppendProperties DEF extends

LEMMA StreamTypeOK == StreamSpec => [](input \in Seq(Bytes))
<1>1. StreamInit => input \in Seq(Bytes)
  BY StreamAssumption DEF StreamInit
<1>2. input \in Seq(Bytes) /\ [ByteArrives]_input => (input \in Seq(Bytes))'
  BY StreamAssumption, AppendExtends DEF ByteArrives
<1> QED BY <1>1, <1>2, PTL DEF StreamSpec

(* Whatever has arrived and whatever arrives next, a message that parse    *)
(* has found stays the message, with its words and its bytes.              *)
THEOREM MessageIsFinal == StreamSpec => MoreBytesChangeNothing
<1>1. ASSUME input \in Seq(Bytes), [ByteArrives]_input
      PROVE  [parse(input).ok => parse(input') = parse(input)]_input
  <2>1. CASE ByteArrives
    <3>1. PICK b \in Alphabet : input' = Append(input, b)
      BY <2>1 DEF ByteArrives
    <3>2. input' \in Seq(Bytes) /\ extends(input', input)
      BY <1>1, <3>1, StreamAssumption, AppendExtends
    <3> QED BY <1>1, <3>2, SameMessage
  <2>2. CASE UNCHANGED input
    BY <2>2
  <2> QED BY <1>1, <2>1, <2>2
<1> QED BY <1>1, StreamTypeOK, PTL DEF StreamSpec, MoreBytesChangeNothing

-----------------------------------------------------------------------------
(* The grammar                                                             *)

LEMMA PartOfInput ==
  ASSUME NEW bytes \in Seq(Bytes), NEW p \in 1 .. Len(bytes), NEW j \in p .. Len(bytes)
  PROVE  LET part == SubSeq(bytes, p, j)
         IN  /\ part \in Seq(Bytes) /\ Len(part) = j - p + 1
             /\ \A i \in 1 .. j - p + 1 : part[i] = bytes[p + i - 1]
             /\ part[1] = bytes[p]
<1>1. p \in Int /\ j \in Int /\ \A i \in p .. j : bytes[i] \in Bytes
  OBVIOUS
<1> DEFINE part == SubSeq(bytes, p, j)
<1>2. /\ part \in Seq(Bytes) /\ Len(part) = IF p <= j THEN j - p + 1 ELSE 0
      /\ \A i \in 1 .. j - p + 1 : part[i] = bytes[p + i - 1]
  BY <1>1, SubSeqProperties
<1> HIDE DEF part
<1>3. Len(part) = j - p + 1
  BY <1>2
<1>4. part[1] = bytes[p]
  <2>1. 1 \in 1 .. j - p + 1 /\ p + 1 - 1 = p
    OBVIOUS
  <2> QED BY <1>2, <2>1
<1> QED BY <1>2, <1>3, <1>4 DEF part

LEMMA NoPart ==
  ASSUME NEW bytes \in Seq(Bytes), NEW p \in Int, NEW j \in Int, j < p
  PROVE  SubSeq(bytes, p, j) = <<>> /\ ~isLine(SubSeq(bytes, p, j))
<1>1. SubSeq(bytes, p, j) = <<>>
  BY SubSeqEmpty
<1>2. Len(<<>>) = 0
  OBVIOUS
<1> QED BY <1>1, <1>2 DEF isLine

(* A part is a line exactly when parseLine finds one that ends there.      *)
LEMMA LineMatches ==
  ASSUME NEW bytes \in Seq(Bytes), NEW p \in 1 .. Len(bytes), NEW j \in 0 .. Len(bytes)
  PROVE  LET part == SubSeq(bytes, p, j)
             l    == parseLine(bytes, p)
         IN  /\ isLine(part) <=> l.ok /\ l.next = j + 1
             /\ isLine(part) => l.args = oneWord(lineText(part)) /\ part[1] = bytes[p]
<1> DEFINE part == SubSeq(bytes, p, j)
           l == parseLine(bytes, p)
           end == findCRLF(bytes, p + 1)
<1>1. l.ok => /\ end \in p + 1 .. Len(bytes) - 1 /\ isEnd(bytes, end)
              /\ l.next = end + 2
              /\ \A i \in p + 1 .. end - 1 : ~isEnd(bytes, i)
  <2>1. l.ok => /\ end \in p + 1 .. Len(bytes) - 1 /\ isEnd(bytes, end)
                /\ l.next = end + 2
    BY LineWithin
  <2>2. end # 0 => \A i \in p + 1 .. end - 1 : ~isEnd(bytes, i)
    BY FirstEnd
  <2>3. l.ok => end # 0
    <3> HIDE DEF l, end
    <3> QED BY <2>1
  <2> QED BY <2>1, <2>2, <2>3
<1>2. CASE j < p
  <2>1. ~isLine(part)
    BY <1>2, NoPart
  <2>2. ~(l.ok /\ l.next = j + 1)
    <3> HIDE DEF l, end
    <3> QED BY <1>1, <1>2
  <2> QED BY <2>1, <2>2
<1>3. CASE j >= p
  <2>1. /\ part \in Seq(Bytes) /\ Len(part) = j - p + 1
        /\ \A i \in 1 .. j - p + 1 : part[i] = bytes[p + i - 1]
        /\ part[1] = bytes[p]
    BY <1>3, PartOfInput
  <2> HIDE DEF part
  <2>2. ASSUME NEW i \in p + 1 .. j - 1
        PROVE  isEnd(bytes, i) <=> part[i - p + 1] = CR /\ part[i - p + 1 + 1] = LF
    <3>1. /\ i - p + 1 \in 1 .. j - p + 1 /\ p + (i - p + 1) - 1 = i
          /\ i - p + 1 + 1 \in 1 .. j - p + 1 /\ p + (i - p + 1 + 1) - 1 = i + 1
      BY <1>3
    <3> QED BY <2>1, <3>1 DEF isEnd
  <2>3. ASSUME isLine(part)
        PROVE  l = Parsed(oneWord(lineText(part)), j + 1)
    <3>1. /\ Len(part) >= 3 /\ part[Len(part) - 1] = CR /\ part[Len(part)] = LF
          /\ \A i \in 2 .. Len(part) - 2 : ~(part[i] = CR /\ part[i + 1] = LF)
      BY <2>3 DEF isLine, endsLine
    <3>2. /\ j - 1 \in p + 1 .. Len(bytes) - 1 /\ j - 1 \in p + 1 .. j - 1
          /\ (j - 1) - p + 1 = Len(part) - 1 /\ (j - 1) - p + 1 + 1 = Len(part)
      BY <1>3, <2>1, <3>1
    <3>3. isEnd(bytes, j - 1)
      BY <2>2, <3>1, <3>2
    <3>4. ASSUME NEW i \in p + 1 .. (j - 1) - 1
          PROVE  ~isEnd(bytes, i)
      <4>0. Len(part) - 2 = j - p - 1
        BY <2>1
      <4>1. i \in p + 1 .. j - 1 /\ i - p + 1 \in 2 .. j - p - 1
        OBVIOUS
      <4>2. i - p + 1 \in 2 .. Len(part) - 2
        BY <4>0, <4>1
      <4> QED BY <2>2, <3>1, <4>1, <4>2
    <3>5. end = j - 1
      <4> DEFINE e == j - 1
      <4>1. e \in p + 1 .. Len(bytes) - 1 /\ isEnd(bytes, e)
            /\ \A i \in p + 1 .. e - 1 : ~isEnd(bytes, i)
        BY <3>2, <3>3, <3>4
      <4> HIDE DEF e
      <4>2. p + 1 \in Nat \ {0}
        OBVIOUS
      <4>3. findCRLF(bytes, p + 1) = e
        BY <4>1, <4>2, EndIsUnique
      <4> QED BY <4>3 DEF e
    <3>6. lineText(part) = SubSeq(bytes, p + 1, end - 1)
      <4>1. /\ p \in 1 .. Len(bytes) /\ j \in 1 .. Len(bytes)
            /\ 2 \in 1 .. j - p + 1 /\ Len(part) - 2 \in 1 .. j - p + 1
            /\ p + 2 - 1 = p + 1 /\ p + (Len(part) - 2) - 1 = (j - 1) - 1
        <5>1. Len(part) = j - p + 1 /\ j - p + 1 >= 3
          BY <2>1, <3>1
        <5> HIDE DEF end
        <5> QED BY <1>3, <5>1
      <4>2. SubSeq(part, 2, Len(part) - 2)
              = SubSeq(bytes, p + 2 - 1, p + (Len(part) - 2) - 1)
        <5> DEFINE k == Len(part) - 2
        <5>1. k \in 1 .. j - p + 1
          BY <4>1
        <5> HIDE DEF k
        <5>2. SubSeq(SubSeq(bytes, p, j), 2, k) = SubSeq(bytes, p + 2 - 1, p + k - 1)
          BY <4>1, <5>1, SubSeqOfSubSeq
        <5> QED BY <5>2 DEF k, part
      <4> QED BY <3>5, <4>1, <4>2 DEF lineText
    <3> HIDE DEF end
    <3>7. end # 0 /\ end + 2 = j + 1
      BY <3>2, <3>5
    <3> QED BY <3>6, <3>7 DEF parseLine, end
  <2>4. ASSUME l.ok, l.next = j + 1
        PROVE  isLine(part)
    <3>1. /\ end \in p + 1 .. Len(bytes) - 1 /\ isEnd(bytes, end) /\ end = j - 1
          /\ \A i \in p + 1 .. end - 1 : ~isEnd(bytes, i)
      <4> HIDE DEF l, end
      <4> QED BY <1>1, <2>4
    <3> HIDE DEF end
    <3>2. /\ end \in p + 1 .. j - 1 /\ Len(part) >= 3
          /\ end - p + 1 = Len(part) - 1 /\ end - p + 1 + 1 = Len(part)
      BY <2>1, <3>1
    <3>3. part[Len(part) - 1] = CR /\ part[Len(part)] = LF
      BY <2>2, <3>1, <3>2
    <3>4. ASSUME NEW i \in 2 .. Len(part) - 2
          PROVE  ~(part[i] = CR /\ part[i + 1] = LF)
      <4> DEFINE k == p + i - 1
      <4>1. k \in p + 1 .. end - 1 /\ k \in p + 1 .. j - 1 /\ k - p + 1 = i
        BY <2>1, <3>1
      <4> HIDE DEF k
      <4> QED BY <2>2, <3>1, <4>1
    <3> QED BY <3>2, <3>3, <3>4 DEF isLine, endsLine
  <2>5. isLine(part) => l.ok /\ l.next = j + 1 /\ l.args = oneWord(lineText(part))
    BY <2>3 DEF Parsed
  <2>6. isLine(part) => part[1] = bytes[p]
    BY <2>1
  <2> HIDE DEF l
  <2> QED BY <2>4, <2>5, <2>6 DEF part, l
<1>4. j < p \/ j >= p
  OBVIOUS
<1> QED BY <1>2, <1>3, <1>4

(* A line with a number among some                                         *)
LEMMA NumberLineMatches ==
  ASSUME NEW bytes \in Seq(Bytes), NEW p \in 1 .. Len(bytes), NEW j \in 0 .. Len(bytes),
         NEW marker, NEW numbers
  PROVE  LET l == parseLine(bytes, p)
         IN  isNumberLine(SubSeq(bytes, p, j), marker, numbers) <=>
               /\ l.ok /\ l.next = j + 1
               /\ bytes[p] = char(marker)
               /\ isNumber(l.args[1]) /\ numberIn(l.args[1]) \in numbers
<1> DEFINE part == SubSeq(bytes, p, j)
           l == parseLine(bytes, p)
<1>1. /\ isLine(part) <=> l.ok /\ l.next = j + 1
      /\ isLine(part) => l.args = oneWord(lineText(part)) /\ part[1] = bytes[p]
  BY LineMatches
<1>2. isLine(part) => l.args[1] = lineText(part)
  BY <1>1 DEF oneWord
<1> HIDE DEF part, l
<1>3. isNumberLine(part, marker, numbers) <=>
        /\ l.ok /\ l.next = j + 1
        /\ bytes[p] = char(marker)
        /\ isNumber(l.args[1]) /\ numberIn(l.args[1]) \in numbers
  BY <1>1, <1>2 DEF isNumberLine
<1> QED BY <1>3 DEF part, l

LEMMA CountMatches ==
  ASSUME NEW bytes \in Seq(Bytes), NEW p \in 1 .. Len(bytes), NEW j \in 0 .. Len(bytes),
         NEW marker, NEW numbers, numbers \subseteq -1 .. IntMax
  PROVE  LET c == parseCount(bytes, p)
         IN  isNumberLine(SubSeq(bytes, p, j), marker, numbers) <=>
               /\ c.ok /\ c.next = j + 1
               /\ bytes[p] = char(marker) /\ countOf(c) \in numbers
<1> DEFINE l == parseLine(bytes, p)
           c == parseCount(bytes, p)
           this == isNumberLine(SubSeq(bytes, p, j), marker, numbers)
<1>1. this <=> /\ l.ok /\ l.next = j + 1
               /\ bytes[p] = char(marker)
               /\ isNumber(l.args[1]) /\ numberIn(l.args[1]) \in numbers
  BY NumberLineMatches
<1>2. c = IF l.ok /\ isIntegerUpTo(l.args[1], IntMax) THEN l ELSE Unparsed
  BY DEF parseCount
<1>3. numbers \subseteq -(IntMax + 1) .. IntMax
  BY ParserAssumption
<1> HIDE DEF l, c, this
<1>4. isIntegerUpTo(l.args[1], IntMax) <=>
        isNumber(l.args[1]) /\ numberIn(l.args[1]) \in -(IntMax + 1) .. IntMax
  BY DEF isIntegerUpTo
<1>5. ASSUME this
      PROVE  c.ok /\ c.next = j + 1 /\ bytes[p] = char(marker) /\ countOf(c) \in numbers
  <2>1. c = l
    BY <1>1, <1>2, <1>3, <1>4, <1>5
  <2> QED BY <1>1, <1>5, <2>1 DEF countOf
<1>6. ASSUME c.ok, c.next = j + 1, bytes[p] = char(marker), countOf(c) \in numbers
      PROVE  this
  <2>1. l.ok /\ isIntegerUpTo(l.args[1], IntMax) /\ c = l
    BY <1>2, <1>6 DEF Unparsed
  <2>2. numberIn(l.args[1]) \in numbers
    BY <1>6, <2>1 DEF countOf
  <2> QED BY <1>1, <1>4, <1>6, <2>1, <2>2
<1> QED BY <1>5, <1>6 DEF this, c

(* The words of a value that ends at a position, in a set: none if it does *)
(* not end there                                                           *)
found(v, to) == IF v.ok /\ v.next = to + 1 THEN {v.args} ELSE {}

LEMMA NoBulk ==
  ASSUME NEW bytes \in Seq(Bytes), NEW p \in 1 .. Len(bytes) + 1, NEW j \in 0 .. Len(bytes),
         p <= Len(bytes) => bytes[p] # char("$")
  PROVE  bulkString(bytes, p, j) = {}
<1>1. ASSUME NEW h \in p .. j - 2, isNumberLine(SubSeq(bytes, p, h), "$", {j - 2 - h})
      PROVE  FALSE
  <2>1. p \in 1 .. Len(bytes) /\ h \in 0 .. Len(bytes)
    OBVIOUS
  <2>2. bytes[p] = char("$")
    BY <1>1, <2>1, NumberLineMatches
  <2> QED BY <2>1, <2>2
<1> QED BY <1>1 DEF bulkString

LEMMA NoArray ==
  ASSUME NEW bytes \in Seq(Bytes), NEW p \in 1 .. Len(bytes) + 1, NEW j \in 0 .. Len(bytes),
         p <= Len(bytes) => bytes[p] # char("*"), NEW value
  PROVE  arrayOf(bytes, p, j, value) = {}
<1> DEFINE headers == {h \in p .. j : isNumberLine(SubSeq(bytes, p, h), "*", 0 .. MAX_ARGS)}
<1>1. ASSUME NEW h \in p .. j, isNumberLine(SubSeq(bytes, p, h), "*", 0 .. MAX_ARGS)
      PROVE  FALSE
  <2>1. p \in 1 .. Len(bytes) /\ h \in 0 .. Len(bytes)
    OBVIOUS
  <2>2. bytes[p] = char("*")
    BY <1>1, <2>1, NumberLineMatches
  <2> QED BY <2>1, <2>2
<1>2. headers = {}
  BY <1>1
<1> QED BY <1>2 DEF arrayOf

(* What a value of one line is, marker by marker                           *)
LEMMA TextMatches ==
  ASSUME NEW bytes \in Seq(Bytes), NEW p \in 1 .. Len(bytes), NEW j \in 0 .. Len(bytes),
         bytes[p] \in {char("+"), char("-")}
  PROVE  oneLineValue(SubSeq(bytes, p, j)) = found(parseLine(bytes, p), j)
<1> DEFINE part == SubSeq(bytes, p, j)
           l == parseLine(bytes, p)
<1>1. /\ isLine(part) <=> l.ok /\ l.next = j + 1
      /\ isLine(part) => l.args = oneWord(lineText(part)) /\ part[1] = bytes[p]
  BY LineMatches
<1> HIDE DEF part, l
<1>2. CASE isLine(part)
  <2>1. part[1] \in {char("+"), char("-")}
    BY <1>1, <1>2
  <2>2. /\ ~isNumberLine(part, ":", -(LLMax + 1) .. LLMax)
        /\ ~isNumberLine(part, "$", {-1}) /\ ~isNumberLine(part, "*", {-1})
    BY <2>1 DEF isNumberLine, char
  <2>3. oneLineValue(part) = {<<lineText(part)>>}
    BY <1>2, <2>1, <2>2 DEF oneLineValue
  <2> QED BY <1>1, <1>2, <2>3 DEF found, oneWord, part, l
<1>3. CASE ~isLine(part)
  <2>1. oneLineValue(part) = {}
    BY <1>3 DEF oneLineValue, isNumberLine
  <2> QED BY <1>1, <1>3, <2>1 DEF found, part, l
<1> QED BY <1>2, <1>3

LEMMA IntegerMatches ==
  ASSUME NEW bytes \in Seq(Bytes), NEW p \in 1 .. Len(bytes), NEW j \in 0 .. Len(bytes),
         bytes[p] = char(":")
  PROVE  oneLineValue(SubSeq(bytes, p, j)) = found(parseInteger(bytes, p), j)
<1> DEFINE part == SubSeq(bytes, p, j)
           l == parseLine(bytes, p)
           v == parseInteger(bytes, p)
           numbers == -(LLMax + 1) .. LLMax
<1>1. /\ isLine(part) <=> l.ok /\ l.next = j + 1
      /\ isLine(part) => l.args = oneWord(lineText(part)) /\ part[1] = bytes[p]
  BY LineMatches
<1>2. isLine(part) => l.args[1] = lineText(part)
  BY <1>1 DEF oneWord
<1>3. v = IF l.ok /\ isNumber(l.args[1]) /\ numberIn(l.args[1]) \in numbers
          THEN Parsed(oneWord(<<num(numberIn(l.args[1]))>>), l.next)
          ELSE Unparsed
  BY DEF parseInteger, isIntegerUpTo
<1> HIDE DEF part, l, v, numbers
<1>4. CASE isNumberLine(part, ":", numbers)
  <2>1. /\ isLine(part) /\ part[1] = char(":")
        /\ isNumber(lineText(part)) /\ numberIn(lineText(part)) \in numbers
    BY <1>4 DEF isNumberLine
  <2>2. /\ part[1] \notin {char("+"), char("-")}
        /\ ~isNumberLine(part, "$", {-1}) /\ ~isNumberLine(part, "*", {-1})
    BY <2>1 DEF isNumberLine, char
  <2>3. oneLineValue(part) = {<< <<num(numberIn(lineText(part)))>> >>}
    BY <1>4, <2>2 DEF oneLineValue, numbers
  <2>4. v = Parsed(oneWord(<<num(numberIn(lineText(part)))>>), j + 1)
    BY <1>1, <1>2, <1>3, <2>1
  <2> QED BY <2>3, <2>4 DEF found, oneWord, Parsed, part, v
<1>5. CASE ~isNumberLine(part, ":", numbers)
  <2>1. /\ isLine(part) => part[1] \notin {char("+"), char("-")}
        /\ ~isNumberLine(part, "$", {-1}) /\ ~isNumberLine(part, "*", {-1})
    BY <1>1 DEF isNumberLine, char
  <2>2. oneLineValue(part) = {}
    BY <1>5, <2>1 DEF oneLineValue, numbers
  <2>3. isLine(part) => ~(isNumber(l.args[1]) /\ numberIn(l.args[1]) \in numbers)
    BY <1>1, <1>2, <1>5 DEF isNumberLine
  <2>4. ~(v.ok /\ v.next = j + 1)
    BY <1>1, <1>3, <2>3 DEF Unparsed, Parsed
  <2> QED BY <2>2, <2>4 DEF found, part, v
<1> QED BY <1>4, <1>5

LEMMA NullMatches ==
  ASSUME NEW bytes \in Seq(Bytes), NEW p \in 1 .. Len(bytes), NEW j \in 0 .. Len(bytes),
         bytes[p] \in {char("$"), char("*")}
  PROVE  LET c == parseCount(bytes, p)
         IN  oneLineValue(SubSeq(bytes, p, j)) =
               IF c.ok /\ c.next = j + 1 /\ countOf(c) = -1 THEN {NullWords} ELSE {}
<1> DEFINE part == SubSeq(bytes, p, j)
           c == parseCount(bytes, p)
           null == isNumberLine(part, "$", {-1}) \/ isNumberLine(part, "*", {-1})
<1>1. isLine(part) => part[1] = bytes[p]
  BY LineMatches
<1>2. null <=> c.ok /\ c.next = j + 1 /\ countOf(c) = -1
  <2>1. {-1} \subseteq -1 .. IntMax
    BY ParserAssumption
  <2>2. ASSUME NEW marker \in {"$", "*"}
        PROVE  isNumberLine(part, marker, {-1}) <=>
                 c.ok /\ c.next = j + 1 /\ bytes[p] = char(marker) /\ countOf(c) = -1
    <3>1. isNumberLine(part, marker, {-1}) <=>
            c.ok /\ c.next = j + 1 /\ bytes[p] = char(marker) /\ countOf(c) \in {-1}
      BY <2>1, CountMatches
    <3> HIDE DEF part, c
    <3> QED BY <3>1
  <2> HIDE DEF part, c
  <2> QED BY <2>2
<1> HIDE DEF part, c
<1>3. /\ ~(isLine(part) /\ part[1] \in {char("+"), char("-")})
      /\ ~isNumberLine(part, ":", -(LLMax + 1) .. LLMax)
  BY <1>1 DEF isNumberLine, char
<1>4. oneLineValue(part) = IF null THEN {NullWords} ELSE {}
  BY <1>3 DEF oneLineValue
<1> HIDE DEF null
<1> QED BY <1>2, <1>4 DEF part, c

LEMMA OtherMatches ==
  ASSUME NEW bytes \in Seq(Bytes), NEW p \in 1 .. Len(bytes) + 1, NEW j \in 0 .. Len(bytes),
         p <= Len(bytes) => bytes[p] \notin {char("+"), char("-"), char(":"), char("$"), char("*")}
  PROVE  oneLineValue(SubSeq(bytes, p, j)) = {}
<1> DEFINE part == SubSeq(bytes, p, j)
<1>1. CASE p <= Len(bytes)
  <2>1. p \in 1 .. Len(bytes)
    BY <1>1
  <2>2. isLine(part) => part[1] = bytes[p]
    BY <2>1, LineMatches
  <2> HIDE DEF part
  <2>3. oneLineValue(part) = {}
    BY <1>1, <2>2 DEF oneLineValue, isNumberLine
  <2> QED BY <2>3 DEF part
<1>2. CASE p > Len(bytes)
  <2>1. ~isLine(part)
    BY <1>2, NoPart
  <2> HIDE DEF part
  <2>2. oneLineValue(part) = {}
    BY <2>1 DEF oneLineValue, isNumberLine
  <2> QED BY <2>2 DEF part
<1> QED BY <1>1, <1>2

LEMMA BulkMatches ==
  ASSUME NEW bytes \in Seq(Bytes), NEW p \in 1 .. Len(bytes), NEW j \in 0 .. Len(bytes),
         bytes[p] = char("$")
  PROVE  oneLineValue(SubSeq(bytes, p, j)) \cup bulkString(bytes, p, j)
           = found(parseBulkString(bytes, p), j)
<1> DEFINE c == parseCount(bytes, p)
           len == countOf(c)
           end == c.next + len
           one == oneLineValue(SubSeq(bytes, p, j))
           v == parseBulkString(bytes, p)
           headers == {h \in p .. j - 2 :
                         /\ endsLine(SubSeq(bytes, h + 1, j)) /\ j - 2 - h <= MAX_STRING_LENGTH
                         /\ isNumberLine(SubSeq(bytes, p, h), "$", {j - 2 - h})}
           good == /\ 0 <= len /\ len <= MAX_STRING_LENGTH
                   /\ end + 1 <= Len(bytes)
                   /\ bytes[end] = CR /\ bytes[end + 1] = LF
<1>1. one = IF c.ok /\ c.next = j + 1 /\ len = -1 THEN {NullWords} ELSE {}
  BY NullMatches
<1>2. bulkString(bytes, p, j) = {<<SubSeq(bytes, h + 1, j - 2)>> : h \in headers}
  BY DEF bulkString
<1>3. c.ok => c.next \in p + 1 .. Len(bytes) + 1 /\ len \in Int
  BY CountWithin
<1>4. ASSUME NEW h \in p .. j - 2, j - 2 - h <= MAX_STRING_LENGTH
      PROVE  isNumberLine(SubSeq(bytes, p, h), "$", {j - 2 - h}) <=>
               c.ok /\ c.next = h + 1 /\ len = j - 2 - h
  <2>1. {j - 2 - h} \subseteq -1 .. IntMax /\ h \in 0 .. Len(bytes)
    BY <1>4, ParserAssumption
  <2>2. isNumberLine(SubSeq(bytes, p, h), "$", {j - 2 - h}) <=>
          c.ok /\ c.next = h + 1 /\ bytes[p] = char("$") /\ len \in {j - 2 - h}
    BY <2>1, CountMatches
  <2> HIDE DEF c, len
  <2> QED BY <2>2
<1>5. ASSUME NEW h \in p .. j - 2
      PROVE  endsLine(SubSeq(bytes, h + 1, j)) <=> bytes[j - 1] = CR /\ bytes[j] = LF
  <2> DEFINE q == h + 1
             part == SubSeq(bytes, q, j)
  <2>1. q \in 1 .. Len(bytes) /\ j \in q .. Len(bytes)
    OBVIOUS
  <2>2. /\ Len(part) = j - q + 1
        /\ \A i \in 1 .. j - q + 1 : part[i] = bytes[q + i - 1]
    <3> HIDE DEF q
    <3> QED BY <2>1, PartOfInput
  <2> HIDE DEF part
  <2>3. /\ Len(part) >= 2 /\ Len(part) - 1 \in 1 .. j - q + 1 /\ Len(part) \in 1 .. j - q + 1
        /\ q + (Len(part) - 1) - 1 = j - 1 /\ q + Len(part) - 1 = j
    BY <2>2
  <2>4. part[Len(part) - 1] = bytes[j - 1] /\ part[Len(part)] = bytes[j]
    BY <2>2, <2>3
  <2> QED BY <2>3, <2>4 DEF endsLine, part
<1>6. ASSUME NEW h \in headers
      PROVE  /\ h \in p .. j - 2
             /\ c.ok /\ c.next = h + 1 /\ len = j - 2 - h /\ 0 <= len /\ good /\ end + 1 = j
  <2>1. /\ h \in p .. j - 2 /\ j - 2 - h <= MAX_STRING_LENGTH
        /\ bytes[j - 1] = CR /\ bytes[j] = LF
        /\ c.ok /\ c.next = h + 1 /\ len = j - 2 - h
    <3> HIDE DEF c, len
    <3> QED BY <1>4, <1>5
  <2> HIDE DEF headers, c, len
  <2>2. end = j - 1 /\ 0 <= len /\ len <= MAX_STRING_LENGTH
    BY <2>1
  <2> HIDE DEF end
  <2>3. end + 1 = j
    BY <2>2
  <2> QED BY <2>1, <2>2, <2>3
<1>7. CASE ~c.ok
  <2>1. headers = {}
    <3> HIDE DEF headers, c, good, end
    <3> QED BY <1>6, <1>7
  <2>2. v = Unparsed
    BY <1>7 DEF parseBulkString
  <2> HIDE DEF headers, c, one
  <2> QED BY <1>1, <1>2, <1>7, <2>1, <2>2 DEF found, Unparsed, one
<1>8. CASE c.ok /\ len = -1
  <2>1. headers = {}
    <3> HIDE DEF headers, c, len, good, end
    <3> QED BY <1>6, <1>8
  <2>2. v = Parsed(NullWords, c.next)
    BY <1>8 DEF parseBulkString
  <2> HIDE DEF headers, c, one, len
  <2> QED BY <1>1, <1>2, <1>8, <2>1, <2>2 DEF found, Parsed, one
<1>9. CASE c.ok /\ len # -1 /\ good /\ end + 1 = j
  <2> DEFINE h0 == c.next - 1
  <2>1. /\ h0 \in p .. j - 2 /\ h0 + 1 = c.next /\ len = j - 2 - h0 /\ end - 1 = j - 2
        /\ bytes[j - 1] = CR /\ bytes[j] = LF
    <3>1. end = j - 1
      <4> HIDE DEF c, len
      <4> QED BY <1>3, <1>9
    <3>2. bytes[j - 1] = CR /\ bytes[j] = LF
      <4> HIDE DEF end, c, len
      <4> QED BY <1>9, <3>1
    <3>3. /\ h0 \in p .. j - 2 /\ h0 + 1 = c.next /\ len = j - 2 - h0 /\ end - 1 = j - 2
      <4> HIDE DEF c, len
      <4> QED BY <1>3, <1>9
    <3> QED BY <3>2, <3>3
  <2>2. h0 \in headers
    <3>1. j - 2 - h0 <= MAX_STRING_LENGTH /\ c.ok
      BY <1>9, <2>1
    <3>2. endsLine(SubSeq(bytes, h0 + 1, j))
      <4> HIDE DEF h0
      <4> QED BY <1>5, <2>1
    <3>3. isNumberLine(SubSeq(bytes, p, h0), "$", {j - 2 - h0})
      <4> HIDE DEF h0, c, len
      <4> QED BY <1>4, <2>1, <3>1
    <3> HIDE DEF h0
    <3> QED BY <2>1, <3>1, <3>2, <3>3
  <2>3. headers = {h0}
    <3>1. \A h \in headers : h = h0
      <4> HIDE DEF headers, c, len, good, end
      <4> QED BY <1>6, <2>1
    <3> HIDE DEF headers, h0
    <3> QED BY <2>2, <3>1
  <2> DEFINE text == SubSeq(bytes, c.next, end - 1)
  <2>4. bulkString(bytes, p, j) = {<<text>>}
    <3> HIDE DEF headers, h0, c, end
    <3> QED BY <1>2, <2>1, <2>3
  <2>5. v = Parsed(oneWord(text), end + 2)
    BY <1>9 DEF parseBulkString
  <2>6. one = {}
    <3> HIDE DEF one, c, len
    <3> QED BY <1>1, <1>9
  <2>7. end + 2 = j + 1
    <3> HIDE DEF c, len
    <3> QED BY <1>3, <1>9
  <2> HIDE DEF one, text, end, v
  <2> QED BY <2>4, <2>5, <2>6, <2>7 DEF found, Parsed, oneWord, one, v
<1>10. CASE c.ok /\ len # -1 /\ ~(good /\ end + 1 = j)
  <2>1. headers = {}
    <3> HIDE DEF headers, c, len, good, end
    <3> QED BY <1>6, <1>10
  <2>2. one = {}
    <3> HIDE DEF one, c, len
    <3> QED BY <1>1, <1>10
  <2>3. ~(v.ok /\ v.next = j + 1)
    <3>1. CASE good
      <4>1. v = Parsed(oneWord(SubSeq(bytes, c.next, end - 1)), end + 2)
        BY <1>10, <3>1 DEF parseBulkString
      <4>2. end + 2 # j + 1
        <5>1. end \in Int /\ end + 1 # j
          <6> HIDE DEF c, len, good
          <6> QED BY <1>3, <1>10, <3>1
        <5> HIDE DEF end
        <5> QED BY <5>1
      <4> HIDE DEF end, v, c
      <4> QED BY <4>1, <4>2 DEF Parsed
    <3>2. CASE ~good
      <4>1. v = Unparsed
        BY <1>10, <3>2 DEF parseBulkString
      <4> QED BY <4>1 DEF Unparsed
    <3> QED BY <3>1, <3>2
  <2>4. bulkString(bytes, p, j) = {}
    <3> HIDE DEF headers
    <3> QED BY <1>2, <2>1
  <2> HIDE DEF one, v
  <2> QED BY <2>2, <2>3, <2>4 DEF found, one, v
<1> QED BY <1>7, <1>8, <1>9, <1>10

(* The values found at a position, by where they end                       *)
matched(bytes, v) == [part \in Parts(bytes) |-> found(v[part[1]], part[2])]

LEMMA IsPart ==
  ASSUME NEW bytes \in Seq(Bytes), NEW p \in 1 .. Len(bytes) + 1, NEW j \in 0 .. Len(bytes)
  PROVE  <<p, j>> \in Parts(bytes) /\ <<p, j>>[1] = p /\ <<p, j>>[2] = j
BY DEF Parts

LEMMA InTurn ==
  ASSUME NEW these, NEW those, NEW words \in these, NEW more \in those
  PROVE  words \o more \in inTurn(these, those)
BY DEF inTurn

(* One more element of an array is one more value in a row.                *)
LEMMA RowStep ==
  ASSUME NEW bytes \in Seq(Bytes), NEW start \in 1 .. Len(bytes) + 1,
         NEW j \in 0 .. Len(bytes), NEW elementAt \in Values(bytes),
         NEW e \in Elements(bytes, start)
  PROVE  UNION {inTurn(found(e, cut), found(elementAt[cut + 1], j)) : cut \in start - 1 .. j - 1}
           = found(addElement(e, elementAt), j)
<1> DEFINE joint(cut) == inTurn(found(e, cut), found(elementAt[cut + 1], j))
           next == elementAt[e.next]
           sum == addElement(e, elementAt)
<1>1. sum = IF e.ok /\ next.ok THEN Parsed(e.args \o next.args, next.next) ELSE Unparsed
  BY DEF addElement
<1>2. e.ok => e.next \in start .. Len(bytes) + 1
  BY DEF Elements
<1>3. e.ok /\ next.ok => next.next \in e.next + 1 .. Len(bytes) + 1
  <2> SUFFICES ASSUME e.ok, next.ok PROVE next.next \in e.next + 1 .. Len(bytes) + 1
    OBVIOUS
  <2>1. e.next \in 1 .. Len(bytes) + 1
    BY <1>2
  <2> QED BY <2>1 DEF Values, within
<1> HIDE DEF next, sum
<1>4. ASSUME NEW cut \in start - 1 .. j - 1, NEW x \in joint(cut)
      PROVE  x \in found(sum, j)
  <2>1. PICK words \in found(e, cut), more \in found(elementAt[cut + 1], j) : x = words \o more
    BY <1>4 DEF inTurn
  <2>2. e.ok /\ e.next = cut + 1 /\ words = e.args
    BY <2>1 DEF found
  <2>3. next.ok /\ next.next = j + 1 /\ more = next.args
    BY <2>1, <2>2 DEF found, next
  <2> QED BY <1>1, <2>1, <2>2, <2>3 DEF found, Parsed
<1>5. ASSUME NEW x \in found(sum, j)
      PROVE  \E cut \in start - 1 .. j - 1 : x \in joint(cut)
  <2>1. e.ok /\ next.ok /\ next.next = j + 1 /\ x = e.args \o next.args
    BY <1>1, <1>5 DEF found, Parsed, Unparsed
  <2> DEFINE cut == e.next - 1
  <2>2. cut \in start - 1 .. j - 1 /\ cut + 1 = e.next
    BY <1>2, <1>3, <2>1
  <2> HIDE DEF cut
  <2>3. e.args \in found(e, cut)
    BY <2>1, <2>2 DEF found
  <2>4. next.args \in found(elementAt[cut + 1], j)
    BY <2>1, <2>2 DEF found, next
  <2>5. e.args \o next.args \in inTurn(found(e, cut), found(elementAt[cut + 1], j))
    BY <2>3, <2>4, InTurn
  <2>6. x \in joint(cut)
    BY <2>1, <2>5
  <2> HIDE DEF joint
  <2> QED BY <2>2, <2>6
<1>6. UNION {joint(cut) : cut \in start - 1 .. j - 1} = found(sum, j)
  <2> DEFINE U == UNION {joint(cut) : cut \in start - 1 .. j - 1}
             V == found(sum, j)
  <2> HIDE DEF joint
  <2>1. \A x \in U : x \in V
    BY <1>4 DEF V
  <2>2. \A x \in V : x \in U
    <3> HIDE DEF U
    <3> SUFFICES ASSUME NEW x \in V PROVE x \in U
      OBVIOUS
    <3>1. PICK cut \in start - 1 .. j - 1 : x \in joint(cut)
      BY <1>5
    <3> QED BY <3>1 DEF U
  <2> HIDE DEF U, V
  <2>3. U = V
    BY <2>1, <2>2
  <2> QED BY <2>3 DEF U, V
<1> QED BY <1>6 DEF sum

(* The values in a row are the elements, wherever the first begins.        *)
LEMMA RowMatches ==
  ASSUME NEW bytes \in Seq(Bytes), NEW n \in Nat, NEW elementAt \in Values(bytes),
         NEW start \in 1 .. Len(bytes) + 1, NEW j \in 0 .. Len(bytes)
  PROVE  inARow(bytes, n, matched(bytes, elementAt))[n][<<start, j>>]
           = found(elementsFrom(start, n, elementAt)[n], j)
<1> DEFINE value == matched(bytes, elementAt)
           e(s) == elementsFrom(s, n, elementAt)
           row == inARow(bytes, n, value)
           F(f) == [i \in 0 .. n |-> IF i = 0 THEN noValues(bytes)
                                     ELSE oneMoreValue(bytes, f[i - 1], value)]
           rowOf(i) == [part \in Parts(bytes) |-> found(e(part[1])[i], part[2])]
           w == [i \in 0 .. n |-> rowOf(i)]
<1>1. ASSUME NEW s \in 1 .. Len(bytes) + 1
      PROVE  /\ e(s)[0] = Parsed(<<>>, s)
             /\ \A i \in 1 .. n : e(s)[i] = addElement(e(s)[i - 1], elementAt)
             /\ \A i \in 0 .. n : e(s)[i] \in Elements(bytes, s)
  BY ElementsFrom
<1> HIDE DEF e
<1>2. noValues(bytes) = rowOf(0)
  <2>1. ASSUME NEW part \in Parts(bytes)
        PROVE  (IF part[2] = part[1] - 1 THEN {<<>>} ELSE {}) = found(e(part[1])[0], part[2])
    <3>1. part[1] \in 1 .. Len(bytes) + 1 /\ part[2] \in Int
      BY DEF Parts
    <3>2. e(part[1])[0] = Parsed(<<>>, part[1])
      BY <1>1, <3>1
    <3>3. part[2] = part[1] - 1 <=> part[1] = part[2] + 1
      BY <3>1
    <3> QED BY <3>2, <3>3 DEF found, Parsed
  <2> QED BY <2>1 DEF noValues
<1>3. ASSUME NEW i \in 1 .. n
      PROVE  oneMoreValue(bytes, rowOf(i - 1), value) = rowOf(i)
  <2>1. ASSUME NEW part \in Parts(bytes)
        PROVE  UNION {inTurn(rowOf(i - 1)[<<part[1], cut>>], value[<<cut + 1, part[2]>>])
                      : cut \in part[1] - 1 .. part[2] - 1}
                 = found(e(part[1])[i], part[2])
    <3> DEFINE s == part[1]
               k == part[2]
    <3>1. s \in 1 .. Len(bytes) + 1 /\ k \in 0 .. Len(bytes) /\ i - 1 \in 0 .. n
      BY DEF Parts
    <3> HIDE DEF s, k
    <3>2. e(s)[i - 1] \in Elements(bytes, s) /\ e(s)[i] = addElement(e(s)[i - 1], elementAt)
      BY <1>1, <3>1
    <3>3. ASSUME NEW cut \in s - 1 .. k - 1
          PROVE  /\ rowOf(i - 1)[<<s, cut>>] = found(e(s)[i - 1], cut)
                 /\ value[<<cut + 1, k>>] = found(elementAt[cut + 1], k)
      <4>1. cut \in 0 .. Len(bytes) /\ cut + 1 \in 1 .. Len(bytes) + 1
        BY <3>1
      <4>2. /\ <<s, cut>> \in Parts(bytes) /\ <<s, cut>>[1] = s /\ <<s, cut>>[2] = cut
            /\ <<cut + 1, k>> \in Parts(bytes)
            /\ <<cut + 1, k>>[1] = cut + 1 /\ <<cut + 1, k>>[2] = k
        BY <3>1, <4>1, IsPart
      <4> QED BY <4>2 DEF matched
    <3> DEFINE here(cut) == inTurn(rowOf(i - 1)[<<s, cut>>], value[<<cut + 1, k>>])
               there(cut) == inTurn(found(e(s)[i - 1], cut), found(elementAt[cut + 1], k))
    <3> HIDE DEF rowOf, value
    <3>4. \A cut \in s - 1 .. k - 1 : here(cut) = there(cut)
      BY <3>3
    <3>5. UNION {here(cut) : cut \in s - 1 .. k - 1} = UNION {there(cut) : cut \in s - 1 .. k - 1}
      <4> HIDE DEF here, there
      <4> QED BY <3>4
    <3>6. UNION {there(cut) : cut \in s - 1 .. k - 1} = found(e(s)[i], k)
      <4> DEFINE before == e(s)[i - 1]
      <4>1. before \in Elements(bytes, s) /\ e(s)[i] = addElement(before, elementAt)
        BY <3>2
      <4> HIDE DEF before
      <4>2. UNION {inTurn(found(before, cut), found(elementAt[cut + 1], k)) : cut \in s - 1 .. k - 1}
              = found(addElement(before, elementAt), k)
        BY <3>1, <4>1, RowStep
      <4> QED BY <4>1, <4>2 DEF before
    <3>7. UNION {here(cut) : cut \in s - 1 .. k - 1} = found(e(s)[i], k)
      <4> HIDE DEF here, there
      <4> QED BY <3>5, <3>6
    <3> QED BY <3>7 DEF s, k
  <2> HIDE DEF rowOf, value
  <2>2. oneMoreValue(bytes, rowOf(i - 1), value)
          = [part \in Parts(bytes) |-> found(e(part[1])[i], part[2])]
    BY <2>1 DEF oneMoreValue
  <2> QED BY <2>2 DEF rowOf
<1> HIDE DEF value, rowOf
<1>4. w = F(w)
  <2>1. ASSUME NEW i \in 0 .. n
        PROVE  w[i] = F(w)[i]
    <3>1. i = 0 \/ (i \in 1 .. n /\ i - 1 \in 0 .. n)
      OBVIOUS
    <3> QED BY <1>2, <1>3, <3>1
  <2>2. w = [i \in 0 .. n |-> w[i]] /\ F(w) = [i \in 0 .. n |-> F(w)[i]]
    OBVIOUS
  <2> HIDE DEF w, F
  <2> QED BY <2>1, <2>2
<1>5. row = F(row)
  <2>1. row = CHOOSE f : f = F(f)
    BY Zenon DEF inARow
  <2>2. \E f : f = F(f)
    <3> HIDE DEF w, F
    <3> QED BY <1>4
  <2> HIDE DEF row, F
  <2> QED BY <2>1, <2>2, Zenon
<1>6. \A i \in 0 .. n : row[i] = rowOf(i)
  <2> DEFINE S == {i \in 0 .. n : row[i] = rowOf(i)}
  <2> HIDE DEF row
  <2>1. /\ row[0] = noValues(bytes)
        /\ \A i \in 1 .. n : row[i] = oneMoreValue(bytes, row[i - 1], value)
    BY <1>5
  <2>2. 0 \in S
    BY <1>2, <2>1
  <2>3. ASSUME NEW i \in 1 .. n, i - 1 \in S
        PROVE  i \in S
    <3>1. row[i - 1] = rowOf(i - 1)
      BY <2>3
    <3>2. row[i] = rowOf(i)
      BY <1>3, <2>1, <3>1
    <3> QED BY <3>2
  <2>4. \A i \in 0 .. n : i \in S
    <3> HIDE DEF S
    <3> QED BY <2>2, <2>3, Induction
  <2> QED BY <2>4
<1>7. row[n][<<start, j>>] = found(e(start)[n], j)
  <2>1. row[n] = rowOf(n)
    BY <1>6
  <2>2. <<start, j>> \in Parts(bytes) /\ <<start, j>>[1] = start /\ <<start, j>>[2] = j
    BY IsPart
  <2> HIDE DEF row
  <2> QED BY <2>1, <2>2 DEF rowOf
<1> QED BY <1>7 DEF value, e

LEMMA ArrayMatches ==
  ASSUME NEW bytes \in Seq(Bytes), NEW p \in 1 .. Len(bytes), NEW j \in 0 .. Len(bytes),
         bytes[p] = char("*"), NEW elementAt \in Values(bytes)
  PROVE  oneLineValue(SubSeq(bytes, p, j))
           \cup arrayOf(bytes, p, j, matched(bytes, elementAt))
           = found(parseArray(bytes, p, elementAt), j)
<1> DEFINE c == parseCount(bytes, p)
           n == countOf(c)
           one == oneLineValue(SubSeq(bytes, p, j))
           value == matched(bytes, elementAt)
           arrays == arrayOf(bytes, p, j, value)
           v == parseArray(bytes, p, elementAt)
           part(h) == SubSeq(bytes, p, h)
           headers == {h \in p .. j : isNumberLine(part(h), "*", 0 .. MAX_ARGS)}
           countIn(h) == numberIn(lineText(part(h)))
           rowAfter(h) == inARow(bytes, countIn(h), value)[countIn(h)][<<h + 1, j>>]
<1>1. one = IF c.ok /\ c.next = j + 1 /\ n = -1 THEN {NullWords} ELSE {}
  BY NullMatches
<1>2. arrays = UNION {rowAfter(h) : h \in headers}
  BY DEF arrayOf
<1>3. c.ok => c.next \in p + 1 .. Len(bytes) + 1 /\ n \in Int
  BY CountWithin
<1>4. ASSUME NEW h \in p .. j
      PROVE  /\ isNumberLine(part(h), "*", 0 .. MAX_ARGS) <=>
                  c.ok /\ c.next = h + 1 /\ n \in 0 .. MAX_ARGS
             /\ isNumberLine(part(h), "*", 0 .. MAX_ARGS) => countIn(h) = n
  <2>1. h \in 0 .. Len(bytes) /\ 0 .. MAX_ARGS \subseteq -1 .. IntMax
    BY ParserAssumption
  <2>2. isNumberLine(part(h), "*", 0 .. MAX_ARGS) <=>
          c.ok /\ c.next = h + 1 /\ bytes[p] = char("*") /\ n \in 0 .. MAX_ARGS
    BY <2>1, CountMatches
  <2>3. ASSUME isNumberLine(part(h), "*", 0 .. MAX_ARGS)
        PROVE  countIn(h) = n
    <3> DEFINE m == countIn(h)
    <3>1. m \in 0 .. MAX_ARGS /\ isNumberLine(part(h), "*", {m})
      BY <2>3 DEF isNumberLine
    <3> HIDE DEF m
    <3>2. {m} \subseteq -1 .. IntMax
      BY <2>1, <3>1
    <3>3. n \in {m}
      <4> HIDE DEF n
      <4>1. countOf(c) \in {m}
        BY <2>1, <3>1, <3>2, CountMatches
      <4> QED BY <4>1 DEF n
    <3> HIDE DEF n
    <3> QED BY <3>3 DEF m
  <2> HIDE DEF c, n, part, countIn
  <2> QED BY <2>2, <2>3
<1> HIDE DEF rowAfter, countIn, part
<1>5. ASSUME NEW h \in headers
      PROVE  h \in p .. j /\ c.ok /\ c.next = h + 1 /\ n \in 0 .. MAX_ARGS /\ countIn(h) = n
  <2> HIDE DEF c, n
  <2> QED BY <1>4
<1>6. CASE ~(c.ok /\ n \in 0 .. MAX_ARGS)
  <2>1. arrays = {}
    <3>1. headers = {}
      <4> HIDE DEF headers, c, n
      <4> QED BY <1>5, <1>6
    <3> HIDE DEF headers
    <3> QED BY <1>2, <3>1
  <2>2. CASE ~c.ok
    <3>1. v = Unparsed
      BY <2>2 DEF parseArray
    <3> HIDE DEF one, arrays, v, c
    <3> QED BY <1>1, <2>1, <2>2, <3>1 DEF found, Unparsed, one, arrays, v
  <2>3. CASE c.ok /\ n = -1
    <3>1. v = Parsed(NullWords, c.next)
      BY <2>3 DEF parseArray
    <3> HIDE DEF one, arrays, v, c, n
    <3> QED BY <1>1, <2>1, <2>3, <3>1 DEF found, Parsed, one, arrays, v
  <2>4. CASE c.ok /\ n # -1
    <3>1. ~(0 <= n /\ n <= MAX_ARGS)
      <4> HIDE DEF n, c
      <4> QED BY <1>3, <1>6, <2>4
    <3>2. v = Unparsed
      BY <2>4, <3>1 DEF parseArray
    <3> HIDE DEF one, arrays, v, c, n
    <3> QED BY <1>1, <2>1, <2>4, <3>2 DEF found, Unparsed, one, arrays, v
  <2> QED BY <2>2, <2>3, <2>4
<1>7. CASE c.ok /\ n \in 0 .. MAX_ARGS
  <2> DEFINE elements == elementsFrom(c.next, n, elementAt)
  <2>0. n # -1 /\ 0 <= n /\ n <= MAX_ARGS /\ n \in Nat
    <3> HIDE DEF n, c
    <3> QED BY <1>7, ParserAssumption
  <2>1. v = elements[n]
    BY <1>7, <2>0 DEF parseArray
  <2>2. one = {}
    <3> HIDE DEF one, c, n
    <3> QED BY <1>1, <2>0
  <2>3. arrays = found(elements[n], j)
    <3>1. CASE c.next - 1 <= j
      <4> DEFINE h0 == c.next - 1
      <4>1. h0 \in p .. j /\ h0 + 1 = c.next
        <5> HIDE DEF c
        <5> QED BY <1>3, <1>7, <3>1
      <4>2. h0 \in headers
        <5> HIDE DEF h0, c, n
        <5> QED BY <1>4, <1>7, <4>1
      <4>3. headers = {h0}
        <5>1. \A h \in headers : h = h0
          <6> HIDE DEF headers, c, n
          <6> QED BY <1>5
        <5> HIDE DEF headers, h0
        <5> QED BY <4>2, <5>1
      <4>4. countIn(h0) = n
        <5> HIDE DEF headers, h0, c, n
        <5> QED BY <1>5, <4>2
      <4>5. arrays = rowAfter(h0)
        <5> HIDE DEF headers, h0
        <5> QED BY <1>2, <4>3
      <4>6. rowAfter(h0) = inARow(bytes, n, value)[n][<<c.next, j>>]
        <5> HIDE DEF h0, n, c, value
        <5> QED BY <4>1, <4>4 DEF rowAfter
      <4>7. inARow(bytes, n, value)[n][<<c.next, j>>] = found(elements[n], j)
        <5> DEFINE start == c.next
        <5>1. start \in 1 .. Len(bytes) + 1
          <6> HIDE DEF c
          <6> QED BY <1>3, <1>7
        <5> HIDE DEF start, n
        <5>2. inARow(bytes, n, matched(bytes, elementAt))[n][<<start, j>>]
                = found(elementsFrom(start, n, elementAt)[n], j)
          BY <2>0, <5>1, RowMatches
        <5> QED BY <5>2 DEF start
      <4> QED BY <4>5, <4>6, <4>7
    <3>2. CASE ~(c.next - 1 <= j)
      <4>1. headers = {}
        <5>1. \A h \in headers : FALSE
          <6> HIDE DEF headers, c, n
          <6> QED BY <1>5, <3>2
        <5> HIDE DEF headers
        <5> QED BY <5>1
      <4>2. arrays = {}
        <5> HIDE DEF headers
        <5> QED BY <1>2, <4>1
      <4>3. ~(elements[n].ok /\ elements[n].next = j + 1)
        <5> DEFINE start == c.next
        <5>1. start \in 1 .. Len(bytes) + 1 /\ ~(start - 1 <= j)
          <6> HIDE DEF c
          <6> QED BY <1>3, <1>7, <3>2
        <5> HIDE DEF start, n
        <5>2. elementsFrom(start, n, elementAt)[n] \in Elements(bytes, start)
          <6>1. n \in 0 .. n
            BY <2>0
          <6> QED BY <2>0, <5>1, <6>1, ElementsFrom
        <5>3. elements[n] \in Elements(bytes, start)
          BY <5>2 DEF start
        <5> HIDE DEF elements
        <5> QED BY <5>1, <5>3 DEF Elements
      <4> HIDE DEF elements, arrays
      <4> QED BY <4>2, <4>3 DEF found
    <3> QED BY <3>1, <3>2
  <2> HIDE DEF elements, arrays, one, v
  <2>4. one \cup arrays = found(v, j)
    BY <2>1, <2>2, <2>3
  <2> QED BY <2>4 DEF one, arrays, v
<1> QED BY <1>6, <1>7

(* At each position and depth the grammar and the parser find the same     *)
(* value or none.                                                          *)
LEMMA DepthMatches ==
  ASSUME NEW bytes \in Seq(Bytes), NEW depth \in 0 .. MAX_DEPTH + 1,
         NEW elementAt, NEW value,
         depth <= MAX_DEPTH => /\ elementAt \in Values(bytes)
                               /\ value = matched(bytes, elementAt)
  PROVE  wholeValues(bytes, depth, value)
           = matched(bytes, parseByMarker(bytes, depth, elementAt))
<1> DEFINE v == parseByMarker(bytes, depth, elementAt)
           whole(p, j) == IF depth > MAX_DEPTH
                          THEN {}
                          ELSE oneLineValue(SubSeq(bytes, p, j))
                                 \cup bulkString(bytes, p, j) \cup arrayOf(bytes, p, j, value)
<1>1. ASSUME NEW p \in 1 .. Len(bytes) + 1, NEW j \in 0 .. Len(bytes)
      PROVE  whole(p, j) = found(v[p], j)
  <2>1. CASE depth > MAX_DEPTH
    <3>1. v[p] = Unparsed
      BY <2>1 DEF parseByMarker
    <3> QED BY <2>1, <3>1 DEF found, Unparsed
  <2>2. CASE depth <= MAX_DEPTH /\ p > Len(bytes)
    <3>1. v[p] = Unparsed
      BY <2>2 DEF parseByMarker
    <3>2. /\ oneLineValue(SubSeq(bytes, p, j)) = {} /\ bulkString(bytes, p, j) = {}
          /\ arrayOf(bytes, p, j, value) = {}
      <4>1. ~(p <= Len(bytes))
        BY <2>2
      <4> QED BY <4>1, OtherMatches, NoBulk, NoArray
    <3>3. whole(p, j) = {}
      BY <2>2, <3>2, ParserAssumption
    <3> HIDE DEF whole, v
    <3> QED BY <3>1, <3>3 DEF found, Unparsed
  <2>3. CASE depth <= MAX_DEPTH /\ p <= Len(bytes)
    <3> DEFINE one == oneLineValue(SubSeq(bytes, p, j))
               bulk == bulkString(bytes, p, j)
               array == arrayOf(bytes, p, j, value)
    <3>1. p \in 1 .. Len(bytes) /\ elementAt \in Values(bytes) /\ value = matched(bytes, elementAt)
      BY <2>3
    <3>2. v[p] = CASE bytes[p] \in {char("+"), char("-")} -> parseLine(bytes, p)
                   [] bytes[p] = char(":") -> parseInteger(bytes, p)
                   [] bytes[p] = char("$") -> parseBulkString(bytes, p)
                   [] bytes[p] = char("*") -> parseArray(bytes, p, elementAt)
                   [] OTHER -> Unparsed
      BY <2>3, ParserAssumption DEF parseByMarker
    <3>3. whole(p, j) = one \cup bulk \cup array
      BY <2>3, ParserAssumption
    <3> HIDE DEF v, whole
    <3>4. CASE bytes[p] \in {char("+"), char("-")}
      <4>1. bytes[p] # char("$") /\ bytes[p] # char("*")
        BY <3>4 DEF char
      <4>2. bulk = {} /\ array = {}
        BY <4>1, NoBulk, NoArray
      <4>3. one = found(parseLine(bytes, p), j)
        BY <3>1, <3>4, TextMatches
      <4>4. v[p] = parseLine(bytes, p)
        BY <3>2, <3>4 DEF char
      <4> HIDE DEF one, bulk, array
      <4> QED BY <3>3, <4>2, <4>3, <4>4
    <3>5. CASE bytes[p] = char(":")
      <4>1. bytes[p] # char("$") /\ bytes[p] # char("*")
        BY <3>5 DEF char
      <4>2. bulk = {} /\ array = {}
        BY <4>1, NoBulk, NoArray
      <4>3. one = found(parseInteger(bytes, p), j)
        BY <3>1, <3>5, IntegerMatches
      <4>4. v[p] = parseInteger(bytes, p)
        BY <3>2, <3>5 DEF char
      <4> HIDE DEF one, bulk, array
      <4> QED BY <3>3, <4>2, <4>3, <4>4
    <3>6. CASE bytes[p] = char("$")
      <4>1. bytes[p] # char("*")
        BY <3>6 DEF char
      <4>2. array = {}
        BY <4>1, NoArray
      <4>3. one \cup bulk = found(parseBulkString(bytes, p), j)
        BY <3>1, <3>6, BulkMatches
      <4>4. v[p] = parseBulkString(bytes, p)
        BY <3>2, <3>6 DEF char
      <4> HIDE DEF one, bulk, array
      <4> QED BY <3>3, <4>2, <4>3, <4>4
    <3>7. CASE bytes[p] = char("*")
      <4>1. bytes[p] # char("$")
        BY <3>7 DEF char
      <4>2. bulk = {}
        BY <4>1, NoBulk
      <4>3. one \cup array = found(parseArray(bytes, p, elementAt), j)
        BY <3>1, <3>7, ArrayMatches
      <4>4. v[p] = parseArray(bytes, p, elementAt)
        BY <3>2, <3>7 DEF char
      <4> HIDE DEF one, bulk, array
      <4> QED BY <3>3, <4>2, <4>3, <4>4
    <3>8. CASE bytes[p] \notin {char("+"), char("-"), char(":"), char("$"), char("*")}
      <4>1. one = {} /\ bulk = {} /\ array = {}
        BY <3>8, OtherMatches, NoBulk, NoArray
      <4>2. v[p] = Unparsed
        BY <3>2, <3>8
      <4> HIDE DEF one, bulk, array
      <4> QED BY <3>3, <4>1, <4>2 DEF found, Unparsed
    <3> QED BY <3>4, <3>5, <3>6, <3>7, <3>8
  <2> QED BY <2>1, <2>2, <2>3, ParserAssumption
<1>2. ASSUME NEW part \in Parts(bytes)
      PROVE  whole(part[1], part[2]) = found(v[part[1]], part[2])
  <2>1. part[1] \in 1 .. Len(bytes) + 1 /\ part[2] \in 0 .. Len(bytes)
    BY DEF Parts
  <2> HIDE DEF whole, v
  <2> QED BY <1>1, <2>1
<1>3. wholeValues(bytes, depth, value) = [part \in Parts(bytes) |-> whole(part[1], part[2])]
  BY DEF wholeValues
<1> HIDE DEF whole, v
<1>4. [part \in Parts(bytes) |-> whole(part[1], part[2])] = matched(bytes, v)
  BY <1>2 DEF matched
<1> QED BY <1>3, <1>4 DEF v

LEMMA GrammarMatches ==
  ASSUME NEW bytes \in Seq(Bytes)
  PROVE  meanings(bytes)[0] = matched(bytes, parseValue(bytes)[0])
<1> DEFINE top == MAX_DEPTH + 1
           v == parseValue(bytes)
           value == meanings(bytes)
           F(f) == [depth \in 0 .. MAX_DEPTH + 1 |-> wholeValues(bytes, depth, f[depth + 1])]
           w == [depth \in 0 .. MAX_DEPTH + 1 |-> matched(bytes, v[depth])]
<1>0. top \in Nat /\ MAX_DEPTH \in Nat /\ top = MAX_DEPTH + 1
  BY ParserAssumption
<1>1. \A d \in 0 .. MAX_DEPTH + 1 : /\ v[d] = parseByMarker(bytes, d, v[d + 1])
                                    /\ v[d] \in Values(bytes)
  BY ValuesByDepth
<1> HIDE DEF v
<1>2. ASSUME NEW d \in 0 .. MAX_DEPTH + 1, NEW f,
             d <= MAX_DEPTH => f = matched(bytes, v[d + 1])
      PROVE  wholeValues(bytes, d, f) = matched(bytes, v[d])
  <2>1. d <= MAX_DEPTH => v[d + 1] \in Values(bytes)
    BY <1>0, <1>1
  <2>2. wholeValues(bytes, d, f) = matched(bytes, parseByMarker(bytes, d, v[d + 1]))
    BY <1>2, <2>1, DepthMatches
  <2> QED BY <1>1, <2>2
<1>3. w = F(w)
  <2>1. ASSUME NEW d \in 0 .. MAX_DEPTH + 1
        PROVE  w[d] = F(w)[d]
    <3>1. w[d] = matched(bytes, v[d]) /\ F(w)[d] = wholeValues(bytes, d, w[d + 1])
      OBVIOUS
    <3>2. d <= MAX_DEPTH => w[d + 1] = matched(bytes, v[d + 1])
      BY <1>0
    <3> HIDE DEF w, F
    <3> QED BY <1>2, <3>1, <3>2
  <2>2. /\ w = [d \in 0 .. MAX_DEPTH + 1 |-> w[d]]
        /\ F(w) = [d \in 0 .. MAX_DEPTH + 1 |-> F(w)[d]]
    OBVIOUS
  <2> HIDE DEF w, F
  <2> QED BY <2>1, <2>2
<1>4. value = F(value)
  <2>1. value = CHOOSE f : f = F(f)
    BY Zenon DEF meanings
  <2>2. \E f : f = F(f)
    <3> HIDE DEF w, F
    <3> QED BY <1>3
  <2> HIDE DEF value, F
  <2> QED BY <2>1, <2>2, Zenon
<1>5. \A d \in 0 .. MAX_DEPTH + 1 : value[d] = wholeValues(bytes, d, value[d + 1])
  <2> HIDE DEF value
  <2> QED BY <1>4
<1> HIDE DEF value
<1>6. \A i \in 0 .. top : value[top - i] = matched(bytes, v[top - i])
  <2> DEFINE S == {i \in 0 .. top : value[top - i] = matched(bytes, v[top - i])}
  <2>1. 0 \in S
    <3>1. value[top] = matched(bytes, v[top])
      <4>1. top \in 0 .. MAX_DEPTH + 1 /\ ~(top <= MAX_DEPTH)
        BY <1>0
      <4> HIDE DEF top
      <4> QED BY <1>2, <1>5, <4>1
    <3>2. top - 0 = top /\ 0 \in 0 .. top
      BY <1>0
    <3> HIDE DEF top
    <3> QED BY <3>1, <3>2
  <2>2. ASSUME NEW i \in 1 .. top, i - 1 \in S
        PROVE  i \in S
    <3> DEFINE d == top - i
    <3>1. d \in 0 .. MAX_DEPTH + 1 /\ top - (i - 1) = d + 1 /\ i \in 0 .. top
      BY <1>0
    <3>2. value[d + 1] = matched(bytes, v[d + 1])
      <4>1. value[top - (i - 1)] = matched(bytes, v[top - (i - 1)])
        BY <2>2
      <4> QED BY <3>1, <4>1
    <3> HIDE DEF d
    <3>3. value[d] = matched(bytes, v[d])
      BY <1>2, <1>5, <3>1, <3>2
    <3> QED BY <3>1, <3>3 DEF d
  <2>3. \A i \in 0 .. top : i \in S
    <3> HIDE DEF S, top
    <3> QED BY <1>0, <2>1, <2>2, Induction
  <2> QED BY <2>3
<1>7. top \in 0 .. top /\ top - top = 0
  BY <1>0
<1> HIDE DEF top
<1> QED BY <1>6, <1>7 DEF v, value

(* Whatever has arrived, parse finds a message exactly when the input      *)
(* begins with one of the grammar, takes its bytes and no other, and makes *)
(* of it the words it stands for: for any input, limits and depth.         *)
THEOREM Grammar == StreamSpec => []ParsesTheGrammar
<1>1. ASSUME input \in Seq(Bytes)
      PROVE  ParsesTheGrammar
  <2> DEFINE v == parseValue(input)[0]
             value == meanings(input)[0]
             first == parse(input)
  <2>1. v \in Values(input) /\ value = matched(input, v)
    BY <1>1, ValuesByDepth, GrammarMatches, ParserAssumption
  <2>2. first = message(v[1])
    BY DEF parse
  <2>3. ASSUME NEW n \in 0 .. Len(input)
        PROVE  value[<<1, n>>] = found(v[1], n)
    <3>1. <<1, n>> \in Parts(input) /\ <<1, n>>[1] = 1 /\ <<1, n>>[2] = n
      BY <1>1, IsPart
    <3> HIDE DEF v, value
    <3> QED BY <2>1, <3>1 DEF matched
  <2>4. within(input, 1, v[1])
    <3>1. 1 \in 1 .. Len(input) + 1
      BY <1>1
    <3> HIDE DEF v
    <3> QED BY <2>1, <3>1 DEF Values
  <2> HIDE DEF v, value, first
  <2>5. CASE first.ok
    <3>1. /\ v[1].ok /\ v[1].next \in 2 .. Len(input) + 1
          /\ first.args = v[1].args /\ first.consumed = v[1].next - 1
      BY <2>2, <2>4, <2>5 DEF message, within
    <3>2. /\ first.consumed \in 1 .. Len(input) /\ first.consumed \in 0 .. Len(input)
          /\ v[1].next = first.consumed + 1
      BY <1>1, <3>1
    <3>3. first.args \in value[<<1, first.consumed>>]
      BY <2>3, <3>1, <3>2 DEF found
    <3> QED BY <2>5, <3>2, <3>3 DEF ParsesTheGrammar, first, value
  <2>6. CASE ~first.ok
    <3>1. ~v[1].ok
      BY <2>2, <2>6 DEF message
    <3>2. \A n \in 1 .. Len(input) : value[<<1, n>>] = {}
      <4> SUFFICES ASSUME NEW n \in 1 .. Len(input) PROVE value[<<1, n>>] = {}
        OBVIOUS
      <4>1. n \in 0 .. Len(input)
        BY <1>1
      <4> QED BY <2>3, <3>1, <4>1 DEF found
    <3> QED BY <2>6, <3>2 DEF ParsesTheGrammar, first, value
  <2> QED BY <2>5, <2>6
<1> QED BY <1>1, StreamTypeOK, PTL

-----------------------------------------------------------------------------
(* Bytes that stand in others, from a position on                          *)

standsAt(part, bytes, pos) ==
  /\ pos + Len(part) <= Len(bytes) + 1
  /\ \A i \in 1 .. Len(part) : bytes[pos + i - 1] = part[i]

LEMMA Joined ==
  ASSUME NEW a \in Seq(Bytes), NEW b \in Seq(Bytes)
  PROVE  /\ a \o b \in Seq(Bytes) /\ Len(a \o b) = Len(a) + Len(b)
         /\ Len(a) \in Nat /\ Len(b) \in Nat
         /\ \A i \in 1 .. Len(a) + Len(b) :
              (a \o b)[i] = IF i <= Len(a) THEN a[i] ELSE b[i - Len(a)]
BY ConcatProperties, LenProperties

LEMMA NotEmpty ==
  ASSUME NEW bytes, Len(bytes) # 0
  PROVE  bytes # <<>>
BY Len(<<>>) = 0

LEMMA BothStand ==
  ASSUME NEW a \in Seq(Bytes), NEW b \in Seq(Bytes), NEW bytes \in Seq(Bytes),
         NEW pos \in Nat \ {0}, standsAt(a \o b, bytes, pos)
  PROVE  standsAt(a, bytes, pos) /\ standsAt(b, bytes, pos + Len(a))
<1>1. /\ a \o b \in Seq(Bytes) /\ Len(a \o b) = Len(a) + Len(b)
      /\ \A i \in 1 .. Len(a) + Len(b) :
           (a \o b)[i] = IF i <= Len(a) THEN a[i] ELSE b[i - Len(a)]
  BY ConcatProperties
<1> DEFINE ab == a \o b
<1>2. /\ pos + Len(ab) <= Len(bytes) + 1
      /\ \A i \in 1 .. Len(ab) : bytes[pos + i - 1] = ab[i]
  BY DEF standsAt
<1> HIDE DEF ab
<1>3. Len(a) \in Nat /\ Len(b) \in Nat /\ Len(bytes) \in Nat /\ Len(ab) = Len(a) + Len(b)
  BY <1>1 DEF ab
<1>4. ASSUME NEW i \in 1 .. Len(a)
      PROVE  bytes[pos + i - 1] = a[i]
  <2>1. i \in 1 .. Len(ab) /\ i \in 1 .. Len(a) + Len(b) /\ i <= Len(a)
    BY <1>3
  <2>2. ab[i] = a[i]
    BY <1>1, <2>1 DEF ab
  <2> QED BY <1>2, <2>1, <2>2
<1>5. ASSUME NEW i \in 1 .. Len(b)
      PROVE  bytes[pos + Len(a) + i - 1] = b[i]
  <2> DEFINE j == Len(a) + i
  <2>1. /\ j \in 1 .. Len(ab) /\ j \in 1 .. Len(a) + Len(b) /\ ~(j <= Len(a))
        /\ j - Len(a) = i /\ pos + Len(a) + i - 1 = pos + j - 1
    BY <1>3
  <2> HIDE DEF j
  <2>2. ab[j] = b[i]
    BY <1>1, <2>1 DEF ab
  <2>3. bytes[pos + j - 1] = b[i]
    BY <1>2, <2>1, <2>2
  <2> QED BY <2>1, <2>3
<1> QED BY <1>2, <1>3, <1>4, <1>5 DEF standsAt

LEMMA PartThatStands ==
  ASSUME NEW part \in Seq(Bytes), NEW bytes \in Seq(Bytes),
         NEW pos \in Nat \ {0}, standsAt(part, bytes, pos)
  PROVE  SubSeq(bytes, pos, pos + Len(part) - 1) = part
<1> DEFINE last == pos + Len(part) - 1
           there == SubSeq(bytes, pos, last)
<1>1. Len(part) \in Nat /\ Len(bytes) \in Nat /\ last \in Int /\ last <= Len(bytes)
  BY DEF standsAt
<1>2. \A i \in pos .. last : bytes[i] \in Bytes
  BY <1>1
<1>3. /\ there \in Seq(Bytes) /\ Len(there) = Len(part)
      /\ \A i \in 1 .. Len(part) : there[i] = bytes[pos + i - 1]
  <2>1. /\ there \in Seq(Bytes)
        /\ Len(there) = IF pos <= last THEN last - pos + 1 ELSE 0
        /\ \A i \in 1 .. last - pos + 1 : there[i] = bytes[pos + i - 1]
    <3> HIDE DEF last
    <3> QED BY <1>1, <1>2, SubSeqProperties
  <2>2. last - pos + 1 = Len(part) /\ (pos <= last <=> Len(part) # 0)
    BY <1>1
  <2> HIDE DEF there, last
  <2> QED BY <2>1, <2>2
<1>4. \A i \in 1 .. Len(there) : there[i] = part[i]
  <2> HIDE DEF there
  <2> QED BY <1>3 DEF standsAt
<1> HIDE DEF there
<1> QED BY <1>3, <1>4, SeqEqual DEF there

LEMMA StandsWhole ==
  ASSUME NEW bytes \in Seq(Bytes)
  PROVE  standsAt(bytes, bytes, 1)
BY DEF standsAt

-----------------------------------------------------------------------------
(* A line reads back                                                       *)

LEMMA Words ==
  /\ \A n \in Int : <<num(n)>> \in Seq(Bytes) /\ Len(<<num(n)>>) = 1
  /\ <<CR, LF>> \in Seq(Bytes) /\ Len(<<CR, LF>>) = 2
  /\ \A c \in Characters : <<char(c)>> \in Seq(Bytes) /\ Len(<<char(c)>>) = 1
<1>1. \A n \in Int : num(n) \in Bytes
  BY DEF num, Bytes
<1>2. \A c \in Characters : char(c) \in Bytes
  BY DEF char, Bytes
<1>3. CR \in Bytes /\ LF \in Bytes
  BY <1>2, ParserAssumption DEF CR, LF
<1> QED BY <1>1, <1>2, <1>3

LEMMA LineBytes ==
  ASSUME NEW marker \in Characters, NEW text \in Seq(Bytes)
  PROVE  LET bytes == line(marker, text)
         IN  /\ bytes \in Seq(Bytes) /\ Len(bytes) = Len(text) + 3
             /\ bytes[1] = char(marker)
             /\ \A i \in 1 .. Len(text) : bytes[i + 1] = text[i]
             /\ bytes[Len(text) + 2] = CR /\ bytes[Len(text) + 3] = LF
<1> DEFINE head == <<char(marker)>>
           tail == <<CR, LF>>
           front == head \o text
           bytes == front \o tail
<1>1. /\ head \in Seq(Bytes) /\ Len(head) = 1 /\ head[1] = char(marker)
      /\ tail \in Seq(Bytes) /\ Len(tail) = 2 /\ tail[1] = CR /\ tail[2] = LF
  BY Words
<1>2. line(marker, text) = bytes
  <2>1. line(marker, text) = <<char(marker)>> \o text \o <<CR, LF>>
    BY DEF line
  <2> QED BY <2>1
<1> HIDE DEF head, tail
<1>3. /\ front \in Seq(Bytes) /\ Len(front) = Len(text) + 1 /\ Len(text) \in Nat
      /\ front[1] = char(marker) /\ \A i \in 1 .. Len(text) : front[i + 1] = text[i]
  <2>1. /\ front \in Seq(Bytes) /\ Len(front) = Len(head) + Len(text) /\ Len(text) \in Nat
        /\ \A i \in 1 .. Len(head) + Len(text) :
             front[i] = IF i <= Len(head) THEN head[i] ELSE text[i - Len(head)]
    BY <1>1, ConcatProperties
  <2> HIDE DEF front
  <2> QED BY <1>1, <2>1
<1> HIDE DEF front
<1>4. /\ bytes \in Seq(Bytes) /\ Len(bytes) = Len(front) + Len(tail)
      /\ \A i \in 1 .. Len(front) + Len(tail) :
           bytes[i] = IF i <= Len(front) THEN front[i] ELSE tail[i - Len(front)]
  BY <1>1, <1>3, ConcatProperties
<1> HIDE DEF bytes
<1>5. bytes[Len(text) + 2] = CR /\ bytes[Len(text) + 3] = LF
  <2>1. ASSUME NEW i \in 1 .. 2
        PROVE  bytes[Len(text) + 1 + i] = tail[i]
    <3> DEFINE j == Len(text) + 1 + i
    <3>1. j \in 1 .. Len(front) + Len(tail) /\ ~(j <= Len(front)) /\ j - Len(front) = i
      BY <1>1, <1>3
    <3> HIDE DEF j
    <3>2. bytes[j] = tail[i]
      BY <1>4, <3>1
    <3> QED BY <3>2 DEF j
  <2>2. Len(text) + 1 + 1 = Len(text) + 2 /\ Len(text) + 1 + 2 = Len(text) + 3
    BY <1>3
  <2> QED BY <1>1, <2>1, <2>2
<1>6. \A i \in 1 .. Len(text) + 1 : bytes[i] = front[i]
  BY <1>1, <1>3, <1>4
<1> QED BY <1>1, <1>2, <1>3, <1>4, <1>5, <1>6

LEMMA ReadLine ==
  ASSUME NEW marker \in Characters, NEW text \in Seq(Bytes), oneLine(text),
         NEW bytes \in Seq(Bytes), NEW pos \in Nat \ {0},
         standsAt(line(marker, text), bytes, pos)
  PROVE  /\ pos \in 1 .. Len(bytes) /\ bytes[pos] = char(marker)
         /\ pos + Len(text) + 3 <= Len(bytes) + 1
         /\ parseLine(bytes, pos) = Parsed(oneWord(text), pos + Len(text) + 3)
<1> DEFINE l == line(marker, text)
           end == pos + 1 + Len(text)
<1>1. /\ l \in Seq(Bytes) /\ Len(l) = Len(text) + 3
      /\ l[1] = char(marker) /\ \A i \in 1 .. Len(text) : l[i + 1] = text[i]
      /\ l[Len(text) + 2] = CR /\ l[Len(text) + 3] = LF
  BY LineBytes
<1>2. /\ pos + Len(l) <= Len(bytes) + 1
      /\ \A i \in 1 .. Len(l) : bytes[pos + i - 1] = l[i]
  BY DEF standsAt
<1> HIDE DEF l
<1>3. Len(text) \in Nat /\ Len(bytes) \in Nat
  OBVIOUS
<1>4. /\ pos \in 1 .. Len(bytes) /\ bytes[pos] = char(marker)
      /\ pos + Len(text) + 3 <= Len(bytes) + 1
  BY <1>1, <1>2, <1>3
<1>5. /\ \A i \in 1 .. Len(text) : bytes[pos + i] = text[i]
      /\ bytes[end] = CR /\ bytes[end + 1] = LF
  <2>1. ASSUME NEW i \in 1 .. Len(text)
        PROVE  bytes[pos + i] = text[i]
    <3>1. i + 1 \in 1 .. Len(l) /\ pos + (i + 1) - 1 = pos + i
      BY <1>1, <1>3
    <3> QED BY <1>1, <1>2, <3>1
  <2>2. /\ Len(text) + 2 \in 1 .. Len(l) /\ pos + (Len(text) + 2) - 1 = end
        /\ Len(text) + 3 \in 1 .. Len(l) /\ pos + (Len(text) + 3) - 1 = end + 1
    BY <1>1, <1>3
  <2>3. bytes[pos + (Len(text) + 2) - 1] = CR /\ bytes[pos + (Len(text) + 3) - 1] = LF
    BY <1>1, <1>2, <2>2
  <2> QED BY <2>1, <2>2, <2>3
<1>6. findCRLF(bytes, pos + 1) = end
  <2>1. end \in pos + 1 .. Len(bytes) - 1 /\ isEnd(bytes, end)
    BY <1>3, <1>4, <1>5 DEF isEnd
  <2>2. ASSUME NEW i \in pos + 1 .. end - 1, isEnd(bytes, i)
        PROVE  FALSE
    <3> DEFINE j == i - pos
    <3>1. j \in 1 .. Len(text) /\ pos + j = i
      BY <1>3
    <3> HIDE DEF j
    <3>2. text[j] = CR
      BY <1>5, <2>2, <3>1 DEF isEnd
    <3>3. CASE j = Len(text)
      <4>1. i + 1 = end
        BY <3>1, <3>3
      <4>2. bytes[i + 1] = LF
        BY <2>2 DEF isEnd
      <4> HIDE DEF end
      <4>3. CR = LF
        BY <1>5, <4>1, <4>2
      <4> QED BY <4>3 DEF CR, LF, char
    <3>4. CASE j # Len(text)
      <4>1. j + 1 \in 1 .. Len(text) /\ j \in 1 .. Len(text) - 1 /\ pos + (j + 1) = i + 1
        BY <1>3, <3>1, <3>4
      <4>2. text[j + 1] = LF
        BY <1>5, <2>2, <4>1 DEF isEnd
      <4> QED BY <3>2, <4>1, <4>2 DEF oneLine, breakAt
    <3> QED BY <3>3, <3>4
  <2> HIDE DEF end
  <2> QED BY <2>1, <2>2, EndIsUnique
<1>7. SubSeq(bytes, pos + 1, end - 1) = text
  <2>1. standsAt(text, bytes, pos + 1)
    <3>1. pos + 1 + Len(text) <= Len(bytes) + 1
      BY <1>3, <1>4
    <3>2. \A i \in 1 .. Len(text) : pos + 1 + i - 1 = pos + i
      BY <1>3
    <3> QED BY <1>5, <3>1, <3>2 DEF standsAt
  <2>2. end - 1 = pos + 1 + Len(text) - 1
    BY <1>3
  <2> QED BY <1>3, <2>1, <2>2, PartThatStands
<1>8. end # 0 /\ end + 2 = pos + Len(text) + 3
  BY <1>3
<1> HIDE DEF end
<1> QED BY <1>4, <1>6, <1>7, <1>8 DEF parseLine

(* A number reads back from a line of its own.                             *)
LEMMA ReadNumber ==
  ASSUME NEW n \in Int
  PROVE  LET text == <<num(n)>>
         IN  /\ oneLine(text) /\ isNumber(text) /\ numberIn(text) = n
             /\ oneWord(text)[1] = text
<1> DEFINE text == <<num(n)>>
<1>1. Len(text) = 1 /\ text[1] = num(n) /\ text # <<>> /\ Last(text) = num(n)
  BY DEF Last
<1>2. num(n)[1] = "num" /\ num(n)[2] = n
  BY DEF num
<1>3. \E i \in 1 .. Len(text) :
        /\ \A j \in 1 .. i - 1 : text[j] \in {CR, LF}
        /\ i = Len(text)
  BY <1>1
<1> HIDE DEF text
<1>4. oneLine(text) /\ isNumber(text) /\ numberIn(text) = n
  BY <1>1, <1>2, <1>3 DEF oneLine, isNumber, numberIn
<1>5. oneWord(text)[1] = text
  BY DEF oneWord
<1> QED BY <1>4, <1>5 DEF text

-----------------------------------------------------------------------------
(* Every answer reads back                                                 *)

LEMMA ReadCount ==
  ASSUME NEW marker \in Characters, NEW n \in -1 .. IntMax,
         NEW bytes \in Seq(Bytes), NEW pos \in Nat \ {0},
         standsAt(line(marker, <<num(n)>>), bytes, pos)
  PROVE  /\ pos \in 1 .. Len(bytes) /\ bytes[pos] = char(marker)
         /\ pos + 4 <= Len(bytes) + 1
         /\ parseCount(bytes, pos) = Parsed(oneWord(<<num(n)>>), pos + 4)
         /\ parseCount(bytes, pos).ok /\ parseCount(bytes, pos).next = pos + 4
         /\ countOf(parseCount(bytes, pos)) = n
<1> DEFINE text == <<num(n)>>
           l == parseLine(bytes, pos)
<1>0. n \in Int /\ IntMax \in Nat
  BY ParserAssumption
<1>1. text \in Seq(Bytes) /\ Len(text) = 1
  BY <1>0, Words
<1>2. oneLine(text) /\ isNumber(text) /\ numberIn(text) = n /\ oneWord(text)[1] = text
  BY <1>0, ReadNumber
<1> HIDE DEF text
<1>3. /\ pos \in 1 .. Len(bytes) /\ bytes[pos] = char(marker)
      /\ pos + Len(text) + 3 <= Len(bytes) + 1
      /\ l = Parsed(oneWord(text), pos + Len(text) + 3)
  <2>1. standsAt(line(marker, text), bytes, pos)
    BY DEF text
  <2> HIDE DEF l
  <2>2. /\ pos \in 1 .. Len(bytes) /\ bytes[pos] = char(marker)
        /\ pos + Len(text) + 3 <= Len(bytes) + 1
        /\ parseLine(bytes, pos) = Parsed(oneWord(text), pos + Len(text) + 3)
    <3>1. text \in Seq(Bytes) /\ oneLine(text)
      BY <1>1, <1>2
    <3> QED BY <2>1, <3>1, ReadLine
  <2> QED BY <2>2 DEF l
<1>4. pos + Len(text) + 3 = pos + 4
  BY <1>1
<1>5. l.ok /\ l.args = oneWord(text) /\ l.next = pos + 4
  BY <1>3, <1>4 DEF Parsed
<1>6. isIntegerUpTo(text, IntMax)
  BY <1>0, <1>2 DEF isIntegerUpTo
<1>7. parseCount(bytes, pos) = l
  BY <1>2, <1>5, <1>6 DEF parseCount
<1>8. countOf(l) = n
  BY <1>2, <1>5 DEF countOf
<1> QED BY <1>3, <1>4, <1>5, <1>7, <1>8 DEF text

LEMMA BulkBytes ==
  ASSUME NEW str \in Seq(Bytes)
  PROVE  /\ formatBulkString(str) \in Seq(Bytes)
         /\ Len(formatBulkString(str)) = Len(str) + 6
         /\ line("$", <<num(Len(str))>>) \in Seq(Bytes)
         /\ Len(line("$", <<num(Len(str))>>)) = 4
         /\ formatBulkString(str) = line("$", <<num(Len(str))>>) \o (str \o <<CR, LF>>)
<1> DEFINE head == line("$", <<num(Len(str))>>)
           end == <<CR, LF>>
<1>1. head \in Seq(Bytes) /\ Len(head) = 4
  <2>1. "$" \in Characters /\ Len(str) \in Int
    BY ParserAssumption
  <2> DEFINE text == <<num(Len(str))>>
  <2>2. text \in Seq(Bytes) /\ Len(text) = 1
    BY <2>1, Words
  <2> HIDE DEF text
  <2>3. line("$", text) \in Seq(Bytes) /\ Len(line("$", text)) = Len(text) + 3
    BY <2>1, <2>2, LineBytes
  <2> QED BY <2>2, <2>3 DEF text
<1>2. end \in Seq(Bytes) /\ Len(end) = 2
  BY Words
<1>3. formatBulkString(str) = head \o str \o end
  BY DEF formatBulkString
<1> HIDE DEF head, end
<1>4. (head \o str) \o end = head \o (str \o end)
  BY <1>1, <1>2, ConcatAssociative
<1>5. str \o end \in Seq(Bytes) /\ Len(str \o end) = Len(str) + 2
  <2>1. end \in Seq(Bytes) /\ Len(end) = 2
    BY <1>2
  <2>2. str \o end \in Seq(Bytes) /\ Len(str \o end) = Len(str) + Len(end)
    BY <2>1, Joined
  <2> QED BY <2>1, <2>2
<1>6. head \o (str \o end) \in Seq(Bytes) /\ Len(head \o (str \o end)) = 4 + (Len(str) + 2)
  <2> DEFINE rest == str \o end
  <2>1. rest \in Seq(Bytes) /\ Len(rest) = Len(str) + 2
    BY <1>5
  <2> HIDE DEF rest
  <2>2. head \o rest \in Seq(Bytes) /\ Len(head \o rest) = 4 + (Len(str) + 2)
    BY <1>1, <2>1, Joined
  <2> QED BY <2>2 DEF rest
<1>7. formatBulkString(str) = head \o (str \o end)
  BY <1>3, <1>4
<1>8. 4 + (Len(str) + 2) = Len(str) + 6
  OBVIOUS
<1>9. /\ formatBulkString(str) \in Seq(Bytes) /\ Len(formatBulkString(str)) = Len(str) + 6
  BY <1>6, <1>7, <1>8
<1> QED BY <1>1, <1>7, <1>9 DEF head, end

LEMMA ReadBulkString ==
  ASSUME NEW str \in Seq(Bytes), Len(str) <= MAX_STRING_LENGTH,
         NEW bytes \in Seq(Bytes), NEW pos \in Nat \ {0},
         standsAt(formatBulkString(str), bytes, pos)
  PROVE  /\ pos \in 1 .. Len(bytes) /\ bytes[pos] = char("$")
         /\ parseBulkString(bytes, pos)
              = Parsed(oneWord(str), pos + Len(formatBulkString(str)))
<1> DEFINE head == line("$", <<num(Len(str))>>)
           tail == <<CR, LF>>
           end == pos + 4 + Len(str)
           len == Len(str)
<1>0. len \in Nat /\ len \in -1 .. IntMax /\ Len(bytes) \in Nat /\ "$" \in Characters
  BY ParserAssumption
<1>1. tail \in Seq(Bytes) /\ Len(tail) = 2 /\ tail[1] = CR /\ tail[2] = LF
  BY Words
<1>2. /\ head \in Seq(Bytes) /\ Len(head) = 4
      /\ formatBulkString(str) = head \o (str \o tail)
      /\ Len(formatBulkString(str)) = len + 6
  BY BulkBytes
<1> HIDE DEF head, tail
<1>3. str \o tail \in Seq(Bytes)
  BY <1>1, ConcatProperties
<1>4. /\ standsAt(head, bytes, pos) /\ standsAt(str, bytes, pos + 4)
      /\ standsAt(tail, bytes, end)
  <2>1. standsAt(head, bytes, pos) /\ standsAt(str \o tail, bytes, pos + 4)
    <3> DEFINE rest == str \o tail
    <3>1. standsAt(head \o rest, bytes, pos)
      BY <1>2
    <3> HIDE DEF rest
    <3> QED BY <1>2, <1>3, <3>1, BothStand DEF rest
  <2>2. pos + 4 \in Nat \ {0}
    OBVIOUS
  <2> QED BY <1>1, <2>1, <2>2, BothStand
<1>5. /\ pos \in 1 .. Len(bytes) /\ bytes[pos] = char("$")
      /\ parseCount(bytes, pos).ok /\ parseCount(bytes, pos).next = pos + 4
      /\ countOf(parseCount(bytes, pos)) = len
  <2> HIDE DEF len
  <2>1. standsAt(line("$", <<num(len)>>), bytes, pos)
    BY <1>4 DEF head, len
  <2> QED BY <1>0, <2>1, ReadCount
<1>6. end + 1 <= Len(bytes) /\ bytes[end] = CR /\ bytes[end + 1] = LF
  <2>1. end + 2 <= Len(bytes) + 1 /\ bytes[end + 1 - 1] = CR /\ bytes[end + 2 - 1] = LF
    BY <1>1, <1>4 DEF standsAt
  <2>2. end \in Nat /\ end + 1 - 1 = end /\ end + 2 - 1 = end + 1
    BY <1>0
  <2> HIDE DEF end
  <2> QED BY <1>0, <2>1, <2>2
<1>7. SubSeq(bytes, pos + 4, end - 1) = str
  <2>1. end - 1 = pos + 4 + Len(str) - 1 /\ pos + 4 \in Nat \ {0}
    BY <1>0
  <2> QED BY <1>4, <2>1, PartThatStands
<1>8. end + 2 = pos + Len(formatBulkString(str))
  BY <1>0, <1>2
<1>9. 0 <= len /\ len <= MAX_STRING_LENGTH /\ len # -1
  BY <1>0
<1>10. parseBulkString(bytes, pos) = Parsed(oneWord(SubSeq(bytes, pos + 4, end - 1)), end + 2)
  <2> DEFINE l == parseCount(bytes, pos)
  <2>1. l.ok /\ l.next = pos + 4 /\ countOf(l) = len /\ l.next + countOf(l) = end
    BY <1>5
  <2> HIDE DEF len, end
  <2> QED BY <1>6, <1>9, <2>1 DEF parseBulkString
<1> QED BY <1>5, <1>7, <1>8, <1>10

LEMMA ReadInteger ==
  ASSUME NEW n \in -(LLMax + 1) .. LLMax,
         NEW bytes \in Seq(Bytes), NEW pos \in Nat \ {0},
         standsAt(formatInteger(n), bytes, pos)
  PROVE  /\ pos \in 1 .. Len(bytes) /\ bytes[pos] = char(":")
         /\ parseInteger(bytes, pos) = Parsed(oneWord(<<num(n)>>), pos + 4)
<1> DEFINE text == <<num(n)>>
           l == parseLine(bytes, pos)
<1>0. n \in Int /\ ":" \in Characters
  BY ParserAssumption
<1>1. text \in Seq(Bytes) /\ Len(text) = 1 /\ pos + Len(text) + 3 = pos + 4
  BY <1>0, Words
<1>2. oneLine(text) /\ isNumber(text) /\ numberIn(text) = n /\ oneWord(text)[1] = text
  BY <1>0, ReadNumber
<1>3. standsAt(line(":", text), bytes, pos)
  BY DEF formatInteger
<1> HIDE DEF text
<1>4. /\ pos \in 1 .. Len(bytes) /\ bytes[pos] = char(":")
      /\ l = Parsed(oneWord(text), pos + Len(text) + 3)
  <2>1. text \in Seq(Bytes) /\ oneLine(text)
    BY <1>1, <1>2
  <2> HIDE DEF l
  <2>2. /\ pos \in 1 .. Len(bytes) /\ bytes[pos] = char(":")
        /\ parseLine(bytes, pos) = Parsed(oneWord(text), pos + Len(text) + 3)
    BY <1>0, <1>3, <2>1, ReadLine
  <2> QED BY <2>2 DEF l
<1>5. l.ok /\ l.args = oneWord(text) /\ l.next = pos + 4
  BY <1>1, <1>4 DEF Parsed
<1>6. isIntegerUpTo(text, LLMax)
  BY <1>2 DEF isIntegerUpTo
<1>7. parseInteger(bytes, pos) = Parsed(oneWord(<<num(n)>>), l.next)
  BY <1>2, <1>5, <1>6 DEF parseInteger
<1> QED BY <1>4, <1>5, <1>7

LEMMA ReadNull ==
  ASSUME NEW bytes \in Seq(Bytes), NEW pos \in Nat \ {0},
         standsAt(formatNull, bytes, pos)
  PROVE  /\ pos \in 1 .. Len(bytes) /\ bytes[pos] = char("$")
         /\ parseBulkString(bytes, pos) = Parsed(NullWords, pos + 4)
<1>1. standsAt(line("$", <<num(-1)>>), bytes, pos)
  BY DEF formatNull
<1>2. "$" \in Characters /\ -1 \in -1 .. IntMax
  BY ParserAssumption
<1>3. /\ pos \in 1 .. Len(bytes) /\ bytes[pos] = char("$")
      /\ parseCount(bytes, pos).ok /\ parseCount(bytes, pos).next = pos + 4
      /\ countOf(parseCount(bytes, pos)) = -1
  BY <1>1, <1>2, ReadCount
<1> QED BY <1>3 DEF parseBulkString

LEMMA ItemsAreWords ==
  ASSUME NEW n \in 0 .. MaxItems, NEW items \in [1 .. n -> Payloads]
  PROVE  /\ n \in Nat /\ n <= MAX_ARGS /\ n \in -1 .. IntMax
         /\ Len(items) = n /\ items \in Seq(Seq(Bytes))
         /\ \A i \in 1 .. n : items[i] \in Seq(Bytes) /\ Len(items[i]) <= MAX_STRING_LENGTH
<1>1. n \in Nat /\ n <= MAX_ARGS /\ n \in -1 .. IntMax
  BY ParserAssumption, FormatterAssumption
<1>2. \A i \in 1 .. n : items[i] \in Seq(Bytes) /\ Len(items[i]) <= MAX_STRING_LENGTH
  BY FormatterAssumption
<1>3. items \in [1 .. n -> Seq(Bytes)]
  BY <1>2
<1>4. Len(items) = n /\ items \in Seq(Seq(Bytes))
  <2> DEFINE S == Seq(Bytes)
  <2>1. items \in [1 .. n -> S]
    BY <1>3
  <2> HIDE DEF S
  <2>2. Len(items) = n /\ items \in Seq(S)
    BY <1>1, <2>1
  <2> QED BY <2>2 DEF S
<1> QED BY <1>1, <1>2, <1>4

LEMMA ArrayBytes ==
  ASSUME NEW n \in 0 .. MaxItems, NEW items \in [1 .. n -> Payloads]
  PROVE  LET bytes == arrayUpTo(items)
         IN  /\ bytes[0] = line("*", <<num(n)>>)
             /\ \A i \in 1 .. n : bytes[i] = bytes[i - 1] \o formatBulkString(items[i])
             /\ \A i \in 0 .. n : bytes[i] \in Seq(Bytes)
             /\ formatArray(items) = bytes[n]
<1> DEFINE V == Seq(Bytes)
           base == line("*", <<num(n)>>)
           step == [i \in 1 .. n |-> [b \in V |-> b \o formatBulkString(items[i])]]
           up == arrayUpTo(items)
           F(f) == [i \in 0 .. n |->
                      IF i = 0 THEN base ELSE f[i - 1] \o formatBulkString(items[i])]
<1>0. /\ n \in Nat /\ Len(items) = n
      /\ \A i \in 1 .. n : formatBulkString(items[i]) \in V
  BY ItemsAreWords, BulkBytes
<1>1. base \in V
  <2> DEFINE text == <<num(n)>>
  <2>1. text \in Seq(Bytes) /\ "*" \in Characters
    BY <1>0, Words, ParserAssumption
  <2> HIDE DEF text
  <2> QED BY <2>1, LineBytes DEF text
<1>2. step \in [1 .. n -> [V -> V]]
  <2>1. \A i \in 1 .. n : \A b \in V : b \o formatBulkString(items[i]) \in V
    BY <1>0, Joined
  <2> HIDE DEF V
  <2> QED BY <2>1
<1> HIDE DEF V
<1>3. \E f : f = F(f)
  <2>0. Iterations(n, V, base, step) # {}
    <3> HIDE DEF base, step
    <3> QED BY <1>0, <1>1, <1>2, Recursion
  <2>1. PICK f \in [0 .. n -> V] :
          f[0] = base /\ \A i \in 1 .. n : f[i] = step[i][f[i - 1]]
    <3> HIDE DEF base, step
    <3> QED BY <2>0 DEF Iterations
  <2>2. \A i \in 1 .. n : i - 1 \in 0 .. n /\ f[i - 1] \in V
    <3> HIDE DEF base, step
    <3> QED BY <2>1
  <2>3. \A i \in 1 .. n : f[i] = f[i - 1] \o formatBulkString(items[i])
    <3> HIDE DEF base
    <3> QED BY <2>1, <2>2
  <2>4. f = F(f)
    <3>1. ASSUME NEW i \in 0 .. n
          PROVE  f[i] = F(f)[i]
      <4>1. F(f)[i] = IF i = 0 THEN base ELSE f[i - 1] \o formatBulkString(items[i])
        <5> HIDE DEF base, step
        <5> QED OBVIOUS
      <4>2. i = 0 \/ i \in 1 .. n
        BY <1>0
      <4> HIDE DEF base, step, F
      <4> QED BY <2>1, <2>3, <4>1, <4>2
    <3>2. f = [i \in 0 .. n |-> f[i]] /\ F(f) = [i \in 0 .. n |-> F(f)[i]]
      <4> HIDE DEF base, step
      <4> QED BY <2>1
    <3> HIDE DEF F
    <3> QED BY <3>1, <3>2
  <2> QED BY <2>4
<1>4. up = F(up)
  <2>1. up = CHOOSE f : f = F(f)
    BY <1>0, Zenon DEF arrayUpTo
  <2> HIDE DEF up, F
  <2> QED BY <1>3, <2>1, Zenon
<1>5. /\ up[0] = base
      /\ \A i \in 1 .. n : up[i] = up[i - 1] \o formatBulkString(items[i])
  <2> HIDE DEF up, base
  <2> QED BY <1>0, <1>4
<1>6. \A i \in 0 .. n : up[i] \in V
  <2> DEFINE S == {i \in 0 .. n : up[i] \in V}
  <2> HIDE DEF up, base
  <2>1. 0 \in S
    BY <1>0, <1>1, <1>5
  <2>2. ASSUME NEW i \in 1 .. n, i - 1 \in S
        PROVE  i \in S
    <3> DEFINE before == up[i - 1]
               bulk == formatBulkString(items[i])
    <3>1. before \in Seq(Bytes) /\ bulk \in Seq(Bytes) /\ up[i] = before \o bulk
      BY <1>0, <1>5, <2>2 DEF V
    <3> HIDE DEF before, bulk
    <3>2. up[i] \in V
      BY <3>1, Joined DEF V
    <3> QED BY <3>2
  <2>3. \A i \in 0 .. n : i \in S
    <3> HIDE DEF S
    <3> QED BY <1>0, <2>1, <2>2, Induction
  <2> QED BY <2>3
<1>7. formatArray(items) = up[n]
  BY <1>0 DEF formatArray
<1> QED BY <1>5, <1>6, <1>7 DEF V

LEMMA ReadArray ==
  ASSUME NEW n \in 0 .. MaxItems, NEW items \in [1 .. n -> Payloads],
         NEW bytes \in Seq(Bytes), NEW pos \in Nat \ {0},
         standsAt(formatArray(items), bytes, pos),
         NEW elementAt \in Values(bytes),
         \A p \in 1 .. Len(bytes) :
           bytes[p] = char("$") => elementAt[p] = parseBulkString(bytes, p)
  PROVE  /\ pos \in 1 .. Len(bytes) /\ bytes[pos] = char("*")
         /\ parseArray(bytes, pos, elementAt)
              = Parsed(items, pos + Len(formatArray(items)))
<1> DEFINE up == arrayUpTo(items)
           start == pos + 4
           e == elementsFrom(start, n, elementAt)
           S == {i \in 0 .. n : /\ standsAt(up[n - i], bytes, pos)}
           R == {i \in 0 .. n : e[i] = Parsed(SubSeq(items, 1, i), pos + Len(up[i]))}
<1>0. /\ n \in Nat /\ n <= MAX_ARGS /\ n \in -1 .. IntMax /\ Len(items) = n
      /\ items \in Seq(Seq(Bytes))
      /\ \A i \in 1 .. n : items[i] \in Seq(Bytes) /\ Len(items[i]) <= MAX_STRING_LENGTH
  BY ItemsAreWords
<1>1. /\ up[0] = line("*", <<num(n)>>)
      /\ \A i \in 1 .. n : up[i] = up[i - 1] \o formatBulkString(items[i])
      /\ \A i \in 0 .. n : up[i] \in Seq(Bytes)
      /\ formatArray(items) = up[n]
  BY ArrayBytes
<1> HIDE DEF up
<1>2. \A i \in 1 .. n : /\ i - 1 \in 0 .. n
                        /\ formatBulkString(items[i]) \in Seq(Bytes)
                        /\ up[i - 1] \in Seq(Bytes)
  <2>1. \A i \in 1 .. n : i - 1 \in 0 .. n
    BY <1>0
  <2>2. \A i \in 1 .. n : formatBulkString(items[i]) \in Seq(Bytes)
    BY <1>0, BulkBytes
  <2> QED BY <1>1, <2>1, <2>2
<1>3. \A i \in 0 .. n : standsAt(up[i], bytes, pos)
  <2>1. 0 \in S
    BY <1>0, <1>1
  <2>2. ASSUME NEW i \in 1 .. n, i - 1 \in S
        PROVE  i \in S
    <3> DEFINE j == n - i + 1
    <3>1. j \in 1 .. n /\ n - (i - 1) = j /\ n - i = j - 1
      BY <1>0
    <3>2. standsAt(up[j], bytes, pos)
      BY <2>2, <3>1
    <3> HIDE DEF j
    <3>3. standsAt(up[j - 1] \o formatBulkString(items[j]), bytes, pos)
      BY <1>1, <3>1, <3>2
    <3>4. standsAt(up[j - 1], bytes, pos)
      BY <1>2, <3>1, <3>3, BothStand
    <3> QED BY <3>1, <3>4
  <2>3. \A i \in 0 .. n : i \in S
    <3> HIDE DEF S
    <3> QED BY <1>0, <2>1, <2>2, Induction
  <2>4. \A i \in 0 .. n : n - i \in 0 .. n /\ n - (n - i) = i
    BY <1>0
  <2>5. \A i \in 0 .. n : standsAt(up[n - i], bytes, pos)
    BY <2>3
  <2> HIDE DEF S
  <2> QED BY <2>4, <2>5
<1>4. /\ pos \in 1 .. Len(bytes) /\ bytes[pos] = char("*") /\ start <= Len(bytes) + 1
      /\ parseCount(bytes, pos).ok /\ parseCount(bytes, pos).next = start
      /\ countOf(parseCount(bytes, pos)) = n
  <2>1. standsAt(line("*", <<num(n)>>), bytes, pos) /\ "*" \in Characters
    BY <1>0, <1>1, <1>3, ParserAssumption
  <2> QED BY <1>0, <2>1, ReadCount
<1>5. parseArray(bytes, pos, elementAt) = e[n]
  <2> HIDE DEF start
  <2> QED BY <1>0, <1>4 DEF parseArray
<1>6. /\ e[0] = Parsed(<<>>, start)
      /\ \A i \in 1 .. n : e[i] = addElement(e[i - 1], elementAt)
  <2>1. start \in 1 .. Len(bytes) + 1
    BY <1>4
  <2> HIDE DEF start
  <2> QED BY <1>0, <2>1, ElementsFrom
<1> HIDE DEF e
<1>7. 0 \in R
  <2>1. SubSeq(items, 1, 0) = <<>>
    BY SubSeqEmpty
  <2>2. Len(up[0]) = 4
    <3> DEFINE text == <<num(n)>>
    <3>1. text \in Seq(Bytes) /\ Len(text) = 1 /\ "*" \in Characters
      BY <1>0, Words, ParserAssumption
    <3> HIDE DEF text
    <3>2. Len(line("*", text)) = Len(text) + 3
      BY <3>1, LineBytes
    <3> QED BY <1>1, <3>1, <3>2 DEF text
  <2>3. e[0] = Parsed(SubSeq(items, 1, 0), pos + Len(up[0]))
    BY <1>6, <2>1, <2>2
  <2>4. 0 \in 0 .. n
    BY <1>0
  <2> QED BY <2>3, <2>4
<1>8. ASSUME NEW i \in 1 .. n, i - 1 \in R
      PROVE  i \in R
  <2> DEFINE str == items[i]
             bulk == formatBulkString(str)
             here == pos + Len(up[i - 1])
  <2>1. /\ up[i] = up[i - 1] \o bulk /\ bulk \in Seq(Bytes) /\ up[i - 1] \in Seq(Bytes)
        /\ str \in Seq(Bytes) /\ Len(str) <= MAX_STRING_LENGTH
        /\ standsAt(up[i], bytes, pos)
    BY <1>0, <1>1, <1>2, <1>3
  <2> HIDE DEF bulk
  <2>2. standsAt(bulk, bytes, here) /\ here \in Nat \ {0}
    <3>1. standsAt(up[i - 1] \o bulk, bytes, pos)
      BY <2>1
    <3>2. here \in Nat \ {0}
      BY <2>1
    <3> QED BY <2>1, <3>1, <3>2, BothStand
  <2>3. /\ here \in 1 .. Len(bytes) /\ bytes[here] = char("$")
        /\ parseBulkString(bytes, here) = Parsed(oneWord(str), here + Len(bulk))
    <3> HIDE DEF here, str
    <3> QED BY <2>1, <2>2, ReadBulkString DEF bulk
  <2>4. elementAt[here] = Parsed(oneWord(str), here + Len(bulk))
    <3> HIDE DEF here, str
    <3> QED BY <2>3
  <2>5. here + Len(bulk) = pos + Len(up[i])
    <3>1. Len(up[i]) = Len(up[i - 1]) + Len(bulk) /\ Len(up[i - 1]) \in Nat /\ Len(bulk) \in Nat
      BY <2>1, Joined
    <3> QED BY <3>1
  <2>6. e[i - 1] = Parsed(SubSeq(items, 1, i - 1), here)
    BY <1>8
  <2>7. e[i] = addElement(Parsed(SubSeq(items, 1, i - 1), here), elementAt)
    BY <1>6, <2>6
  <2>8. e[i] = Parsed(SubSeq(items, 1, i - 1) \o oneWord(str), here + Len(bulk))
    <3> DEFINE words == SubSeq(items, 1, i - 1)
    <3>1. e[i] = addElement(Parsed(words, here), elementAt)
      BY <2>7
    <3> HIDE DEF here, str, words
    <3>2. e[i] = Parsed(words \o oneWord(str), here + Len(bulk))
      <4> DEFINE b == Parsed(words, here)
                 v == Parsed(oneWord(str), here + Len(bulk))
      <4>1. b.ok /\ b.args = words /\ b.next = here
        BY DEF Parsed
      <4>2. v.ok /\ v.args = oneWord(str) /\ v.next = here + Len(bulk)
        BY DEF Parsed
      <4>3. e[i] = addElement(b, elementAt) /\ elementAt[here] = v
        BY <2>4, <3>1
      <4> HIDE DEF b, v
      <4> QED BY <4>1, <4>2, <4>3 DEF addElement
    <3> QED BY <3>2 DEF words
  <2>9. SubSeq(items, 1, i - 1) \o oneWord(str) = SubSeq(items, 1, i)
    <3>1. 1 \in 1 .. Len(items) /\ i \in 1 .. Len(items)
      BY <1>0
    <3>2. SubSeq(items, 1, i) = SubSeq(items, 1, i - 1) \o << items[i] >>
      <4> DEFINE T == Seq(Bytes)
      <4>1. items \in Seq(T)
        BY <1>0
      <4> HIDE DEF T
      <4> QED BY <3>1, <4>1, SubSeqRecursiveSecond
    <3> QED BY <3>2 DEF oneWord
  <2>10. e[i] = Parsed(SubSeq(items, 1, i), pos + Len(up[i]))
    <3> HIDE DEF here, str
    <3> QED BY <2>5, <2>8, <2>9
  <2> QED BY <2>10
<1>9. \A i \in 0 .. n : i \in R
  <2> HIDE DEF R
  <2> QED BY <1>0, <1>7, <1>8, Induction
<1>10. e[n] = Parsed(SubSeq(items, 1, n), pos + Len(up[n]))
  BY <1>0, <1>9
<1>11. SubSeq(items, 1, n) = items
  <2> DEFINE T == Seq(Bytes)
  <2>1. items \in Seq(T)
    BY <1>0
  <2> HIDE DEF T
  <2> QED BY <1>0, <2>1, SubSeqFull
<1> QED BY <1>1, <1>4, <1>5, <1>10, <1>11

-----------------------------------------------------------------------------
(* Every answer is one message                                             *)

(* parse finds in the bytes of an answer one message, to the last byte.    *)
readsBack(bytes, kind, words) ==
  /\ bytes \in Seq(Bytes) /\ bytes # <<>> /\ bytes[1] = char(kind)
  /\ kind \in Characters /\ words \in Seq(Seq(Bytes))
  /\ parse(bytes).ok /\ parse(bytes).args = words /\ parse(bytes).consumed = Len(bytes)

LEMMA FirstValue ==
  ASSUME NEW bytes \in Seq(Bytes), bytes # <<>>
  PROVE  LET elementAt == parseValue(bytes)[1]
         IN  /\ elementAt \in Values(bytes)
             /\ \A p \in 1 .. Len(bytes) :
                  bytes[p] = char("$") => elementAt[p] = parseBulkString(bytes, p)
             /\ bytes[1] \in {char("+"), char("-")} =>
                  parse(bytes) = message(parseLine(bytes, 1))
             /\ bytes[1] = char(":") => parse(bytes) = message(parseInteger(bytes, 1))
             /\ bytes[1] = char("$") => parse(bytes) = message(parseBulkString(bytes, 1))
             /\ bytes[1] = char("*") =>
                  parse(bytes) = message(parseArray(bytes, 1, elementAt))
<1> DEFINE value == parseValue(bytes)
<1>0. /\ 0 \in 0 .. MAX_DEPTH + 1 /\ 1 \in 0 .. MAX_DEPTH + 1 /\ ~(0 > MAX_DEPTH)
      /\ ~(1 > MAX_DEPTH) /\ 0 + 1 = 1 /\ 1 + 1 = 2 /\ 1 \in 1 .. Len(bytes)
  BY ParserAssumption, FormatterAssumption
<1>1. /\ \A d \in 0 .. MAX_DEPTH + 1 : value[d] = parseByMarker(bytes, d, value[d + 1])
      /\ \A d \in 0 .. MAX_DEPTH + 1 : value[d] \in Values(bytes)
  BY ValuesByDepth
<1>2. parse(bytes) = message(value[0][1])
  BY DEF parse
<1> HIDE DEF value
<1>3. value[0] = parseByMarker(bytes, 0, value[1]) /\ value[1] = parseByMarker(bytes, 1, value[2])
  BY <1>0, <1>1
<1>4. ASSUME NEW d \in 0 .. 1, NEW elementAt, NEW p \in 1 .. Len(bytes)
      PROVE  parseByMarker(bytes, d, elementAt)[p] =
               CASE bytes[p] \in {char("+"), char("-")} -> parseLine(bytes, p)
                 [] bytes[p] = char(":") -> parseInteger(bytes, p)
                 [] bytes[p] = char("$") -> parseBulkString(bytes, p)
                 [] bytes[p] = char("*") -> parseArray(bytes, p, elementAt)
                 [] OTHER -> Unparsed
  <2>1. ~(p > Len(bytes) \/ d > MAX_DEPTH) /\ p \in 1 .. Len(bytes) + 1
    BY ParserAssumption, FormatterAssumption
  <2> QED BY <2>1 DEF parseByMarker
<1>5. /\ bytes[1] \in {char("+"), char("-")} => value[0][1] = parseLine(bytes, 1)
      /\ bytes[1] = char(":") => value[0][1] = parseInteger(bytes, 1)
      /\ bytes[1] = char("$") => value[0][1] = parseBulkString(bytes, 1)
      /\ bytes[1] = char("*") => value[0][1] = parseArray(bytes, 1, value[1])
  BY <1>0, <1>3, <1>4 DEF char
<1>6. \A p \in 1 .. Len(bytes) :
        bytes[p] = char("$") => value[1][p] = parseBulkString(bytes, p)
  BY <1>3, <1>4 DEF char
<1> QED BY <1>0, <1>1, <1>2, <1>5, <1>6 DEF value

(* From the value at the first byte                                        *)
LEMMA WholeMessage ==
  ASSUME NEW bytes \in Seq(Bytes), bytes # <<>>, NEW kind \in Characters,
         bytes[1] = char(kind), NEW words \in Seq(Seq(Bytes)),
         parse(bytes) = message(Parsed(words, 1 + Len(bytes)))
  PROVE  readsBack(bytes, kind, words)
<1>1. 1 + Len(bytes) - 1 = Len(bytes)
  OBVIOUS
<1> QED BY <1>1 DEF readsBack, message, Parsed

LEMMA LineReadsBack ==
  ASSUME NEW marker \in {"+", "-"}, NEW text \in Seq(Bytes), oneLine(text)
  PROVE  readsBack(line(marker, text), marker, <<text>>)
<1> DEFINE bytes == line(marker, text)
<1>1. marker \in Characters
  BY ParserAssumption
<1>2. bytes \in Seq(Bytes) /\ Len(bytes) = Len(text) + 3 /\ bytes[1] = char(marker)
  BY <1>1, LineBytes
<1>3. bytes # <<>> /\ 1 + Len(text) + 3 = 1 + Len(bytes)
  <2> HIDE DEF bytes
  <2> QED BY <1>2
<1>4. parseLine(bytes, 1) = Parsed(oneWord(text), 1 + Len(text) + 3)
  <2>1. standsAt(bytes, bytes, 1)
    <3> HIDE DEF bytes
    <3> QED BY <1>2, StandsWhole
  <2>2. 1 \in Nat \ {0}
    OBVIOUS
  <2> DEFINE there == bytes
  <2>3. standsAt(line(marker, text), there, 1) /\ there \in Seq(Bytes)
    BY <1>2, <2>1
  <2> HIDE DEF there
  <2>4. parseLine(there, 1) = Parsed(oneWord(text), 1 + Len(text) + 3)
    BY <1>1, <2>2, <2>3, ReadLine
  <2> QED BY <2>4 DEF there
<1>5. bytes[1] \in {char("+"), char("-")}
  BY <1>2
<1>6. oneWord(text) = <<text>> /\ <<text>> \in Seq(Seq(Bytes))
  BY OneWord DEF oneWord
<1> HIDE DEF bytes
<1>7. parse(bytes) = message(Parsed(<<text>>, 1 + Len(bytes)))
  BY <1>2, <1>3, <1>4, <1>5, <1>6, FirstValue
<1>8. readsBack(bytes, marker, <<text>>)
  BY <1>1, <1>2, <1>3, <1>6, <1>7, WholeMessage
<1> QED BY <1>8 DEF bytes

(* The quoted name is some text.                                           *)
LEMMA QuotedText ==
  ASSUME NEW name \in Seq(Bytes)
  PROVE  <<char("'")>> \o name \o <<char("'")>> \in Seq(Bytes)
<1> DEFINE q == <<char("'")>>
<1>1. q \in Seq(Bytes)
  BY Words, FormatterAssumption
<1> HIDE DEF q
<1>2. q \o name \in Seq(Bytes)
  BY <1>1, Joined
<1>3. (q \o name) \o q \in Seq(Bytes)
  BY <1>1, <1>2, Joined
<1> QED BY <1>3 DEF q

(* A line whose text has a line break in it is read up to the first.       *)
LEMMA BrokenLineReads ==
  ASSUME NEW text \in Seq(Bytes), ~oneLine(text)
  PROVE  LET bytes == line("-", text)
         IN  /\ bytes \in Seq(Bytes) /\ bytes # <<>> /\ bytes[1] = char("-")
             /\ parse(bytes).ok /\ isFirstLine(parse(bytes).args[1], text)
             /\ parse(bytes).consumed < Len(bytes)
<1> DEFINE bytes == line("-", text)
           i == findCRLF(text, 1)
<1>1. /\ bytes \in Seq(Bytes) /\ Len(bytes) = Len(text) + 3 /\ bytes[1] = char("-")
      /\ \A j \in 1 .. Len(text) : bytes[j + 1] = text[j]
  <2>1. "-" \in Characters
    BY ParserAssumption
  <2> QED BY <2>1, LineBytes
<1>2. /\ i \in 1 .. Len(text) - 1 /\ breakAt(text, i)
      /\ \A j \in 1 .. i - 1 : ~breakAt(text, j)
  <2>1. 1 \in Nat \ {0}
    OBVIOUS
  <2> QED BY <2>1, FirstEnd DEF oneLine, breakAt, isEnd
<1>3. Len(text) \in Nat
  OBVIOUS
<1> HIDE DEF bytes, i
<1>4. findCRLF(bytes, 2) = i + 1
  <2> DEFINE end == i + 1
  <2>1. end \in 2 .. Len(bytes) - 1
    BY <1>1, <1>2, <1>3
  <2>2. \A j \in 1 .. Len(text) - 1 : isEnd(bytes, j + 1) <=> breakAt(text, j)
    <3> SUFFICES ASSUME NEW j \in 1 .. Len(text) - 1
                 PROVE  isEnd(bytes, j + 1) <=> breakAt(text, j)
      OBVIOUS
    <3>1. j \in 1 .. Len(text) /\ j + 1 \in 1 .. Len(text)
      BY <1>3
    <3> QED BY <1>1, <3>1 DEF isEnd, breakAt
  <2>3. isEnd(bytes, end)
    BY <1>2, <2>2
  <2>4. ASSUME NEW j \in 2 .. end - 1
        PROVE  ~isEnd(bytes, j)
    <3> DEFINE m == j - 1
    <3>1. m \in 1 .. i - 1 /\ m \in 1 .. Len(text) - 1 /\ j = m + 1
      BY <1>2, <1>3
    <3> HIDE DEF m
    <3> QED BY <1>2, <2>2, <3>1
  <2>5. 2 \in Nat \ {0}
    OBVIOUS
  <2> HIDE DEF end
  <2>6. findCRLF(bytes, 2) = end
    BY <1>1, <2>1, <2>3, <2>4, <2>5, EndIsUnique
  <2> QED BY <2>6 DEF end
<1> DEFINE part == SubSeq(text, 1, i - 1)
<1>5. SubSeq(bytes, 2, i) = part
  <2>1. /\ part \in Seq(Bytes) /\ Len(part) = i - 1
        /\ \A j \in 1 .. i - 1 : part[j] = text[j]
    BY <1>2
  <2> HIDE DEF part
  <2>2. standsAt(part, bytes, 2)
    <3>1. 2 + Len(part) <= Len(bytes) + 1
      BY <1>1, <1>2, <1>3, <2>1
    <3>2. ASSUME NEW j \in 1 .. Len(part)
          PROVE  bytes[2 + j - 1] = part[j]
      <4>1. j \in 1 .. Len(text) /\ j \in 1 .. i - 1 /\ 2 + j - 1 = j + 1
        BY <1>2, <1>3, <2>1
      <4> QED BY <1>1, <2>1, <4>1
    <3> QED BY <3>1, <3>2 DEF standsAt
  <2>3. 2 + Len(part) - 1 = i /\ 2 \in Nat \ {0}
    BY <1>2, <2>1
  <2> QED BY <1>1, <2>1, <2>2, <2>3, PartThatStands
<1> HIDE DEF part
<1>6. parseLine(bytes, 1) = Parsed(oneWord(part), i + 3)
  <2>1. 1 + 1 = 2 /\ i + 1 # 0 /\ (i + 1) - 1 = i /\ (i + 1) + 2 = i + 3
    BY <1>2
  <2> QED BY <1>4, <1>5, <2>1 DEF parseLine
<1>7. bytes # <<>> /\ bytes[1] \in {char("+"), char("-")}
  BY <1>1, <1>3
<1>8. parse(bytes) = message(Parsed(oneWord(part), i + 3))
  BY <1>1, <1>6, <1>7, FirstValue
<1>9. parse(bytes).ok /\ parse(bytes).args[1] = part /\ parse(bytes).consumed = i + 2
  BY <1>2, <1>8 DEF message, Parsed, oneWord
<1>10. isFirstLine(part, text)
  BY <1>2 DEF isFirstLine, part
<1>11. i + 2 < Len(bytes)
  BY <1>1, <1>2, <1>3
<1> QED BY <1>1, <1>7, <1>9, <1>10, <1>11 DEF bytes

LEMMA IntegerReadsBack ==
  ASSUME NEW n \in -(LLMax + 1) .. LLMax
  PROVE  readsBack(formatInteger(n), ":", << <<num(n)>> >>)
<1> DEFINE bytes == formatInteger(n)
           text == <<num(n)>>
<1>0. n \in Int /\ ":" \in Characters
  BY ParserAssumption
<1>1. text \in Seq(Bytes) /\ Len(text) = 1
  BY <1>0, Words
<1>2. bytes = line(":", text)
  BY DEF formatInteger
<1> HIDE DEF bytes, text
<1>3. bytes \in Seq(Bytes) /\ Len(bytes) = 4 /\ bytes[1] = char(":") /\ bytes # <<>>
  <2>1. bytes \in Seq(Bytes) /\ Len(bytes) = Len(text) + 3 /\ bytes[1] = char(":")
    BY <1>0, <1>1, <1>2, LineBytes
  <2>2. Len(bytes) = 4
    BY <1>1, <2>1
  <2>3. bytes # <<>>
    BY <2>2, NotEmpty
  <2> QED BY <2>1, <2>2, <2>3
<1>4. parseInteger(bytes, 1) = Parsed(oneWord(text), 1 + 4)
  <2>1. standsAt(formatInteger(n), bytes, 1) /\ 1 \in Nat \ {0}
    BY <1>3, StandsWhole DEF bytes
  <2> QED BY <1>3, <2>1, ReadInteger DEF text
<1>5. oneWord(text) = <<text>> /\ <<text>> \in Seq(Seq(Bytes))
  BY <1>1, OneWord DEF oneWord
<1>6. parse(bytes) = message(Parsed(<<text>>, 1 + Len(bytes)))
  BY <1>3, <1>4, <1>5, FirstValue
<1>7. readsBack(bytes, ":", <<text>>)
  BY <1>0, <1>3, <1>5, <1>6, WholeMessage
<1> QED BY <1>7 DEF bytes, text

LEMMA BulkStringReadsBack ==
  ASSUME NEW str \in Payloads
  PROVE  readsBack(formatBulkString(str), "$", <<str>>)
<1> DEFINE bytes == formatBulkString(str)
<1>0. str \in Seq(Bytes) /\ Len(str) <= MAX_STRING_LENGTH /\ "$" \in Characters
  BY FormatterAssumption, ParserAssumption
<1>1. bytes \in Seq(Bytes) /\ Len(bytes) = Len(str) + 6
  BY <1>0, BulkBytes
<1>2. /\ bytes[1] = char("$")
      /\ parseBulkString(bytes, 1) = Parsed(oneWord(str), 1 + Len(bytes))
  <2> DEFINE there == bytes
  <2>1. /\ there \in Seq(Bytes) /\ standsAt(formatBulkString(str), there, 1)
        /\ 1 \in Nat \ {0}
    <3> HIDE DEF bytes
    <3>1. standsAt(bytes, bytes, 1)
      BY <1>1, StandsWhole
    <3> QED BY <1>1, <3>1 DEF bytes
  <2> HIDE DEF there
  <2>2. /\ there[1] = char("$")
        /\ parseBulkString(there, 1) = Parsed(oneWord(str), 1 + Len(formatBulkString(str)))
    BY <1>0, <2>1, ReadBulkString
  <2> QED BY <2>2 DEF there
<1>3. bytes # <<>>
  <2> HIDE DEF bytes
  <2> QED BY <1>0, <1>1
<1>4. oneWord(str) = <<str>> /\ <<str>> \in Seq(Seq(Bytes))
  BY <1>0, OneWord DEF oneWord
<1> HIDE DEF bytes
<1>5. parse(bytes) = message(Parsed(<<str>>, 1 + Len(bytes)))
  BY <1>1, <1>2, <1>3, <1>4, FirstValue
<1>6. readsBack(bytes, "$", <<str>>)
  BY <1>0, <1>1, <1>2, <1>3, <1>4, <1>5, WholeMessage
<1> QED BY <1>6 DEF bytes

LEMMA NullReadsBack == readsBack(formatNull, "$", NullWords)
<1> DEFINE text == <<num(-1)>>
<1>1. text \in Seq(Bytes) /\ Len(text) = 1 /\ "$" \in Characters
  BY Words, ParserAssumption
<1>2. formatNull = line("$", text)
  BY DEF formatNull
<1> HIDE DEF text
<1>3. formatNull \in Seq(Bytes) /\ Len(formatNull) = 4 /\ formatNull[1] = char("$")
  <2>1. /\ line("$", text) \in Seq(Bytes) /\ Len(line("$", text)) = Len(text) + 3
        /\ line("$", text)[1] = char("$")
    BY <1>1, LineBytes
  <2> QED BY <1>1, <1>2, <2>1
<1>4. parseBulkString(formatNull, 1) = Parsed(NullWords, 1 + 4)
  BY <1>3, StandsWhole, ReadNull
<1>5. formatNull # <<>>
  <2>1. Len(formatNull) # 0
    BY <1>3
  <2> QED BY <2>1, NotEmpty
<1>6. parse(formatNull) = message(Parsed(NullWords, 1 + Len(formatNull)))
  BY <1>3, <1>4, <1>5, FirstValue
<1> QED BY <1>1, <1>3, <1>5, <1>6, NullIsWord, WholeMessage

LEMMA ArrayReadsBack ==
  ASSUME NEW n \in 0 .. MaxItems, NEW items \in [1 .. n -> Payloads]
  PROVE  readsBack(formatArray(items), "*", items)
<1> DEFINE bytes == formatArray(items)
           elementAt == parseValue(bytes)[1]
<1>1. items \in Seq(Seq(Bytes)) /\ "*" \in Characters
  BY ItemsAreWords, ParserAssumption
<1>2. bytes \in Seq(Bytes)
  <2>1. /\ \A i \in 0 .. n : arrayUpTo(items)[i] \in Seq(Bytes)
        /\ bytes = arrayUpTo(items)[n]
    BY ArrayBytes
  <2> HIDE DEF bytes
  <2>2. n \in 0 .. n
    BY ItemsAreWords
  <2> QED BY <2>1, <2>2
<1>3. standsAt(bytes, bytes, 1) /\ 1 \in Nat \ {0}
  BY <1>2, StandsWhole
<1>4. bytes # <<>>
  <2>1. arrayUpTo(items)[0] = line("*", <<num(n)>>) /\ n \in Nat
    BY ArrayBytes, ItemsAreWords
  <2> SUFFICES ASSUME bytes = <<>> PROVE FALSE
    OBVIOUS
  <2> DEFINE S == {i \in 0 .. n : arrayUpTo(items)[i] # <<>>}
             up == arrayUpTo(items)
  <2>2. 0 \in S
    <3> DEFINE text == <<num(n)>>
    <3>1. text \in Seq(Bytes) /\ Len(text) = 1
      BY <2>1, Words
    <3> HIDE DEF text
    <3>2. Len(line("*", text)) = Len(text) + 3
      BY <1>1, <3>1, LineBytes
    <3>3. line("*", text) # <<>>
      <4>0. Len(text) + 3 # 0
        BY <3>1
      <4>1. Len(line("*", text)) # 0
        BY <3>2, <4>0
      <4> QED BY <4>1, NotEmpty
    <3> QED BY <2>1, <3>3 DEF text
  <2>3. ASSUME NEW i \in 1 .. n, i - 1 \in S
        PROVE  i \in S
    <3> DEFINE bulk == formatBulkString(items[i])
    <3>0. /\ \A k \in 1 .. n : up[k] = up[k - 1] \o formatBulkString(items[k])
          /\ \A k \in 0 .. n : up[k] \in Seq(Bytes)
      BY ArrayBytes
    <3>1. up[i] = up[i - 1] \o bulk /\ items[i] \in Seq(Bytes)
      BY <3>0, ItemsAreWords
    <3>2. bulk \in Seq(Bytes) /\ up[i - 1] \in Seq(Bytes) /\ up[i - 1] # <<>>
      <4>1. i - 1 \in 0 .. n
        BY <2>1
      <4>2. bulk \in Seq(Bytes)
        BY <3>1, BulkBytes
      <4> HIDE DEF up, bulk
      <4> QED BY <2>3, <3>0, <4>1, <4>2 DEF up
    <3> HIDE DEF up, bulk
    <3>3. Len(up[i - 1] \o bulk) = Len(up[i - 1]) + Len(bulk) /\ Len(up[i - 1]) # 0
          /\ Len(up[i - 1]) \in Nat /\ Len(bulk) \in Nat
      BY <3>2, Joined, EmptySeq
    <3>4. up[i] # <<>>
      BY <3>1, <3>3
    <3> QED BY <3>4 DEF up
  <2>4. \A i \in 0 .. n : i \in S
    <3> HIDE DEF S
    <3> QED BY <2>1, <2>2, <2>3, Induction
  <2>5. bytes = up[n]
    BY ArrayBytes
  <2> QED BY <2>1, <2>4, <2>5
<1>5. /\ elementAt \in Values(bytes)
      /\ \A p \in 1 .. Len(bytes) :
           bytes[p] = char("$") => elementAt[p] = parseBulkString(bytes, p)
      /\ bytes[1] = char("*") => parse(bytes) = message(parseArray(bytes, 1, elementAt))
  <2> HIDE DEF bytes
  <2> QED BY <1>2, <1>4, FirstValue
<1>6. /\ bytes[1] = char("*")
      /\ parseArray(bytes, 1, elementAt) = Parsed(items, 1 + Len(bytes))
  <2> DEFINE there == bytes
  <2>1. /\ standsAt(formatArray(items), there, 1) /\ there \in Seq(Bytes)
        /\ elementAt \in Values(there)
        /\ \A p \in 1 .. Len(there) :
             there[p] = char("$") => elementAt[p] = parseBulkString(there, p)
    BY <1>2, <1>3, <1>5
  <2> HIDE DEF there, elementAt
  <2>2. /\ there[1] = char("*")
        /\ parseArray(there, 1, elementAt) = Parsed(items, 1 + Len(formatArray(items)))
    BY <1>3, <2>1, ReadArray
  <2> QED BY <2>2 DEF there
<1> HIDE DEF bytes, elementAt
<1>7. parse(bytes) = message(Parsed(items, 1 + Len(bytes)))
  BY <1>5, <1>6
<1>8. readsBack(bytes, "*", items)
  BY <1>1, <1>2, <1>4, <1>6, <1>7, WholeMessage
<1> QED BY <1>8 DEF bytes

-----------------------------------------------------------------------------
(* One answer after the other                                              *)

LEMMA DropFirst ==
  ASSUME NEW bytes \in Seq(Bytes), NEW n \in Nat
  PROVE  /\ dropFirst(bytes, n) \in Seq(Bytes)
         /\ n <= Len(bytes) => /\ Len(dropFirst(bytes, n)) = Len(bytes) - n
                               /\ \A i \in 1 .. Len(bytes) - n :
                                    dropFirst(bytes, n)[i] = bytes[n + i]
<1> DEFINE rest == SubSeq(bytes, n + 1, Len(bytes))
<1>1. n + 1 \in Int /\ Len(bytes) \in Int /\ \A i \in n + 1 .. Len(bytes) : bytes[i] \in Bytes
  OBVIOUS
<1>2. /\ rest \in Seq(Bytes)
      /\ Len(rest) = IF n + 1 <= Len(bytes) THEN Len(bytes) - (n + 1) + 1 ELSE 0
      /\ \A i \in 1 .. Len(bytes) - (n + 1) + 1 : rest[i] = bytes[(n + 1) + i - 1]
  BY <1>1, SubSeqProperties
<1>3. dropFirst(bytes, n) = rest
  BY DEF dropFirst
<1> HIDE DEF rest
<1>4. ASSUME NEW i \in 1 .. Len(bytes) - n
      PROVE  rest[i] = bytes[n + i]
  <2>1. i \in 1 .. Len(bytes) - (n + 1) + 1 /\ (n + 1) + i - 1 = n + i
    BY <1>1
  <2> QED BY <1>2, <2>1
<1>5. n <= Len(bytes) => Len(rest) = Len(bytes) - n
  BY <1>1, <1>2
<1> QED BY <1>2, <1>3, <1>4, <1>5

LEMMA DropAll ==
  ASSUME NEW bytes \in Seq(Bytes)
  PROVE  dropFirst(bytes, Len(bytes)) = <<>>
BY SubSeqEmpty DEF dropFirst

LEMMA DropFromJoined ==
  ASSUME NEW a \in Seq(Bytes), NEW b \in Seq(Bytes), NEW n \in 0 .. Len(a)
  PROVE  dropFirst(a \o b, n) = dropFirst(a, n) \o b
<1> DEFINE ab == a \o b
           d == dropFirst(a, n)
           l == dropFirst(ab, n)
           r == d \o b
<1>1. /\ ab \in Seq(Bytes) /\ Len(ab) = Len(a) + Len(b)
      /\ Len(a) \in Nat /\ Len(b) \in Nat /\ n \in Nat /\ n <= Len(a)
      /\ \A i \in 1 .. Len(a) + Len(b) : ab[i] = IF i <= Len(a) THEN a[i] ELSE b[i - Len(a)]
  BY Joined
<1>2. /\ d \in Seq(Bytes) /\ Len(d) = Len(a) - n
      /\ \A i \in 1 .. Len(a) - n : d[i] = a[n + i]
  BY <1>1, DropFirst
<1> HIDE DEF ab, d
<1>3. /\ r \in Seq(Bytes) /\ Len(r) = Len(d) + Len(b)
      /\ \A i \in 1 .. Len(d) + Len(b) : r[i] = IF i <= Len(d) THEN d[i] ELSE b[i - Len(d)]
  BY <1>2, Joined
<1> HIDE DEF r
<1>4. /\ l \in Seq(Bytes) /\ Len(l) = Len(ab) - n
      /\ \A i \in 1 .. Len(ab) - n : l[i] = ab[n + i]
  <2>1. n \in Nat /\ n <= Len(ab)
    BY <1>1
  <2> QED BY <1>1, <2>1, DropFirst
<1> HIDE DEF l
<1>5. Len(l) = Len(r)
  BY <1>1, <1>2, <1>3, <1>4
<1>6. ASSUME NEW i \in 1 .. Len(l)
      PROVE  l[i] = r[i]
  <2>1. /\ i \in 1 .. Len(ab) - n /\ n + i \in 1 .. Len(a) + Len(b)
        /\ i \in 1 .. Len(d) + Len(b)
    BY <1>1, <1>2, <1>4
  <2>2. CASE i <= Len(d)
    <3>1. n + i <= Len(a) /\ i \in 1 .. Len(a) - n
      BY <1>1, <1>2, <2>1, <2>2
    <3>2. l[i] = a[n + i] /\ r[i] = a[n + i]
      BY <1>1, <1>2, <1>3, <1>4, <2>1, <2>2, <3>1
    <3> QED BY <3>2
  <2>3. CASE ~(i <= Len(d))
    <3>1. ~(n + i <= Len(a)) /\ n + i - Len(a) = i - Len(d)
      BY <1>1, <1>2, <2>1, <2>3
    <3>2. l[i] = b[n + i - Len(a)] /\ r[i] = b[i - Len(d)]
      BY <1>1, <1>3, <1>4, <2>1, <2>3, <3>1
    <3> QED BY <3>1, <3>2
  <2> QED BY <2>2, <2>3
<1>7. l = r
  BY <1>3, <1>4, <1>5, <1>6, SeqEqual
<1> QED BY <1>7 DEF l, r, ab, d

LEMMA RestsOf ==
  ASSUME NEW bytes \in Seq(Bytes), NEW count \in Nat
  PROVE  LET rest == restsOf(bytes, count)
         IN  /\ rest[0] = bytes
             /\ \A n \in 1 .. count :
                  rest[n] = dropFirst(rest[n - 1], parse(rest[n - 1]).consumed)
             /\ \A n \in 0 .. count : rest[n] \in Seq(Bytes)
<1> DEFINE V == Seq(Bytes)
           next(b) == dropFirst(b, parse(b).consumed)
           step == [n \in 1 .. count |-> [b \in V |-> next(b)]]
           rest == restsOf(bytes, count)
           F(f) == [n \in 0 .. count |-> IF n = 0 THEN bytes ELSE next(f[n - 1])]
<1>1. \A b \in V : next(b) \in V
  <2> SUFFICES ASSUME NEW b \in V PROVE next(b) \in V
    OBVIOUS
  <2>1. parse(b).consumed \in Nat
    BY MessageWithin
  <2> QED BY <2>1, DropFirst
<1> HIDE DEF next
<1>2. bytes \in V /\ step \in [1 .. count -> [V -> V]]
  <2>1. bytes \in V
    OBVIOUS
  <2> HIDE DEF V
  <2> QED BY <1>1, <2>1
<1> HIDE DEF V
<1>3. \E f : f = F(f)
  <2>0. Iterations(count, V, bytes, step) # {}
    <3> HIDE DEF step
    <3> QED BY <1>2, Recursion
  <2>1. PICK f \in [0 .. count -> V] :
          f[0] = bytes /\ \A n \in 1 .. count : f[n] = step[n][f[n - 1]]
    <3> HIDE DEF step
    <3> QED BY <2>0 DEF Iterations
  <2>2. \A n \in 1 .. count : n - 1 \in 0 .. count /\ f[n - 1] \in V
    <3> HIDE DEF step
    <3> QED BY <2>1
  <2>3. \A n \in 1 .. count : f[n] = next(f[n - 1])
    BY <2>1, <2>2
  <2>4. f = F(f)
    <3>1. ASSUME NEW n \in 0 .. count
          PROVE  f[n] = F(f)[n]
      <4>1. F(f)[n] = IF n = 0 THEN bytes ELSE next(f[n - 1])
        <5> HIDE DEF step
        <5> QED OBVIOUS
      <4>2. n = 0 \/ n \in 1 .. count
        OBVIOUS
      <4> HIDE DEF step, F
      <4> QED BY <2>1, <2>3, <4>1, <4>2
    <3>2. f = [n \in 0 .. count |-> f[n]] /\ F(f) = [n \in 0 .. count |-> F(f)[n]]
      <4> HIDE DEF step
      <4> QED BY <2>1
    <3> HIDE DEF F
    <3> QED BY <3>1, <3>2
  <2> QED BY <2>4
<1>4. rest = F(rest)
  <2>1. rest = CHOOSE f : f = F(f)
    BY Zenon DEF restsOf, next
  <2> HIDE DEF rest, F
  <2> QED BY <1>3, <2>1, Zenon
<1>5. rest[0] = bytes /\ \A n \in 1 .. count : rest[n] = next(rest[n - 1])
  <2> HIDE DEF rest
  <2> QED BY <1>4
<1>6. \A n \in 0 .. count : rest[n] \in V
  <2> DEFINE S == {n \in 0 .. count : rest[n] \in V}
  <2> HIDE DEF rest
  <2>1. 0 \in S
    BY <1>2, <1>5
  <2>2. \A n \in 1 .. count : n - 1 \in S => n \in S
    BY <1>1, <1>5
  <2>3. \A n \in 0 .. count : n \in S
    <3> HIDE DEF S
    <3> QED BY <2>1, <2>2, Induction
  <2> QED BY <2>3
<1> QED BY <1>5, <1>6 DEF V, next

LEMMA JoinedExtends ==
  ASSUME NEW a \in Seq(Bytes), NEW b \in Seq(Bytes)
  PROVE  extends(a \o b, a)
<1> DEFINE ab == a \o b
<1>1. /\ Len(ab) = Len(a) + Len(b) /\ Len(a) \in Nat /\ Len(b) \in Nat
      /\ \A i \in 1 .. Len(a) + Len(b) : ab[i] = IF i <= Len(a) THEN a[i] ELSE b[i - Len(a)]
  BY Joined
<1> HIDE DEF ab
<1>2. Len(a) <= Len(ab) /\ \A i \in 1 .. Len(a) : ab[i] = a[i]
  BY <1>1
<1>3. extends(ab, a)
  BY <1>2 DEF extends
<1> QED BY <1>3 DEF ab

(* An answer alone is read back whole, or up to the break in its line.     *)
said(kind, words) == [kind |-> char(kind), words |-> words]

readsAs(bytes, kind, words) ==
  /\ bytes \in Seq(Bytes) /\ bytes # <<>> /\ bytes[1] = char(kind)
  /\ kind \in Characters /\ words \in Seq(Seq(Bytes))
  /\ parse(bytes).ok
  /\ ~broken(said(kind, words)) =>
       parse(bytes).args = words /\ parse(bytes).consumed = Len(bytes)
  /\ broken(said(kind, words)) =>
       /\ isFirstLine(parse(bytes).args[1], words[1])
       /\ parse(bytes).consumed < Len(bytes)

LEMMA WholeReads ==
  ASSUME NEW bytes, NEW kind, NEW words, readsBack(bytes, kind, words),
         kind = "-" => oneLine(words[1])
  PROVE  readsAs(bytes, kind, words)
<1>1. ~broken(said(kind, words))
  BY DEF broken, said, char
<1> QED BY <1>1 DEF readsBack, readsAs

Inv ==
  /\ wire \in Seq(Bytes)
  /\ meant \in Seq([kind : Bytes, words : Seq(Seq(Bytes))])
  /\ AnswersReadBack

(* One more answer: what was read before is read as before, up to the      *)
(* first break, and if there was none, then the answer.                    *)
LEMMA AnswerKeepsInv ==
  ASSUME Inv, NEW bytes, NEW kind, NEW words, readsAs(bytes, kind, words),
         answer(bytes, kind, words)
  PROVE  Inv'
<1> DEFINE Answers == [kind : Bytes, words : Seq(Seq(Bytes))]
           k == Len(meant)
           new == said(kind, words)
           rest == restsOf(wire, k)
           more == restsOf(wire \o bytes, k + 1)
<1>1. /\ wire \in Seq(Bytes) /\ bytes \in Seq(Bytes) /\ bytes # <<>>
      /\ meant \in Seq(Answers) /\ k \in Nat
      /\ wire' = wire \o bytes /\ meant' = Append(meant, new)
  BY DEF Inv, answer, readsAs, said
<1>2. new \in Answers
  <2>1. char(kind) \in Bytes /\ words \in Seq(Seq(Bytes))
    BY DEF readsAs, char, Bytes
  <2> QED BY <2>1 DEF said
<1>3. wire' \in Seq(Bytes)
  BY <1>1, Joined
<1> HIDE DEF new
<1>4. /\ meant' \in Seq(Answers) /\ Len(meant') = k + 1
      /\ \A n \in 1 .. k : meant'[n] = meant[n]
      /\ meant'[k + 1] = new
  <2> HIDE DEF Answers
  <2> QED BY <1>1, <1>2, AppendProperties
<1>5. /\ rest[0] = wire
      /\ \A n \in 1 .. k : rest[n] = dropFirst(rest[n - 1], parse(rest[n - 1]).consumed)
      /\ \A n \in 0 .. k : rest[n] \in Seq(Bytes)
  BY <1>1, RestsOf
<1>6. /\ more[0] = wire \o bytes
      /\ \A n \in 1 .. k + 1 : more[n] = dropFirst(more[n - 1], parse(more[n - 1]).consumed)
      /\ \A n \in 0 .. k + 1 : more[n] \in Seq(Bytes)
  <2>1. k + 1 \in Nat /\ wire \o bytes \in Seq(Bytes)
    BY <1>1, <1>3
  <2> DEFINE all == wire \o bytes
             m == k + 1
  <2> HIDE DEF all, m
  <2>2. LET there == restsOf(all, m)
        IN  /\ there[0] = all
            /\ \A n \in 1 .. m : there[n] = dropFirst(there[n - 1], parse(there[n - 1]).consumed)
            /\ \A n \in 0 .. m : there[n] \in Seq(Bytes)
    BY <2>1, RestsOf DEF all, m
  <2> QED BY <2>2 DEF all, m
<1>7. /\ \A n \in 1 .. k : intactUpTo(n - 1) =>
           /\ parse(rest[n - 1]).ok
           /\ rest[n - 1][1] = meant[n].kind
           /\ ~broken(meant[n]) => parse(rest[n - 1]).args = meant[n].words
           /\ broken(meant[n]) =>
                /\ isFirstLine(parse(rest[n - 1]).args[1], meant[n].words[1])
                /\ rest[n] # <<>>
      /\ intactUpTo(k) => rest[k] = <<>>
  BY DEF Inv, AnswersReadBack
<1> HIDE DEF rest, more, k
<1>8. ASSUME NEW n \in 1 .. k, intactUpTo(n - 1), more[n - 1] = rest[n - 1] \o bytes
      PROVE  /\ parse(more[n - 1]) = parse(rest[n - 1])
             /\ more[n - 1][1] = rest[n - 1][1]
             /\ more[n] = rest[n] \o bytes
  <2> DEFINE r == rest[n - 1]
             c == parse(r).consumed
  <2>1. n - 1 \in 0 .. k /\ n \in 1 .. k + 1
    BY <1>1
  <2>2. r \in Seq(Bytes) /\ parse(r).ok /\ more[n - 1] = r \o bytes
    BY <1>5, <1>7, <1>8, <2>1
  <2>3. rest[n] = dropFirst(r, c) /\ more[n] = dropFirst(r \o bytes, parse(r \o bytes).consumed)
    BY <1>5, <1>6, <1>8, <2>1
  <2> HIDE DEF r
  <2>4. c \in 1 .. Len(r)
    BY <2>2, MessageWithin
  <2>5. r \o bytes \in Seq(Bytes) /\ extends(r \o bytes, r)
    BY <1>1, <2>2, Joined, JoinedExtends
  <2>6. parse(r \o bytes) = parse(r)
    <3> DEFINE longer == r \o bytes
    <3> HIDE DEF longer
    <3>1. parse(longer) = parse(r)
      BY <2>2, <2>5, SameMessage DEF longer
    <3> QED BY <3>1 DEF longer
  <2>7. (r \o bytes)[1] = r[1]
    <3>1. 1 \in 1 .. Len(r)
      BY <2>2, <2>4
    <3> QED BY <2>5, <3>1 DEF extends
  <2>8. dropFirst(r \o bytes, c) = dropFirst(r, c) \o bytes
    <3>1. c \in 0 .. Len(r)
      BY <2>2, <2>4
    <3> HIDE DEF c
    <3> QED BY <1>1, <2>2, <3>1, DropFromJoined
  <2>9. more[n] = rest[n] \o bytes
    BY <2>3, <2>6, <2>8
  <2> QED BY <2>2, <2>6, <2>7, <2>9 DEF r
<1>9. \A n \in 0 .. k : intactUpTo(n - 1) => more[n] = rest[n] \o bytes
  <2> DEFINE S == {n \in 0 .. k : intactUpTo(n - 1) => more[n] = rest[n] \o bytes}
  <2>1. 0 \in S
    <3>1. 0 \in 0 .. k /\ more[0] = rest[0] \o bytes
      BY <1>1, <1>5, <1>6
    <3> QED BY <3>1
  <2>2. ASSUME NEW n \in 1 .. k, n - 1 \in S
        PROVE  n \in S
    <3>1. n \in 0 .. k
      BY <1>1
    <3>2. CASE intactUpTo(n - 1)
      <4>1. intactUpTo((n - 1) - 1)
        BY <1>1, <3>2 DEF intactUpTo
      <4>2. more[n - 1] = rest[n - 1] \o bytes
        BY <2>2, <4>1
      <4>3. more[n] = rest[n] \o bytes
        BY <1>8, <3>2, <4>2, Zenon
      <4> QED BY <3>1, <4>3
    <3> QED BY <3>1, <3>2
  <2>3. \A n \in 0 .. k : n \in S
    <3> HIDE DEF S
    <3> QED BY <1>1, <2>1, <2>2, Induction
  <2> QED BY <2>3
<1>10. intactUpTo(k) => more[k] = bytes
  <2> SUFFICES ASSUME intactUpTo(k) PROVE more[k] = bytes
    OBVIOUS
  <2>1. k \in 0 .. k /\ intactUpTo(k - 1)
    BY <1>1 DEF intactUpTo
  <2>2. more[k] = <<>> \o bytes
    BY <1>7, <1>9, <2>1
  <2> QED BY <1>1, <2>2, ConcatEmptySeq
<1>11. intactUpTo(k) => IF broken(new) THEN more[k + 1] # <<>> ELSE more[k + 1] = <<>>
  <2> SUFFICES ASSUME intactUpTo(k)
               PROVE  IF broken(new) THEN more[k + 1] # <<>> ELSE more[k + 1] = <<>>
    OBVIOUS
  <2> DEFINE m == k + 1
             c == parse(bytes).consumed
  <2>1. m \in 1 .. k + 1 /\ m - 1 = k
    BY <1>1
  <2> HIDE DEF m
  <2>2. more[m] = dropFirst(bytes, c)
    BY <1>6, <1>10, <2>1
  <2>3. CASE ~broken(new)
    <3>1. c = Len(bytes)
      BY <2>3 DEF readsAs, new
    <3> QED BY <1>1, <2>2, <2>3, <3>1, DropAll DEF m
  <2>4. CASE broken(new)
    <3>1. c < Len(bytes) /\ c \in Nat /\ Len(bytes) \in Nat
      BY <1>1, <2>4, MessageWithin DEF readsAs, new
    <3> HIDE DEF c
    <3>2. Len(more[m]) = Len(bytes) - c
      BY <1>1, <2>2, <3>1, DropFirst
    <3>3. Len(more[m]) # 0
      BY <3>1, <3>2
    <3> QED BY <2>4, <3>3, NotEmpty DEF m
  <2> QED BY <2>3, <2>4
<1> DEFINE intactNow(n) == \A i \in 1 .. n : ~broken(meant'[i])
<1>12. /\ \A n \in 0 .. k : intactNow(n) <=> intactUpTo(n)
       /\ intactNow(k + 1) => intactUpTo(k) /\ ~broken(new)
  <2>1. \A i \in 1 .. k : broken(meant'[i]) <=> broken(meant[i])
    BY <1>4
  <2>2. ASSUME NEW n \in 0 .. k
        PROVE  intactNow(n) <=> intactUpTo(n)
    <3>1. \A i \in 1 .. n : i \in 1 .. k
      BY <1>1
    <3> QED BY <2>1, <3>1, Zenon DEF intactUpTo
  <2>3. k + 1 \in 1 .. k + 1 /\ k \in 0 .. k /\ \A i \in 1 .. k : i \in 1 .. k + 1
    BY <1>1
  <2>4. ASSUME intactNow(k + 1)
        PROVE  intactNow(k) /\ ~broken(meant'[k + 1])
    BY <2>3, <2>4, Zenon
  <2> QED BY <1>4, <2>2, <2>3, <2>4
<1> HIDE DEF intactNow
<1>13. ASSUME NEW n \in 1 .. k + 1, intactNow(n - 1)
       PROVE  /\ parse(more[n - 1]).ok
              /\ more[n - 1][1] = meant'[n].kind
              /\ ~broken(meant'[n]) => parse(more[n - 1]).args = meant'[n].words
              /\ broken(meant'[n]) =>
                   /\ isFirstLine(parse(more[n - 1]).args[1], meant'[n].words[1])
                   /\ more[n] # <<>>
  <2>0. n - 1 \in 0 .. k /\ intactUpTo(n - 1)
    BY <1>1, <1>12, <1>13
  <2>1. CASE n \in 1 .. k
    <3>1. intactUpTo((n - 1) - 1)
      BY <1>1, <2>0 DEF intactUpTo
    <3>2. /\ parse(more[n - 1]) = parse(rest[n - 1]) /\ more[n - 1][1] = rest[n - 1][1]
          /\ more[n] = rest[n] \o bytes
      BY <1>8, <1>9, <2>0, <2>1, <3>1
    <3>3. more[n] # <<>>
      <4>1. rest[n] \in Seq(Bytes)
        BY <1>1, <1>5, <2>1
      <4>2. Len(more[n]) = Len(rest[n]) + Len(bytes) /\ Len(rest[n]) \in Nat
            /\ Len(bytes) \in Nat /\ Len(bytes) # 0
        BY <1>1, <3>2, <4>1, Joined, EmptySeq
      <4>3. Len(more[n]) # 0
        BY <4>2
      <4> QED BY <4>3, NotEmpty
    <3> QED BY <1>4, <1>7, <2>0, <2>1, <3>2, <3>3
  <2>2. CASE n = k + 1
    <3>1. n - 1 = k
      BY <1>1, <2>2
    <3>2. meant'[n] = new /\ new.words = words /\ new.kind = char(kind)
      BY <1>4, <2>2 DEF new, said
    <3>3. more[n - 1] = bytes /\ (broken(new) => more[n] # <<>>)
      BY <1>10, <1>11, <2>0, <2>2, <3>1
    <3>4. /\ parse(bytes).ok /\ bytes[1] = char(kind)
          /\ ~broken(new) => parse(bytes).args = words
          /\ broken(new) => isFirstLine(parse(bytes).args[1], words[1])
      BY DEF readsAs, new
    <3> QED BY <3>2, <3>3, <3>4
  <2>3. n \in 1 .. k \/ n = k + 1
    BY <1>1
  <2> QED BY <2>1, <2>2, <2>3
<1>14. AnswersReadBack'
  <2>1. restsOf(wire', Len(meant')) = more
    BY <1>1, <1>4 DEF more
  <2>2. \A n : intactUpTo(n)' <=> intactNow(n)
    BY DEF intactUpTo, intactNow, broken
  <2>3. intactNow(k + 1) => more[k + 1] = <<>>
    BY <1>11, <1>12
  <2> QED BY <1>4, <1>13, <2>1, <2>2, <2>3 DEF AnswersReadBack, broken
<1> QED BY <1>3, <1>4, <1>14 DEF Inv

(* Each answer the formatter gives reads back, alone and after any others, *)
(* until one about an unknown command whose name has a line break in it:   *)
(* for any payloads up to the length the parser allows, any names clients  *)
(* may send, and any number of answers.                                    *)
THEOREM Answers == Spec => []AnswersReadBack
<1>1. Init => Inv
  <2> SUFFICES ASSUME Init PROVE Inv
    OBVIOUS
  <2>1. wire = <<>> /\ meant = <<>> /\ Len(meant) = 0
    BY DEF Init
  <2>2. /\ wire \in Seq(Bytes)
        /\ meant \in Seq([kind : Bytes, words : Seq(Seq(Bytes))])
    BY <2>1
  <2>3. restsOf(wire, 0)[0] = <<>>
    BY <2>1, <2>2, RestsOf
  <2>4. AnswersReadBack
    BY <2>1, <2>3 DEF AnswersReadBack
  <2> QED BY <2>2, <2>4 DEF Inv
<1>2. Inv /\ [Next]_vars => Inv'
  <2> SUFFICES ASSUME Inv, [Next]_vars PROVE Inv'
    OBVIOUS
  <2>1. CASE AnswerLine
    <3>1. PICK text \in Lines : \/ answer(formatError(text), "-", <<text>>)
                                \/ answer(formatSimpleString(text), "+", <<text>>)
      BY <2>1 DEF AnswerLine
    <3>2. text \in Seq(Bytes) /\ oneLine(text)
      BY FormatterAssumption
    <3>3. /\ readsBack(formatError(text), "-", <<text>>)
          /\ readsBack(formatSimpleString(text), "+", <<text>>)
      BY <3>2, LineReadsBack DEF formatError, formatSimpleString
    <3>4. /\ readsAs(formatError(text), "-", <<text>>)
          /\ readsAs(formatSimpleString(text), "+", <<text>>)
      BY <3>2, <3>3, WholeReads
    <3> QED BY <3>1, <3>4, AnswerKeepsInv
  <2>2. CASE AnswerUnknownCommand
    <3>1. PICK name \in CommandNames :
            answer(unknownCommand(name), "-",
                   << <<char("'")>> \o name \o <<char("'")>> >>)
      BY <2>2 DEF AnswerUnknownCommand
    <3> DEFINE text == <<char("'")>> \o name \o <<char("'")>>
    <3>2. text \in Seq(Bytes)
      BY FormatterAssumption, QuotedText
    <3>3. answer(unknownCommand(name), "-", <<text>>) /\ unknownCommand(name) = line("-", text)
      BY <3>1 DEF unknownCommand, formatError
    <3> HIDE DEF text
    <3>4. readsAs(line("-", text), "-", <<text>>)
      <4>1. CASE oneLine(text)
        BY <3>2, <4>1, LineReadsBack, WholeReads
      <4>2. CASE ~oneLine(text)
        <5>1. broken(said("-", <<text>>)) /\ "-" \in Characters
          BY <4>2, ParserAssumption DEF broken, said
        <5>2. <<text>> \in Seq(Seq(Bytes)) /\ <<text>>[1] = text
          BY <3>2, OneWord
        <5> QED BY <3>2, <4>2, <5>1, <5>2, BrokenLineReads DEF readsAs
      <4> QED BY <4>1, <4>2
    <3> QED BY <3>3, <3>4, AnswerKeepsInv
  <2>3. CASE AnswerInteger
    BY <2>3, IntegerReadsBack, WholeReads, AnswerKeepsInv DEF AnswerInteger
  <2>4. CASE AnswerBulkString
    BY <2>4, BulkStringReadsBack, WholeReads, AnswerKeepsInv DEF AnswerBulkString
  <2>5. CASE AnswerNull
    BY <2>5, NullReadsBack, WholeReads, AnswerKeepsInv DEF AnswerNull
  <2>6. CASE AnswerArray
    <3>1. PICK n \in 0 .. MaxItems : \E items \in [1 .. n -> Payloads] :
            answer(formatArray(items), "*", items)
      BY <2>6 DEF AnswerArray
    <3>2. PICK items \in [1 .. n -> Payloads] : answer(formatArray(items), "*", items)
      BY <3>1
    <3> QED BY <3>2, ArrayReadsBack, WholeReads, AnswerKeepsInv
  <2>7. CASE UNCHANGED vars
    BY <2>7 DEF vars, Inv, AnswersReadBack, intactUpTo, broken
  <2> QED BY <2>1, <2>2, <2>3, <2>4, <2>5, <2>6, <2>7 DEF Next
<1>3. Inv => AnswersReadBack
  BY DEF Inv
<1> QED BY <1>1, <1>2, <1>3, PTL DEF Spec
===============================================================================

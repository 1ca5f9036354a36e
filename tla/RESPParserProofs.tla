--------------------------- MODULE RESPParserProofs ---------------------------
(***************************************************************************)
(* Proofs about RESPParser, for any limits and any input: parsing ends     *)
(* within the input, and what follows a message changes nothing of it.     *)
(*                                                                         *)
(* The parser is recursive in the depth of a value and in the number of    *)
(* elements of an array.  That each recursive definition is one is proved  *)
(* of it: the functions it speaks of exist.  The induction is over sets of *)
(* natural numbers, of which each but the empty one has a least member.    *)
(***************************************************************************)
EXTENDS RESPParser, SequenceTheorems, WellFoundedInduction, TLAPS

-----------------------------------------------------------------------------
(* Induction and recursion                                                 *)

LEMMA LeastNatural ==
  ASSUME NEW T, T \subseteq Nat, T # {}
  PROVE  \E m \in T : \A n \in T : m <= n
<1> DEFINE R == OpToRel(<, Nat)
<1>1. IsWellFoundedOn(R, Nat)
  BY NatLessThanWellFounded
<1>2. PICK m \in T : \A n \in T : <<n, m>> \notin R
  <2> HIDE DEF R
  <2> QED BY <1>1, WFMin
<1>3. \A n \in T : ~(n < m)
  BY <1>2, Zenon DEF OpToRel
<1> QED BY <1>3

LEMMA Induction ==
  ASSUME NEW n \in Nat, NEW S, 0 \in S, \A i \in 1 .. n : i - 1 \in S => i \in S
  PROVE  \A i \in 0 .. n : i \in S
<1> DEFINE T == (0 .. n) \ S
<1> SUFFICES ASSUME T # {} PROVE FALSE
  OBVIOUS
<1>1. PICK m \in T : \A i \in T : m <= i
  <2>1. T \subseteq Nat
    OBVIOUS
  <2> HIDE DEF T
  <2> QED BY <2>1, LeastNatural
<1>2. m \in 1 .. n /\ m - 1 \in 0 .. n /\ m - 1 \notin T
  BY <1>1
<1> QED BY <1>1, <1>2

(* The functions whose first value is base, and each other a step from the *)
(* one before                                                              *)
Iterations(n, V, base, step) ==
  {f \in [0 .. n -> V] : f[0] = base /\ \A i \in 1 .. n : f[i] = step[i][f[i - 1]]}

LEMMA Recursion ==
  ASSUME NEW n \in Nat, NEW V, NEW base \in V, NEW step \in [1 .. n -> [V -> V]]
  PROVE  Iterations(n, V, base, step) # {}
<1> DEFINE Upto(k) == \E f \in [0 .. k -> V] :
                        f[0] = base /\ \A i \in 1 .. k : f[i] = step[i][f[i - 1]]
           S == {k \in 0 .. n : Upto(k)}
<1>1. Upto(0)
  <2> DEFINE f == [i \in 0 .. 0 |-> base]
  <2>0. f \in [0 .. 0 -> V]
    OBVIOUS
  <2>1. f[0] = base /\ \A i \in 1 .. 0 : f[i] = step[i][f[i - 1]]
    OBVIOUS
  <2>2. \E h \in [0 .. 0 -> V] : h[0] = base /\ \A i \in 1 .. 0 : h[i] = step[i][h[i - 1]]
    <3> HIDE DEF f
    <3> SUFFICES f \in [0 .. 0 -> V] /\ f[0] = base
                 /\ \A i \in 1 .. 0 : f[i] = step[i][f[i - 1]]
      OBVIOUS
    <3> QED BY <2>0, <2>1
  <2> QED BY <2>2
<1>2. ASSUME NEW k \in 1 .. n, Upto(k - 1)
      PROVE  Upto(k)
  <2>1. PICK f \in [0 .. k - 1 -> V] :
          f[0] = base /\ \A i \in 1 .. k - 1 : f[i] = step[i][f[i - 1]]
    BY <1>2
  <2> DEFINE g == [i \in 0 .. k |-> IF i = k THEN step[k][f[k - 1]] ELSE f[i]]
  <2>2. g \in [0 .. k -> V]
    OBVIOUS
  <2>3. g[0] = base /\ \A i \in 1 .. k : g[i] = step[i][g[i - 1]]
    BY <2>1
  <2>4. \E h \in [0 .. k -> V] : h[0] = base /\ \A i \in 1 .. k : h[i] = step[i][h[i - 1]]
    <3> HIDE DEF g
    <3> WITNESS g \in [0 .. k -> V]
    <3> QED BY <2>3
  <2> QED BY <2>4
<1>3. Upto(n)
  <2> HIDE DEF Upto
  <2>1. 0 \in S
    BY <1>1
  <2>2. \A k \in 1 .. n : k - 1 \in S => k \in S
    BY <1>2
  <2>3. \A k \in 0 .. n : k \in S
    <3> HIDE DEF S
    <3> QED BY <2>1, <2>2, Induction
  <2> QED BY <2>3
<1> QED BY <1>3 DEF Iterations

-----------------------------------------------------------------------------
(* Lines                                                                   *)

isEnd(input, i) == input[i] = CR /\ input[i + 1] = LF

LEMMA FirstEnd ==
  ASSUME NEW input \in Seq(Bytes), NEW start \in Nat \ {0}
  PROVE  \/ /\ findCRLF(input, start) = 0
            /\ \A i \in start .. Len(input) - 1 : ~isEnd(input, i)
         \/ /\ findCRLF(input, start) \in start .. Len(input) - 1
            /\ isEnd(input, findCRLF(input, start))
            /\ \A i \in start .. findCRLF(input, start) - 1 : ~isEnd(input, i)
<1> DEFINE ends == {i \in start .. Len(input) - 1 : input[i] = CR /\ input[i + 1] = LF}
<1>1. CASE ends = {}
  BY <1>1 DEF findCRLF, isEnd
<1>2. CASE ends # {}
  <2>1. ends \subseteq Nat
    OBVIOUS
  <2>2. \E m \in ends : \A i \in ends : m <= i
    <3> HIDE DEF ends
    <3> QED BY <1>2, <2>1, LeastNatural
  <2>3. Min(ends) \in ends /\ \A i \in ends : Min(ends) <= i
    <3> HIDE DEF ends
    <3> QED BY <2>2 DEF Min
  <2>4. findCRLF(input, start) = Min(ends)
    BY <1>2 DEF findCRLF
  <2> DEFINE end == Min(ends)
  <2>5. end \in start .. Len(input) - 1 /\ isEnd(input, end)
    BY <2>3 DEF isEnd
  <2>6. ASSUME NEW i \in start .. end - 1, isEnd(input, i)
        PROVE  FALSE
    <3>1. i \in ends
      <4> HIDE DEF end
      <4> QED BY <2>5, <2>6 DEF isEnd
    <3>2. end <= i
      BY <2>3, <3>1
    <3> HIDE DEF end
    <3> QED BY <2>5, <3>2
  <2>7. findCRLF(input, start) = end
    BY <2>4
  <2> HIDE DEF end
  <2> QED BY <2>5, <2>6, <2>7
<1> QED BY <1>1, <1>2

(* The end of a line does not depend on what comes after it                *)
LEMMA EndIsUnique ==
  ASSUME NEW input \in Seq(Bytes), NEW start \in Nat \ {0},
         NEW end \in start .. Len(input) - 1, isEnd(input, end),
         \A i \in start .. end - 1 : ~isEnd(input, i)
  PROVE  findCRLF(input, start) = end
BY FirstEnd

Results == [ok : BOOLEAN, args : Seq(Seq(Bytes)), next : Nat \ {0}]

(* A value that is found at pos takes some bytes of the input.             *)
within(input, pos, v) ==
  v \in Results /\ (v.ok => v.next \in pos + 1 .. Len(input) + 1)

LEMMA UnparsedWithin ==
  ASSUME NEW input, NEW pos
  PROVE  within(input, pos, Unparsed)
<1>1. Unparsed \in Results
  BY DEF Unparsed, Results
<1> QED BY <1>1 DEF within, Unparsed

LEMMA ParsedWithin ==
  ASSUME NEW input \in Seq(Bytes), NEW pos \in Nat, NEW args \in Seq(Seq(Bytes)),
         NEW next \in pos + 1 .. Len(input) + 1
  PROVE  within(input, pos, Parsed(args, next))
BY DEF within, Parsed, Results

LEMMA OneWord ==
  ASSUME NEW text \in Seq(Bytes)
  PROVE  oneWord(text) \in Seq(Seq(Bytes)) /\ oneWord(text)[1] = text
BY DEF oneWord

LEMMA LineWithin ==
  ASSUME NEW input \in Seq(Bytes), NEW pos \in 1 .. Len(input)
  PROVE  /\ within(input, pos, parseLine(input, pos))
         /\ parseLine(input, pos).ok =>
              LET end == findCRLF(input, pos + 1)
              IN  /\ end \in pos + 1 .. Len(input) - 1 /\ isEnd(input, end)
                  /\ parseLine(input, pos).next = end + 2
                  /\ parseLine(input, pos).args = oneWord(SubSeq(input, pos + 1, end - 1))
                  /\ SubSeq(input, pos + 1, end - 1) \in Seq(Bytes)
<1> DEFINE end == findCRLF(input, pos + 1)
           text == SubSeq(input, pos + 1, end - 1)
<1>1. CASE end = 0
  BY <1>1, UnparsedWithin DEF parseLine, Unparsed
<1>2. CASE end # 0
  <2>1. end \in pos + 1 .. Len(input) - 1 /\ isEnd(input, end)
    BY <1>2, FirstEnd
  <2>2. text \in Seq(Bytes)
    <3>1. \A i \in pos + 1 .. end - 1 : input[i] \in Bytes
      BY <2>1
    <3> QED BY <2>1, <3>1, SubSeqProperties
  <2>3. parseLine(input, pos) = Parsed(oneWord(text), end + 2)
    BY <1>2 DEF parseLine
  <2>4. within(input, pos, Parsed(oneWord(text), end + 2))
    <3> HIDE DEF end, text
    <3> QED BY <2>1, <2>2, OneWord, ParsedWithin
  <2> QED BY <2>1, <2>2, <2>3, <2>4 DEF Parsed
<1> QED BY <1>1, <1>2

LEMMA IntegerWithin ==
  ASSUME NEW input \in Seq(Bytes), NEW pos \in 1 .. Len(input)
  PROVE  within(input, pos, parseInteger(input, pos))
<1> DEFINE line == parseLine(input, pos)
           n == numberIn(line.args[1])
<1>1. CASE line.ok /\ isIntegerUpTo(line.args[1], LLMax)
  <2>1. n \in Int
    BY <1>1, ParserAssumption DEF isIntegerUpTo
  <2>2. <<num(n)>> \in Seq(Bytes)
    <3> HIDE DEF n
    <3>1. num(n) \in Bytes
      BY <2>1 DEF num, Bytes
    <3> QED BY <3>1
  <2>3. line.next \in pos + 1 .. Len(input) + 1
    BY <1>1, LineWithin DEF within
  <2>4. parseInteger(input, pos) = Parsed(oneWord(<<num(n)>>), line.next)
    BY <1>1 DEF parseInteger
  <2>5. oneWord(<<num(n)>>) \in Seq(Seq(Bytes))
    <3> HIDE DEF n
    <3> QED BY <2>2, OneWord
  <2> DEFINE word == oneWord(<<num(n)>>)
  <2> HIDE DEF n, line, word
  <2>6. within(input, pos, Parsed(word, line.next))
    BY <2>3, <2>5, ParsedWithin DEF word
  <2> QED BY <2>4, <2>6 DEF word
<1>2. CASE ~(line.ok /\ isIntegerUpTo(line.args[1], LLMax))
  BY <1>2, UnparsedWithin DEF parseInteger
<1> QED BY <1>1, <1>2

(* The line of a length or a count                                         *)
LEMMA CountWithin ==
  ASSUME NEW input \in Seq(Bytes), NEW pos \in 1 .. Len(input),
         parseCount(input, pos).ok
  PROVE  /\ parseCount(input, pos) = parseLine(input, pos)
         /\ countOf(parseCount(input, pos)) \in Int
         /\ parseCount(input, pos).next \in pos + 1 .. Len(input) + 1
<1>1. /\ parseCount(input, pos) = parseLine(input, pos)
      /\ isIntegerUpTo(parseLine(input, pos).args[1], IntMax)
  BY DEF parseCount, Unparsed
<1>2. countOf(parseCount(input, pos)) \in Int
  BY <1>1, ParserAssumption DEF countOf, isIntegerUpTo
<1> QED BY <1>1, <1>2, LineWithin DEF within

LEMMA NullIsWord == NullWords \in Seq(Seq(Bytes))
<1>1. <<>> \in Seq(Bytes)
  OBVIOUS
<1> QED BY <1>1, OneWord DEF NullWords

LEMMA BulkStringWithin ==
  ASSUME NEW input \in Seq(Bytes), NEW pos \in 1 .. Len(input)
  PROVE  within(input, pos, parseBulkString(input, pos))
<1> DEFINE line == parseCount(input, pos)
           len == countOf(line)
           end == line.next + len
           found == /\ 0 <= len /\ len <= MAX_STRING_LENGTH
                    /\ end + 1 <= Len(input)
                    /\ input[end] = CR /\ input[end + 1] = LF
<1>1. CASE ~line.ok
  BY <1>1, UnparsedWithin DEF parseBulkString
<1>2. CASE line.ok /\ len = -1
  BY <1>2, CountWithin, NullIsWord, ParsedWithin DEF parseBulkString
<1>3. CASE line.ok /\ len # -1 /\ found
  <2>1. line.next \in pos + 1 .. Len(input) + 1 /\ len \in Nat
    BY <1>3, CountWithin
  <2>2. SubSeq(input, line.next, end - 1) \in Seq(Bytes)
    <3>1. end \in Int /\ end - 1 <= Len(input)
      BY <1>3, <2>1
    <3> HIDE DEF line, end
    <3>2. \A i \in line.next .. end - 1 : input[i] \in Bytes
      BY <2>1, <3>1
    <3> QED BY <2>1, <3>1, <3>2, SubSeqProperties
  <2>3. end + 2 \in pos + 1 .. Len(input) + 1
    BY <1>3, <2>1
  <2>4. parseBulkString(input, pos)
          = Parsed(oneWord(SubSeq(input, line.next, end - 1)), end + 2)
    BY <1>3 DEF parseBulkString
  <2> DEFINE text == SubSeq(input, line.next, end - 1)
  <2>5. oneWord(text) \in Seq(Seq(Bytes))
    <3> HIDE DEF text
    <3> QED BY <2>2, OneWord DEF text
  <2> HIDE DEF end, line, text
  <2>6. within(input, pos, Parsed(oneWord(text), end + 2))
    BY <2>3, <2>5, ParsedWithin
  <2> QED BY <2>4, <2>6 DEF text
<1>4. CASE line.ok /\ len # -1 /\ ~found
  BY <1>4, UnparsedWithin DEF parseBulkString
<1> QED BY <1>1, <1>2, <1>3, <1>4

-----------------------------------------------------------------------------
(* Arrays and depth                                                        *)

(* The values that begin at each position of the input                     *)
Values(input) ==
  {v \in [1 .. Len(input) + 1 -> Results] :
     \A pos \in 1 .. Len(input) + 1 : within(input, pos, v[pos])}

(* The elements of an array that begins at start                           *)
Elements(input, start) ==
  {e \in Results : e.ok => e.next \in start .. Len(input) + 1}

LEMMA AddElementWithin ==
  ASSUME NEW input \in Seq(Bytes), NEW start \in 1 .. Len(input) + 1,
         NEW elementAt \in Values(input), NEW e \in Elements(input, start)
  PROVE  addElement(e, elementAt) \in Elements(input, start)
<1> DEFINE next == elementAt[e.next]
<1>1. CASE e.ok /\ next.ok
  <2>1. e.next \in start .. Len(input) + 1 /\ e.next \in 1 .. Len(input) + 1
    BY <1>1 DEF Elements
  <2>2. next \in Results /\ next.next \in start .. Len(input) + 1
    BY <1>1, <2>1 DEF Values, within
  <2>3. e.args \o next.args \in Seq(Seq(Bytes))
    <3>1. e.args \in Seq(Seq(Bytes)) /\ next.args \in Seq(Seq(Bytes))
      BY <2>2 DEF Elements, Results
    <3> HIDE DEF next
    <3> QED BY <3>1, ConcatProperties
  <2>4. addElement(e, elementAt) = Parsed(e.args \o next.args, next.next)
    BY <1>1 DEF addElement
  <2> HIDE DEF next
  <2> QED BY <2>2, <2>3, <2>4 DEF Parsed, Elements, Results
<1>2. CASE ~(e.ok /\ next.ok)
  BY <1>2, UnparsedWithin DEF addElement, Unparsed, within, Elements
<1> QED BY <1>1, <1>2

LEMMA ElementsFrom ==
  ASSUME NEW input \in Seq(Bytes), NEW start \in 1 .. Len(input) + 1, NEW n \in Nat,
         NEW elementAt \in Values(input)
  PROVE  LET elements == elementsFrom(start, n, elementAt)
         IN  /\ elements[0] = Parsed(<<>>, start)
             /\ \A i \in 1 .. n : elements[i] = addElement(elements[i - 1], elementAt)
             /\ \A i \in 0 .. n : elements[i] \in Elements(input, start)
<1> DEFINE V == Elements(input, start)
           base == Parsed(<<>>, start)
           step == [i \in 1 .. n |-> [e \in V |-> addElement(e, elementAt)]]
           elements == elementsFrom(start, n, elementAt)
           F(f) == [i \in 0 .. n |->
                      IF i = 0 THEN base ELSE addElement(f[i - 1], elementAt)]
<1>1. base \in V
  <2>1. <<>> \in Seq(Seq(Bytes))
    OBVIOUS
  <2> QED BY <2>1 DEF Parsed, Elements, Results
<1>2. step \in [1 .. n -> [V -> V]]
  <2> HIDE DEF V
  <2>1. \A e \in V : addElement(e, elementAt) \in V
    BY AddElementWithin DEF V
  <2> QED BY <2>1
<1>3. \E f : f = F(f)
  <2>0. Iterations(n, V, base, step) # {}
    <3> HIDE DEF V, base, step
    <3> QED BY <1>1, <1>2, Recursion
  <2>1. PICK f \in [0 .. n -> V] :
          f[0] = base /\ \A i \in 1 .. n : f[i] = step[i][f[i - 1]]
    <3> HIDE DEF V, base, step
    <3> QED BY <2>0 DEF Iterations
  <2>2. \A i \in 1 .. n : i - 1 \in 0 .. n /\ f[i - 1] \in V
    <3> HIDE DEF V, base, step
    <3> QED BY <2>1
  <2>3. \A i \in 1 .. n : f[i] = addElement(f[i - 1], elementAt)
    <3> HIDE DEF V, base
    <3> QED BY <2>1, <2>2
  <2>4. f = F(f)
    <3> HIDE DEF V, base, step
    <3> QED BY <2>1, <2>3
  <2> QED BY <2>4
<1>4. elements = F(elements)
  <2>1. elements = CHOOSE f : f = F(f)
    BY Zenon DEF elementsFrom
  <2> HIDE DEF elements, F
  <2> QED BY <1>3, <2>1, Zenon
<1>5. /\ elements[0] = base
      /\ \A i \in 1 .. n : elements[i] = addElement(elements[i - 1], elementAt)
  <2> HIDE DEF elements, base
  <2> QED BY <1>4
<1>6. \A i \in 0 .. n : elements[i] \in V
  <2> DEFINE S == {i \in 0 .. n : elements[i] \in V}
  <2> HIDE DEF elements, base, V
  <2>1. 0 \in S
    BY <1>1, <1>5
  <2>2. \A i \in 1 .. n : i - 1 \in S => i \in S
    BY <1>5, AddElementWithin DEF V
  <2>3. \A i \in 0 .. n : i \in S
    <3> HIDE DEF S
    <3> QED BY <2>1, <2>2, Induction
  <2> QED BY <2>3
<1> QED BY <1>5, <1>6

LEMMA ArrayWithin ==
  ASSUME NEW input \in Seq(Bytes), NEW pos \in 1 .. Len(input),
         NEW elementAt \in Values(input)
  PROVE  within(input, pos, parseArray(input, pos, elementAt))
<1> DEFINE line == parseCount(input, pos)
           n == countOf(line)
           elements == elementsFrom(line.next, n, elementAt)
<1>1. CASE ~line.ok
  BY <1>1, UnparsedWithin DEF parseArray
<1>2. CASE line.ok /\ n = -1
  BY <1>2, CountWithin, NullIsWord, ParsedWithin DEF parseArray
<1>3. CASE line.ok /\ n # -1 /\ 0 <= n /\ n <= MAX_ARGS
  <2>1. line.next \in pos + 1 .. Len(input) + 1 /\ n \in Nat
    BY <1>3, CountWithin
  <2>2. parseArray(input, pos, elementAt) = elements[n]
    BY <1>3 DEF parseArray
  <2>3. elements[n] \in Elements(input, line.next)
    <3> HIDE DEF line, n
    <3> QED BY <2>1, ElementsFrom
  <2> HIDE DEF line, n, elements
  <2> QED BY <2>1, <2>2, <2>3 DEF Elements, within
<1>4. CASE line.ok /\ n # -1 /\ ~(0 <= n /\ n <= MAX_ARGS)
  BY <1>4, UnparsedWithin DEF parseArray
<1> QED BY <1>1, <1>2, <1>3, <1>4

LEMMA ByMarkerWithin ==
  ASSUME NEW input \in Seq(Bytes), NEW depth \in 0 .. MAX_DEPTH + 1, NEW elementAt,
         depth <= MAX_DEPTH => elementAt \in Values(input)
  PROVE  parseByMarker(input, depth, elementAt) \in Values(input)
<1> DEFINE v == parseByMarker(input, depth, elementAt)
<1>1. ASSUME NEW pos \in 1 .. Len(input) + 1
      PROVE  within(input, pos, v[pos])
  <2>1. CASE pos > Len(input) \/ depth > MAX_DEPTH
    BY <2>1, UnparsedWithin DEF parseByMarker
  <2>2. CASE pos <= Len(input) /\ depth <= MAX_DEPTH
    <3>1. pos \in 1 .. Len(input) /\ elementAt \in Values(input)
      BY <2>2
    <3>2. v[pos] \in {parseLine(input, pos), parseInteger(input, pos),
                     parseBulkString(input, pos), parseArray(input, pos, elementAt), Unparsed}
      BY <2>2, ParserAssumption DEF parseByMarker
    <3> HIDE DEF v
    <3> QED BY <3>1, <3>2, LineWithin, IntegerWithin, BulkStringWithin, ArrayWithin,
               UnparsedWithin
  <2> QED BY <2>1, <2>2, ParserAssumption
<1>2. v = [pos \in 1 .. Len(input) + 1 |-> v[pos]]
  BY DEF parseByMarker
<1>3. \A pos \in 1 .. Len(input) + 1 : v[pos] \in Results
  BY <1>1 DEF within
<1> HIDE DEF v
<1>4. v \in [1 .. Len(input) + 1 -> Results]
  BY <1>2, <1>3
<1>5. v \in Values(input)
  BY <1>1, <1>4 DEF Values
<1> QED BY <1>5 DEF v

(* The recursion in the depth is a definition, and each of its values is   *)
(* within the input                                                        *)
LEMMA ValuesByDepth ==
  ASSUME NEW input \in Seq(Bytes)
  PROVE  LET value == parseValue(input)
         IN  /\ \A depth \in 0 .. MAX_DEPTH + 1 :
                  value[depth] = parseByMarker(input, depth, value[depth + 1])
             /\ \A depth \in 0 .. MAX_DEPTH + 1 : value[depth] \in Values(input)
<1> DEFINE top == MAX_DEPTH + 1
           V == Values(input)
           base == parseByMarker(input, top, <<>>)
           step == [i \in 1 .. top |-> [v \in V |-> parseByMarker(input, top - i, v)]]
           value == parseValue(input)
           F(f) == [depth \in 0 .. MAX_DEPTH + 1 |-> parseByMarker(input, depth, f[depth + 1])]
<1>0. top \in Nat /\ MAX_DEPTH \in Nat
  BY ParserAssumption
<1>1. \A v : parseByMarker(input, top, v) = base
  BY <1>0 DEF parseByMarker
<1>2. base \in V
  BY <1>0, ByMarkerWithin
<1>3. step \in [1 .. top -> [V -> V]]
  <2>1. \A i \in 1 .. top : \A v \in V : parseByMarker(input, top - i, v) \in V
    BY <1>0, ByMarkerWithin
  <2> HIDE DEF V, top
  <2> QED BY <2>1
<1>4. \E f : f = F(f)
  <2>0. Iterations(top, V, base, step) # {}
    <3> HIDE DEF V, base, step, top
    <3> QED BY <1>0, <1>2, <1>3, Recursion
  <2>1. PICK g \in [0 .. top -> V] : g[0] = base /\ \A i \in 1 .. top : g[i] = step[i][g[i - 1]]
    <3> HIDE DEF V, base, step, top
    <3> QED BY <2>0 DEF Iterations
  <2> DEFINE f == [depth \in 0 .. top |-> g[top - depth]]
  <2>2. ASSUME NEW depth \in 0 .. top
        PROVE  f[depth] = parseByMarker(input, depth, f[depth + 1])
    <3>1. CASE depth = top
      <4>1. f[depth] = base
        <5> HIDE DEF base, V, step
        <5> QED BY <1>0, <2>1, <3>1
      <4> QED BY <1>1, <3>1, <4>1
    <3>2. CASE depth # top
      <4>1. top - depth \in 1 .. top /\ g[top - depth - 1] \in V /\ top - (top - depth) = depth
        <5> HIDE DEF V, base, step
        <5> QED BY <1>0, <2>1, <3>2
      <4>2. g[top - depth] = parseByMarker(input, depth, g[top - depth - 1])
        <5> HIDE DEF V, top
        <5> QED BY <2>1, <4>1
      <4>3. f[depth] = g[top - depth] /\ f[depth + 1] = g[top - depth - 1]
        <5> HIDE DEF V, base, step
        <5> QED BY <1>0, <3>2
      <4> QED BY <4>2, <4>3
    <3> QED BY <3>1, <3>2
  <2>3. f = F(f)
    <3>1. \A depth \in 0 .. top : f[depth] = F(f)[depth]
      <4> HIDE DEF f
      <4> QED BY <2>2
    <3>2. f = [depth \in 0 .. top |-> f[depth]] /\ F(f) = [depth \in 0 .. top |-> F(f)[depth]]
      OBVIOUS
    <3> HIDE DEF f, F
    <3> QED BY <3>1, <3>2
  <2> QED BY <2>3
<1>5. value = F(value)
  <2>1. value = CHOOSE f : f = F(f)
    BY Zenon DEF parseValue
  <2> HIDE DEF value, F
  <2> QED BY <1>4, <2>1, Zenon
<1>6. \A depth \in 0 .. MAX_DEPTH + 1 :
        value[depth] = parseByMarker(input, depth, value[depth + 1])
  <2> HIDE DEF value
  <2> QED BY <1>5
<1>7. \A depth \in 0 .. top : value[depth] \in V
  <2> DEFINE S == {i \in 0 .. top : value[top - i] \in V}
  <2> HIDE DEF value
  <2>1. 0 \in S
    BY <1>0, <1>1, <1>2, <1>6
  <2>2. ASSUME NEW i \in 1 .. top, i - 1 \in S
        PROVE  i \in S
    <3>1. top - i \in 0 .. MAX_DEPTH /\ value[top - i + 1] \in V
      <4>1. top - (i - 1) = top - i + 1
        BY <1>0
      <4> QED BY <1>0, <2>2, <4>1
    <3>2. value[top - i] = parseByMarker(input, top - i, value[top - i + 1])
      BY <1>0, <1>6, <3>1
    <3>3. value[top - i] \in V
      <4> DEFINE d == top - i
      <4>1. d \in 0 .. MAX_DEPTH + 1 /\ value[d + 1] \in V
        BY <1>0, <3>1
      <4> HIDE DEF d
      <4>2. parseByMarker(input, d, value[d + 1]) \in V
        BY <4>1, ByMarkerWithin
      <4> QED BY <3>2, <4>2 DEF d
    <3> QED BY <3>3
  <2>3. \A i \in 0 .. top : i \in S
    <3> HIDE DEF S, top
    <3> QED BY <1>0, <2>1, <2>2, Induction
  <2>4. \A depth \in 0 .. top : top - depth \in 0 .. top /\ top - (top - depth) = depth
    BY <1>0
  <2> HIDE DEF top, V
  <2> QED BY <2>3, <2>4
<1> QED BY <1>6, <1>7

(* A message takes some bytes of the input.                                *)
LEMMA MessageWithin ==
  ASSUME NEW input \in Seq(Bytes)
  PROVE  /\ parse(input).ok \in BOOLEAN
         /\ parse(input).args \in Seq(Seq(Bytes))
         /\ parse(input).consumed \in Nat
         /\ parse(input).ok => parse(input).consumed \in 1 .. Len(input)
<1> DEFINE v == parseValue(input)[0]
<1>1. v \in Values(input)
  BY ValuesByDepth, ParserAssumption
<1>2. within(input, 1, v[1])
  <2> HIDE DEF v
  <2> QED BY <1>1 DEF Values
<1>3. parse(input) = message(v[1])
  BY DEF parse
<1> HIDE DEF v
<1> QED BY <1>2, <1>3 DEF message, within, Results

-----------------------------------------------------------------------------
(* What follows a message                                                  *)

extends(longer, input) ==
  /\ Len(input) <= Len(longer)
  /\ \A i \in 1 .. Len(input) : longer[i] = input[i]

(* What has been found stays as it is.                                     *)
keeps(longerAt, elementAt, input) ==
  \A pos \in 1 .. Len(input) + 1 : elementAt[pos].ok => longerAt[pos] = elementAt[pos]

LEMMA SamePart ==
  ASSUME NEW input \in Seq(Bytes), NEW longer \in Seq(Bytes), extends(longer, input),
         NEW m \in Nat \ {0}, NEW n \in Int, n <= Len(input)
  PROVE  SubSeq(longer, m, n) = SubSeq(input, m, n)
<1>1. \A i \in m .. n : input[i] \in Bytes /\ longer[i] = input[i] /\ longer[i] \in Bytes
  BY DEF extends
<1>2. /\ SubSeq(input, m, n) \in Seq(Bytes)
      /\ Len(SubSeq(input, m, n)) = IF m <= n THEN n - m + 1 ELSE 0
      /\ \A i \in 1 .. n - m + 1 : SubSeq(input, m, n)[i] = input[m + i - 1]
  BY <1>1, SubSeqProperties
<1>3. /\ SubSeq(longer, m, n) \in Seq(Bytes)
      /\ Len(SubSeq(longer, m, n)) = IF m <= n THEN n - m + 1 ELSE 0
      /\ \A i \in 1 .. n - m + 1 : SubSeq(longer, m, n)[i] = longer[m + i - 1]
  BY <1>1, SubSeqProperties
<1> DEFINE here == SubSeq(input, m, n)
           there == SubSeq(longer, m, n)
<1>4. ASSUME NEW i \in 1 .. Len(here)
      PROVE  there[i] = here[i]
  <2>1. i \in 1 .. n - m + 1 /\ m + i - 1 \in m .. n
    BY <1>2
  <2> HIDE DEF here, there
  <2> QED BY <1>1, <1>2, <1>3, <2>1 DEF here, there
<1>5. Len(there) = Len(here) /\ here \in Seq(Bytes) /\ there \in Seq(Bytes)
  BY <1>2, <1>3
<1> HIDE DEF here, there
<1>6. there = here
  BY <1>4, <1>5, SeqEqual
<1> QED BY <1>6 DEF here, there

LEMMA SameLine ==
  ASSUME NEW input \in Seq(Bytes), NEW longer \in Seq(Bytes), extends(longer, input),
         NEW pos \in 1 .. Len(input), parseLine(input, pos).ok
  PROVE  parseLine(longer, pos) = parseLine(input, pos)
<1> DEFINE end == findCRLF(input, pos + 1)
<1>1. end # 0
  BY DEF parseLine, Unparsed
<1>2. /\ end \in pos + 1 .. Len(input) - 1 /\ isEnd(input, end)
      /\ \A i \in pos + 1 .. end - 1 : ~isEnd(input, i)
  BY <1>1, FirstEnd
<1>3. findCRLF(longer, pos + 1) = end
  <2> HIDE DEF end
  <2>1. Len(longer) \in Nat /\ Len(input) <= Len(longer)
    BY DEF extends
  <2>2. \A i \in pos + 1 .. end : isEnd(longer, i) <=> isEnd(input, i)
    <3> SUFFICES ASSUME NEW i \in pos + 1 .. end
                 PROVE  isEnd(longer, i) <=> isEnd(input, i)
      OBVIOUS
    <3>1. i \in 1 .. Len(input) /\ i + 1 \in 1 .. Len(input)
      BY <1>2
    <3>2. longer[i] = input[i] /\ longer[i + 1] = input[i + 1]
      BY <3>1 DEF extends
    <3> QED BY <3>2 DEF isEnd
  <2> QED BY <1>2, <2>1, <2>2, EndIsUnique
<1>4. SubSeq(longer, pos + 1, end - 1) = SubSeq(input, pos + 1, end - 1)
  <2> HIDE DEF end
  <2> QED BY <1>2, SamePart
<1> QED BY <1>3, <1>4 DEF parseLine

LEMMA SameInteger ==
  ASSUME NEW input \in Seq(Bytes), NEW longer \in Seq(Bytes), extends(longer, input),
         NEW pos \in 1 .. Len(input), parseInteger(input, pos).ok
  PROVE  parseInteger(longer, pos) = parseInteger(input, pos)
<1>1. parseLine(input, pos).ok
  BY DEF parseInteger, Unparsed
<1> QED BY <1>1, SameLine DEF parseInteger

LEMMA SameCount ==
  ASSUME NEW input \in Seq(Bytes), NEW longer \in Seq(Bytes), extends(longer, input),
         NEW pos \in 1 .. Len(input), parseCount(input, pos).ok
  PROVE  parseCount(longer, pos) = parseCount(input, pos)
<1>1. parseLine(input, pos).ok
  BY DEF parseCount, Unparsed
<1> QED BY <1>1, SameLine DEF parseCount

LEMMA SameBulkString ==
  ASSUME NEW input \in Seq(Bytes), NEW longer \in Seq(Bytes), extends(longer, input),
         NEW pos \in 1 .. Len(input), parseBulkString(input, pos).ok
  PROVE  parseBulkString(longer, pos) = parseBulkString(input, pos)
<1> DEFINE line == parseCount(input, pos)
           len == countOf(line)
           end == line.next + len
<1>1. line.ok
  BY DEF parseBulkString, Unparsed
<1>2. parseCount(longer, pos) = line
  BY <1>1, SameCount
<1>3. line.next \in pos + 1 .. Len(input) + 1 /\ len \in Int
  BY <1>1, CountWithin
<1>4. CASE len = -1
  BY <1>1, <1>2, <1>4 DEF parseBulkString
<1>5. CASE len # -1
  <2>1. /\ 0 <= len /\ len <= MAX_STRING_LENGTH
        /\ end + 1 <= Len(input)
        /\ input[end] = CR /\ input[end + 1] = LF
    BY <1>1, <1>5 DEF parseBulkString, Unparsed
  <2>2. end + 1 <= Len(longer) /\ longer[end] = CR /\ longer[end + 1] = LF
    <3>1. end \in 1 .. Len(input) /\ end + 1 \in 1 .. Len(input) /\ Len(longer) \in Nat
      BY <1>3, <2>1
    <3> HIDE DEF end
    <3> QED BY <2>1, <3>1 DEF extends
  <2>3. SubSeq(longer, line.next, end - 1) = SubSeq(input, line.next, end - 1)
    <3>1. line.next \in Nat \ {0} /\ end - 1 \in Int /\ end - 1 <= Len(input)
      BY <1>3, <2>1
    <3> HIDE DEF line, end
    <3> QED BY <3>1, SamePart
  <2>4. parseBulkString(input, pos)
          = Parsed(oneWord(SubSeq(input, line.next, end - 1)), end + 2)
    BY <1>1, <1>5, <2>1 DEF parseBulkString
  <2>5. parseBulkString(longer, pos)
          = Parsed(oneWord(SubSeq(longer, line.next, end - 1)), end + 2)
    <3>1. parseCount(longer, pos).ok /\ countOf(parseCount(longer, pos)) = len
      BY <1>1, <1>2
    <3> QED BY <1>2, <1>5, <2>1, <2>2, <3>1 DEF parseBulkString
  <2> QED BY <2>3, <2>4, <2>5
<1> QED BY <1>4, <1>5

LEMMA SameArray ==
  ASSUME NEW input \in Seq(Bytes), NEW longer \in Seq(Bytes), extends(longer, input),
         NEW pos \in 1 .. Len(input),
         NEW elementAt \in Values(input), NEW longerAt \in Values(longer),
         keeps(longerAt, elementAt, input),
         parseArray(input, pos, elementAt).ok
  PROVE  parseArray(longer, pos, longerAt) = parseArray(input, pos, elementAt)
<1> DEFINE line == parseCount(input, pos)
           n == countOf(line)
           start == line.next
           e == elementsFrom(start, n, elementAt)
           l == elementsFrom(start, n, longerAt)
<1>1. line.ok
  BY DEF parseArray, Unparsed
<1>2. parseCount(longer, pos) = line
  BY <1>1, SameCount
<1>3. start \in pos + 1 .. Len(input) + 1 /\ n \in Int
  BY <1>1, CountWithin
<1>4. CASE n = -1
  BY <1>1, <1>2, <1>4 DEF parseArray
<1>5. CASE n # -1
  <2>1. 0 <= n /\ n <= MAX_ARGS
    BY <1>1, <1>5 DEF parseArray, Unparsed
  <2>2. parseArray(input, pos, elementAt) = e[n] /\ parseArray(longer, pos, longerAt) = l[n]
    BY <1>1, <1>2, <1>5, <2>1 DEF parseArray
  <2>3. n \in Nat /\ start \in 1 .. Len(input) + 1 /\ start \in 1 .. Len(longer) + 1
    BY <1>3, <2>1 DEF extends
  <2>4. /\ e[0] = Parsed(<<>>, start)
        /\ \A i \in 1 .. n : e[i] = addElement(e[i - 1], elementAt)
        /\ \A i \in 0 .. n : e[i] \in Elements(input, start)
    <3> HIDE DEF n, start
    <3> QED BY <2>3, ElementsFrom
  <2>5. /\ l[0] = Parsed(<<>>, start)
        /\ \A i \in 1 .. n : l[i] = addElement(l[i - 1], longerAt)
    <3> HIDE DEF n, start
    <3> QED BY <2>3, ElementsFrom
  <2> HIDE DEF line, n, start, e, l
  <2> DEFINE S == {i \in 0 .. n : e[i].ok => l[i] = e[i]}
  <2>6. 0 \in S
    BY <2>3, <2>4, <2>5
  <2>7. ASSUME NEW i \in 1 .. n, i - 1 \in S
        PROVE  i \in S
    <3> SUFFICES ASSUME e[i].ok PROVE l[i] = e[i]
      OBVIOUS
    <3> DEFINE before == e[i - 1]
    <3>1. e[i] = addElement(before, elementAt) /\ l[i] = addElement(l[i - 1], longerAt)
      BY <2>4, <2>5
    <3>2. before.ok /\ elementAt[before.next].ok
      <4> HIDE DEF before
      <4> QED BY <3>1 DEF addElement, Unparsed
    <3>3. l[i - 1] = before
      <4>1. e[i - 1].ok => l[i - 1] = e[i - 1]
        BY <2>7
      <4> QED BY <3>2, <4>1
    <3>4. before.next \in 1 .. Len(input) + 1
      <4>0. i - 1 \in 0 .. n
        BY <2>3
      <4>1. before \in Elements(input, start)
        BY <2>4, <4>0
      <4> HIDE DEF before
      <4> QED BY <2>3, <3>2, <4>1 DEF Elements
    <3>5. longerAt[before.next] = elementAt[before.next]
      <4> HIDE DEF before
      <4> QED BY <3>2, <3>4 DEF keeps
    <3> HIDE DEF before
    <3> QED BY <3>1, <3>3, <3>5 DEF addElement
  <2>8. \A i \in 0 .. n : i \in S
    <3> HIDE DEF S
    <3> QED BY <2>3, <2>6, <2>7, Induction
  <2>9. e[n].ok => l[n] = e[n]
    BY <2>3, <2>8
  <2> QED BY <2>2, <2>9
<1> QED BY <1>4, <1>5

LEMMA SameByMarker ==
  ASSUME NEW input \in Seq(Bytes), NEW longer \in Seq(Bytes), extends(longer, input),
         NEW depth \in 0 .. MAX_DEPTH, NEW elementAt \in Values(input),
         NEW longerAt \in Values(longer), keeps(longerAt, elementAt, input)
  PROVE  keeps(parseByMarker(longer, depth, longerAt),
               parseByMarker(input, depth, elementAt), input)
<1> DEFINE v == parseByMarker(input, depth, elementAt)
           w == parseByMarker(longer, depth, longerAt)
<1> SUFFICES ASSUME NEW pos \in 1 .. Len(input) + 1, v[pos].ok
             PROVE  w[pos] = v[pos]
  BY DEF keeps
<1>1. pos \in 1 .. Len(input)
  BY DEF parseByMarker, Unparsed
<1>2. longer[pos] = input[pos] /\ pos \in 1 .. Len(longer)
  BY <1>1 DEF extends
<1>3. v[pos] = CASE input[pos] \in {char("+"), char("-")} -> parseLine(input, pos)
                 [] input[pos] = char(":") -> parseInteger(input, pos)
                 [] input[pos] = char("$") -> parseBulkString(input, pos)
                 [] input[pos] = char("*") -> parseArray(input, pos, elementAt)
                 [] OTHER -> Unparsed
  BY <1>1, ParserAssumption DEF parseByMarker
<1>4. w[pos] = CASE input[pos] \in {char("+"), char("-")} -> parseLine(longer, pos)
                 [] input[pos] = char(":") -> parseInteger(longer, pos)
                 [] input[pos] = char("$") -> parseBulkString(longer, pos)
                 [] input[pos] = char("*") -> parseArray(longer, pos, longerAt)
                 [] OTHER -> Unparsed
  BY <1>2, ParserAssumption DEF parseByMarker
<1> HIDE DEF v, w
<1>5. CASE input[pos] \in {char("+"), char("-")}
  BY <1>1, <1>3, <1>4, <1>5, SameLine DEF char
<1>6. CASE input[pos] = char(":")
  BY <1>1, <1>3, <1>4, <1>6, SameInteger DEF char
<1>7. CASE input[pos] = char("$")
  BY <1>1, <1>3, <1>4, <1>7, SameBulkString DEF char
<1>8. CASE input[pos] = char("*")
  BY <1>1, <1>3, <1>4, <1>8, SameArray DEF char
<1>9. CASE /\ input[pos] \notin {char("+"), char("-")}
           /\ input[pos] \notin {char(":"), char("$"), char("*")}
  BY <1>3, <1>4, <1>9
<1> QED BY <1>5, <1>6, <1>7, <1>8, <1>9

(* A message stays the same whatever bytes follow.                         *)
LEMMA SameMessage ==
  ASSUME NEW input \in Seq(Bytes), NEW longer \in Seq(Bytes), extends(longer, input),
         parse(input).ok
  PROVE  parse(longer) = parse(input)
<1> DEFINE v == parseValue(input)
           w == parseValue(longer)
           top == MAX_DEPTH + 1
           S == {i \in 0 .. top : keeps(w[top - i], v[top - i], input)}
<1>0. top \in Nat /\ MAX_DEPTH \in Nat /\ top = MAX_DEPTH + 1
  BY ParserAssumption
<1>1. \A d \in 0 .. top : /\ v[d] = parseByMarker(input, d, v[d + 1])
                          /\ w[d] = parseByMarker(longer, d, w[d + 1])
                          /\ v[d] \in Values(input) /\ w[d] \in Values(longer)
  BY ValuesByDepth
<1> HIDE DEF v, w, top
<1>2. 0 \in S
  <2>1. v[top] = parseByMarker(input, top, v[top + 1])
    BY <1>0, <1>1
  <2>2. \A pos \in 1 .. Len(input) + 1 : ~v[top][pos].ok
    BY <1>0, <2>1 DEF parseByMarker, Unparsed
  <2> QED BY <1>0, <2>2 DEF keeps
<1>3. ASSUME NEW i \in 1 .. top, i - 1 \in S
      PROVE  i \in S
  <2> DEFINE d == top - i
  <2>1. d \in 0 .. MAX_DEPTH /\ d \in 0 .. top /\ d + 1 \in 0 .. top /\ top - (i - 1) = d + 1
    BY <1>0
  <2>2. keeps(w[d + 1], v[d + 1], input)
    <3>1. keeps(w[top - (i - 1)], v[top - (i - 1)], input)
      BY <1>3
    <3> QED BY <2>1, <3>1
  <2> HIDE DEF d
  <2>3. keeps(w[d], v[d], input)
    BY <1>1, <2>1, <2>2, SameByMarker
  <2> QED BY <2>3 DEF d
<1>4. \A i \in 0 .. top : i \in S
  <2> HIDE DEF S
  <2> QED BY <1>0, <1>2, <1>3, Induction
<1>5. keeps(w[0], v[0], input)
  <2>1. top \in S /\ top - top = 0
    <3> HIDE DEF S
    <3> QED BY <1>0, <1>4
  <2>2. keeps(w[top - top], v[top - top], input)
    BY <2>1
  <2> QED BY <2>1, <2>2
<1>6. parse(input) = message(v[0][1]) /\ parse(longer) = message(w[0][1])
  BY DEF parse, v, w
<1>7. v[0][1].ok
  BY <1>6 DEF message
<1> QED BY <1>5, <1>6, <1>7 DEF keeps
===============================================================================

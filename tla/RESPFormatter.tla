---------------------------- MODULE RESPFormatter ----------------------------
(***************************************************************************)
(* class RESPFormatter (resp/resp_formatter.cpp): the bytes of an answer,  *)
(* and what a client makes of the answers it gets one after the other.     *)
(* Bytes are those of RESPParser, which also reads the answers: with       *)
(* limits no answer reaches it is the parser of any client.                *)
(***************************************************************************)
EXTENDS RESPParser

CONSTANTS
  Payloads,         \* texts kept in the database
  Lines,            \* the fixed texts of errors and simple strings
  CommandNames,     \* first words of commands the server does not know: any bytes
  MaxItems,         \* bound: so many payloads in an array
  MaxAnswers        \* bound: so many answers are read

breakAt(text, i) == text[i] = CR /\ text[i + 1] = LF

(* No line break in a text that is to be one line                          *)
oneLine(text) == \A i \in 1 .. Len(text) - 1 : ~breakAt(text, i)

ASSUME FormatterAssumption ==
  /\ MaxAnswers \in Nat
  /\ MaxItems \in Nat /\ MaxItems <= MAX_ARGS
  /\ Payloads \subseteq Seq(Bytes)
  /\ \A str \in Payloads : Len(str) <= MAX_STRING_LENGTH
  /\ Lines \cup CommandNames \subseteq Seq(Bytes)
  /\ \A text \in Lines : oneLine(text)
  /\ MAX_DEPTH >= 1
  /\ "'" \in Characters

line(marker, text) == <<char(marker)>> \o text \o <<CR, LF>>

formatError(error)      == line("-", error)
formatSimpleString(str) == line("+", str)
formatInteger(value)    == line(":", <<num(value)>>)

(* Mutant: the end of the string is all that tells where it ends           *)
formatBulkStringAsLine(str) == line("$", str)

formatBulkString(str) == line("$", <<num(Len(str))>>) \o str \o <<CR, LF>>

(* The header of an array and its first n items                            *)
arrayUpTo(items) ==
  LET bytes[n \in 0 .. Len(items)] ==
        IF n = 0
        THEN line("*", <<num(Len(items))>>)
        ELSE bytes[n - 1] \o formatBulkString(items[n])
  IN  bytes

formatArray(items) == arrayUpTo(items)[Len(items)]

formatNull == line("$", <<num(-1)>>)

(* formatError("ERR unknown command '" + args[0] + "'"), whatever bytes    *)
(* the client's word is made of                                            *)
unknownCommand(name) == formatError(<<char("'")>> \o name \o <<char("'")>>)

dropFirst(s, n) == SubSeq(s, n + 1, Len(s))

VARIABLES
  wire,             \* the bytes of the answers sent on a connection
  meant             \* history: for each its kind and its words

vars == <<wire, meant>>

Init == wire = <<>> /\ meant = <<>>

answer(bytes, kind, words) ==
  /\ Len(meant) < MaxAnswers
  /\ wire' = wire \o bytes
  /\ meant' = Append(meant, [kind |-> char(kind), words |-> words])

AnswerLine ==
  \E text \in Lines :
    \/ answer(formatError(text), "-", <<text>>)
    \/ answer(formatSimpleString(text), "+", <<text>>)

AnswerUnknownCommand ==
  \E name \in CommandNames :
    answer(unknownCommand(name), "-", << <<char("'")>> \o name \o <<char("'")>> >>)

AnswerInteger ==
  \E n \in -(LLMax + 1) .. LLMax : answer(formatInteger(n), ":", << <<num(n)>> >>)

AnswerBulkString ==
  \E str \in Payloads : answer(formatBulkString(str), "$", <<str>>)

AnswerNull == answer(formatNull, "$", NullWords)

AnswerArray ==
  \E items \in UNION {[1 .. n -> Payloads] : n \in 0 .. MaxItems} :
    answer(formatArray(items), "*", items)

Next ==
  \/ AnswerLine \/ AnswerUnknownCommand \/ AnswerInteger
  \/ AnswerBulkString \/ AnswerNull \/ AnswerArray

Spec == Init /\ [][Next]_vars

-----------------------------------------------------------------------------
(* What follows the first answer, the first two, and so on                 *)
restsOf(bytes, count) ==
  LET rest[n \in 0 .. count] ==
        IF n = 0 THEN bytes ELSE dropFirst(rest[n - 1], parse(rest[n - 1]).consumed)
  IN  rest

(* An error is one line, and the one about an unknown command has a word   *)
(* of the client's in it, which may hold a line break.                     *)
broken(a) == a.kind = char("-") /\ ~oneLine(a.words[1])

intactUpTo(n) == \A m \in 1 .. n : ~broken(meant[m])

isFirstLine(first, text) ==
  \E i \in 1 .. Len(text) - 1 :
    /\ breakAt(text, i) /\ \A j \in 1 .. i - 1 : ~breakAt(text, j)
    /\ first = SubSeq(text, 1, i - 1)

(* A client reads the answers it was meant to get, each of its kind, with  *)
(* its words, and nothing between them or after the last: payloads that    *)
(* hold line breaks, markers or nothing at all do not make it lose its     *)
(* place (test_resp_formatter.cpp:123, "Test RESP protocol compliance for  *)
(* various types").  Only the name of an unknown command does, if it has a *)
(* line break in it: that answer is still read as an error, but one that   *)
(* ends at the break, and what is left of it stands before the next.       *)
AnswersReadBack ==
  LET rest == restsOf(wire, Len(meant))
  IN  /\ \A n \in 1 .. Len(meant) : intactUpTo(n - 1) =>
           LET found == parse(rest[n - 1])
           IN  /\ found.ok /\ rest[n - 1][1] = meant[n].kind
               /\ ~broken(meant[n]) => found.args = meant[n].words
               /\ broken(meant[n]) => /\ isFirstLine(found.args[1], meant[n].words[1])
                                      /\ rest[n] # <<>>
      /\ intactUpTo(Len(meant)) => rest[Len(meant)] = <<>>
==============================================================================

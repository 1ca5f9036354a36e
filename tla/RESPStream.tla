------------------------------ MODULE RESPStream ------------------------------
(***************************************************************************)
(* What the parser makes of a connection's bytes as they arrive, one more  *)
(* at a time.                                                              *)
(***************************************************************************)
EXTENDS RESPGrammar

CONSTANTS
  Beginnings,       \* what may have arrived when the parser is first asked
  Alphabet          \* the bytes that may follow

ASSUME StreamAssumption ==
  /\ Beginnings \subseteq Seq(Bytes)
  /\ Alphabet \subseteq Bytes

VARIABLE input

(* Digits beside digits are one number: it is among the bytes itself       *)
adjoin(b, c) == b[1] = "num" /\ c[1] = "num"

StreamInit == input \in Beginnings

ByteArrives ==
  \E b \in Alphabet :
    /\ input # <<>> => ~adjoin(Last(input), b)
    /\ input' = Append(input, b)

StreamSpec == StreamInit /\ [][ByteArrives]_input

-----------------------------------------------------------------------------
(* parse finds a message exactly when the input begins with one, however   *)
(* it goes on, takes all its bytes and no other, and makes of it the words *)
(* it stands for.  Lengths and counts at and beyond their limits, nested   *)
(* and null arrays, payloads that hold CRLF, and input cut short anywhere  *)
(* are all among the inputs.                                               *)
ParsesTheGrammar ==
  LET found == parse(input)
      value == meanings(input)[0]
  IN  IF found.ok
      THEN /\ found.consumed \in 1 .. Len(input)
           /\ found.args \in value[<<1, found.consumed>>]
      ELSE \A n \in 1 .. Len(input) : value[<<1, n>>] = {}

(* Once there is a message, the bytes that follow it change nothing: where *)
(* the kernel cuts the stream into reads cannot decide what a message is.  *)
MoreBytesChangeNothing == [][parse(input).ok => parse(input') = parse(input)]_input
===============================================================================

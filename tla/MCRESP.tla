-------------------------------- MODULE MCRESP --------------------------------
(***************************************************************************)
(* The parser against the grammar of RESP, on every input that begins with *)
(* one of a few beginnings and goes on, byte by byte as it might arrive,   *)
(* with any bytes of a small alphabet; and the answers of the formatter,   *)
(* with payloads of every kind of byte that means something to a parser.   *)
(* One behaviour is about an input or about answers, never about both.     *)
(***************************************************************************)
EXTENDS RESPFormatter, RESPStream

CONSTANT MaxGrowth      \* bound: so many bytes follow the beginning

VARIABLE room

MCAlphabet == {char("+"), char(":"), char("*"), char("$"), CR, LF, num(-1), num(1), num(2)}

array(n)  == <<char("*"), num(n), CR, LF>>
bulk(n)   == <<char("$"), num(n), CR, LF>>
simple(t) == <<char("+")>> \o t \o <<CR, LF>>

(* Nothing, a whole message, and beginnings that take more bytes than TLC  *)
(* can try: nested arrays up to and beyond the depth allowed, siblings, a  *)
(* count or a length that does not fit its type or is beyond its limit     *)
MCBeginnings ==
  {<<>>, simple(<<>>), array(1), array(1) \o array(1), array(1) \o array(1) \o array(1),
   array(2) \o array(1), array(2) \o array(1) \o simple(<<>>), array(2) \o simple(<<>>),
   bulk(1), bulk(2), array(2) \o bulk(1), array(2) \o bulk(1) \o <<CR, CR, LF>>,
   array(MAX_ARGS + 1) \o simple(<<>>) \o simple(<<>>),
   bulk(MAX_STRING_LENGTH + 1) \o simple(<<>>),
   <<char(":"), char("+")>>, <<char("$"), LF>>, <<char(":"), num(LLMax + 1)>>,
   <<char("$"), num(IntMax + 1)>>}

MCPayloads == {<<>>, <<char("a")>>, <<CR, LF>>, <<char("$"), num(-1)>>, <<num(1), CR>>}
MCLines    == {<<char("a")>>}

(* Names of unknown commands, also one that goes on in what looks like the *)
(* answer to another command, and one with two line breaks                 *)
MCNames == {<<>>, <<char("a")>>, <<LF>>, <<CR, LF, char("+")>>, <<char("+"), CR, LF, CR, LF>>}

allVars == <<vars, input, room>>

MCInit == Init /\ StreamInit /\ room = MaxGrowth

Grow ==
  /\ meant = <<>> /\ room > 0
  /\ room' = room - 1
  /\ ByteArrives
  /\ UNCHANGED vars

Answer == input = <<>> /\ Next /\ UNCHANGED <<input, room>>

MCSpec == MCInit /\ [][Grow \/ Answer]_allVars
===============================================================================

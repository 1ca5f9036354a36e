--------------------------- MODULE MCCommandHandler ---------------------------
(***************************************************************************)
(* Small instances of CommandHandler for TLC.  long long is cut to the     *)
(* eight integers -4 .. 3 and a second has two clock ticks, so that        *)
(* counters wrap and expiry times overflow within a few commands.          *)
(***************************************************************************)
EXTENDS CommandHandler

CONSTANTS k1, k2

MCKeys    == {k1, k2}
MCTexts   == {"", "a", "b", "EX", "PX", "NX", "XX"}
MCNumbers == -4 .. 5           \* 4 and 5 do not fit the long long of -4 .. 3

(* Texts longer than one letter are all written "b"                        *)
MCConcat(s, t) ==
  IF s = EmptyString THEN t ELSE IF t = EmptyString THEN s ELSE <<"txt", "b">>

MCLength(s) == IF s = EmptyString THEN 0 ELSE 1

num(n) == <<"num", n>>
txt(t) == <<"txt", t>>

EX == txt("EX")
PX == txt("PX")
NX == txt("NX")
XX == txt("XX")

(* Every option, alone and combined: a time that fits, one that overflows  *)
(* the clock (3 s = 6 ticks), one out of range, a word that is no integer  *)
(* or is an option in its place; NX and XX first, between and last; and a  *)
(* word that is no option and takes the next one with it, be it an EX      *)
MCSetWordLists ==
  {<<>>, <<NX>>, <<EX, num(1)>>, <<EX, num(3)>>, <<PX, num(5)>>, <<EX, PX>>,
   <<EX, num(1), PX, num(1)>>, <<PX, num(1), XX, EX, num(1)>>, <<EX, num(1), NX>>,
   <<NX, EX, num(1)>>, <<XX, PX, num(1)>>, <<XX, EX, txt("a")>>,
   <<txt("a"), EX, PX, num(1)>>}

(* The collections instance: two keys and two elements, lists of at most   *)
(* two; SET fails late as well                                             *)
ElementValues        == {num(1), txt("a")}
ElementAmounts       == {num(0), num(1), num(-1), num(2), num(-2), num(5), txt("a")}
ElementKeyLists      == {<<k1>>, <<k2, k1>>}
ElementLists         == {<<num(1)>>, <<num(1), txt("a")>>}
ElementFieldLists    == {<< <<num(1), num(1)>> >>,
                         << <<num(1), txt("a")>>, <<txt("a"), txt("a")>> >>,
                         << <<num(1), num(1)>>, <<num(1), txt("a")>> >>}
ElementKeyValueLists == {<< <<k1, txt("a")>> >>, << <<k2, num(1)>>, <<k1, num(1)>> >>}
ElementSetWordLists == {<<>>, <<XX, PX, num(1)>>, <<EX, num(1), NX>>}

(* The reply is left out of the fingerprint: it never decides what happens *)
(* next, and an action property is checked on every step all the same.     *)
withoutReply == <<database, now, processed>>
===============================================================================

----------------------------- MODULE MCEagerExpiry -----------------------------
(***************************************************************************)
(* CommandHandler implements EagerExpiry, on one key (expiry is a matter   *)
(* of each key alone) with every command.                                  *)
(***************************************************************************)
EXTENDS MCCommandHandler, LazyExpiry

OneKey             == {k1}
OneKeyLists        == {<<k1>>, <<k1, k1>>}
OneKeyPairs        == {<< <<k1, txt("a")>> >>}
EagerElementLists  == {<<num(1)>>, <<num(1), txt("a")>>}
EagerFieldLists    == {<< <<num(1), txt("a")>>, <<txt("a"), txt("a")>> >>}
EagerAmounts       == {num(-2), num(3), num(5), txt("a")}
EagerValues        == {num(1), num(5)}
===============================================================================

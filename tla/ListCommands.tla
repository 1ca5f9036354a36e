----------------------------- MODULE ListCommands -----------------------------
(***************************************************************************)
(* class ListCommands (redis/commands/list_commands.cpp).                  *)
(***************************************************************************)
EXTENDS Commands

(* LPUSH and RPUSH create an empty list when the key is missing, then push *)
(* into the list the second getValue finds; only the result is visible.    *)
listAt(d, key) == IF present(d, key) THEN d[key] ELSE NewValue("list")

(* Mutant: no type check                                                   *)
pushToAnyType(db, key, before, after) ==
  LET d == lookup(db, key, now)
      v == IF isType(d, key, "list") THEN d[key] ELSE NewValue("list")
      l == before \o v.list_value \o after
  IN  Respond(setValue(d, key, [v EXCEPT !.list_value = l]), Integer(Len(l)))

pushTo(db, key, before, after) ==
  LET d == lookup(db, key, now)
      v == listAt(d, key)
      l == before \o v.list_value \o after
  IN  \/ isOtherType(d, key, "list") /\ Respond(d, Error("wrong type"))
      \/ /\ ~isOtherType(d, key, "list")
         /\ Respond(setValue(d, key, [v EXCEPT !.list_value = l]), Integer(Len(l)))

cmdLpush(db, key, items) == pushTo(db, key, Reverse(items), <<>>)

cmdRpush(db, key, items) == pushTo(db, key, <<>>, items)

(* A list that has become empty is deleted, otherwise the rest is kept.    *)
popFrom(db, key, popped, rest) ==
  LET d == lookup(db, key, now)
  IN  \/ /\ isType(d, key, "list") => d[key].list_value = <<>>
         /\ Respond(d, Null)
      \/ /\ isType(d, key, "list") /\ d[key].list_value # <<>>
         /\ Respond(IF rest = <<>>
                    THEN deleteKey(d, key)
                    ELSE setValue(d, key, [d[key] EXCEPT !.list_value = rest]),
                    Bulk(popped))

cmdLpop(db, key) ==
  LET l == lookup(db, key, now)[key].list_value IN popFrom(db, key, Head(l), Tail(l))

cmdRpop(db, key) ==
  LET l == lookup(db, key, now)[key].list_value IN popFrom(db, key, Last(l), Front(l))

cmdLlen(db, key) ==
  LET d == lookup(db, key, now)
  IN  \/ isType(d, key, "list") /\ Respond(d, Integer(Len(d[key].list_value)))
      \/ ~isType(d, key, "list") /\ Respond(d, Integer(0))

-----------------------------------------------------------------------------
(* Indices count from 0; a negative one counts from the end.               *)
fromEnd(i, size) == IF i < 0 THEN i + size ELSE i

clamp(i, size) ==
  LET least == IF i < size - 1 THEN i ELSE size - 1
  IN  IF least > 0 THEN least ELSE 0

(* Both ends of the range are clamped into the list, so a range that lies  *)
(* wholly outside it still yields the element it was clamped to.           *)
(* Mutant: the end of the range is left out                                *)
lrangeExclusive(list, start, end) ==
  LET size == Len(list)
      s    == clamp(fromEnd(start, size), size)
      e    == clamp(fromEnd(end, size), size)
  IN  IF s <= e /\ size > 0 THEN SubSeq(list, s + 1, e) ELSE <<>>

lrange(list, start, end) ==
  LET size == Len(list)
      s    == clamp(fromEnd(start, size), size)
      e    == clamp(fromEnd(end, size), size)
  IN  IF s <= e /\ size > 0 THEN SubSeq(list, s + 1, e + 1) ELSE <<>>

cmdLrange(db, key, start, end) ==
  LET d == lookup(db, key, now)
  IN  \/ /\ ~(isInteger(start) /\ isInteger(end))
         /\ Respond(db, Error("not an integer"))
      \/ /\ isInteger(start) /\ isInteger(end)
         /\ \/ ~isType(d, key, "list") /\ Respond(d, Array(<<>>))
            \/ /\ isType(d, key, "list")
               /\ Respond(d, Array(lrange(d[key].list_value, parseInt(start), parseInt(end))))

inRange(i, size) == 0 <= i /\ i < size

cmdLindex(db, key, index) ==
  LET d == lookup(db, key, now)
      l == d[key].list_value
      i == fromEnd(parseInt(index), Len(l))
  IN  \/ ~isInteger(index) /\ Respond(db, Error("not an integer"))
      \/ /\ isInteger(index)
         /\ \/ ~isType(d, key, "list") /\ Respond(d, Null)
            \/ isType(d, key, "list") /\ ~inRange(i, Len(l)) /\ Respond(d, Null)
            \/ isType(d, key, "list") /\ inRange(i, Len(l)) /\ Respond(d, Bulk(l[i + 1]))

(* Mutant: a fresh value is stored in the place of the old one             *)
cmdLsetFresh(db, key, index, item) ==
  LET d == lookup(db, key, now)
      l == d[key].list_value
      i == fromEnd(parseInt(index), Len(l))
  IN  /\ isInteger(index) /\ isType(d, key, "list") /\ inRange(i, Len(l))
      /\ Respond(setValue(d, key, [NewValue("list") EXCEPT !.list_value = [l EXCEPT ![i + 1] = item]]),
                 Simple("OK"))

cmdLset(db, key, index, item) ==
  LET d == lookup(db, key, now)
      l == d[key].list_value
      i == fromEnd(parseInt(index), Len(l))
  IN  \/ ~isInteger(index) /\ Respond(db, Error("not an integer"))
      \/ /\ isInteger(index)
         /\ \/ ~isType(d, key, "list") /\ Respond(d, Error("no such key"))
            \/ /\ isType(d, key, "list") /\ ~inRange(i, Len(l))
               /\ Respond(d, Error("index out of range"))
            \/ /\ isType(d, key, "list") /\ inRange(i, Len(l))
               /\ Respond(setValue(d, key, [d[key] EXCEPT !.list_value = [l EXCEPT ![i + 1] = item]]),
                          Simple("OK"))
===============================================================================

------------------------------ MODULE SetCommands ------------------------------
(***************************************************************************)
(* class SetCommands (redis/commands/set_commands.cpp).                    *)
(***************************************************************************)
EXTENDS Commands

cmdSadd(db, key, members) ==
  LET d == lookup(db, key, now)
      v == IF present(d, key) THEN d[key] ELSE NewValue("set")
  IN  \/ isOtherType(d, key, "set") /\ Respond(d, Error("wrong type"))
      \/ /\ ~isOtherType(d, key, "set")
         /\ Respond(setValue(d, key, [v EXCEPT !.set_value = @ \cup ToSet(members)]),
                    Integer(Cardinality(ToSet(members) \ v.set_value)))

(* What is left after members have been taken out; an empty set is deleted *)
(* Mutant: the empty set is kept                                           *)
withSetKept(d, key, left) == setValue(d, key, [d[key] EXCEPT !.set_value = left])

withSet(d, key, left) ==
  IF left = {} THEN deleteKey(d, key) ELSE setValue(d, key, [d[key] EXCEPT !.set_value = left])

cmdSrem(db, key, members) ==
  LET d == lookup(db, key, now)
      s == d[key].set_value
  IN  \/ ~isType(d, key, "set") /\ Respond(d, Integer(0))
      \/ /\ isType(d, key, "set")
         /\ Respond(withSet(d, key, s \ ToSet(members)),
                    Integer(Cardinality(s \cap ToSet(members))))

cmdSismember(db, key, member) ==
  LET d == lookup(db, key, now)
  IN  \/ ~isType(d, key, "set") /\ Respond(d, Integer(0))
      \/ isType(d, key, "set") /\ Respond(d, Integer(bool(member \in d[key].set_value)))

cmdScard(db, key) ==
  LET d == lookup(db, key, now)
  IN  \/ ~isType(d, key, "set") /\ Respond(d, Integer(0))
      \/ isType(d, key, "set") /\ Respond(d, Integer(Cardinality(d[key].set_value)))

cmdSmembers(db, key) ==
  LET d == lookup(db, key, now)
  IN  \/ ~isType(d, key, "set") /\ Respond(d, Elements({}))
      \/ isType(d, key, "set") /\ Respond(d, Elements(d[key].set_value))

(* SPOP takes out a member drawn by std::uniform_int_distribution          *)
cmdSpop(db, key) ==
  LET d == lookup(db, key, now)
      s == d[key].set_value
  IN  \/ /\ isType(d, key, "set") => s = {}
         /\ Respond(d, Null)
      \/ /\ isType(d, key, "set")
         /\ \E m \in s : Respond(withSet(d, key, s \ {m}), Bulk(m))
===============================================================================

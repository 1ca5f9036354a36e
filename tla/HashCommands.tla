----------------------------- MODULE HashCommands -----------------------------
(***************************************************************************)
(* class HashCommands (redis/commands/hash_commands.cpp).                  *)
(***************************************************************************)
EXTENDS Commands

(* The hash h once the field-value pairs have been written in order        *)
written(h, pairs) ==
  [f \in DOMAIN h \cup firsts(pairs) |->
     IF f \in firsts(pairs) THEN lastWritten(pairs, f) ELSE h[f]]

cmdHset(db, key, pairs) ==
  LET d == lookup(db, key, now)
      v == IF present(d, key) THEN d[key] ELSE NewValue("hash")
  IN  \/ isOtherType(d, key, "hash") /\ Respond(d, Error("wrong type"))
      \/ /\ ~isOtherType(d, key, "hash")
         /\ Respond(setValue(d, key, [v EXCEPT !.hash_value = written(@, pairs)]),
                    Integer(Cardinality(firsts(pairs) \ DOMAIN v.hash_value)))

cmdHget(db, key, field) ==
  LET d == lookup(db, key, now)
      h == d[key].hash_value
  IN  \/ ~isType(d, key, "hash") /\ Respond(d, Null)
      \/ isType(d, key, "hash") /\ field \notin DOMAIN h /\ Respond(d, Null)
      \/ isType(d, key, "hash") /\ field \in DOMAIN h /\ Respond(d, Bulk(h[field]))

(* A hash that has lost its last field is deleted                          *)
cmdHdel(db, key, fields) ==
  LET d    == lookup(db, key, now)
      h    == d[key].hash_value
      kept == Restrict(h, DOMAIN h \ ToSet(fields))
  IN  \/ ~isType(d, key, "hash") /\ Respond(d, Integer(0))
      \/ /\ isType(d, key, "hash")
         /\ Respond(IF DOMAIN kept = {}
                    THEN deleteKey(d, key)
                    ELSE setValue(d, key, [d[key] EXCEPT !.hash_value = kept]),
                    Integer(Cardinality(DOMAIN h \cap ToSet(fields))))

cmdHexists(db, key, field) ==
  LET d == lookup(db, key, now)
  IN  \/ ~isType(d, key, "hash") /\ Respond(d, Integer(0))
      \/ isType(d, key, "hash") /\ Respond(d, Integer(bool(field \in DOMAIN d[key].hash_value)))

cmdHlen(db, key) ==
  LET d == lookup(db, key, now)
  IN  \/ ~isType(d, key, "hash") /\ Respond(d, Integer(0))
      \/ isType(d, key, "hash") /\ Respond(d, Integer(Cardinality(DOMAIN d[key].hash_value)))

(* HKEYS, HVALS and HGETALL walk the unordered_map: the elements of the    *)
(* reply are kept with the field they come from, their order is not.       *)
listHash(db, key, items) ==
  LET d == lookup(db, key, now)
  IN  \/ ~isType(d, key, "hash") /\ Respond(d, Elements({}))
      \/ isType(d, key, "hash") /\ Respond(d, Elements(items))

pairsOf(h) == {<<f, h[f]>> : f \in DOMAIN h}

cmdHkeys(db, key) == listHash(db, key, DOMAIN lookup(db, key, now)[key].hash_value)

cmdHvals(db, key) == listHash(db, key, pairsOf(lookup(db, key, now)[key].hash_value))

cmdHgetall(db, key) == listHash(db, key, pairsOf(lookup(db, key, now)[key].hash_value))
===============================================================================

----------------------------- MODULE RedisDatabase -----------------------------
(***************************************************************************)
(* class RedisDatabase (redis/database/redis_database.cpp): the map from   *)
(* keys to values.  Every member function runs under db_mutex from its     *)
(* first line to its last; here each is an operator that returns what the  *)
(* call leaves in the map (db) and, under another name, what it returns.   *)
(*                                                                         *)
(* Expiry is lazy: a key whose time has passed stays in the map until a    *)
(* lookup of that key (keyExists, getValue) or a sweep                     *)
(* (cleanupExpiredKeys) erases it.                                         *)
(***************************************************************************)
EXTENDS RedisValue

(* What database.find(key) == database.end() looks like: no entry.         *)
NoValue == [type |-> "none"]

isDatabase(db) ==
  /\ db = [k \in Keys |-> db[k]]
  /\ \A k \in Keys : db[k] = NoValue \/ isRedisValue(db[k])

present(db, k) == db[k].type # "none"

expiredIn(db, k, now) == present(db, k) /\ isExpired(db[k], now)

(* keyExists and getValue both erase the entry they look up if it has      *)
(* expired, and report the key absent; otherwise they leave the map alone. *)
(* db[k] of the result is what getValue returns, NoValue being nullptr.    *)
lookup(db, k, now) ==
  IF expiredIn(db, k, now) THEN [db EXCEPT ![k] = NoValue] ELSE db

setValue(db, k, v) == [db EXCEPT ![k] = v]

(* deleteKey erases the entry whether or not it has expired, and returns   *)
(* whether there was one.                                                  *)
deleteKey(db, k) == [db EXCEPT ![k] = NoValue]

clearDatabase == [k \in Keys |-> NoValue]

getDatabaseSize(db) == Cardinality({k \in Keys : present(db, k)})

cleanupExpiredKeys(db, now) ==
  [k \in Keys |-> IF expiredIn(db, k, now) THEN NoValue ELSE db[k]]

(* The keys KEYS lists: those not expired, whatever the pattern; the       *)
(* pattern is given by the set of keys it matches.                         *)
getMatchingKeys(db, matched, now) ==
  {k \in matched : present(db, k) /\ ~isExpired(db[k], now)}
===============================================================================

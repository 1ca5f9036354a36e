------------------------------- MODULE Commands -------------------------------
(***************************************************************************)
(* What the command handlers of redis/commands/ share: the database they   *)
(* work on, the clock, the reply they return, and the arguments clients    *)
(* pass them.  A handler is an action cmdX(db, ...): db is the map as the  *)
(* handler finds it, each disjunct is one path through the handler down to *)
(* its return, and Respond says what the path leaves in the map and what   *)
(* it replies.  The clock does not move during a handler.                  *)
(***************************************************************************)
EXTENDS RedisDatabase, SequencesExt

CONSTANTS
  Values,           \* strings passed as values, elements, members and fields
  Amounts,          \* strings passed where a number is expected
  KeyLists,         \* argument lists of keys (DEL, EXISTS, MGET)
  ValueLists,       \* argument lists of values (LPUSH, SADD, HDEL, ...)
  FieldLists,       \* argument lists of field-value pairs (HSET)
  KeyValueLists,    \* argument lists of key-value pairs (MSET)
  SetWordLists      \* the words after the value in a SET

ASSUME ArgumentAssumption ==
  /\ Values \subseteq Strings
  /\ Amounts \subseteq Strings
  /\ KeyLists \subseteq Seq(Keys)
  /\ ValueLists \subseteq Seq(Strings)
  /\ FieldLists \subseteq Seq(Strings \X Strings)
  /\ KeyValueLists \subseteq Seq(Keys \X Strings)
  /\ SetWordLists \subseteq Seq(Strings)
  /\ <<>> \notin KeyLists /\ <<>> \notin ValueLists
  /\ <<>> \notin FieldLists /\ <<>> \notin KeyValueLists

VARIABLES
  database,         \* RedisDatabase::database
  now,              \* system_clock::now(), in ticks
  reply             \* what the last command returned

-----------------------------------------------------------------------------
(* RESPFormatter.  A reply keeps its kind and the data in it; the order of *)
(* an unordered container is left out by giving its elements as a set, and *)
(* the numbers in the texts of INFO and TIME are given as numbers.         *)

ReplyKinds ==
  {"simple", "error", "null", "integer", "bulk", "array", "elements", "info", "time"}

Simple(word) == [kind |-> "simple", value |-> word]
Error(why)   == [kind |-> "error", value |-> why]
Null         == [kind |-> "null", value |-> "null"]
Integer(n)   == [kind |-> "integer", value |-> n]
Bulk(s)      == [kind |-> "bulk", value |-> s]
Array(seq)   == [kind |-> "array", value |-> seq]
Elements(S)  == [kind |-> "elements", value |-> S]
InfoText(n)  == [kind |-> "info", value |-> n]
TimePair(s, rest) == [kind |-> "time", value |-> <<s, rest>>]

Respond(db, r) ==
  /\ database' = db
  /\ reply' = r
  /\ UNCHANGED now

-----------------------------------------------------------------------------
(* Tests of the value getValue has returned; none of them holds of         *)
(* NoValue, the nullptr.                                                   *)

isType(db, k, t) == db[k].type = t

isOtherType(db, k, t) == present(db, k) /\ db[k].type # t

(* lookup of several keys, one after the other                             *)
lookupAll(db, K, t) ==
  [k \in Keys |-> IF k \in K /\ expiredIn(db, k, t) THEN NoValue ELSE db[k]]

(* Of a list of pairs written in order, the one that stays                 *)
firsts(pairs) == {pairs[i][1] : i \in DOMAIN pairs}

lastWritten(pairs, x) ==
  LET i == CHOOSE j \in DOMAIN pairs :
             /\ pairs[j][1] = x
             /\ \A l \in DOMAIN pairs : pairs[l][1] = x => l <= j
  IN  pairs[i][2]

bool(b) == IF b THEN 1 ELSE 0
===============================================================================

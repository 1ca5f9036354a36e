---------------------------- MODULE StringCommands ----------------------------
(***************************************************************************)
(* class StringCommands (redis/commands/string_commands.cpp).              *)
(***************************************************************************)
EXTENDS Commands

(* SET key value [EX s | PX ms | NX | XX | word word]... [word]            *)
(* A word is taken for an option in upper and lower case alike.            *)
optionOf(word) ==
  IF word \in {"txt"} \X {"EX", "PX", "NX", "XX"} THEN word[2] ELSE "unknown"

takesOneWord(word) == optionOf(word) \in {"NX", "XX"}

(* Mutant: no i-- after XX                                                 *)
positionsWithoutStepBack(words) ==
  LET visited[i \in DOMAIN words] ==
        \/ i = 1
        \/ i > 1 /\ optionOf(words[i - 1]) = "NX" /\ visited[i - 1]
        \/ i > 2 /\ optionOf(words[i - 2]) # "NX" /\ visited[i - 2]
  IN  {i \in DOMAIN words : visited[i]}

(* Where the loop over the words looks for an option, as long as nothing   *)
(* ends it: two words on from the last one, known or not, or one on from   *)
(* NX and XX, after which it steps back.                                   *)
positions(words) ==
  LET visited[i \in DOMAIN words] ==
        \/ i = 1
        \/ i > 1 /\ takesOneWord(words[i - 1]) /\ visited[i - 1]
        \/ i > 2 /\ ~takesOneWord(words[i - 2]) /\ visited[i - 2]
  IN  {i \in DOMAIN words : visited[i]}

(* A last word looked at there is a syntax error, a final NX or XX too;    *)
(* the others are options.                                                 *)
options(words) == positions(words) \ {Len(words)}

dangling(words) == Len(words) \in positions(words)

(* Options are worked through in order; each may end the command before    *)
(* the next is looked at.  NX and XX look the key up, and a lookup erases  *)
(* an expired key even when the command then fails.                        *)
optionRefuses(db, key, words, i) ==
  \/ optionOf(words[i]) \in {"EX", "PX"} /\ ~isInteger(words[i + 1])
  \/ optionOf(words[i]) = "NX" /\ present(lookup(db, key, now), key)
  \/ optionOf(words[i]) = "XX" /\ ~present(lookup(db, key, now), key)

optionTicks(words, i) ==
  Wrap(parseInt(words[i + 1])
         * (IF optionOf(words[i]) = "EX" THEN TicksPerSecond ELSE TicksPerMillisecond))

(* The map once the options at 1..n have been worked through               *)
afterOptions(db, key, words, n) ==
  IF \E i \in options(words) : i <= n /\ takesOneWord(words[i])
  THEN lookup(db, key, now)
  ELSE db

(* The value SET stores: the last EX or PX decides its expiry              *)
valueToSet(value, words) ==
  LET timed == {i \in options(words) : optionOf(words[i]) \in {"EX", "PX"}}
  IN  IF timed = {}
      THEN StringValue(value)
      ELSE LET last == CHOOSE i \in timed : \A j \in timed : j <= i
           IN  setExpiry(StringValue(value), now, optionTicks(words, last))

(* Mutant: the value is stored before the last word is looked at           *)
cmdSetStoresFirst(db, key, value, words) ==
  /\ \A i \in options(words) : ~optionRefuses(db, key, words, i)
  /\ Respond(setValue(db, key, valueToSet(value, words)),
             IF dangling(words) THEN Error("syntax") ELSE Simple("OK"))

cmdSet(db, key, value, words) ==
  \/ \E n \in options(words) :
       /\ optionRefuses(db, key, words, n)
       /\ \A i \in options(words) : i < n => ~optionRefuses(db, key, words, i)
       /\ Respond(afterOptions(db, key, words, n),
                  IF takesOneWord(words[n]) THEN Null ELSE Error("not an integer"))
  \/ /\ \A i \in options(words) : ~optionRefuses(db, key, words, i)
     /\ LET d == afterOptions(db, key, words, Len(words))
        IN  \/ dangling(words) /\ Respond(d, Error("syntax"))
            \/ ~dangling(words) /\ Respond(setValue(d, key, valueToSet(value, words)), Simple("OK"))

(* Mutant: the entry is read without the expiry check                      *)
cmdGetStale(db, key) ==
  \/ isType(db, key, "string") /\ Respond(db, Bulk(db[key].string_value))
  \/ ~isType(db, key, "string") /\ Respond(db, Null)

cmdGet(db, key) ==
  LET d == lookup(db, key, now)
  IN  \/ isType(d, key, "string") /\ Respond(d, Bulk(d[key].string_value))
      \/ ~isType(d, key, "string") /\ Respond(d, Null)

(* DEL does not look the keys up: it counts, and erases, entries that have *)
(* expired as well.                                                        *)
cmdDel(db, keys) ==
  Respond([k \in Keys |-> IF k \in ToSet(keys) THEN NoValue ELSE db[k]],
          Integer(Cardinality({k \in ToSet(keys) : present(db, k)})))

(* A key named twice counts twice                                          *)
cmdExists(db, keys) ==
  LET d == lookupAll(db, ToSet(keys), now)
  IN  Respond(d, Integer(Cardinality({i \in DOMAIN keys : present(d, keys[i])})))

cmdType(db, key) ==
  LET d == lookup(db, key, now)
  IN  Respond(d, Simple(d[key].type))

-----------------------------------------------------------------------------
(* INCR, DECR, INCRBY and DECRBY: read, add with wrap-around, and store a  *)
(* fresh value, which has no expiry whatever the old one had.              *)
storeNumber(d, key, n) ==
  Respond(setValue(d, key, StringValue(toString(n))), Integer(n))

addTo(db, key, delta) ==
  LET d == lookup(db, key, now)
  IN  \/ ~present(d, key) /\ storeNumber(d, key, Wrap(delta))
      \/ isOtherType(d, key, "string") /\ Respond(d, Error("wrong type"))
      \/ /\ isType(d, key, "string")
         /\ \/ /\ ~isInteger(d[key].string_value)
               /\ Respond(d, Error("not an integer"))
            \/ /\ isInteger(d[key].string_value)
               /\ storeNumber(d, key, Wrap(parseInt(d[key].string_value) + delta))

cmdIncr(db, key) == addTo(db, key, 1)

cmdDecr(db, key) == addTo(db, key, -1)

cmdIncrBy(db, key, amount) ==
  \/ ~isInteger(amount) /\ Respond(db, Error("not an integer"))
  \/ isInteger(amount) /\ addTo(db, key, parseInt(amount))

cmdDecrBy(db, key, amount) ==
  \/ ~isInteger(amount) /\ Respond(db, Error("not an integer"))
  \/ isInteger(amount) /\ addTo(db, key, -parseInt(amount))

-----------------------------------------------------------------------------

cmdStrlen(db, key) ==
  LET d == lookup(db, key, now)
  IN  \/ isType(d, key, "string") /\ Respond(d, Integer(Length(d[key].string_value)))
      \/ ~isType(d, key, "string") /\ Respond(d, Integer(0))

(* APPEND to a key of another type replaces the value, and like INCR it    *)
(* stores a fresh one.                                                     *)
storeText(d, key, s) ==
  Respond(setValue(d, key, StringValue(s)), Integer(Length(s)))

cmdAppend(db, key, suffix) ==
  LET d == lookup(db, key, now)
  IN  \/ isType(d, key, "string") /\ storeText(d, key, Concat(d[key].string_value, suffix))
      \/ ~isType(d, key, "string") /\ storeText(d, key, suffix)

(* A key that holds no string is answered with the empty string            *)
cmdMget(db, keys) ==
  LET d == lookupAll(db, ToSet(keys), now)
  IN  Respond(d, Array([i \in DOMAIN keys |->
                         IF isType(d, keys[i], "string")
                         THEN d[keys[i]].string_value
                         ELSE EmptyString]))

cmdMset(db, pairs) ==
  Respond([k \in Keys |-> IF k \in firsts(pairs)
                          THEN StringValue(lastWritten(pairs, k))
                          ELSE db[k]],
          Simple("OK"))
===============================================================================

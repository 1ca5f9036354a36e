--------------------------- MODULE EagerExpiryProofs ---------------------------
(***************************************************************************)
(* CommandHandler implements EagerExpiry, for every set of keys and        *)
(* strings, every clock and every argument list.                           *)
(*                                                                         *)
(* The map of EagerExpiry is the view: what a sweep would leave of the     *)
(* database.  A handler that looks a key up finds there what the view      *)
(* holds, so it takes the same path in both; and each of the ways a path   *)
(* ends (reply, delete, store) does to the view what it does to the map,   *)
(* unless the value stored is already too late.                            *)
(***************************************************************************)
EXTENDS LazyExpiry, CommandHandlerProofs

(* The view                                                                *)
seen(db) == cleanupExpiredKeys(db, now)

-----------------------------------------------------------------------------
(* The operators of EagerExpiry that do not speak of the variables are     *)
(* ours                                                                    *)

LEMMA SameReplies ==
  /\ \A x : /\ Eager!Simple(x) = Simple(x)
            /\ Eager!Error(x) = Error(x)
            /\ Eager!Integer(x) = Integer(x)
            /\ Eager!Bulk(x) = Bulk(x)
            /\ Eager!Array(x) = Array(x)
            /\ Eager!Elements(x) = Elements(x)
            /\ Eager!InfoText(x) = InfoText(x)
            /\ Eager!bool(x) = bool(x)
  /\ \A x, y : Eager!TimePair(x, y) = TimePair(x, y)
  /\ Eager!Null = Null
  BY DEF Simple, Error, Integer, Bulk, Array, Elements, InfoText, TimePair, Null, bool,
         Eager!Simple, Eager!Error, Eager!Integer, Eager!Bulk, Eager!Array, Eager!Elements,
         Eager!InfoText, Eager!TimePair, Eager!Null, Eager!bool

(* So are those of the library they use                                    *)
LEMMA SameLibrary ==
  /\ \A S : Eager!Cardinality(S) = Cardinality(S)
  /\ \A s : Eager!ToSet(s) = ToSet(s)
  /\ \A s : Eager!Reverse(s) = Reverse(s)
  /\ \A s : Eager!Last(s) = Last(s)
  /\ \A s : Eager!Front(s) = Front(s)
  /\ \A f, S : Eager!Restrict(f, S) = Restrict(f, S)
<1>1. \A S : Eager!Cardinality(S) = Cardinality(S)
  BY DEF Cardinality, Eager!Cardinality
<1>2. \A s : Eager!ToSet(s) = ToSet(s)
  BY DEF ToSet, Eager!ToSet
<1>3. \A s : Eager!Reverse(s) = Reverse(s)
  BY DEF Reverse, Eager!Reverse
<1>4. \A s : Eager!Last(s) = Last(s) /\ Eager!Front(s) = Front(s)
  BY DEF Last, Front, Eager!Last, Eager!Front
<1>5. \A f, S : Eager!Restrict(f, S) = Restrict(f, S)
  BY DEF Restrict, Eager!Restrict
<1> QED BY <1>1, <1>2, <1>3, <1>4, <1>5

LEMMA SameStrings ==
  /\ Eager!EmptyString = EmptyString
  /\ \A s : Eager!isInteger(s) = isInteger(s)
  /\ \A s : Eager!parseInt(s) = parseInt(s)
  /\ \A n : Eager!toString(n) = toString(n)
  /\ \A n : Eager!Wrap(n) = Wrap(n)
  BY DEF EmptyString, isInteger, parseInt, toString, Wrap, LongLong,
         Eager!EmptyString, Eager!isInteger, Eager!parseInt, Eager!toString, Eager!Wrap,
         Eager!LongLong

(* SET takes its words for the same options                                *)
LEMMA SameOptions ==
  /\ \A w : Eager!optionOf(w) = optionOf(w)
  /\ \A w : Eager!takesOneWord(w) <=> takesOneWord(w)
  /\ \A words : Eager!options(words) = options(words)
  /\ \A words : Eager!dangling(words) <=> dangling(words)
<1>1. \A w : Eager!optionOf(w) = optionOf(w)
  BY DEF optionOf, Eager!optionOf
<1>2. \A w : Eager!takesOneWord(w) <=> takesOneWord(w)
  BY <1>1 DEF takesOneWord, Eager!takesOneWord
<1>3. \A words : Eager!positions(words) = positions(words)
  BY DEF positions, takesOneWord, optionOf, Eager!positions, Eager!takesOneWord, Eager!optionOf
<1>4. \A words : Eager!options(words) = options(words)
  BY <1>3 DEF options, Eager!options
<1>5. \A words : Eager!dangling(words) <=> dangling(words)
  BY <1>3 DEF dangling, Eager!dangling
<1> QED BY <1>1, <1>2, <1>4, <1>5

LEMMA SameValues ==
  /\ \A t : Eager!NewValue(t) = NewValue(t)
  /\ \A s : Eager!StringValue(s) = StringValue(s)
  /\ \A v, t : Eager!isExpired(v, t) = isExpired(v, t)
  /\ \A v, t, d : Eager!setExpiry(v, t, d) = setExpiry(v, t, d)
  /\ \A v : Eager!clearExpiry(v) = clearExpiry(v)
  /\ \A s : Eager!secondsToTicks(s) = secondsToTicks(s)
  /\ \A words, i : Eager!optionTicks(words, i) = optionTicks(words, i)
  BY SameStrings, SameOptions
  DEF NewValue, StringValue, isExpired, setExpiry, clearExpiry, secondsToTicks, optionTicks, NoHash,
      Eager!NewValue, Eager!StringValue, Eager!isExpired, Eager!setExpiry, Eager!clearExpiry,
      Eager!secondsToTicks, Eager!optionTicks, Eager!NoHash

LEMMA SameValueToSet == \A s, words : Eager!valueToSet(s, words) = valueToSet(s, words)
<1> TAKE s, words
<1> DEFINE timed == {i \in options(words) : optionOf(words[i]) \in {"EX", "PX"}}
           last(T) == CHOOSE i \in T : \A j \in T : j <= i
           eager == {i \in Eager!options(words) : Eager!optionOf(words[i]) \in {"EX", "PX"}}
<1>1. eager = timed
  BY SameOptions
<1>2. valueToSet(s, words) =
        IF timed = {} THEN StringValue(s)
        ELSE setExpiry(StringValue(s), now, optionTicks(words, last(timed)))
  BY DEF valueToSet
<1>3. Eager!valueToSet(s, words) =
        IF eager = {} THEN Eager!StringValue(s)
        ELSE Eager!setExpiry(Eager!StringValue(s), now, Eager!optionTicks(words, last(eager)))
  BY DEF Eager!valueToSet
<1> HIDE DEF timed, eager, last
<1> QED BY <1>1, <1>2, <1>3, SameValues

LEMMA SameTests ==
  /\ Eager!NoValue = NoValue
  /\ \A db, k : Eager!present(db, k) = present(db, k)
  /\ \A db, k, t : Eager!isType(db, k, t) = isType(db, k, t)
  /\ \A db, k, t : Eager!isOtherType(db, k, t) = isOtherType(db, k, t)
  /\ \A db, k : Eager!listAt(db, k) = listAt(db, k)
  BY SameValues
  DEF NoValue, present, isType, isOtherType, listAt, Eager!NoValue, Eager!present, Eager!isType,
      Eager!isOtherType, Eager!listAt

LEMMA SameDatabase ==
  /\ \A db, k, t : Eager!lookup(db, k, t) = lookup(db, k, t)
  /\ \A db, K, t : Eager!lookupAll(db, K, t) = lookupAll(db, K, t)
  /\ \A db, t : Eager!cleanupExpiredKeys(db, t) = cleanupExpiredKeys(db, t)
  /\ \A db, k, v : Eager!setValue(db, k, v) = setValue(db, k, v)
  /\ \A db, k : Eager!deleteKey(db, k) = deleteKey(db, k)
  /\ Eager!clearDatabase = clearDatabase
  /\ \A db : Eager!getDatabaseSize(db) = getDatabaseSize(db)
  /\ \A db, K, t : Eager!getMatchingKeys(db, K, t) = getMatchingKeys(db, K, t)
<1>1. \A db, k, t : Eager!expiredIn(db, k, t) = expiredIn(db, k, t)
  BY DEF expiredIn, isExpired, present, Eager!expiredIn, Eager!isExpired, Eager!present
<1>2. /\ \A db, k, t : Eager!lookup(db, k, t) = lookup(db, k, t)
      /\ \A db, k, v : Eager!setValue(db, k, v) = setValue(db, k, v)
      /\ \A db, k : Eager!deleteKey(db, k) = deleteKey(db, k)
      /\ Eager!clearDatabase = clearDatabase
  BY <1>1
  DEF lookup, setValue, deleteKey, clearDatabase, NoValue, Eager!lookup, Eager!setValue,
      Eager!deleteKey, Eager!clearDatabase, Eager!NoValue
<1>3. /\ \A db, K, t : Eager!lookupAll(db, K, t) = lookupAll(db, K, t)
      /\ \A db, t : Eager!cleanupExpiredKeys(db, t) = cleanupExpiredKeys(db, t)
  BY <1>1
  DEF lookupAll, cleanupExpiredKeys, NoValue, Eager!lookupAll, Eager!cleanupExpiredKeys,
      Eager!NoValue
<1>4. \A db : Eager!getDatabaseSize(db) = getDatabaseSize(db)
  BY SameLibrary DEF getDatabaseSize, present, Eager!getDatabaseSize, Eager!present
<1>5. \A db, K, t : Eager!getMatchingKeys(db, K, t) = getMatchingKeys(db, K, t)
  BY DEF getMatchingKeys, isExpired, present, Eager!getMatchingKeys, Eager!isExpired,
         Eager!present
<1> QED BY <1>2, <1>3, <1>4, <1>5

LEMMA SameLists ==
  /\ \A i, n : Eager!fromEnd(i, n) = fromEnd(i, n)
  /\ \A i, n : Eager!inRange(i, n) = inRange(i, n)
  /\ \A l, a, b : Eager!lrange(l, a, b) = lrange(l, a, b)
<1>1. \A i, n : Eager!fromEnd(i, n) = fromEnd(i, n) /\ Eager!inRange(i, n) = inRange(i, n)
  BY DEF fromEnd, inRange, Eager!fromEnd, Eager!inRange
<1>2. \A i, n : Eager!clamp(i, n) = clamp(i, n)
  BY DEF clamp, Eager!clamp
<1>3. \A l, a, b : Eager!lrange(l, a, b) = lrange(l, a, b)
  BY <1>1, <1>2 DEF lrange, Eager!lrange
<1> QED BY <1>1, <1>3

LEMMA SameHashes ==
  /\ \A pairs : Eager!firsts(pairs) = firsts(pairs)
  /\ \A pairs, x : Eager!lastWritten(pairs, x) = lastWritten(pairs, x)
  /\ \A h, pairs : Eager!written(h, pairs) = written(h, pairs)
  /\ \A h : Eager!pairsOf(h) = pairsOf(h)
<1>1. \A pairs : Eager!firsts(pairs) = firsts(pairs)
  BY DEF firsts, Eager!firsts
<1>2. \A pairs, x : Eager!lastWritten(pairs, x) = lastWritten(pairs, x)
  BY DEF lastWritten, Eager!lastWritten
<1>3. \A h, pairs : Eager!written(h, pairs) = written(h, pairs)
  BY <1>1, <1>2 DEF written, Eager!written
<1>4. \A h : Eager!pairsOf(h) = pairsOf(h)
  BY DEF pairsOf, Eager!pairsOf
<1> QED BY <1>1, <1>2, <1>3, <1>4

-----------------------------------------------------------------------------
(* The view and the ways a path through a handler ends                     *)

LEMMA SameRespond ==
  ASSUME NEW d, NEW r, Respond(d, r)
  PROVE  Eager!Respond(seen(d), r)
  BY DEF Respond, seen, Eager!Respond

(* Nothing in the view has expired, so a lookup there finds what is there, *)
(* and it is what a lookup in the map finds                                *)
LEMMA LookupSeen ==
  ASSUME NEW db, Good(db), NEW key \in Keys
  PROVE  /\ Eager!lookup(seen(db), key, now) = seen(db)
         /\ seen(lookup(db, key, now)) = seen(db)
         /\ lookup(db, key, now)[key] = seen(db)[key]
<1>1. lookup(seen(db), key, now) = seen(db)
  BY DEF seen, Good, isDatabase, lookup, cleanupExpiredKeys, expiredIn, present, NoValue
<1> QED BY <1>1, SeenAfterLookup, SameDatabase DEF seen

LEMMA LookupAllSeen ==
  ASSUME NEW db, Good(db), NEW K
  PROVE  /\ Eager!lookupAll(seen(db), K, now) = seen(db)
         /\ seen(lookupAll(db, K, now)) = seen(db)
         /\ \A k \in K \cap Keys : lookupAll(db, K, now)[k] = seen(db)[k]
<1>1. lookupAll(seen(db), K, now) = seen(db)
  BY DEF seen, Good, isDatabase, lookupAll, cleanupExpiredKeys, expiredIn, present, NoValue
<1>2. \A k \in K \cap Keys : lookupAll(db, K, now)[k] = seen(db)[k]
  BY DEF seen, lookupAll, cleanupExpiredKeys
<1> QED BY <1>1, <1>2, SeenAfterLookupAll, SameDatabase DEF seen

LEMMA SeenSeen == ASSUME NEW db, Good(db) PROVE seen(seen(db)) = seen(db)
  BY SeenAfterCleanup DEF seen

LEMMA SeenStore ==
  ASSUME NEW db, Good(db), NEW key \in Keys, NEW v, v.type # "none"
  PROVE  /\ ~isExpired(v, now) => seen(setValue(db, key, v)) = Eager!setValue(seen(db), key, v)
         /\ isExpired(v, now) => seen(setValue(db, key, v)) = Eager!deleteKey(seen(db), key)
<1>1. ~isExpired(v, now) => seen(setValue(db, key, v)) = setValue(seen(db), key, v)
  BY DEF seen, Good, isDatabase, setValue, cleanupExpiredKeys, expiredIn, present, NoValue
<1>2. isExpired(v, now) => seen(setValue(db, key, v)) = deleteKey(seen(db), key)
  BY DEF seen, Good, isDatabase, setValue, deleteKey, cleanupExpiredKeys, expiredIn, present, NoValue
<1> QED BY <1>1, <1>2, SameDatabase

LEMMA SeenDelete ==
  ASSUME NEW db, Good(db), NEW key \in Keys
  PROVE  seen(deleteKey(db, key)) = Eager!deleteKey(seen(db), key)
<1>1. seen(deleteKey(db, key)) = deleteKey(seen(db), key)
  BY DEF seen, Good, isDatabase, deleteKey, cleanupExpiredKeys, expiredIn, present, NoValue
<1> QED BY <1>1, SameDatabase

(* The paths of a handler that has looked one key up                       *)
LEMMA SamePaths ==
  ASSUME NEW db, Good(db), NEW key \in Keys
  PROVE  LET d == lookup(db, key, now)
             S == seen(db)
         IN  /\ \A r : Respond(db, r) \/ Respond(d, r) => Eager!Respond(S, r)
             /\ \A r : Respond(deleteKey(d, key), r) => Eager!Respond(Eager!deleteKey(S, key), r)
             /\ \A v, r : /\ v.type # "none"
                          /\ ~isExpired(v, now)
                          /\ Respond(setValue(d, key, v), r)
                          => Eager!Respond(Eager!setValue(S, key, v), r)
             /\ \A v, r : /\ v.type # "none"
                          /\ isExpired(v, now)
                          /\ Respond(setValue(d, key, v), r)
                          => Eager!Respond(Eager!deleteKey(S, key), r)
<1> DEFINE d == lookup(db, key, now)
           S == seen(db)
<1>1. Good(d) /\ seen(d) = S
  BY LookupGood, LookupSeen
<1> HIDE DEF d, S
<1>2. \A r : Respond(db, r) \/ Respond(d, r) => Eager!Respond(S, r)
  BY <1>1, SameRespond DEF S
<1>3. \A r : Respond(deleteKey(d, key), r) => Eager!Respond(Eager!deleteKey(S, key), r)
  BY <1>1, SeenDelete, SameRespond
<1>4. \A v, r : /\ v.type # "none"
                /\ ~isExpired(v, now)
                /\ Respond(setValue(d, key, v), r)
                => Eager!Respond(Eager!setValue(S, key, v), r)
  BY <1>1, SeenStore, SameRespond
<1>5. \A v, r : /\ v.type # "none"
                /\ isExpired(v, now)
                /\ Respond(setValue(d, key, v), r)
                => Eager!Respond(Eager!deleteKey(S, key), r)
  BY <1>1, SeenStore, SameRespond
<1> QED BY <1>2, <1>3, <1>4, <1>5 DEF d, S

-----------------------------------------------------------------------------
(* String commands                                                         *)

LEMMA SameRefusals ==
  ASSUME NEW db, Good(db), NEW key \in Keys, NEW words, NEW i
  PROVE  Eager!optionRefuses(seen(db), key, words, i) <=> optionRefuses(db, key, words, i)
<1>1. present(lookup(db, key, now), key) <=> Eager!present(Eager!lookup(seen(db), key, now), key)
  BY LookupSeen DEF present, Eager!present
<1>2. isInteger(words[i + 1]) <=> Eager!isInteger(words[i + 1])
  BY DEF isInteger, Eager!isInteger
<1> QED BY <1>1, <1>2, SameOptions DEF optionRefuses, Eager!optionRefuses

LEMMA SameAfterOptions ==
  ASSUME NEW db, Good(db), NEW key \in Keys, NEW words, NEW n
  PROVE  /\ Eager!afterOptions(seen(db), key, words, n) = seen(db)
         /\ seen(afterOptions(db, key, words, n)) = seen(db)
         /\ Good(afterOptions(db, key, words, n))
  BY LookupSeen, LookupGood DEF afterOptions, Eager!afterOptions

LEMMA ValueToSetString ==
  ASSUME NEW s, NEW words
  PROVE  valueToSet(s, words).type = "string"
  BY DEF valueToSet, StringValue, NewValue, setExpiry

LEMMA cmdSetSeen ==
  ASSUME NEW db, Good(db), NEW key \in Keys, NEW s, NEW words, cmdSet(db, key, s, words)
  PROVE  LET v == valueToSet(s, words)
         IN  \/ Eager!cmdSet(seen(db), key, s, words)
             \/ /\ isExpired(v, now)
                /\ ~dangling(words)
                /\ \A i \in options(words) : ~optionRefuses(db, key, words, i)
                /\ Eager!Respond(Eager!deleteKey(seen(db), key), Simple("OK"))
<1> DEFINE S == seen(db)
           v == valueToSet(s, words)
           d == afterOptions(db, key, words, Len(words))
<1>1. ASSUME NEW n \in options(words),
             optionRefuses(db, key, words, n),
             \A i \in options(words) : i < n => ~optionRefuses(db, key, words, i),
             Respond(afterOptions(db, key, words, n),
                     IF takesOneWord(words[n]) THEN Null ELSE Error("not an integer"))
      PROVE  Eager!cmdSet(S, key, s, words)
  <2> DEFINE r == IF takesOneWord(words[n]) THEN Null ELSE Error("not an integer")
  <2>1. Eager!Respond(Eager!afterOptions(S, key, words, n), r)
    <3>1. Respond(afterOptions(db, key, words, n), r)
      BY <1>1
    <3> HIDE DEF r
    <3> QED BY <3>1, SameAfterOptions, SameRespond
  <2>2. r = IF Eager!takesOneWord(words[n]) THEN Eager!Null ELSE Eager!Error("not an integer")
    BY SameReplies, SameOptions
  <2>3. /\ Eager!optionRefuses(S, key, words, n)
        /\ \A i \in Eager!options(words) : i < n => ~Eager!optionRefuses(S, key, words, i)
        /\ n \in Eager!options(words)
    BY <1>1, SameRefusals, SameOptions
  <2> QED BY <2>1, <2>2, <2>3 DEF Eager!cmdSet
<1>2. CASE \A i \in options(words) : ~optionRefuses(db, key, words, i)
  <2>1. \A i \in Eager!options(words) : ~Eager!optionRefuses(S, key, words, i)
    BY <1>2, SameRefusals, SameOptions
  <2>2. Eager!afterOptions(S, key, words, Len(words)) = S /\ Good(d) /\ seen(d) = S
    BY SameAfterOptions
  <2>3. CASE dangling(words) /\ Respond(d, Error("syntax"))
    <3>1. Eager!Respond(S, Eager!Error("syntax"))
      BY <2>2, <2>3, SameRespond, SameReplies
    <3> QED BY <2>1, <2>2, <2>3, <3>1, SameOptions DEF Eager!cmdSet
  <2>4. CASE ~dangling(words) /\ Respond(setValue(d, key, v), Simple("OK"))
    <3>1. v.type # "none"
      BY ValueToSetString
    <3>2. Eager!Respond(seen(setValue(d, key, v)), Simple("OK"))
      BY <2>4, SameRespond
    <3>3. CASE isExpired(v, now)
      BY <1>2, <2>2, <2>4, <3>1, <3>2, <3>3, SeenStore
    <3>4. CASE ~isExpired(v, now)
      <4>1. Eager!Respond(Eager!setValue(S, key, Eager!valueToSet(s, words)),
                          Eager!Simple("OK"))
        BY <2>2, <3>1, <3>2, <3>4, SeenStore, SameValueToSet, SameReplies
      <4> QED BY <2>1, <2>2, <2>4, <4>1, SameOptions DEF Eager!cmdSet
    <3> QED BY <3>3, <3>4
  <2>5. \/ dangling(words) /\ Respond(d, Error("syntax"))
        \/ ~dangling(words) /\ Respond(setValue(d, key, v), Simple("OK"))
        \/ \E n \in options(words) : optionRefuses(db, key, words, n)
    BY DEF cmdSet
  <2> QED BY <1>2, <2>3, <2>4, <2>5
<1> QED BY <1>1, <1>2 DEF cmdSet

LEMMA cmdGetSeen ==
  ASSUME NEW db, Good(db), NEW key \in Keys, cmdGet(db, key)
  PROVE  Eager!cmdGet(seen(db), key)
  BY LookupSeen, SamePaths, SameTests, SameReplies DEF cmdGet, isType, Eager!cmdGet

LEMMA cmdTypeSeen ==
  ASSUME NEW db, Good(db), NEW key \in Keys, cmdType(db, key)
  PROVE  Eager!cmdType(seen(db), key)
  BY LookupSeen, SamePaths, SameReplies DEF cmdType, Eager!cmdType

LEMMA cmdStrlenSeen ==
  ASSUME NEW db, Good(db), NEW key \in Keys, cmdStrlen(db, key)
  PROVE  Eager!cmdStrlen(seen(db), key)
  BY LookupSeen, SamePaths, SameTests, SameReplies DEF cmdStrlen, isType, Eager!cmdStrlen

(* The numbers and texts stored have no deadline                           *)
LEMMA StringStored ==
  ASSUME NEW db, Good(db), NEW key \in Keys, NEW s, NEW r,
         Respond(setValue(lookup(db, key, now), key, StringValue(s)), r)
  PROVE  Eager!Respond(Eager!setValue(seen(db), key, Eager!StringValue(s)), r)
<1>1. StringValue(s).type # "none" /\ ~isExpired(StringValue(s), now)
  BY DEF StringValue, NewValue, isExpired
<1> QED BY <1>1, SamePaths, SameValues

LEMMA storeNumberSeen ==
  ASSUME NEW db, Good(db), NEW key \in Keys, NEW n, storeNumber(lookup(db, key, now), key, n)
  PROVE  Eager!storeNumber(seen(db), key, n)
  BY StringStored, SameStrings, SameReplies DEF storeNumber, Eager!storeNumber

LEMMA storeTextSeen ==
  ASSUME NEW db, Good(db), NEW key \in Keys, NEW s, storeText(lookup(db, key, now), key, s)
  PROVE  Eager!storeText(seen(db), key, s)
  BY StringStored, SameReplies DEF storeText, Eager!storeText

LEMMA addToSeen ==
  ASSUME NEW db, Good(db), NEW key \in Keys, NEW delta, addTo(db, key, delta)
  PROVE  Eager!addTo(seen(db), key, delta)
  BY LookupSeen, SamePaths, storeNumberSeen, SameTests, SameStrings, SameReplies
  DEF addTo, isType, isOtherType, present, Eager!addTo

LEMMA cmdIncrSeen ==
  ASSUME NEW db, Good(db), NEW key \in Keys, NEW a
  PROVE  /\ cmdIncr(db, key) => Eager!cmdIncr(seen(db), key)
         /\ cmdDecr(db, key) => Eager!cmdDecr(seen(db), key)
         /\ cmdIncrBy(db, key, a) => Eager!cmdIncrBy(seen(db), key, a)
         /\ cmdDecrBy(db, key, a) => Eager!cmdDecrBy(seen(db), key, a)
  BY addToSeen, SamePaths, SameStrings, SameReplies
  DEF cmdIncr, cmdDecr, cmdIncrBy, cmdDecrBy, Eager!cmdIncr, Eager!cmdDecr, Eager!cmdIncrBy,
      Eager!cmdDecrBy

LEMMA cmdAppendSeen ==
  ASSUME NEW db, Good(db), NEW key \in Keys, NEW s, cmdAppend(db, key, s)
  PROVE  Eager!cmdAppend(seen(db), key, s)
  BY LookupSeen, storeTextSeen, SameTests DEF cmdAppend, isType, Eager!cmdAppend

LEMMA ListArgument ==
  ASSUME NEW T, NEW l \in Seq(T)
  PROVE  \A i \in DOMAIN l : l[i] \in T /\ l[i] \in ToSet(l)
  BY DEF ToSet

LEMMA KeysFoundSeen ==
  ASSUME NEW db, Good(db), NEW keys \in Seq(Keys)
  PROVE  \A i \in DOMAIN keys : lookupAll(db, ToSet(keys), now)[keys[i]] = seen(db)[keys[i]]
  BY ListArgument, LookupAllSeen

LEMMA cmdExistsSeen ==
  ASSUME NEW db, Good(db), NEW keys \in Seq(Keys), cmdExists(db, keys)
  PROVE  Eager!cmdExists(seen(db), keys)
<1> DEFINE S == seen(db)
           d == lookupAll(db, ToSet(keys), now)
           found == {i \in DOMAIN keys : present(d, keys[i])}
<1>1. found = {i \in DOMAIN keys : Eager!present(S, keys[i])}
  BY KeysFoundSeen DEF present, Eager!present
<1>2. Eager!Respond(seen(d), Integer(Cardinality(found)))
  BY SameRespond DEF cmdExists
<1>3. seen(d) = S /\ Eager!lookupAll(S, Eager!ToSet(keys), now) = S
  BY LookupAllSeen, SameLibrary
<1>4. Integer(Cardinality(found)) = Eager!Integer(Eager!Cardinality(found))
  BY SameReplies, SameLibrary
<1> HIDE DEF S, d, found
<1>5. Eager!Respond(S, Eager!Integer(Eager!Cardinality(
                          {i \in DOMAIN keys : Eager!present(S, keys[i])})))
  BY <1>1, <1>2, <1>3, <1>4
<1> QED BY <1>3, <1>5 DEF S, Eager!cmdExists

LEMMA cmdMgetSeen ==
  ASSUME NEW db, Good(db), NEW keys \in Seq(Keys), cmdMget(db, keys)
  PROVE  Eager!cmdMget(seen(db), keys)
<1> DEFINE S == seen(db)
           d == lookupAll(db, ToSet(keys), now)
           strings == [i \in DOMAIN keys |-> IF isType(d, keys[i], "string")
                                             THEN d[keys[i]].string_value
                                             ELSE EmptyString]
<1>1. strings = [i \in DOMAIN keys |-> IF Eager!isType(S, keys[i], "string")
                                       THEN S[keys[i]].string_value
                                       ELSE Eager!EmptyString]
  BY KeysFoundSeen, SameStrings DEF isType, Eager!isType
<1>2. Eager!Respond(seen(d), Array(strings))
  BY SameRespond DEF cmdMget
<1>3. seen(d) = S /\ Eager!lookupAll(S, Eager!ToSet(keys), now) = S
  BY LookupAllSeen, SameLibrary
<1>4. Array(strings) = Eager!Array(strings)
  BY SameReplies
<1> HIDE DEF S, d, strings
<1>5. Eager!Respond(S, Eager!Array(strings))
  BY <1>2, <1>3, <1>4
<1> QED BY <1>1, <1>3, <1>5 DEF S, Eager!cmdMget

(* DEL counts the entries of the map, so at least those of the view        *)
LEMMA cmdDelSeen ==
  ASSUME NEW db, Good(db), NEW keys \in Seq(Keys), cmdDel(db, keys)
  PROVE  \E K \in SUBSET ToSet(keys) :
           /\ {k \in ToSet(keys) : present(seen(db), k)} \subseteq K
           /\ Eager!Respond([k \in Keys |-> IF k \in ToSet(keys) THEN NoValue ELSE seen(db)[k]],
                            Integer(Cardinality(K)))
<1> DEFINE K == {k \in ToSet(keys) : present(db, k)}
           d == [k \in Keys |-> IF k \in ToSet(keys) THEN NoValue ELSE db[k]]
<1>1. {k \in ToSet(keys) : present(seen(db), k)} \subseteq K
  <2>1. ToSet(keys) \subseteq Keys
    BY DEF ToSet
  <2> QED BY <2>1 DEF seen, cleanupExpiredKeys, present, NoValue
<1>2. seen(d) = [k \in Keys |-> IF k \in ToSet(keys) THEN NoValue ELSE seen(db)[k]]
  BY DEF seen, cleanupExpiredKeys, expiredIn, present, NoValue
<1>3. Eager!Respond(seen(d), Integer(Cardinality(K)))
  BY SameRespond DEF cmdDel
<1> QED BY <1>1, <1>2, <1>3

LEMMA cmdMsetSeen ==
  ASSUME NEW db, Good(db), NEW pairs, cmdMset(db, pairs)
  PROVE  Eager!cmdMset(seen(db), pairs)
<1> DEFINE value(k) == StringValue(lastWritten(pairs, k))
           d == [k \in Keys |-> IF k \in firsts(pairs) THEN value(k) ELSE db[k]]
<1>1. \A k : value(k).type # "none" /\ ~isExpired(value(k), now)
  BY DEF StringValue, NewValue, isExpired
<1>2. Eager!Respond(seen(d), Simple("OK"))
  BY SameRespond DEF cmdMset
<1> HIDE DEF value
<1>3. seen(d) = [k \in Keys |-> IF k \in firsts(pairs) THEN value(k) ELSE seen(db)[k]]
  BY <1>1 DEF seen, cleanupExpiredKeys, expiredIn, present
<1>4. \A k : value(k) = Eager!StringValue(Eager!lastWritten(pairs, k))
  BY SameValues, SameHashes DEF value
<1>5. /\ Eager!firsts(pairs) = firsts(pairs)
      /\ Eager!Simple("OK") = Simple("OK")
  BY SameHashes, SameReplies
<1>6. seen(d) = [k \in Keys |-> IF k \in Eager!firsts(pairs)
                               THEN Eager!StringValue(Eager!lastWritten(pairs, k))
                               ELSE seen(db)[k]]
  BY <1>3, <1>4, <1>5
<1> QED BY <1>2, <1>5, <1>6 DEF Eager!cmdMset

-----------------------------------------------------------------------------
(* List commands                                                           *)

(* A value found, or a new one, with one of its containers changed, is not *)
(* too late                                                                *)
LEMMA ContainerStoredSeen ==
  ASSUME NEW db, Good(db), NEW key \in Keys, NEW t \in Types, NEW x, NEW v, NEW w,
         v = IF present(lookup(db, key, now), key)
             THEN lookup(db, key, now)[key]
             ELSE NewValue(t),
         \/ w = [v EXCEPT !.list_value = x]
         \/ w = [v EXCEPT !.set_value = x]
         \/ w = [v EXCEPT !.hash_value = x],
         NEW r, Respond(setValue(lookup(db, key, now), key, w), r)
  PROVE  Eager!Respond(Eager!setValue(seen(db), key, w), r)
<1> DEFINE d == lookup(db, key, now)
<1>1. isRedisValue(v) /\ ~isExpired(v, now)
  <2>1. CASE present(d, key)
    <3>1. v = seen(db)[key] /\ v # NoValue
      BY <2>1, LookupSeen DEF present, NoValue
    <3> QED BY <3>1, SeenIsLive DEF goodValue, seen
  <2>2. CASE ~present(d, key)
    <3>1. v \in valuesOver({})
      BY <2>2, NewValueType
    <3>2. ~isExpired(v, now)
      BY <2>2 DEF NewValue, isExpired
    <3> QED BY <3>1, <3>2, RedisValueOver
  <2> QED BY <2>1, <2>2
<1>2. w.type # "none" /\ ~isExpired(w, now)
  BY <1>1, ContainerChanged
<1> QED BY <1>2, SamePaths

LEMMA pushToSeen ==
  ASSUME NEW db, Good(db), NEW key \in Keys, NEW before, NEW after, pushTo(db, key, before, after)
  PROVE  Eager!pushTo(seen(db), key, before, after)
<1> DEFINE S == seen(db)
           d == lookup(db, key, now)
           v == listAt(d, key)
           l == before \o v.list_value \o after
           w == [v EXCEPT !.list_value = l]
<1>1. Eager!lookup(S, key, now) = S /\ d[key] = S[key]
  BY LookupSeen
<1>2. v = Eager!listAt(S, key)
  BY <1>1, SameTests DEF listAt, present
<1>3. isOtherType(d, key, "list") <=> Eager!isOtherType(S, key, "list")
  BY <1>1, SameTests DEF isOtherType, present
<1>4. CASE isOtherType(d, key, "list") /\ Respond(d, Error("wrong type"))
  <2>1. Eager!Respond(S, Eager!Error("wrong type"))
    BY <1>4, SamePaths, SameReplies
  <2> QED BY <1>1, <1>3, <1>4, <2>1 DEF Eager!pushTo
<1>5. CASE ~isOtherType(d, key, "list") /\ Respond(setValue(d, key, w), Integer(Len(l)))
  <2>1. Eager!Respond(Eager!setValue(S, key, w), Eager!Integer(Len(l)))
    BY <1>5, ContainerStoredSeen, SameReplies DEF listAt, Types
  <2> QED BY <1>1, <1>2, <1>3, <1>5, <2>1 DEF Eager!pushTo
<1> QED BY <1>4, <1>5 DEF pushTo

LEMMA cmdPushSeen ==
  ASSUME NEW db, Good(db), NEW key \in Keys, NEW items
  PROVE  /\ cmdLpush(db, key, items) => Eager!cmdLpush(seen(db), key, items)
         /\ cmdRpush(db, key, items) => Eager!cmdRpush(seen(db), key, items)
  BY pushToSeen, SameLibrary DEF cmdLpush, cmdRpush, Eager!cmdLpush, Eager!cmdRpush

LEMMA popFromSeen ==
  ASSUME NEW db, Good(db), NEW key \in Keys, NEW popped, NEW rest,
         popFrom(db, key, popped, rest)
  PROVE  Eager!popFrom(seen(db), key, popped, rest)
<1> DEFINE S == seen(db)
           d == lookup(db, key, now)
           w == [d[key] EXCEPT !.list_value = rest]
<1>1. Eager!lookup(S, key, now) = S /\ d[key] = S[key]
  BY LookupSeen
<1>2. isType(d, key, "list") <=> Eager!isType(S, key, "list")
  BY <1>1 DEF isType, Eager!isType
<1>3. CASE /\ isType(d, key, "list") => d[key].list_value = <<>>
           /\ Respond(d, Null)
  <2>1. Eager!Respond(S, Eager!Null)
    BY <1>3, SamePaths, SameReplies
  <2> QED BY <1>1, <1>2, <1>3, <2>1 DEF Eager!popFrom
<1>4. CASE /\ isType(d, key, "list") /\ d[key].list_value # <<>>
           /\ Respond(IF rest = <<>> THEN deleteKey(d, key) ELSE setValue(d, key, w),
                      Bulk(popped))
  <2>1. rest = <<>> => Eager!Respond(Eager!deleteKey(S, key), Eager!Bulk(popped))
    BY <1>4, SamePaths, SameReplies
  <2>2. rest # <<>> => Eager!Respond(Eager!setValue(S, key, w), Eager!Bulk(popped))
    BY <1>4, ContainerStoredSeen, TypePresent, SameReplies DEF Types
  <2> QED BY <1>1, <1>2, <1>4, <2>1, <2>2 DEF Eager!popFrom
<1> QED BY <1>3, <1>4 DEF popFrom

LEMMA cmdPopSeen ==
  ASSUME NEW db, Good(db), NEW key \in Keys
  PROVE  /\ cmdLpop(db, key) => Eager!cmdLpop(seen(db), key)
         /\ cmdRpop(db, key) => Eager!cmdRpop(seen(db), key)
  BY popFromSeen, LookupSeen, SameLibrary DEF cmdLpop, cmdRpop, Eager!cmdLpop, Eager!cmdRpop

LEMMA cmdLlenSeen ==
  ASSUME NEW db, Good(db), NEW key \in Keys, cmdLlen(db, key)
  PROVE  Eager!cmdLlen(seen(db), key)
  BY LookupSeen, SamePaths, SameTests, SameReplies DEF cmdLlen, isType, Eager!cmdLlen

LEMMA cmdLrangeSeen ==
  ASSUME NEW db, Good(db), NEW key \in Keys, NEW a, NEW b, cmdLrange(db, key, a, b)
  PROVE  Eager!cmdLrange(seen(db), key, a, b)
  BY LookupSeen, SamePaths, SameTests, SameStrings, SameLists, SameReplies
  DEF cmdLrange, isType, Eager!cmdLrange

LEMMA cmdLindexSeen ==
  ASSUME NEW db, Good(db), NEW key \in Keys, NEW a, cmdLindex(db, key, a)
  PROVE  Eager!cmdLindex(seen(db), key, a)
  BY LookupSeen, SamePaths, SameTests, SameStrings, SameLists, SameReplies
  DEF cmdLindex, isType, Eager!cmdLindex

LEMMA cmdLsetSeen ==
  ASSUME NEW db, Good(db), NEW key \in Keys, NEW a, NEW s, cmdLset(db, key, a, s)
  PROVE  Eager!cmdLset(seen(db), key, a, s)
<1> DEFINE S == seen(db)
           d == lookup(db, key, now)
           l == d[key].list_value
           i == fromEnd(parseInt(a), Len(l))
           w == [d[key] EXCEPT !.list_value = [l EXCEPT ![i + 1] = s]]
<1>1. Eager!lookup(S, key, now) = S /\ d[key] = S[key]
  BY LookupSeen
<1>2. /\ isType(d, key, "list") <=> Eager!isType(S, key, "list")
      /\ isInteger(a) <=> Eager!isInteger(a)
      /\ i = Eager!fromEnd(Eager!parseInt(a), Len(S[key].list_value))
      /\ inRange(i, Len(l)) <=> Eager!inRange(i, Len(l))
  BY <1>1, SameStrings, SameLists
  DEF isType, isInteger, inRange, Eager!isType, Eager!isInteger, Eager!inRange
<1>3. CASE ~isInteger(a) /\ Respond(db, Error("not an integer"))
  <2>1. Eager!Respond(S, Eager!Error("not an integer"))
    BY <1>3, SamePaths, SameReplies
  <2> QED BY <1>2, <1>3, <2>1 DEF Eager!cmdLset
<1>4. CASE isInteger(a) /\ ~isType(d, key, "list") /\ Respond(d, Error("no such key"))
  <2>1. Eager!Respond(S, Eager!Error("no such key"))
    BY <1>4, SamePaths, SameReplies
  <2> QED BY <1>1, <1>2, <1>4, <2>1 DEF Eager!cmdLset
<1>5. CASE /\ isInteger(a) /\ isType(d, key, "list") /\ ~inRange(i, Len(l))
           /\ Respond(d, Error("index out of range"))
  <2>1. Eager!Respond(S, Eager!Error("index out of range"))
    BY <1>5, SamePaths, SameReplies
  <2> QED BY <1>1, <1>2, <1>5, <2>1 DEF Eager!cmdLset
<1>6. CASE /\ isInteger(a) /\ isType(d, key, "list") /\ inRange(i, Len(l))
           /\ Respond(setValue(d, key, w), Simple("OK"))
  <2>1. Eager!Respond(Eager!setValue(S, key, w), Eager!Simple("OK"))
    BY <1>6, ContainerStoredSeen, TypePresent, SameReplies DEF Types
  <2> QED BY <1>1, <1>2, <1>6, <2>1 DEF Eager!cmdLset
<1> QED BY <1>3, <1>4, <1>5, <1>6 DEF cmdLset

-----------------------------------------------------------------------------
(* Set commands                                                            *)

LEMMA cmdSaddSeen ==
  ASSUME NEW db, Good(db), NEW key \in Keys, NEW members, cmdSadd(db, key, members)
  PROVE  Eager!cmdSadd(seen(db), key, members)
<1> DEFINE S == seen(db)
           d == lookup(db, key, now)
           v == IF present(d, key) THEN d[key] ELSE NewValue("set")
           w == [v EXCEPT !.set_value = v.set_value \cup ToSet(members)]
           n == Cardinality(ToSet(members) \ v.set_value)
<1>1. Eager!lookup(S, key, now) = S /\ d[key] = S[key]
  BY LookupSeen
<1>2. v = IF Eager!present(S, key) THEN S[key] ELSE Eager!NewValue("set")
  BY <1>1, SameTests, SameValues DEF present
<1>3. isOtherType(d, key, "set") <=> Eager!isOtherType(S, key, "set")
  BY <1>1, SameTests DEF isOtherType, present
<1>4. CASE isOtherType(d, key, "set") /\ Respond(d, Error("wrong type"))
  <2>1. Eager!Respond(S, Eager!Error("wrong type"))
    BY <1>4, SamePaths, SameReplies
  <2> QED BY <1>1, <1>3, <1>4, <2>1 DEF Eager!cmdSadd
<1>5. CASE ~isOtherType(d, key, "set") /\ Respond(setValue(d, key, w), Integer(n))
  <2>1. Eager!Respond(Eager!setValue(S, key, w), Eager!Integer(n))
    BY <1>5, ContainerStoredSeen, SameReplies DEF Types
  <2>2. Eager!Respond(Eager!setValue(S, key, [v EXCEPT !.set_value = @ \cup Eager!ToSet(members)]),
                      Eager!Integer(Eager!Cardinality(Eager!ToSet(members) \ v.set_value)))
    BY <2>1, SameLibrary
  <2> QED BY <1>1, <1>2, <1>3, <1>5, <2>2 DEF Eager!cmdSadd
<1> QED BY <1>4, <1>5 DEF cmdSadd

LEMMA withSetSeen ==
  ASSUME NEW db, Good(db), NEW key \in Keys, isType(lookup(db, key, now), key, "set"),
         NEW left, NEW r, Respond(withSet(lookup(db, key, now), key, left), r)
  PROVE  Eager!Respond(Eager!withSet(seen(db), key, left), r)
<1> DEFINE S == seen(db)
           d == lookup(db, key, now)
           w == [d[key] EXCEPT !.set_value = left]
<1>1. left = {} => Eager!Respond(Eager!deleteKey(S, key), r)
  BY SamePaths DEF withSet
<1>2. left # {} => Eager!Respond(Eager!setValue(S, key, w), r)
  BY ContainerStoredSeen, TypePresent DEF withSet, Types
<1> QED BY <1>1, <1>2, LookupSeen DEF Eager!withSet

LEMMA cmdSremSeen ==
  ASSUME NEW db, Good(db), NEW key \in Keys, NEW members, cmdSrem(db, key, members)
  PROVE  Eager!cmdSrem(seen(db), key, members)
  BY LookupSeen, SamePaths, withSetSeen, SameTests, SameReplies, SameLibrary
  DEF cmdSrem, isType, Eager!cmdSrem

LEMMA cmdSpopSeen ==
  ASSUME NEW db, Good(db), NEW key \in Keys, cmdSpop(db, key)
  PROVE  Eager!cmdSpop(seen(db), key)
  BY LookupSeen, SamePaths, withSetSeen, SameTests, SameReplies
  DEF cmdSpop, isType, Eager!cmdSpop

LEMMA cmdSetReadSeen ==
  ASSUME NEW db, Good(db), NEW key \in Keys, NEW m
  PROVE  /\ cmdSismember(db, key, m) => Eager!cmdSismember(seen(db), key, m)
         /\ cmdScard(db, key) => Eager!cmdScard(seen(db), key)
         /\ cmdSmembers(db, key) => Eager!cmdSmembers(seen(db), key)
<1>1. cmdSismember(db, key, m) => Eager!cmdSismember(seen(db), key, m)
  BY LookupSeen, SamePaths, SameTests, SameReplies DEF cmdSismember, isType, Eager!cmdSismember
<1>2. cmdScard(db, key) => Eager!cmdScard(seen(db), key)
  BY LookupSeen, SamePaths, SameTests, SameReplies, SameLibrary
  DEF cmdScard, isType, Eager!cmdScard
<1>3. cmdSmembers(db, key) => Eager!cmdSmembers(seen(db), key)
  BY LookupSeen, SamePaths, SameTests, SameReplies DEF cmdSmembers, isType, Eager!cmdSmembers
<1> QED BY <1>1, <1>2, <1>3

-----------------------------------------------------------------------------
(* Hash commands                                                           *)

LEMMA cmdHsetSeen ==
  ASSUME NEW db, Good(db), NEW key \in Keys, NEW pairs, cmdHset(db, key, pairs)
  PROVE  Eager!cmdHset(seen(db), key, pairs)
<1> DEFINE S == seen(db)
           d == lookup(db, key, now)
           v == IF present(d, key) THEN d[key] ELSE NewValue("hash")
           w == [v EXCEPT !.hash_value = written(v.hash_value, pairs)]
           n == Cardinality(firsts(pairs) \ DOMAIN v.hash_value)
<1>1. Eager!lookup(S, key, now) = S /\ d[key] = S[key]
  BY LookupSeen
<1>2. v = IF Eager!present(S, key) THEN S[key] ELSE Eager!NewValue("hash")
  BY <1>1, SameTests, SameValues DEF present
<1>3. isOtherType(d, key, "hash") <=> Eager!isOtherType(S, key, "hash")
  BY <1>1, SameTests DEF isOtherType, present
<1>4. CASE isOtherType(d, key, "hash") /\ Respond(d, Error("wrong type"))
  <2>1. Eager!Respond(S, Eager!Error("wrong type"))
    BY <1>4, SamePaths, SameReplies
  <2> QED BY <1>1, <1>3, <1>4, <2>1 DEF Eager!cmdHset
<1>5. CASE ~isOtherType(d, key, "hash") /\ Respond(setValue(d, key, w), Integer(n))
  <2>1. Eager!Respond(Eager!setValue(S, key, w), Eager!Integer(n))
    BY <1>5, ContainerStoredSeen, SameReplies DEF Types
  <2>2. /\ w = [v EXCEPT !.hash_value = Eager!written(@, pairs)]
        /\ n = Eager!Cardinality(Eager!firsts(pairs) \ DOMAIN v.hash_value)
    BY SameLibrary, SameHashes
  <2> QED BY <1>1, <1>2, <1>3, <1>5, <2>1, <2>2 DEF Eager!cmdHset
<1> QED BY <1>4, <1>5 DEF cmdHset

LEMMA cmdHdelSeen ==
  ASSUME NEW db, Good(db), NEW key \in Keys, NEW fields, cmdHdel(db, key, fields)
  PROVE  Eager!cmdHdel(seen(db), key, fields)
<1> DEFINE S == seen(db)
           d == lookup(db, key, now)
           h == d[key].hash_value
           kept == Restrict(h, DOMAIN h \ ToSet(fields))
           w == [d[key] EXCEPT !.hash_value = kept]
           n == Cardinality(DOMAIN h \cap ToSet(fields))
<1>1. Eager!lookup(S, key, now) = S /\ d[key] = S[key]
  BY LookupSeen
<1>2. isType(d, key, "hash") <=> Eager!isType(S, key, "hash")
  BY <1>1 DEF isType, Eager!isType
<1>3. /\ kept = Eager!Restrict(S[key].hash_value,
                               DOMAIN S[key].hash_value \ Eager!ToSet(fields))
      /\ n = Eager!Cardinality(DOMAIN S[key].hash_value \cap Eager!ToSet(fields))
  BY <1>1, SameLibrary
<1>4. CASE ~isType(d, key, "hash") /\ Respond(d, Integer(0))
  <2>1. Eager!Respond(S, Eager!Integer(0))
    BY <1>4, SamePaths, SameReplies
  <2> QED BY <1>1, <1>2, <1>4, <2>1 DEF Eager!cmdHdel
<1>5. CASE /\ isType(d, key, "hash")
           /\ Respond(IF DOMAIN kept = {} THEN deleteKey(d, key) ELSE setValue(d, key, w),
                      Integer(n))
  <2> HIDE DEF kept, n
  <2>1. DOMAIN kept = {} => Eager!Respond(Eager!deleteKey(S, key), Eager!Integer(n))
    BY <1>5, SamePaths, SameReplies
  <2>2. DOMAIN kept # {} => Eager!Respond(Eager!setValue(S, key, w), Eager!Integer(n))
    BY <1>5, ContainerStoredSeen, TypePresent, SameReplies DEF Types
  <2> QED BY <1>1, <1>2, <1>3, <1>5, <2>1, <2>2 DEF Eager!cmdHdel
<1> QED BY <1>4, <1>5 DEF cmdHdel

LEMMA listHashSeen ==
  ASSUME NEW db, Good(db), NEW key \in Keys, NEW items, listHash(db, key, items)
  PROVE  Eager!listHash(seen(db), key, items)
  BY LookupSeen, SamePaths, SameTests, SameReplies DEF listHash, isType, Eager!listHash

LEMMA cmdHashReadSeen ==
  ASSUME NEW db, Good(db), NEW key \in Keys, NEW f
  PROVE  /\ cmdHget(db, key, f) => Eager!cmdHget(seen(db), key, f)
         /\ cmdHexists(db, key, f) => Eager!cmdHexists(seen(db), key, f)
         /\ cmdHlen(db, key) => Eager!cmdHlen(seen(db), key)
         /\ cmdHkeys(db, key) => Eager!cmdHkeys(seen(db), key)
         /\ cmdHvals(db, key) => Eager!cmdHvals(seen(db), key)
         /\ cmdHgetall(db, key) => Eager!cmdHgetall(seen(db), key)
<1>1. cmdHget(db, key, f) => Eager!cmdHget(seen(db), key, f)
  BY LookupSeen, SamePaths, SameTests, SameReplies DEF cmdHget, isType, Eager!cmdHget
<1>2. cmdHexists(db, key, f) => Eager!cmdHexists(seen(db), key, f)
  BY LookupSeen, SamePaths, SameTests, SameReplies DEF cmdHexists, isType, Eager!cmdHexists
<1>3. cmdHlen(db, key) => Eager!cmdHlen(seen(db), key)
  BY LookupSeen, SamePaths, SameTests, SameReplies, SameLibrary
  DEF cmdHlen, isType, Eager!cmdHlen
<1>4. cmdHkeys(db, key) => Eager!cmdHkeys(seen(db), key)
  BY LookupSeen, listHashSeen DEF cmdHkeys, Eager!cmdHkeys
<1>5. /\ cmdHvals(db, key) => Eager!cmdHvals(seen(db), key)
      /\ cmdHgetall(db, key) => Eager!cmdHgetall(seen(db), key)
  BY LookupSeen, listHashSeen, SameHashes DEF cmdHvals, cmdHgetall, Eager!cmdHvals, Eager!cmdHgetall
<1> QED BY <1>1, <1>2, <1>3, <1>4, <1>5

-----------------------------------------------------------------------------
(* TTL commands                                                            *)

(* EXPIRE with a time that overflows the clock deletes the key in the view *)
LEMMA cmdExpireSeen ==
  ASSUME NEW db, Good(db), NEW key \in Keys, NEW a, cmdExpire(db, key, a)
  PROVE  \/ Eager!cmdExpire(seen(db), key, a)
         \/ /\ present(seen(db), key)
            /\ isExpired(setExpiry(seen(db)[key], now, secondsToTicks(parseInt(a))), now)
            /\ Eager!Respond(Eager!deleteKey(seen(db), key), Integer(1))
<1> DEFINE S == seen(db)
           d == lookup(db, key, now)
           s == parseInt(a)
           v == setExpiry(d[key], now, secondsToTicks(s))
<1>1. Eager!lookup(S, key, now) = S /\ d[key] = S[key]
  BY LookupSeen
<1>2. /\ isInteger(a) <=> Eager!isInteger(a)
      /\ s = Eager!parseInt(a)
      /\ present(d, key) <=> Eager!present(S, key)
      /\ present(d, key) <=> present(S, key)
      /\ v = Eager!setExpiry(S[key], now, Eager!secondsToTicks(Eager!parseInt(a)))
  BY <1>1, SameStrings, SameValues DEF isInteger, present, Eager!isInteger, Eager!present
<1>3. CASE ~isInteger(a) /\ Respond(db, Error("not an integer"))
  <2>1. Eager!Respond(S, Eager!Error("not an integer"))
    BY <1>3, SamePaths, SameReplies
  <2> QED BY <1>2, <1>3, <2>1 DEF Eager!cmdExpire
<1>4. CASE isInteger(a) /\ ~present(d, key) /\ Respond(d, Integer(0))
  <2>1. Eager!Respond(S, Eager!Integer(0))
    BY <1>4, SamePaths, SameReplies
  <2> QED BY <1>1, <1>2, <1>4, <2>1 DEF Eager!cmdExpire
<1>5. CASE isInteger(a) /\ present(d, key) /\ s <= 0 /\ Respond(deleteKey(d, key), Integer(1))
  <2>1. Eager!Respond(Eager!deleteKey(S, key), Eager!Integer(1))
    BY <1>5, SamePaths, SameReplies
  <2> QED BY <1>1, <1>2, <1>5, <2>1 DEF Eager!cmdExpire
<1>6. CASE /\ isInteger(a) /\ present(d, key) /\ ~(s <= 0)
           /\ Respond(setValue(d, key, v), Integer(1))
  <2>1. isRedisValue(d[key])
    BY <1>6, LookupGood, FoundGood DEF goodValue
  <2>2. v.type # "none"
    BY <2>1 DEF setExpiry, isRedisValue, valuesOver, Types
  <2>3. CASE isExpired(v, now)
    <3>1. Eager!Respond(Eager!deleteKey(S, key), Integer(1))
      BY <1>6, <2>2, <2>3, SamePaths
    <3> QED BY <1>1, <1>2, <1>6, <2>3, <3>1
  <2>4. CASE ~isExpired(v, now)
    <3>1. Eager!Respond(Eager!setValue(S, key, v), Eager!Integer(1))
      BY <1>6, <2>2, <2>4, SamePaths, SameReplies
    <3> QED BY <1>1, <1>2, <1>6, <3>1 DEF Eager!cmdExpire
  <2> QED BY <2>3, <2>4
<1> QED BY <1>3, <1>4, <1>5, <1>6 DEF cmdExpire

LEMMA cmdExpireatSeen ==
  ASSUME NEW db, Good(db), NEW key \in Keys, NEW a, now \in Int, cmdExpireat(db, key, a)
  PROVE  Eager!cmdExpireat(seen(db), key, a)
<1> DEFINE S == seen(db)
           d == lookup(db, key, now)
           t == secondsToTicks(parseInt(a))
           w == [d[key] EXCEPT !.expiry = t, !.has_expiry = TRUE]
<1>1. Eager!lookup(S, key, now) = S /\ d[key] = S[key]
  BY LookupSeen
<1>2. /\ isInteger(a) <=> Eager!isInteger(a)
      /\ t = Eager!secondsToTicks(Eager!parseInt(a))
      /\ present(d, key) <=> Eager!present(S, key)
  BY <1>1, SameStrings, SameValues DEF isInteger, present, Eager!isInteger, Eager!present
<1>3. CASE ~isInteger(a) /\ Respond(db, Error("not an integer"))
  <2>1. Eager!Respond(S, Eager!Error("not an integer"))
    BY <1>3, SamePaths, SameReplies
  <2> QED BY <1>2, <1>3, <2>1 DEF Eager!cmdExpireat
<1>4. CASE isInteger(a) /\ ~present(d, key) /\ Respond(d, Integer(0))
  <2>1. Eager!Respond(S, Eager!Integer(0))
    BY <1>4, SamePaths, SameReplies
  <2> QED BY <1>1, <1>2, <1>4, <2>1 DEF Eager!cmdExpireat
<1>5. CASE isInteger(a) /\ present(d, key) /\ t <= now /\ Respond(deleteKey(d, key), Integer(1))
  <2>1. Eager!Respond(Eager!deleteKey(S, key), Eager!Integer(1))
    BY <1>5, SamePaths, SameReplies
  <2> QED BY <1>1, <1>2, <1>5, <2>1 DEF Eager!cmdExpireat
<1>6. CASE /\ isInteger(a) /\ present(d, key) /\ ~(t <= now)
           /\ Respond(setValue(d, key, w), Integer(1))
  <2>1. isRedisValue(d[key])
    BY <1>6, LookupGood, FoundGood DEF goodValue
  <2>2. w.type # "none" /\ w.expiry = t
    BY <2>1 DEF isRedisValue, valuesOver, Types
  <2>3. t \in Int
    BY ParseIntType, WrapType, DataAssumption DEF secondsToTicks, LongLong
  <2>4. ~isExpired(w, now)
    BY <1>6, <2>2, <2>3 DEF isExpired
  <2>5. Eager!Respond(Eager!setValue(S, key, w), Eager!Integer(1))
    BY <1>6, <2>2, <2>4, SamePaths, SameReplies
  <2> QED BY <1>1, <1>2, <1>6, <2>5 DEF Eager!cmdExpireat
<1> QED BY <1>3, <1>4, <1>5, <1>6 DEF cmdExpireat

LEMMA cmdTtlSeen ==
  ASSUME NEW db, Good(db), NEW key \in Keys, cmdTtl(db, key)
  PROVE  Eager!cmdTtl(seen(db), key)
  BY LookupSeen, SamePaths, SameTests, SameReplies DEF cmdTtl, present, Eager!cmdTtl

LEMMA cmdPersistSeen ==
  ASSUME NEW db, Good(db), NEW key \in Keys, cmdPersist(db, key)
  PROVE  Eager!cmdPersist(seen(db), key)
<1> DEFINE S == seen(db)
           d == lookup(db, key, now)
           w == clearExpiry(d[key])
<1>1. Eager!lookup(S, key, now) = S /\ d[key] = S[key]
  BY LookupSeen
<1>2. (present(d, key) <=> Eager!present(S, key)) /\ w = Eager!clearExpiry(S[key])
  BY <1>1, SameValues DEF present, Eager!present
<1>3. CASE ~(present(d, key) /\ d[key].has_expiry) /\ Respond(d, Integer(0))
  <2>1. Eager!Respond(S, Eager!Integer(0))
    BY <1>3, SamePaths, SameReplies
  <2> QED BY <1>1, <1>2, <1>3, <2>1 DEF Eager!cmdPersist
<1>4. CASE present(d, key) /\ d[key].has_expiry /\ Respond(setValue(d, key, w), Integer(1))
  <2>1. isRedisValue(d[key])
    BY <1>4, LookupGood, FoundGood DEF goodValue
  <2>2. w.type # "none" /\ ~isExpired(w, now)
    BY <2>1 DEF clearExpiry, isExpired, isRedisValue, valuesOver, Types
  <2>3. Eager!Respond(Eager!setValue(S, key, w), Eager!Integer(1))
    BY <1>4, <2>2, SamePaths, SameReplies
  <2> QED BY <1>1, <1>2, <1>4, <2>3 DEF Eager!cmdPersist
<1> QED BY <1>3, <1>4 DEF cmdPersist

-----------------------------------------------------------------------------
(* Server commands                                                         *)

LEMMA cmdReplySeen ==
  ASSUME NEW db, Good(db), NEW x
  PROVE  /\ cmdPing(db) => Eager!cmdPing(seen(db))
         /\ cmdEcho(db, x) => Eager!cmdEcho(seen(db), x)
         /\ cmdTime(db) => Eager!cmdTime(seen(db))
         /\ cmdKeysBadPattern(db) => Eager!cmdKeysBadPattern(seen(db))
  BY SameRespond, SameReplies
  DEF cmdPing, cmdEcho, cmdTime, cmdKeysBadPattern, Eager!cmdPing, Eager!cmdEcho, Eager!cmdTime,
      Eager!cmdKeysBadPattern

LEMMA cmdFlushallSeen ==
  ASSUME NEW db, Good(db), cmdFlushall(db)
  PROVE  Eager!cmdFlushall(seen(db))
<1>1. seen(clearDatabase) = Eager!clearDatabase
  BY SameDatabase DEF seen, cleanupExpiredKeys, clearDatabase, expiredIn, present, NoValue
<1> QED BY <1>1, SameRespond, SameReplies DEF cmdFlushall, Eager!cmdFlushall

LEMMA cmdKeysSeen ==
  ASSUME NEW db, Good(db), NEW m \in SUBSET Keys, cmdKeys(db, m)
  PROVE  Eager!cmdKeys(seen(db), m)
<1>1. getMatchingKeys(db, m, now) = getMatchingKeys(seen(db), m, now)
  BY DEF getMatchingKeys, seen, cleanupExpiredKeys, expiredIn, present, NoValue
<1> QED BY <1>1, SameRespond, SameReplies, SameDatabase DEF cmdKeys, Eager!cmdKeys

LEMMA cmdDbsizeSeen ==
  ASSUME NEW db, Good(db), cmdDbsize(db)
  PROVE  Eager!cmdDbsize(seen(db))
<1>1. Eager!cleanupExpiredKeys(seen(db), now) = seen(db)
  BY SeenSeen, SameDatabase DEF seen
<1>2. Eager!Respond(seen(seen(db)), Integer(getDatabaseSize(seen(db))))
  BY SameRespond DEF cmdDbsize, seen
<1> QED BY <1>1, <1>2, SeenSeen, SameReplies, SameDatabase DEF Eager!cmdDbsize

(* INFO counts the entries of the map, so at least those of the view       *)
LEMMA cmdInfoSeen ==
  ASSUME NEW db, Good(db), cmdInfo(db)
  PROVE  \E K \in SUBSET Keys :
           /\ {k \in Keys : present(seen(db), k)} \subseteq K
           /\ Eager!Respond(seen(db), InfoText(Cardinality(K)))
<1> DEFINE K == {k \in Keys : present(db, k)}
<1>1. {k \in Keys : present(seen(db), k)} \subseteq K
  BY DEF seen, cleanupExpiredKeys, present, NoValue
<1>2. Eager!Respond(seen(db), InfoText(Cardinality(K)))
  BY SameRespond DEF cmdInfo, getDatabaseSize
<1> QED BY <1>1, <1>2

-----------------------------------------------------------------------------
(* The steps                                                               *)

LEMMA SameEntry ==
  ASSUME Good(database)
  PROVE  /\ Good(entry)
         /\ Eager!entry = seen(entry)
         /\ seen(entry) = seen(database)
<1>1. seen(entry) = seen(database)
  BY SeenSeen DEF entry, seen
<1>2. Eager!entry = seen(database)
  BY SeenSeen, SameDatabase DEF Eager!entry, seen
<1> QED BY <1>1, <1>2, EntryGood

LEMMA SameCount == Eager!count <=> count
  BY DEF count, Eager!count

LEMMA StringCommandSeen ==
  ASSUME Good(database), StringCommand
  PROVE  Eager!EagerNext
<1> USE DEF Eager!EagerNext, Eager!StringCommand
<1>0. Good(entry) /\ Eager!entry = seen(entry) /\ seen(entry) = seen(database)
  BY SameEntry
<1>1. CASE Set
  <2>1. PICK k \in Keys, s \in Values, words \in SetWordLists : cmdSet(entry, k, s, words)
    BY <1>1 DEF Set
  <2>2. CASE Eager!cmdSet(Eager!entry, k, s, words)
    BY <1>1, <2>2, SameCount DEF Set, Eager!Set
  <2>3. CASE /\ isExpired(valueToSet(s, words), now)
             /\ ~dangling(words)
             /\ \A i \in options(words) : ~optionRefuses(entry, k, words, i)
             /\ Eager!Respond(Eager!deleteKey(seen(entry), k), Simple("OK"))
    <3>1. Eager!isExpired(Eager!valueToSet(s, words), now) /\ ~Eager!dangling(words)
      BY <2>3, SameValues, SameValueToSet, SameOptions
    <3>2. \A i \in Eager!options(words) : ~Eager!optionRefuses(seen(database), k, words, i)
      BY <1>0, <2>3, SameRefusals, SameOptions
    <3>3. Eager!Respond(Eager!deleteKey(seen(database), k), Eager!Simple("OK"))
      BY <1>0, <2>3, SameReplies
    <3> QED BY <1>1, <2>3, <3>1, <3>2, <3>3, SameCount DEF Set, seen, Eager!SetExpired
  <2> QED BY <1>0, <2>1, <2>2, <2>3, cmdSetSeen
<1>2. CASE Get \/ Type \/ Strlen
  <2>1. Eager!Get \/ Eager!Type \/ Eager!Strlen
    BY <1>0, <1>2, SameCount, cmdGetSeen, cmdTypeSeen, cmdStrlenSeen
    DEF Get, Type, Strlen, Eager!Get, Eager!Type, Eager!Strlen
  <2> QED BY <2>1
<1>3. CASE Del
  <2>1. PICK l \in KeyLists : cmdDel(entry, l)
    BY <1>3 DEF Del
  <2>2. PICK K \in SUBSET ToSet(l) :
          /\ {k \in ToSet(l) : present(seen(entry), k)} \subseteq K
          /\ Eager!Respond([k \in Keys |-> IF k \in ToSet(l) THEN NoValue ELSE seen(entry)[k]],
                           Integer(Cardinality(K)))
    BY <1>0, <2>1, cmdDelSeen, ArgumentAssumption
  <2>3. /\ K \in SUBSET Eager!ToSet(l)
        /\ {k \in Eager!ToSet(l) : Eager!present(seen(database), k)} \subseteq K
        /\ Eager!Respond([k \in Keys |-> IF k \in Eager!ToSet(l)
                                         THEN Eager!NoValue
                                         ELSE seen(database)[k]],
                         Eager!Integer(Eager!Cardinality(K)))
    BY <1>0, <2>2, SameTests, SameReplies, SameLibrary
  <2> QED BY <1>3, <2>3, SameCount DEF Del, seen, Eager!DelCountsAtLeast
<1>4. CASE Exists \/ Mget
  <2>1. Eager!Exists \/ Eager!Mget
    BY <1>0, <1>4, SameCount, cmdExistsSeen, cmdMgetSeen, ArgumentAssumption
    DEF Exists, Mget, Eager!Exists, Eager!Mget
  <2> QED BY <2>1
<1>5. CASE Incr \/ Decr \/ IncrBy \/ DecrBy
  <2>1. Eager!Incr \/ Eager!Decr \/ Eager!IncrBy \/ Eager!DecrBy
    BY <1>0, <1>5, SameCount, cmdIncrSeen
    DEF Incr, Decr, IncrBy, DecrBy, Eager!Incr, Eager!Decr, Eager!IncrBy, Eager!DecrBy
  <2> QED BY <2>1
<1>6. CASE AppendTo \/ Mset
  <2>1. Eager!AppendTo \/ Eager!Mset
    BY <1>0, <1>6, SameCount, cmdAppendSeen, cmdMsetSeen
    DEF AppendTo, Mset, Eager!AppendTo, Eager!Mset
  <2> QED BY <2>1
<1> QED BY <1>1, <1>2, <1>3, <1>4, <1>5, <1>6 DEF StringCommand

(* The bound on lists binds the view no more than the map                  *)
LEMMA SameRoom ==
  ASSUME Good(database), NEW k \in Keys, NEW items, roomFor(k, items)
  PROVE  Eager!roomFor(k, items)
<1>1. Eager!isType(seen(database), k, "list") =>
        isType(database, k, "list") /\ seen(database)[k] = database[k]
  BY DEF Eager!isType, isType, seen, cleanupExpiredKeys, NoValue
<1> QED BY <1>1 DEF roomFor, seen, Eager!roomFor

LEMMA ListCommandSeen ==
  ASSUME Good(database), ListCommand
  PROVE  Eager!ListCommand
<1>0. Good(entry) /\ Eager!entry = seen(entry)
  BY SameEntry
<1>1. CASE Lpush \/ Rpush
  <2>1. Eager!Lpush \/ Eager!Rpush
    BY <1>0, <1>1, SameCount, SameRoom, cmdPushSeen DEF Lpush, Rpush, Eager!Lpush, Eager!Rpush
  <2> QED BY <2>1 DEF Eager!ListCommand
<1>2. CASE Lpop \/ Rpop \/ Llen
  <2>1. Eager!Lpop \/ Eager!Rpop \/ Eager!Llen
    BY <1>0, <1>2, SameCount, cmdPopSeen, cmdLlenSeen
    DEF Lpop, Rpop, Llen, Eager!Lpop, Eager!Rpop, Eager!Llen
  <2> QED BY <2>1 DEF Eager!ListCommand
<1>3. CASE Lrange \/ Lindex \/ Lset
  <2>1. Eager!Lrange \/ Eager!Lindex \/ Eager!Lset
    BY <1>0, <1>3, SameCount, cmdLrangeSeen, cmdLindexSeen, cmdLsetSeen
    DEF Lrange, Lindex, Lset, Eager!Lrange, Eager!Lindex, Eager!Lset
  <2> QED BY <2>1 DEF Eager!ListCommand
<1> QED BY <1>1, <1>2, <1>3 DEF ListCommand

LEMMA SetCommandSeen ==
  ASSUME Good(database), SetCommand
  PROVE  Eager!SetCommand
<1>0. Good(entry) /\ Eager!entry = seen(entry)
  BY SameEntry
<1> QED BY <1>0, SameCount, cmdSaddSeen, cmdSremSeen, cmdSpopSeen, cmdSetReadSeen
        DEF SetCommand, Sadd, Srem, Sismember, Scard, Smembers, Spop, Eager!SetCommand,
            Eager!Sadd, Eager!Srem, Eager!Sismember, Eager!Scard, Eager!Smembers, Eager!Spop

LEMMA HashCommandSeen ==
  ASSUME Good(database), HashCommand
  PROVE  Eager!HashCommand
<1>0. Good(entry) /\ Eager!entry = seen(entry)
  BY SameEntry
<1> QED BY <1>0, SameCount, cmdHsetSeen, cmdHdelSeen, cmdHashReadSeen
        DEF HashCommand, Hset, Hget, Hdel, Hexists, Hlen, Hkeys, Hvals, Hgetall,
            Eager!HashCommand, Eager!Hset, Eager!Hget, Eager!Hdel, Eager!Hexists, Eager!Hlen,
            Eager!Hkeys, Eager!Hvals, Eager!Hgetall

LEMMA TTLCommandSeen ==
  ASSUME IInv, TTLCommand
  PROVE  Eager!TTLCommand \/ Eager!ExpireExpired
<1>0. /\ Good(entry) /\ Eager!entry = seen(entry) /\ seen(entry) = seen(database)
      /\ now \in Int
  BY IInvGood, SameEntry, HandlerAssumption, DataAssumption
<1>1. CASE Expire
  <2>1. PICK k \in Keys, a \in Amounts : cmdExpire(entry, k, a)
    BY <1>1 DEF Expire
  <2>2. CASE Eager!cmdExpire(Eager!entry, k, a)
    BY <1>1, <2>2, SameCount DEF Expire, Eager!Expire, Eager!TTLCommand
  <2>3. CASE /\ present(seen(entry), k)
             /\ isExpired(setExpiry(seen(entry)[k], now, secondsToTicks(parseInt(a))), now)
             /\ Eager!Respond(Eager!deleteKey(seen(entry), k), Integer(1))
    <3>1. Eager!present(seen(database), k)
      BY <1>0, <2>3, SameTests
    <3>2. Eager!isExpired(Eager!setExpiry(seen(database)[k], now,
                                          Eager!secondsToTicks(Eager!parseInt(a))), now)
      BY <1>0, <2>3, SameStrings, SameValues
    <3>3. Eager!Respond(Eager!deleteKey(seen(database), k), Eager!Integer(1))
      BY <1>0, <2>3, SameReplies
    <3> QED BY <1>1, <3>1, <3>2, <3>3, SameCount DEF Expire, seen, Eager!ExpireExpired
  <2> QED BY <1>0, <2>1, <2>2, <2>3, cmdExpireSeen
<1>2. CASE Expireat \/ Ttl \/ Persist
  <2>1. Eager!Expireat \/ Eager!Ttl \/ Eager!Persist
    BY <1>0, <1>2, SameCount, cmdExpireatSeen, cmdTtlSeen, cmdPersistSeen
    DEF Expireat, Ttl, Persist, Eager!Expireat, Eager!Ttl, Eager!Persist
  <2> QED BY <2>1 DEF Eager!TTLCommand
<1> QED BY <1>1, <1>2 DEF TTLCommand

LEMMA ServerCommandSeen ==
  ASSUME Good(database), ServerCommand
  PROVE  Eager!ServerCommand \/ Eager!InfoCountsAtLeast
<1>0. Good(entry) /\ Eager!entry = seen(entry) /\ seen(entry) = seen(database)
  BY SameEntry
<1>1. CASE Info
  <2>1. PICK K \in SUBSET Keys :
          /\ {k \in Keys : present(seen(entry), k)} \subseteq K
          /\ Eager!Respond(seen(entry), InfoText(Cardinality(K)))
    BY <1>0, <1>1, cmdInfoSeen DEF Info
  <2>2. /\ {k \in Keys : Eager!present(seen(database), k)} \subseteq K
        /\ Eager!Respond(seen(database), Eager!InfoText(Eager!Cardinality(K)))
    BY <1>0, <2>1, SameTests, SameReplies, SameLibrary
  <2> QED BY <1>1, <2>2, SameCount DEF Info, seen, Eager!InfoCountsAtLeast
<1>2. CASE Ping \/ Echo \/ Time \/ KeysBadPattern
  <2>1. Eager!Ping \/ Eager!Echo \/ Eager!Time \/ Eager!KeysBadPattern
    BY <1>0, <1>2, SameCount, cmdReplySeen
    DEF Ping, Echo, Time, KeysBadPattern, Eager!Ping, Eager!Echo, Eager!Time,
        Eager!KeysBadPattern
  <2> QED BY <2>1 DEF Eager!ServerCommand
<1>3. CASE Flushall \/ KeysMatching \/ Dbsize
  <2>1. Eager!Flushall \/ Eager!KeysMatching \/ Eager!Dbsize
    BY <1>0, <1>3, SameCount, cmdFlushallSeen, cmdKeysSeen, cmdDbsizeSeen
    DEF Flushall, KeysMatching, Dbsize, Eager!Flushall, Eager!KeysMatching, Eager!Dbsize
  <2> QED BY <2>1 DEF Eager!ServerCommand
<1> QED BY <1>1, <1>2, <1>3 DEF ServerCommand

LEMMA NoCommandSeen ==
  ASSUME Good(database), NoCommand
  PROVE  Eager!NoCommand
<1>0. Eager!entry = seen(entry)
  BY SameEntry
<1>1. EmptyCommand => Eager!EmptyCommand
  BY SameRespond, SameReplies DEF EmptyCommand, seen, Eager!EmptyCommand
<1>2. UnknownCommand => Eager!UnknownCommand
  BY <1>0, SameCount, SameRespond, SameReplies DEF UnknownCommand, Eager!UnknownCommand
<1>3. WrongArity => Eager!WrongArity
  BY <1>0, SameCount, SameRespond, SameReplies DEF WrongArity, Eager!WrongArity
<1> QED BY <1>1, <1>2, <1>3 DEF NoCommand, Eager!NoCommand

(* When time passes the view loses the keys whose time has come: an entry  *)
(* that has expired stays expired                                          *)
LEMMA TickSeen ==
  ASSUME IInv, Tick
  PROVE  Eager!TickAndExpire
<1>1. now \in Int /\ now' = now + 1 /\ database' = database /\ Good(database)
  BY IInvGood, HandlerAssumption, DataAssumption DEF Tick
<1>2. ASSUME NEW k \in Keys, expiredIn(database, k, now)
      PROVE  expiredIn(database, k, now + 1)
  <2>1. database[k].expiry \in Int
    BY <1>1, <1>2, DataAssumption
    DEF expiredIn, Good, goodValue, isRedisValue, valuesOver, LongLong
  <2> QED BY <1>1, <1>2, <2>1 DEF expiredIn, isExpired
<1>3. cleanupExpiredKeys(database, now + 1)
        = cleanupExpiredKeys(cleanupExpiredKeys(database, now), now + 1)
  BY <1>2 DEF cleanupExpiredKeys, expiredIn, present, NoValue
<1>4. cleanupExpiredKeys(database', now')
        = Eager!cleanupExpiredKeys(cleanupExpiredKeys(database, now), now')
  BY <1>1, <1>3, SameDatabase
<1> QED BY <1>1, <1>4 DEF Tick, Eager!TickAndExpire

LEMMA NextSeen ==
  ASSUME IInv, [Next]_vars
  PROVE  [Eager!EagerNext]_(Eager!vars)
<1>1. Good(database)
  BY IInvGood
<1>2. CASE UNCHANGED vars
  BY <1>2 DEF vars, Eager!vars
<1>3. CASE Next
  BY <1>1, <1>3, StringCommandSeen, ListCommandSeen, SetCommandSeen, HashCommandSeen,
     TTLCommandSeen, ServerCommandSeen, NoCommandSeen, TickSeen
  DEF Next, Eager!EagerNext
<1> QED BY <1>2, <1>3

LEMMA InitSeen == Init => Eager!Init
<1>1. cleanupExpiredKeys(clearDatabase, 0) = clearDatabase
  BY DEF cleanupExpiredKeys, clearDatabase, expiredIn, present, NoValue
<1> QED BY <1>1, SameDatabase, SameReplies DEF Init, Eager!Init

(* Lazy expiry cannot be told from expiry on time: whatever a server with  *)
(* CommandHandler's handlers and sweeps answers and does, one that removed *)
(* every key the moment it expired could answer and do as well, but for    *)
(* the counts of DEL and INFO, which miss no live key.                     *)
THEOREM LazyIsEager == Spec => ImplementsEagerExpiry
<1> QED BY InitSeen, NextSeen, Invariant, PTL DEF Spec, ImplementsEagerExpiry, Eager!EagerSpec
===============================================================================

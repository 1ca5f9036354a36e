------------------------- MODULE CommandHandlerProofs -------------------------
(***************************************************************************)
(* Theorems about CommandHandler: for every set of keys and strings, every *)
(* width of long long, every clock and every argument list, the keyspace   *)
(* stays well typed, every value keeps its payload under its type, and a   *)
(* command changes no more of what a client sees than its action property  *)
(* allows.                                                                 *)
(*                                                                         *)
(* The inductive invariant is the first two together: a value is only      *)
(* replaced by one derived from what a lookup found, so that what a        *)
(* handler writes is good because what it read was.  Each handler has a    *)
(* lemma; what they share is that the map they start from, the map a       *)
(* lookup leaves and the values they build are all good.                   *)
(***************************************************************************)
EXTENDS CommandHandler, FiniteSetTheorems, SequenceTheorems, WellFoundedInduction, TLAPS

goodValue(v) == isRedisValue(v) /\ payloadMatchesType(v)

Good(db) ==
  /\ isDatabase(db)
  /\ \A k \in Keys : present(db, k) => goodValue(db[k])

(* What every handler is to achieve, from a good map                       *)
Outcome ==
  /\ Good(database')
  /\ now' = now
  /\ reply'.kind \in ReplyKinds

-----------------------------------------------------------------------------
(* The database operations                                                 *)

LEMMA WrapType == ASSUME NEW n \in Int PROVE Wrap(n) \in LongLong
  BY DataAssumption DEF Wrap, LongLong

LEMMA LookupGood ==
  ASSUME NEW db, Good(db), NEW k \in Keys, NEW t
  PROVE  Good(lookup(db, k, t))
  BY DEF Good, isDatabase, lookup, present, NoValue

LEMMA LookupAllGood ==
  ASSUME NEW db, Good(db), NEW K, NEW t
  PROVE  Good(lookupAll(db, K, t))
  BY DEF Good, isDatabase, lookupAll, present, NoValue

LEMMA CleanupGood ==
  ASSUME NEW db, Good(db), NEW t
  PROVE  Good(cleanupExpiredKeys(db, t))
  BY DEF Good, isDatabase, cleanupExpiredKeys, present, NoValue

LEMMA SetValueGood ==
  ASSUME NEW db, Good(db), NEW k \in Keys, NEW v, goodValue(v)
  PROVE  Good(setValue(db, k, v))
  BY DEF Good, goodValue, isDatabase, setValue, present, NoValue

LEMMA DeleteKeyGood ==
  ASSUME NEW db, Good(db), NEW k \in Keys
  PROVE  Good(deleteKey(db, k))
  BY DEF Good, isDatabase, deleteKey, present, NoValue

LEMMA ClearGood == Good(clearDatabase)
  BY DEF Good, isDatabase, clearDatabase, present, NoValue

(* An entry found by getValue is a good value                              *)
LEMMA FoundGood ==
  ASSUME NEW db, Good(db), NEW k \in Keys, present(db, k)
  PROVE  goodValue(db[k])
  BY DEF Good

LEMMA TypePresent ==
  ASSUME NEW db, NEW k, NEW t \in Types, isType(db, k, t)
  PROVE  present(db, k)
  BY DEF isType, present, Types

-----------------------------------------------------------------------------
(* The values handlers build                                               *)

LEMMA RedisValueOver ==
  ASSUME NEW F \in SUBSET Strings, NEW v \in valuesOver(F)
  PROVE  isRedisValue(v)
  BY DEF valuesOver, isRedisValue

LEMMA NewValueType ==
  ASSUME NEW t \in Types
  PROVE  NewValue(t) \in valuesOver({})
<1>1. EmptyString \in Strings
  BY DataAssumption DEF EmptyString, Strings
<1>2. NoHash \in [{} -> Strings]
  BY DEF NoHash
<1>3. 0 \in LongLong
  BY DataAssumption DEF LongLong
<1> QED BY <1>1, <1>2, <1>3 DEF NewValue, valuesOver

LEMMA StringValueGood ==
  ASSUME NEW s \in Strings
  PROVE  goodValue(StringValue(s))
<1> DEFINE v == NewValue("string")
<1>1. v \in valuesOver({})
  BY NewValueType DEF Types
<1>2. StringValue(s) \in valuesOver({})
  BY <1>1 DEF StringValue, valuesOver
<1>3. /\ StringValue(s).type = "string"
      /\ StringValue(s).list_value = <<>>
      /\ StringValue(s).set_value = {}
      /\ DOMAIN StringValue(s).hash_value = {}
  BY DEF StringValue, NewValue, NoHash
<1> QED BY <1>2, <1>3, RedisValueOver DEF goodValue, payloadMatchesType

LEMMA NumeralType == ASSUME NEW n \in LongLong PROVE toString(n) \in Strings
  BY DataAssumption DEF toString, Strings

LEMMA ParseIntType == ASSUME NEW s PROVE parseInt(s) \in LongLong
  BY DataAssumption DEF parseInt, LongLong

(* setExpiry, clearExpiry and EXPIREAT touch the deadline only             *)
LEMMA DeadlineGood ==
  ASSUME NEW v, goodValue(v), NEW e \in LongLong, NEW b \in BOOLEAN
  PROVE  goodValue([v EXCEPT !.expiry = e, !.has_expiry = b])
  BY DEF goodValue, isRedisValue, valuesOver, payloadMatchesType

LEMMA SetExpiryGood ==
  ASSUME NEW v, goodValue(v), NEW t \in Int, NEW d \in Int
  PROVE  goodValue(setExpiry(v, t, d))
<1>1. Wrap(t + d) \in LongLong
  BY WrapType
<1> QED BY <1>1, DeadlineGood DEF setExpiry

LEMMA ClearExpiryGood ==
  ASSUME NEW v, goodValue(v)
  PROVE  goodValue(clearExpiry(v))
<1>1. 0 \in LongLong
  BY DataAssumption DEF LongLong
<1> QED BY <1>1, DeadlineGood DEF clearExpiry

(* A list, set or hash changed in place, or put in an empty new value      *)
LEMMA ListGood ==
  ASSUME NEW v, goodValue(v) \/ v = NewValue("list"), v.type = "list",
         NEW l \in Seq(Strings), l # <<>>
  PROVE  goodValue([v EXCEPT !.list_value = l])
<1> DEFINE w == [v EXCEPT !.list_value = l]
<1>1. CASE goodValue(v)
  <2>1. w \in valuesOver(DOMAIN v.hash_value)
    BY <1>1 DEF goodValue, isRedisValue, valuesOver
  <2>2. payloadMatchesType(w)
    BY <1>1 DEF goodValue, payloadMatchesType, isRedisValue, valuesOver
  <2> QED BY <1>1, <2>1, <2>2, RedisValueOver DEF goodValue, isRedisValue
<1>2. CASE v = NewValue("list")
  <2>1. v \in valuesOver({})
    BY <1>2, NewValueType DEF Types
  <2>2. w \in valuesOver({})
    BY <2>1 DEF valuesOver
  <2>3. payloadMatchesType(w)
    BY <1>2 DEF payloadMatchesType, NewValue, NoHash
  <2> QED BY <2>2, <2>3, RedisValueOver DEF goodValue
<1> QED BY <1>1, <1>2

LEMMA SetGood ==
  ASSUME NEW v, goodValue(v) \/ v = NewValue("set"), v.type = "set",
         NEW S \in SUBSET Strings, S # {}
  PROVE  goodValue([v EXCEPT !.set_value = S])
<1> DEFINE w == [v EXCEPT !.set_value = S]
<1>1. CASE goodValue(v)
  <2>1. w \in valuesOver(DOMAIN v.hash_value)
    BY <1>1 DEF goodValue, isRedisValue, valuesOver
  <2>2. payloadMatchesType(w)
    BY <1>1 DEF goodValue, payloadMatchesType, isRedisValue, valuesOver
  <2> QED BY <1>1, <2>1, <2>2, RedisValueOver DEF goodValue, isRedisValue
<1>2. CASE v = NewValue("set")
  <2>1. v \in valuesOver({})
    BY <1>2, NewValueType DEF Types
  <2>2. w \in valuesOver({})
    BY <2>1 DEF valuesOver
  <2>3. payloadMatchesType(w)
    BY <1>2 DEF payloadMatchesType, NewValue, NoHash
  <2> QED BY <2>2, <2>3, RedisValueOver DEF goodValue
<1> QED BY <1>1, <1>2

LEMMA HashGood ==
  ASSUME NEW v, goodValue(v) \/ v = NewValue("hash"), v.type = "hash",
         NEW F \in SUBSET Strings, NEW h \in [F -> Strings], F # {}
  PROVE  goodValue([v EXCEPT !.hash_value = h])
<1> DEFINE w == [v EXCEPT !.hash_value = h]
<1>1. CASE goodValue(v)
  <2>1. w \in valuesOver(F)
    BY <1>1 DEF goodValue, isRedisValue, valuesOver
  <2>2. payloadMatchesType(w)
    BY <1>1 DEF goodValue, payloadMatchesType, isRedisValue, valuesOver
  <2> QED BY <1>1, <2>1, <2>2, RedisValueOver DEF goodValue, isRedisValue
<1>2. CASE v = NewValue("hash")
  <2>1. v \in valuesOver({})
    BY <1>2, NewValueType DEF Types
  <2>2. w \in valuesOver(F)
    BY <2>1 DEF valuesOver
  <2>3. payloadMatchesType(w)
    BY <1>2 DEF payloadMatchesType, NewValue, NoHash
  <2> QED BY <2>2, <2>3, RedisValueOver DEF goodValue
<1> QED BY <1>1, <1>2

LEMMA RespondGood ==
  ASSUME NEW db, Good(db), NEW r, r.kind \in ReplyKinds, Respond(db, r)
  PROVE  Outcome
  BY DEF Respond, Outcome

LEMMA ReplyKind ==
  \A x, y : /\ Simple(x).kind \in ReplyKinds
            /\ Error(x).kind \in ReplyKinds
            /\ Null.kind \in ReplyKinds
            /\ Integer(x).kind \in ReplyKinds
            /\ Bulk(x).kind \in ReplyKinds
            /\ Array(x).kind \in ReplyKinds
            /\ Elements(x).kind \in ReplyKinds
            /\ InfoText(x).kind \in ReplyKinds
            /\ TimePair(x, y).kind \in ReplyKinds
  BY DEF ReplyKinds, Simple, Error, Null, Integer, Bulk, Array, Elements, InfoText, TimePair

-----------------------------------------------------------------------------
(* String commands                                                         *)

LEMMA ProductType ==
  ASSUME NEW n \in LongLong
  PROVE  /\ Wrap(n * TicksPerSecond) \in LongLong
         /\ Wrap(n * TicksPerMillisecond) \in LongLong
<1>1. n \in Int /\ TicksPerSecond \in Int /\ TicksPerMillisecond \in Int
  BY DataAssumption DEF LongLong
<1>2. n * TicksPerSecond \in Int /\ n * TicksPerMillisecond \in Int
  BY <1>1
<1> QED BY <1>2, WrapType

LEMMA OptionTicksType == ASSUME NEW words, NEW i PROVE optionTicks(words, i) \in Int
<1>1. parseInt(words[i + 1]) \in LongLong
  BY ParseIntType
<1>2. /\ Wrap(parseInt(words[i + 1]) * TicksPerSecond) \in LongLong
      /\ Wrap(parseInt(words[i + 1]) * TicksPerMillisecond) \in LongLong
  BY <1>1, ProductType
<1>3. LongLong \subseteq Int
  BY DataAssumption DEF LongLong
<1>4. CASE optionOf(words[i]) = "EX"
  BY <1>2, <1>3, <1>4 DEF optionTicks
<1>5. CASE optionOf(words[i]) # "EX"
  BY <1>2, <1>3, <1>5 DEF optionTicks
<1> QED BY <1>4, <1>5

LEMMA ValueToSetGood ==
  ASSUME now \in Int, NEW s \in Strings, NEW words
  PROVE  goodValue(valueToSet(s, words))
<1> DEFINE timed == {i \in options(words) : optionOf(words[i]) \in {"EX", "PX"}}
           last  == CHOOSE i \in timed : \A j \in timed : j <= i
<1>1. goodValue(StringValue(s))
  BY StringValueGood
<1>2. goodValue(setExpiry(StringValue(s), now, optionTicks(words, last)))
  BY <1>1, SetExpiryGood, OptionTicksType
<1> QED BY <1>1, <1>2 DEF valueToSet

LEMMA AfterOptionsGood ==
  ASSUME NEW db, Good(db), NEW key \in Keys, NEW words, NEW n
  PROVE  Good(afterOptions(db, key, words, n))
  BY LookupGood DEF afterOptions

LEMMA cmdSetGood ==
  ASSUME NEW db, Good(db), now \in Int, NEW key \in Keys, NEW s \in Strings,
         NEW words, cmdSet(db, key, s, words)
  PROVE  Outcome
<1>1. \A n : Good(afterOptions(db, key, words, n))
  BY AfterOptionsGood
<1>2. CASE \E n \in options(words) :
             Respond(afterOptions(db, key, words, n),
                     IF takesOneWord(words[n]) THEN Null ELSE Error("not an integer"))
  BY <1>1, <1>2, RespondGood, ReplyKind
<1> DEFINE d == afterOptions(db, key, words, Len(words))
<1>3. CASE Respond(d, Error("syntax"))
  BY <1>1, <1>3, RespondGood, ReplyKind
<1>4. CASE Respond(setValue(d, key, valueToSet(s, words)), Simple("OK"))
  <2>1. Good(setValue(d, key, valueToSet(s, words)))
    BY <1>1, ValueToSetGood, SetValueGood
  <2> QED BY <1>4, <2>1, RespondGood, ReplyKind
<1> QED BY <1>2, <1>3, <1>4 DEF cmdSet

LEMMA cmdGetGood ==
  ASSUME NEW db, Good(db), NEW key \in Keys, cmdGet(db, key)
  PROVE  Outcome
  BY LookupGood, RespondGood, ReplyKind DEF cmdGet

LEMMA cmdDelGood ==
  ASSUME NEW db, Good(db), NEW keys, cmdDel(db, keys)
  PROVE  Outcome
<1>1. Good([k \in Keys |-> IF k \in ToSet(keys) THEN NoValue ELSE db[k]])
  BY DEF Good, isDatabase, present, NoValue
<1> QED BY <1>1, RespondGood, ReplyKind DEF cmdDel

LEMMA cmdExistsGood ==
  ASSUME NEW db, Good(db), NEW keys, cmdExists(db, keys)
  PROVE  Outcome
  BY LookupAllGood, RespondGood, ReplyKind DEF cmdExists

LEMMA cmdTypeGood ==
  ASSUME NEW db, Good(db), NEW key \in Keys, cmdType(db, key)
  PROVE  Outcome
  BY LookupGood, RespondGood, ReplyKind DEF cmdType

LEMMA storeTextGood ==
  ASSUME NEW db, Good(db), NEW key \in Keys, NEW s \in Strings, storeText(db, key, s)
  PROVE  Outcome
  BY StringValueGood, SetValueGood, RespondGood, ReplyKind DEF storeText

LEMMA storeNumberGood ==
  ASSUME NEW db, Good(db), NEW key \in Keys, NEW n \in LongLong, storeNumber(db, key, n)
  PROVE  Outcome
  BY NumeralType, StringValueGood, SetValueGood, RespondGood, ReplyKind DEF storeNumber

LEMMA addToGood ==
  ASSUME NEW db, Good(db), NEW key \in Keys, NEW delta \in Int, addTo(db, key, delta)
  PROVE  Outcome
<1> DEFINE d == lookup(db, key, now)
           n == parseInt(d[key].string_value)
<1>1. Good(d)
  BY LookupGood
<1>2. CASE storeNumber(d, key, Wrap(delta))
  BY <1>1, <1>2, WrapType, storeNumberGood
<1>3. CASE \E why \in {"wrong type", "not an integer"} : Respond(d, Error(why))
  BY <1>1, <1>3, RespondGood, ReplyKind
<1>4. CASE storeNumber(d, key, Wrap(n + delta))
  <2>1. n \in Int
    BY ParseIntType, DataAssumption DEF LongLong
  <2> QED BY <1>1, <1>4, <2>1, WrapType, storeNumberGood
<1> QED BY <1>2, <1>3, <1>4 DEF addTo

LEMMA cmdIncrGood ==
  ASSUME NEW db, Good(db), NEW key \in Keys,
         cmdIncr(db, key) \/ cmdDecr(db, key)
  PROVE  Outcome
  BY addToGood DEF cmdIncr, cmdDecr

LEMMA cmdIncrByGood ==
  ASSUME NEW db, Good(db), NEW key \in Keys, NEW amount,
         cmdIncrBy(db, key, amount) \/ cmdDecrBy(db, key, amount)
  PROVE  Outcome
<1>1. parseInt(amount) \in Int /\ -parseInt(amount) \in Int
  BY ParseIntType, DataAssumption DEF LongLong
<1> QED BY <1>1, addToGood, RespondGood, ReplyKind DEF cmdIncrBy, cmdDecrBy

LEMMA cmdStrlenGood ==
  ASSUME NEW db, Good(db), NEW key \in Keys, cmdStrlen(db, key)
  PROVE  Outcome
  BY LookupGood, RespondGood, ReplyKind DEF cmdStrlen

LEMMA cmdAppendGood ==
  ASSUME NEW db, Good(db), NEW key \in Keys, NEW s \in Strings, cmdAppend(db, key, s)
  PROVE  Outcome
<1> DEFINE d == lookup(db, key, now)
<1>1. Good(d)
  BY LookupGood
<1>2. CASE isType(d, key, "string") /\ storeText(d, key, Concat(d[key].string_value, s))
  <2>1. d[key].string_value \in Strings
    BY <1>1, <1>2, FoundGood, TypePresent DEF Types, goodValue, isRedisValue, valuesOver
  <2> QED BY <1>1, <1>2, <2>1, DataAssumption, storeTextGood
<1>3. CASE storeText(d, key, s)
  BY <1>1, <1>3, storeTextGood
<1> QED BY <1>2, <1>3 DEF cmdAppend

LEMMA cmdMgetGood ==
  ASSUME NEW db, Good(db), NEW keys, cmdMget(db, keys)
  PROVE  Outcome
  BY LookupAllGood, RespondGood, ReplyKind DEF cmdMget

(* A set of numbers that a number bounds has a greatest element            *)
LEMMA GreatestExists ==
  ASSUME NEW n \in Nat, NEW I \in SUBSET (1 .. n), I # {}
  PROVE  \E i \in I : \A j \in I : j <= i
<1> DEFINE T == {n - i : i \in I}
<1>1. T \subseteq Nat /\ T # {}
  <2>1. \A i \in I : n - i \in Nat
    OBVIOUS
  <2>2. PICK i \in I : TRUE
    OBVIOUS
  <2>3. n - i \in T
    OBVIOUS
  <2> QED BY <2>1, <2>3
<1>2. PICK m \in T : \A t \in T : ~ (<<t, m>> \in OpToRel(<, Nat))
  BY <1>1, NatLessThanWellFounded, WFMin
<1>3. \A t \in T : ~ (t < m)
  BY <1>1, <1>2 DEF OpToRel
<1>4. PICK i \in I : m = n - i
  OBVIOUS
<1>5. \A j \in I : j <= i
  <2> SUFFICES ASSUME NEW j \in I PROVE j <= i
    OBVIOUS
  <2>1. ~ (n - j < m)
    BY <1>3
  <2> QED BY <1>4, <2>1
<1> QED BY <1>5

(* Whichever pair wrote a key last, its second half is a string            *)
LEMMA LastWrittenType ==
  ASSUME NEW X, NEW pairs \in Seq(X \X Strings), NEW x \in firsts(pairs)
  PROVE  lastWritten(pairs, x) \in Strings
<1> DEFINE I == {i \in DOMAIN pairs : pairs[i][1] = x}
<1>1. I \in SUBSET (1 .. Len(pairs)) /\ I # {} /\ Len(pairs) \in Nat
  BY DEF firsts
<1>2. PICK i \in I : \A j \in I : j <= i
  BY <1>1, GreatestExists
<1> DEFINE P(j) == /\ pairs[j][1] = x
                   /\ \A l \in DOMAIN pairs : pairs[l][1] = x => l <= j
<1>3. i \in DOMAIN pairs /\ P(i)
  BY <1>2
<1>4. (CHOOSE j \in DOMAIN pairs : P(j)) \in DOMAIN pairs
  BY <1>3
<1> HIDE DEF P
<1>5. \A j \in DOMAIN pairs : pairs[j][2] \in Strings
  OBVIOUS
<1>6. lastWritten(pairs, x) = pairs[CHOOSE j \in DOMAIN pairs : P(j)][2]
  BY DEF lastWritten, P
<1> QED BY <1>4, <1>5, <1>6

LEMMA cmdMsetGood ==
  ASSUME NEW db, Good(db), NEW pairs \in Seq(Keys \X Strings), cmdMset(db, pairs)
  PROVE  Outcome
<1>1. \A k \in firsts(pairs) : goodValue(StringValue(lastWritten(pairs, k)))
  BY LastWrittenType, StringValueGood
<1>2. Good([k \in Keys |-> IF k \in firsts(pairs)
                           THEN StringValue(lastWritten(pairs, k))
                           ELSE db[k]])
  BY <1>1 DEF Good, goodValue, isDatabase, present
<1> QED BY <1>2, RespondGood, ReplyKind DEF cmdMset

-----------------------------------------------------------------------------
(* List commands                                                           *)

LEMMA ListValueType ==
  ASSUME NEW db, Good(db), NEW key \in Keys, isType(db, key, "list")
  PROVE  /\ goodValue(db[key])
         /\ db[key].type = "list"
         /\ db[key].list_value \in Seq(Strings)
  BY FoundGood, TypePresent DEF Types, isType, goodValue, isRedisValue, valuesOver

(* What LPUSH and RPUSH push into is a list, found or new                  *)
LEMMA ListAtType ==
  ASSUME NEW db, Good(db), NEW key \in Keys, ~isOtherType(db, key, "list")
  PROVE  /\ goodValue(listAt(db, key)) \/ listAt(db, key) = NewValue("list")
         /\ listAt(db, key).type = "list"
         /\ listAt(db, key).list_value \in Seq(Strings)
<1>1. CASE present(db, key)
  BY <1>1, ListValueType DEF listAt, isOtherType, isType
<1>2. CASE ~present(db, key)
  BY <1>2 DEF listAt, NewValue
<1> QED BY <1>1, <1>2

LEMMA PushedGood ==
  ASSUME NEW db, Good(db), NEW key \in Keys, ~isOtherType(db, key, "list"),
         NEW l \in Seq(Strings), l # <<>>, NEW r, r.kind \in ReplyKinds,
         Respond(setValue(db, key, [listAt(db, key) EXCEPT !.list_value = l]), r)
  PROVE  Outcome
<1>1. goodValue([listAt(db, key) EXCEPT !.list_value = l])
  BY ListAtType, ListGood
<1> QED BY <1>1, SetValueGood, RespondGood

LEMMA ReverseType ==
  ASSUME NEW l \in Seq(Strings), l # <<>>
  PROVE  Reverse(l) \in Seq(Strings) /\ Reverse(l) # <<>>
<1>1. \A i \in 1 .. Len(l) : (Len(l) - i) + 1 \in 1 .. Len(l)
  OBVIOUS
<1> QED BY <1>1 DEF Reverse

LEMMA cmdPushGood ==
  ASSUME NEW db, Good(db), NEW key \in Keys, NEW items \in Seq(Strings), items # <<>>,
         cmdLpush(db, key, items) \/ cmdRpush(db, key, items)
  PROVE  Outcome
<1> DEFINE d == lookup(db, key, now)
           v == listAt(d, key)
<1>1. Good(d)
  BY LookupGood
<1>2. CASE Respond(d, Error("wrong type"))
  BY <1>1, <1>2, RespondGood, ReplyKind
<1>3. CASE /\ ~isOtherType(d, key, "list")
           /\ \E l \in {Reverse(items) \o v.list_value \o <<>>, <<>> \o v.list_value \o items} :
                Respond(setValue(d, key, [v EXCEPT !.list_value = l]), Integer(Len(l)))
  <2>1. v.list_value \in Seq(Strings)
    BY <1>1, <1>3, ListAtType
  <2>2. /\ Reverse(items) \o v.list_value \o <<>> \in Seq(Strings) \ {<<>>}
        /\ <<>> \o v.list_value \o items \in Seq(Strings) \ {<<>>}
    BY <2>1, ReverseType
  <2> QED BY <1>1, <1>3, <2>2, PushedGood, ReplyKind
<1> QED BY <1>2, <1>3 DEF cmdLpush, cmdRpush, pushTo

LEMMA cmdPopGood ==
  ASSUME NEW db, Good(db), NEW key \in Keys, cmdLpop(db, key) \/ cmdRpop(db, key)
  PROVE  Outcome
<1> DEFINE d == lookup(db, key, now)
           l == d[key].list_value
<1>1. Good(d)
  BY LookupGood
<1>2. CASE Respond(d, Null)
  BY <1>1, <1>2, RespondGood, ReplyKind
<1>3. CASE \E popped : Respond(deleteKey(d, key), Bulk(popped))
  BY <1>1, <1>3, DeleteKeyGood, RespondGood, ReplyKind
<1>4. CASE /\ isType(d, key, "list") /\ l # <<>>
           /\ \E rest \in {Tail(l), Front(l)} :
                /\ rest # <<>>
                /\ \E popped : Respond(setValue(d, key, [d[key] EXCEPT !.list_value = rest]),
                                       Bulk(popped))
  <2>1. goodValue(d[key]) /\ d[key].type = "list" /\ l \in Seq(Strings)
    BY <1>1, <1>4, ListValueType
  <2>2. Tail(l) \in Seq(Strings) /\ Front(l) \in Seq(Strings)
    BY <1>4, <2>1 DEF Front
  <2>3. \A rest \in {Tail(l), Front(l)} :
          rest # <<>> => goodValue([d[key] EXCEPT !.list_value = rest])
    BY <2>1, <2>2, ListGood
  <2> QED BY <1>1, <1>4, <2>3, SetValueGood, RespondGood, ReplyKind
<1> QED BY <1>2, <1>3, <1>4 DEF cmdLpop, cmdRpop, popFrom

LEMMA cmdListReadGood ==
  ASSUME NEW db, Good(db), NEW key \in Keys, NEW a, NEW b,
         cmdLlen(db, key) \/ cmdLrange(db, key, a, b) \/ cmdLindex(db, key, a)
  PROVE  Outcome
  BY LookupGood, RespondGood, ReplyKind DEF cmdLlen, cmdLrange, cmdLindex

LEMMA cmdLsetGood ==
  ASSUME NEW db, Good(db), NEW key \in Keys, NEW index, NEW item \in Strings,
         cmdLset(db, key, index, item)
  PROVE  Outcome
<1> DEFINE d == lookup(db, key, now)
           l == d[key].list_value
           i == fromEnd(parseInt(index), Len(l))
           m == [l EXCEPT ![i + 1] = item]
<1>1. Good(d)
  BY LookupGood
<1>2. CASE \E why : Respond(db, Error(why)) \/ Respond(d, Error(why))
  BY <1>1, <1>2, RespondGood, ReplyKind
<1>3. CASE /\ isType(d, key, "list") /\ inRange(i, Len(l))
           /\ Respond(setValue(d, key, [d[key] EXCEPT !.list_value = m]), Simple("OK"))
  <2>1. goodValue(d[key]) /\ d[key].type = "list" /\ l \in Seq(Strings)
    BY <1>1, <1>3, ListValueType
  <2>2. m \in Seq(Strings)
    <3>1. i \in Int /\ i + 1 \in 1 .. Len(l)
      <4>1. parseInt(index) \in Int /\ Len(l) \in Nat
        BY <2>1, ParseIntType, DataAssumption DEF LongLong
      <4>2. i \in Int
        BY <4>1 DEF fromEnd
      <4> HIDE DEF i, l
      <4> QED BY <1>3, <4>1, <4>2 DEF inRange
    <3> QED BY <2>1, <3>1, ExceptSeq
  <2>3. l # <<>>
    BY <1>3, <2>1 DEF goodValue, payloadMatchesType
  <2>4. m # <<>>
    BY <2>1, <2>3
  <2>5. goodValue([d[key] EXCEPT !.list_value = m])
    BY <2>1, <2>2, <2>4, ListGood
  <2> QED BY <1>1, <1>3, <2>5, SetValueGood, RespondGood, ReplyKind
<1> QED BY <1>2, <1>3 DEF cmdLset

-----------------------------------------------------------------------------
(* Set commands                                                            *)

LEMMA SetValueType ==
  ASSUME NEW db, Good(db), NEW key \in Keys, isType(db, key, "set")
  PROVE  /\ goodValue(db[key])
         /\ db[key].type = "set"
         /\ db[key].set_value \in SUBSET Strings
  BY FoundGood, TypePresent DEF Types, isType, goodValue, isRedisValue, valuesOver

LEMMA ToSetType ==
  ASSUME NEW l \in Seq(Strings), l # <<>>
  PROVE  ToSet(l) \in SUBSET Strings /\ ToSet(l) # {}
<1>1. 1 \in DOMAIN l
  OBVIOUS
<1> QED BY <1>1 DEF ToSet

LEMMA cmdSaddGood ==
  ASSUME NEW db, Good(db), NEW key \in Keys, NEW members \in Seq(Strings), members # <<>>,
         cmdSadd(db, key, members)
  PROVE  Outcome
<1> DEFINE d == lookup(db, key, now)
           v == IF present(d, key) THEN d[key] ELSE NewValue("set")
           S == v.set_value \cup ToSet(members)
<1>1. Good(d)
  BY LookupGood
<1>2. CASE Respond(d, Error("wrong type"))
  BY <1>1, <1>2, RespondGood, ReplyKind
<1>3. CASE /\ ~isOtherType(d, key, "set")
           /\ \E r : /\ r.kind \in ReplyKinds
                     /\ Respond(setValue(d, key, [v EXCEPT !.set_value = S]), r)
  <2>1. /\ goodValue(v) \/ v = NewValue("set")
        /\ v.type = "set"
        /\ v.set_value \in SUBSET Strings
    <3>1. CASE present(d, key)
      BY <1>1, <1>3, <3>1, SetValueType DEF isOtherType, isType
    <3>2. CASE ~present(d, key)
      BY <3>2 DEF NewValue
    <3> QED BY <3>1, <3>2
  <2>2. S \in SUBSET Strings /\ S # {}
    BY <2>1, ToSetType
  <2>3. goodValue([v EXCEPT !.set_value = S])
    BY <2>1, <2>2, SetGood
  <2> QED BY <1>1, <1>3, <2>3, SetValueGood, RespondGood
<1>4. Integer(Cardinality(ToSet(members) \ v.set_value)).kind \in ReplyKinds
  BY ReplyKind
<1> QED BY <1>2, <1>3, <1>4 DEF cmdSadd

LEMMA withSetGood ==
  ASSUME NEW db, Good(db), NEW key \in Keys, isType(db, key, "set"),
         NEW S \in SUBSET db[key].set_value
  PROVE  Good(withSet(db, key, S))
<1>1. goodValue(db[key]) /\ db[key].type = "set" /\ S \in SUBSET Strings
  BY SetValueType
<1>2. S # {} => goodValue([db[key] EXCEPT !.set_value = S])
  BY <1>1, SetGood
<1> QED BY <1>2, DeleteKeyGood, SetValueGood DEF withSet

LEMMA cmdSremGood ==
  ASSUME NEW db, Good(db), NEW key \in Keys, NEW members, cmdSrem(db, key, members)
  PROVE  Outcome
  BY LookupGood, withSetGood, RespondGood, ReplyKind DEF cmdSrem

LEMMA cmdSpopGood ==
  ASSUME NEW db, Good(db), NEW key \in Keys, cmdSpop(db, key)
  PROVE  Outcome
  BY LookupGood, withSetGood, RespondGood, ReplyKind DEF cmdSpop

LEMMA cmdSetReadGood ==
  ASSUME NEW db, Good(db), NEW key \in Keys, NEW m,
         cmdSismember(db, key, m) \/ cmdScard(db, key) \/ cmdSmembers(db, key)
  PROVE  Outcome
  BY LookupGood, RespondGood, ReplyKind DEF cmdSismember, cmdScard, cmdSmembers

-----------------------------------------------------------------------------
(* Hash commands                                                           *)

LEMMA HashValueType ==
  ASSUME NEW db, Good(db), NEW key \in Keys, isType(db, key, "hash")
  PROVE  /\ goodValue(db[key])
         /\ db[key].type = "hash"
         /\ DOMAIN db[key].hash_value \in SUBSET Strings
         /\ db[key].hash_value \in [DOMAIN db[key].hash_value -> Strings]
  BY FoundGood, TypePresent DEF Types, isType, goodValue, isRedisValue, valuesOver

LEMMA WrittenType ==
  ASSUME NEW pairs \in Seq(Strings \X Strings), pairs # <<>>,
         NEW F \in SUBSET Strings, NEW h \in [F -> Strings]
  PROVE  /\ F \cup firsts(pairs) \in SUBSET Strings
         /\ F \cup firsts(pairs) # {}
         /\ written(h, pairs) \in [F \cup firsts(pairs) -> Strings]
<1>1. firsts(pairs) \in SUBSET Strings
  BY DEF firsts
<1>2. pairs[1][1] \in firsts(pairs)
  <2>1. 1 \in DOMAIN pairs
    OBVIOUS
  <2> QED BY <2>1 DEF firsts
<1>3. \A f \in firsts(pairs) : lastWritten(pairs, f) \in Strings
  BY LastWrittenType
<1> QED BY <1>1, <1>2, <1>3 DEF written

LEMMA cmdHsetGood ==
  ASSUME NEW db, Good(db), NEW key \in Keys,
         NEW pairs \in Seq(Strings \X Strings), pairs # <<>>,
         cmdHset(db, key, pairs)
  PROVE  Outcome
<1> DEFINE d == lookup(db, key, now)
           v == IF present(d, key) THEN d[key] ELSE NewValue("hash")
           h == written(v.hash_value, pairs)
<1>1. Good(d)
  BY LookupGood
<1>2. CASE Respond(d, Error("wrong type"))
  BY <1>1, <1>2, RespondGood, ReplyKind
<1>3. CASE /\ ~isOtherType(d, key, "hash")
           /\ \E r : /\ r.kind \in ReplyKinds
                     /\ Respond(setValue(d, key, [v EXCEPT !.hash_value = h]), r)
  <2>1. /\ goodValue(v) \/ v = NewValue("hash")
        /\ v.type = "hash"
        /\ DOMAIN v.hash_value \in SUBSET Strings
        /\ v.hash_value \in [DOMAIN v.hash_value -> Strings]
    <3>1. CASE present(d, key)
      BY <1>1, <1>3, <3>1, HashValueType DEF isOtherType, isType
    <3>2. CASE ~present(d, key)
      BY <3>2 DEF NewValue, NoHash
    <3> QED BY <3>1, <3>2
  <2>2. goodValue([v EXCEPT !.hash_value = h])
    BY <2>1, WrittenType, HashGood
  <2> QED BY <1>1, <1>3, <2>2, SetValueGood, RespondGood
<1>4. Integer(Cardinality(firsts(pairs) \ DOMAIN v.hash_value)).kind \in ReplyKinds
  BY ReplyKind
<1> QED BY <1>2, <1>3, <1>4 DEF cmdHset

LEMMA cmdHdelGood ==
  ASSUME NEW db, Good(db), NEW key \in Keys, NEW fields, cmdHdel(db, key, fields)
  PROVE  Outcome
<1> DEFINE d    == lookup(db, key, now)
           h    == d[key].hash_value
           F    == DOMAIN h \ ToSet(fields)
           kept == Restrict(h, F)
<1>1. Good(d)
  BY LookupGood
<1>2. CASE Respond(d, Integer(0))
  BY <1>1, <1>2, RespondGood, ReplyKind
<1>3. CASE \E n : Respond(deleteKey(d, key), Integer(n))
  BY <1>1, <1>3, DeleteKeyGood, RespondGood, ReplyKind
<1>4. CASE /\ isType(d, key, "hash") /\ DOMAIN kept # {}
           /\ \E n : Respond(setValue(d, key, [d[key] EXCEPT !.hash_value = kept]), Integer(n))
  <2>1. /\ goodValue(d[key]) /\ d[key].type = "hash"
        /\ DOMAIN h \in SUBSET Strings /\ h \in [DOMAIN h -> Strings]
    BY <1>1, <1>4, HashValueType
  <2>2. F \in SUBSET Strings /\ kept \in [F -> Strings] /\ F # {}
    BY <1>4, <2>1 DEF Restrict
  <2>3. goodValue([d[key] EXCEPT !.hash_value = kept])
    BY <2>1, <2>2, HashGood
  <2> QED BY <1>1, <1>4, <2>3, SetValueGood, RespondGood, ReplyKind
<1> QED BY <1>2, <1>3, <1>4 DEF cmdHdel

LEMMA cmdHashReadGood ==
  ASSUME NEW db, Good(db), NEW key \in Keys, NEW f,
         \/ cmdHget(db, key, f) \/ cmdHexists(db, key, f) \/ cmdHlen(db, key)
         \/ cmdHkeys(db, key) \/ cmdHvals(db, key) \/ cmdHgetall(db, key)
  PROVE  Outcome
  BY LookupGood, RespondGood, ReplyKind
  DEF cmdHget, cmdHexists, cmdHlen, cmdHkeys, cmdHvals, cmdHgetall, listHash

-----------------------------------------------------------------------------
(* TTL commands                                                            *)

LEMMA cmdExpireGood ==
  ASSUME NEW db, Good(db), now \in Int, NEW key \in Keys, NEW a, cmdExpire(db, key, a)
  PROVE  Outcome
<1> DEFINE d == lookup(db, key, now)
           v == setExpiry(d[key], now, secondsToTicks(parseInt(a)))
<1>1. Good(d) /\ Good(deleteKey(d, key))
  BY LookupGood, DeleteKeyGood
<1>2. secondsToTicks(parseInt(a)) \in Int
  BY ParseIntType, ProductType, DataAssumption DEF secondsToTicks, LongLong
<1>3. present(d, key) => Good(setValue(d, key, v))
  BY <1>1, <1>2, FoundGood, SetExpiryGood, SetValueGood
<1> QED BY <1>1, <1>3, RespondGood, ReplyKind DEF cmdExpire

LEMMA cmdExpireatGood ==
  ASSUME NEW db, Good(db), NEW key \in Keys, NEW a, cmdExpireat(db, key, a)
  PROVE  Outcome
<1> DEFINE d == lookup(db, key, now)
           t == secondsToTicks(parseInt(a))
           v == [d[key] EXCEPT !.expiry = t, !.has_expiry = TRUE]
<1>1. Good(d) /\ Good(deleteKey(d, key))
  BY LookupGood, DeleteKeyGood
<1>2. t \in LongLong
  BY ParseIntType, ProductType DEF secondsToTicks
<1>3. present(d, key) => Good(setValue(d, key, v))
  BY <1>1, <1>2, FoundGood, DeadlineGood, SetValueGood
<1> QED BY <1>1, <1>3, RespondGood, ReplyKind DEF cmdExpireat

LEMMA cmdTtlGood ==
  ASSUME NEW db, Good(db), NEW key \in Keys, cmdTtl(db, key)
  PROVE  Outcome
  BY LookupGood, RespondGood, ReplyKind DEF cmdTtl

LEMMA cmdPersistGood ==
  ASSUME NEW db, Good(db), NEW key \in Keys, cmdPersist(db, key)
  PROVE  Outcome
  BY LookupGood, FoundGood, ClearExpiryGood, SetValueGood, RespondGood, ReplyKind
  DEF cmdPersist

-----------------------------------------------------------------------------
(* Server commands                                                         *)

LEMMA ServerCommandGood ==
  ASSUME NEW db, Good(db), NEW x,
         \/ cmdPing(db) \/ cmdEcho(db, x) \/ cmdTime(db) \/ cmdInfo(db) \/ cmdFlushall(db)
         \/ cmdKeys(db, x) \/ cmdKeysBadPattern(db) \/ cmdDbsize(db)
  PROVE  Outcome
  BY CleanupGood, ClearGood, RespondGood, ReplyKind
  DEF cmdPing, cmdEcho, cmdTime, cmdInfo, cmdFlushall, cmdKeys, cmdKeysBadPattern, cmdDbsize

-----------------------------------------------------------------------------
(* The inductive invariant                                                 *)

IInv == TypeOK /\ PayloadMatchesType

LEMMA IInvGood == IInv <=> /\ Good(database)
                           /\ now \in 0 .. MaxNow
                           /\ reply.kind \in ReplyKinds
                           /\ processed \in 0 .. CleanupPeriod - 1
<1>1. Good(database) <=> isDatabase(database) /\ PayloadMatchesType
  BY DEF Good, goodValue, isDatabase, PayloadMatchesType, present, NoValue
<1> QED BY <1>1 DEF IInv, TypeOK

LEMMA IInvGoodNext == IInv' <=> /\ Good(database')
                                /\ now' \in 0 .. MaxNow
                                /\ reply'.kind \in ReplyKinds
                                /\ processed' \in 0 .. CleanupPeriod - 1
<1>1. Good(database') <=> isDatabase(database') /\ PayloadMatchesType'
  BY DEF Good, goodValue, isDatabase, PayloadMatchesType, present, NoValue
<1> QED BY <1>1 DEF IInv, TypeOK

LEMMA EntryGood == Good(database) => Good(entry)
  BY CleanupGood DEF entry

LEMMA CountType ==
  ASSUME processed \in 0 .. CleanupPeriod - 1, count
  PROVE  processed' \in 0 .. CleanupPeriod - 1
  BY HandlerAssumption DEF count

LEMMA InitIInv == Init => IInv
<1> SUFFICES ASSUME Init PROVE IInv
  OBVIOUS
<1>1. 0 \in 0 .. MaxNow /\ 0 \in 0 .. CleanupPeriod - 1
  BY HandlerAssumption, DataAssumption
<1> QED BY <1>1, ClearGood, ReplyKind, IInvGood DEF Init

(* A step that counts a command and whose handler achieves Outcome         *)
LEMMA CommandIInv ==
  ASSUME IInv, count, Outcome
  PROVE  IInv'
<1>1. Good(database') /\ now' \in 0 .. MaxNow /\ reply'.kind \in ReplyKinds
  BY IInvGood DEF Outcome
<1>2. processed' \in 0 .. CleanupPeriod - 1
  BY IInvGood, CountType
<1> QED BY <1>1, <1>2, IInvGoodNext

LEMMA StringCommandIInv == IInv /\ StringCommand => IInv'
<1> SUFFICES ASSUME IInv, StringCommand PROVE IInv'
  OBVIOUS
<1>1. Good(entry) /\ now \in Int
  BY IInvGood, EntryGood, HandlerAssumption, DataAssumption
<1>2. count
  BY DEF StringCommand, Set, Get, Del, Exists, Type, Incr, Decr, IncrBy, DecrBy, Strlen,
         AppendTo, Mget, Mset
<1>3. CASE Set
  BY <1>1, <1>3, cmdSetGood, ArgumentAssumption, <1>2, CommandIInv DEF Set
<1>4. CASE Get \/ Type \/ Strlen
  BY <1>1, <1>4, cmdGetGood, cmdTypeGood, cmdStrlenGood, <1>2, CommandIInv DEF Get, Type, Strlen
<1>5. CASE Del \/ Exists \/ Mget
  BY <1>1, <1>5, cmdDelGood, cmdExistsGood, cmdMgetGood, <1>2, CommandIInv DEF Del, Exists, Mget
<1>6. CASE Incr \/ Decr
  BY <1>1, <1>6, cmdIncrGood, <1>2, CommandIInv DEF Incr, Decr
<1>7. CASE IncrBy \/ DecrBy
  BY <1>1, <1>7, cmdIncrByGood, <1>2, CommandIInv DEF IncrBy, DecrBy
<1>8. CASE AppendTo
  BY <1>1, <1>8, cmdAppendGood, ArgumentAssumption, <1>2, CommandIInv DEF AppendTo
<1>9. CASE Mset
  BY <1>1, <1>9, cmdMsetGood, ArgumentAssumption, <1>2, CommandIInv DEF Mset
<1> QED BY <1>3, <1>4, <1>5, <1>6, <1>7, <1>8, <1>9 DEF StringCommand

LEMMA ListCommandIInv == IInv /\ ListCommand => IInv'
<1> SUFFICES ASSUME IInv, ListCommand PROVE IInv'
  OBVIOUS
<1>1. Good(entry)
  BY IInvGood, EntryGood
<1>2. count
  BY DEF ListCommand, Lpush, Rpush, Lpop, Rpop, Llen, Lrange, Lindex, Lset
<1>3. CASE Lpush \/ Rpush
  BY <1>1, <1>3, cmdPushGood, ArgumentAssumption, <1>2, CommandIInv DEF Lpush, Rpush
<1>4. CASE Lpop \/ Rpop
  BY <1>1, <1>4, cmdPopGood, <1>2, CommandIInv DEF Lpop, Rpop
<1>5. CASE Llen \/ Lrange \/ Lindex
  BY <1>1, <1>5, cmdListReadGood, <1>2, CommandIInv DEF Llen, Lrange, Lindex
<1>6. CASE Lset
  BY <1>1, <1>6, cmdLsetGood, ArgumentAssumption, <1>2, CommandIInv DEF Lset
<1> QED BY <1>3, <1>4, <1>5, <1>6 DEF ListCommand

LEMMA SetCommandIInv == IInv /\ SetCommand => IInv'
<1> SUFFICES ASSUME IInv, SetCommand PROVE IInv'
  OBVIOUS
<1>1. Good(entry)
  BY IInvGood, EntryGood
<1>2. count
  BY DEF SetCommand, Sadd, Srem, Sismember, Scard, Smembers, Spop
<1>3. CASE Sadd
  BY <1>1, <1>3, cmdSaddGood, ArgumentAssumption, <1>2, CommandIInv DEF Sadd
<1>4. CASE Srem \/ Spop
  BY <1>1, <1>4, cmdSremGood, cmdSpopGood, <1>2, CommandIInv DEF Srem, Spop
<1>5. CASE Sismember \/ Scard \/ Smembers
  BY <1>1, <1>5, cmdSetReadGood, <1>2, CommandIInv DEF Sismember, Scard, Smembers
<1> QED BY <1>3, <1>4, <1>5 DEF SetCommand

LEMMA HashCommandIInv == IInv /\ HashCommand => IInv'
<1> SUFFICES ASSUME IInv, HashCommand PROVE IInv'
  OBVIOUS
<1>1. Good(entry)
  BY IInvGood, EntryGood
<1>2. count
  BY DEF HashCommand, Hset, Hget, Hdel, Hexists, Hlen, Hkeys, Hvals, Hgetall
<1>3. CASE Hset
  BY <1>1, <1>3, cmdHsetGood, ArgumentAssumption, <1>2, CommandIInv DEF Hset
<1>4. CASE Hdel
  BY <1>1, <1>4, cmdHdelGood, <1>2, CommandIInv DEF Hdel
<1>5. CASE Hget \/ Hexists \/ Hlen \/ Hkeys \/ Hvals \/ Hgetall
  BY <1>1, <1>5, cmdHashReadGood, <1>2, CommandIInv DEF Hget, Hexists, Hlen, Hkeys, Hvals, Hgetall
<1> QED BY <1>3, <1>4, <1>5 DEF HashCommand

LEMMA TTLCommandIInv == IInv /\ TTLCommand => IInv'
<1> SUFFICES ASSUME IInv, TTLCommand PROVE IInv'
  OBVIOUS
<1>1. Good(entry) /\ now \in Int
  BY IInvGood, EntryGood, HandlerAssumption, DataAssumption
<1>2. count
  BY DEF TTLCommand, Expire, Expireat, Ttl, Persist
<1>3. CASE Expire \/ Expireat
  BY <1>1, <1>3, cmdExpireGood, cmdExpireatGood, <1>2, CommandIInv DEF Expire, Expireat
<1>4. CASE Ttl \/ Persist
  BY <1>1, <1>4, cmdTtlGood, cmdPersistGood, <1>2, CommandIInv DEF Ttl, Persist
<1> QED BY <1>3, <1>4 DEF TTLCommand

LEMMA ServerCommandIInv == IInv /\ ServerCommand => IInv'
<1> SUFFICES ASSUME IInv, ServerCommand PROVE IInv'
  OBVIOUS
<1>1. Good(entry)
  BY IInvGood, EntryGood
<1> QED BY <1>1, ServerCommandGood, CommandIInv
        DEF ServerCommand, Ping, Echo, Time, Info, Flushall, KeysMatching, KeysBadPattern, Dbsize

LEMMA NoCommandIInv == IInv /\ NoCommand => IInv'
<1> SUFFICES ASSUME IInv, NoCommand PROVE IInv'
  OBVIOUS
<1>1. Good(database) /\ Good(entry)
  BY IInvGood, EntryGood
<1>2. CASE EmptyCommand
  <2>1. Outcome
    BY <1>1, <1>2, RespondGood, ReplyKind DEF EmptyCommand
  <2>2. processed' = processed
    BY <1>2 DEF EmptyCommand
  <2> QED BY <2>1, <2>2, IInvGood, IInvGoodNext DEF Outcome
<1>3. CASE UnknownCommand \/ WrongArity
  BY <1>1, <1>3, RespondGood, ReplyKind, CommandIInv DEF UnknownCommand, WrongArity
<1> QED BY <1>2, <1>3 DEF NoCommand

LEMMA TickIInv == IInv /\ Tick => IInv'
<1> SUFFICES ASSUME IInv, Tick PROVE IInv'
  OBVIOUS
<1>1. now' \in 0 .. MaxNow
  BY IInvGood, HandlerAssumption, DataAssumption DEF Tick
<1>2. database' = database /\ reply' = reply /\ processed' = processed
  BY DEF Tick
<1> QED BY <1>1, <1>2, IInvGood, IInvGoodNext

(* Every command, tick and stutter preserves the inductive invariant       *)
LEMMA NextIInv == IInv /\ [Next]_vars => IInv'
<1> SUFFICES ASSUME IInv, [Next]_vars PROVE IInv'
  OBVIOUS
<1>1. CASE Next
  BY <1>1, StringCommandIInv, ListCommandIInv, SetCommandIInv, HashCommandIInv,
     TTLCommandIInv, ServerCommandIInv, NoCommandIInv, TickIInv DEF Next
<1>2. CASE UNCHANGED vars
  BY <1>2, IInvGood, IInvGoodNext DEF vars
<1> QED BY <1>1, <1>2

-----------------------------------------------------------------------------
(* Whatever commands a client sends, the map holds well-typed values only  *)
(* (the numbers in them fit a long long), and the count of commands and    *)
(* the clock stay in their ranges.                                         *)
THEOREM TypeCorrect == Spec => []TypeOK
<1>1. IInv => TypeOK
  BY DEF IInv
<1> QED BY <1>1, InitIInv, NextIInv, PTL DEF Spec

(* No sequence of commands leaves an empty list, set or hash in the map,   *)
(* or data of one type under the tag of another: the property              *)
(* PayloadMatchesType of the runs, for every value of the constants.       *)
THEOREM PayloadCorrect == Spec => []PayloadMatchesType
<1>1. IInv => PayloadMatchesType
  BY DEF IInv
<1> QED BY <1>1, InitIInv, NextIInv, PTL DEF Spec

-----------------------------------------------------------------------------
(* What a command may change in the keyspace                               *)
(*                                                                         *)
(* A client sees of the map what a sweep would leave of it.  A lookup, and *)
(* the sweep of every CleanupPeriod-th command, change nothing in this     *)
(* view; a store changes it at one key, and a store of a value made from   *)
(* the one found there keeps its type and its deadline.  Each handler gets *)
(* a lemma that says which of a few effects it has on the view.            *)

(* A key's entry in the view, before the command and after it              *)
old(db, k) == cleanupExpiredKeys(db, now)[k]

new(k) == cleanupExpiredKeys(database', now)[k]

NothingSeen(db) == cleanupExpiredKeys(database', now) = cleanupExpiredKeys(db, now)

Refuses(db) == reply'.kind \in {"error", "null"} => NothingSeen(db)

removes(db, k) == new(k) = old(db, k) \/ new(k) = NoValue

changesInPlace(db, k) ==
  \/ removes(db, k)
  \/ /\ old(db, k) # NoValue
     /\ new(k).type = old(db, k).type
     /\ deadline(new(k)) = deadline(old(db, k))

creates(db, k) == changesInPlace(db, k) \/ old(db, k) = NoValue

movesDeadline(db, k) ==
  \/ removes(db, k)
  \/ old(db, k) # NoValue /\ sameData(old(db, k), new(k))

restores(db, k) ==
  removes(db, k) \/ old(db, k) = NoValue \/ new(k).type = old(db, k).type

Leaves(db)         == now' = now /\ NothingSeen(db)
Removes(db)        == now' = now /\ Refuses(db) /\ \A k \in Keys : removes(db, k)
ChangesInPlace(db) == now' = now /\ Refuses(db) /\ \A k \in Keys : changesInPlace(db, k)
Creates(db)        == now' = now /\ Refuses(db) /\ \A k \in Keys : creates(db, k)
MovesDeadline(db)  == now' = now /\ Refuses(db) /\ \A k \in Keys : movesDeadline(db, k)
Restores(db)       == now' = now /\ Refuses(db) /\ \A k \in Keys : restores(db, k)
Overwrites(db)     == now' = now /\ Refuses(db)

-----------------------------------------------------------------------------
(* The view and the database operations                                    *)

LEMMA SeenAfterLookup ==
  ASSUME NEW db, Good(db), NEW k \in Keys, NEW t
  PROVE  /\ cleanupExpiredKeys(lookup(db, k, t), t) = cleanupExpiredKeys(db, t)
         /\ lookup(db, k, t)[k] = cleanupExpiredKeys(db, t)[k]
  BY DEF Good, isDatabase, lookup, cleanupExpiredKeys, expiredIn, present, NoValue

LEMMA SeenAfterLookupAll ==
  ASSUME NEW db, Good(db), NEW K, NEW t
  PROVE  cleanupExpiredKeys(lookupAll(db, K, t), t) = cleanupExpiredKeys(db, t)
  BY DEF Good, isDatabase, lookupAll, cleanupExpiredKeys, expiredIn, present, NoValue

LEMMA SeenAfterCleanup ==
  ASSUME NEW db, Good(db), NEW t
  PROVE  cleanupExpiredKeys(cleanupExpiredKeys(db, t), t) = cleanupExpiredKeys(db, t)
  BY DEF Good, isDatabase, cleanupExpiredKeys, expiredIn, present, NoValue

(* A store shows at the key alone, and not even there if it is too late    *)
LEMMA SeenAfterStore ==
  ASSUME NEW db, Good(db), NEW key \in Keys, NEW t, NEW v, v.type # "none"
  PROVE  LET after == cleanupExpiredKeys(setValue(db, key, v), t)
         IN  /\ \A k \in Keys \ {key} : after[k] = cleanupExpiredKeys(db, t)[k]
             /\ after[key] = IF isExpired(v, t) THEN NoValue ELSE v
  BY DEF Good, isDatabase, setValue, cleanupExpiredKeys, expiredIn, present, NoValue

LEMMA SeenAfterDelete ==
  ASSUME NEW db, Good(db), NEW key \in Keys, NEW t
  PROVE  LET after == cleanupExpiredKeys(deleteKey(db, key), t)
         IN  /\ \A k \in Keys \ {key} : after[k] = cleanupExpiredKeys(db, t)[k]
             /\ after[key] = NoValue
  BY DEF Good, isDatabase, deleteKey, cleanupExpiredKeys, expiredIn, present, NoValue

(* What a key's entry in the view is                                       *)
LEMMA AbsentIsNoValue ==
  ASSUME NEW db, Good(db), NEW k \in Keys
  PROVE  present(db, k) <=> db[k] # NoValue
<1>1. db[k] = NoValue \/ isRedisValue(db[k])
  BY DEF Good, isDatabase
<1>2. isRedisValue(db[k]) => db[k].type \in Types
  BY DEF isRedisValue, valuesOver
<1>3. NoValue.type = "none" /\ "none" \notin Types
  BY DEF NoValue, Types
<1> QED BY <1>1, <1>2, <1>3 DEF present

LEMMA SeenIsLive ==
  ASSUME NEW db, Good(db), NEW k \in Keys, NEW t
  PROVE  LET seen == cleanupExpiredKeys(db, t)[k]
         IN  /\ live(db, k, t) => seen = db[k] /\ seen # NoValue
             /\ ~live(db, k, t) => seen = NoValue
             /\ seen # NoValue => /\ live(db, k, t)
                                  /\ goodValue(seen)
                                  /\ ~isExpired(seen, t)
<1>1. cleanupExpiredKeys(db, t)[k] = IF expiredIn(db, k, t) THEN NoValue ELSE db[k]
  BY DEF cleanupExpiredKeys
<1>2. present(db, k) => goodValue(db[k])
  BY DEF Good
<1> QED BY <1>1, <1>2, AbsentIsNoValue DEF live, expiredIn

-----------------------------------------------------------------------------
(* The effects of the ways a handler ends                                  *)

LEMMA RespondLeaves ==
  ASSUME NEW db, Good(db), NEW d, cleanupExpiredKeys(d, now) = cleanupExpiredKeys(db, now),
         NEW r, Respond(d, r)
  PROVE  Leaves(db)
  BY DEF Respond, Leaves, NothingSeen

LEMMA LeavesIsWeakest ==
  ASSUME NEW db, Leaves(db)
  PROVE  /\ Removes(db) /\ ChangesInPlace(db) /\ Creates(db) /\ MovesDeadline(db)
         /\ Restores(db) /\ Overwrites(db)
  BY DEF Leaves, Removes, ChangesInPlace, Creates, MovesDeadline, Restores, Overwrites, Refuses,
         NothingSeen, removes, changesInPlace, creates, movesDeadline, restores, old, new

LEMMA RemovesIsWeaker ==
  ASSUME NEW db, Removes(db)
  PROVE  ChangesInPlace(db) /\ Creates(db) /\ MovesDeadline(db) /\ Restores(db)
  BY DEF Removes, ChangesInPlace, Creates, MovesDeadline, Restores, changesInPlace, creates,
         movesDeadline, restores

(* The key a handler has looked up is deleted                              *)
LEMMA DeleteRemoves ==
  ASSUME NEW db, Good(db), NEW key \in Keys, NEW r, r.kind \notin {"error", "null"},
         Respond(deleteKey(lookup(db, key, now), key), r)
  PROVE  Removes(db)
<1> DEFINE d == lookup(db, key, now)
<1>1. Good(d) /\ cleanupExpiredKeys(d, now) = cleanupExpiredKeys(db, now)
  BY LookupGood, SeenAfterLookup
<1>2. database' = deleteKey(d, key) /\ reply' = r /\ now' = now
  BY DEF Respond
<1>3. \A k \in Keys : removes(db, k)
  BY <1>1, <1>2, SeenAfterDelete DEF removes, old, new
<1> QED BY <1>2, <1>3 DEF Removes, Refuses

(* A value that is not too late is stored under the key looked up          *)
LEMMA StoreShows ==
  ASSUME NEW db, Good(db), NEW key \in Keys, NEW v, v.type # "none", ~isExpired(v, now), NEW r,
         Respond(setValue(lookup(db, key, now), key, v), r)
  PROVE  /\ now' = now /\ reply' = r
         /\ \A k \in Keys \ {key} : new(k) = old(db, k)
         /\ new(key) = v
         /\ old(db, key) = lookup(db, key, now)[key]
<1> DEFINE d == lookup(db, key, now)
<1>1. /\ Good(d) /\ cleanupExpiredKeys(d, now) = cleanupExpiredKeys(db, now)
      /\ d[key] = cleanupExpiredKeys(db, now)[key]
  BY LookupGood, SeenAfterLookup
<1>2. database' = setValue(d, key, v) /\ reply' = r /\ now' = now
  BY DEF Respond
<1> QED BY <1>1, <1>2, SeenAfterStore DEF old, new

(* What a value keeps when one of its containers changes                   *)
LEMMA ContainerChanged ==
  ASSUME NEW v, isRedisValue(v), NEW x, NEW w,
         \/ w = [v EXCEPT !.list_value = x]
         \/ w = [v EXCEPT !.set_value = x]
         \/ w = [v EXCEPT !.hash_value = x]
  PROVE  /\ w.type = v.type /\ w.type # "none"
         /\ deadline(w) = deadline(v)
         /\ \A t : isExpired(w, t) <=> isExpired(v, t)
  BY DEF isRedisValue, valuesOver, Types, deadline, isExpired

(* The value found, or a new one, with one of its containers changed       *)
LEMMA ContainerStored ==
  ASSUME NEW db, Good(db), NEW key \in Keys, NEW t \in Types, NEW x, NEW v, NEW w,
         v = IF present(lookup(db, key, now), key)
             THEN lookup(db, key, now)[key]
             ELSE NewValue(t),
         \/ w = [v EXCEPT !.list_value = x]
         \/ w = [v EXCEPT !.set_value = x]
         \/ w = [v EXCEPT !.hash_value = x],
         NEW r, r.kind \notin {"error", "null"},
         Respond(setValue(lookup(db, key, now), key, w), r)
  PROVE  /\ Creates(db)
         /\ present(lookup(db, key, now), key) => ChangesInPlace(db)
<1> DEFINE d == lookup(db, key, now)
<1>1. d[key] = cleanupExpiredKeys(db, now)[key]
  BY SeenAfterLookup
<1>2. isRedisValue(v) /\ ~isExpired(v, now)
  <2>1. CASE present(d, key)
    <3>1. v = d[key] /\ v # NoValue
      BY <2>1 DEF present, NoValue
    <3> QED BY <1>1, <3>1, SeenIsLive DEF goodValue
  <2>2. CASE ~present(d, key)
    <3>1. v \in valuesOver({})
      BY <2>2, NewValueType
    <3>2. ~isExpired(v, now)
      BY <2>2 DEF NewValue, isExpired
    <3> QED BY <3>1, <3>2, RedisValueOver
  <2> QED BY <2>1, <2>2
<1>3. w.type = v.type /\ w.type # "none" /\ deadline(w) = deadline(v) /\ ~isExpired(w, now)
  BY <1>2, ContainerChanged
<1>4. /\ now' = now /\ reply' = r
      /\ \A k \in Keys \ {key} : new(k) = old(db, k)
      /\ new(key) = w
      /\ old(db, key) = d[key]
  BY <1>3, StoreShows
<1>5. CASE present(d, key)
  <2>1. old(db, key) = v /\ old(db, key) # NoValue
    BY <1>4, <1>5 DEF present, NoValue
  <2>2. \A k \in Keys : changesInPlace(db, k)
    BY <1>3, <1>4, <2>1 DEF changesInPlace, removes
  <2> QED BY <1>4, <2>2 DEF ChangesInPlace, Creates, creates, Refuses
<1>6. CASE ~present(d, key)
  <2>1. old(db, key) = NoValue
    BY <1>4, <1>6, LookupGood, AbsentIsNoValue
  <2>2. \A k \in Keys : creates(db, k)
    BY <1>4, <2>1 DEF creates, changesInPlace, removes
  <2> QED BY <1>4, <1>6, <2>2 DEF Creates, Refuses
<1> QED BY <1>5, <1>6

LEMMA ReplyKindOf ==
  \A x, y : /\ Simple(x).kind = "simple"
            /\ Error(x).kind = "error"
            /\ Integer(x).kind = "integer"
            /\ Bulk(x).kind = "bulk"
  BY DEF Simple, Error, Integer, Bulk

-----------------------------------------------------------------------------
(* String commands                                                         *)

LEMMA SeenAfterOptions ==
  ASSUME NEW db, Good(db), NEW key \in Keys, NEW words, NEW n
  PROVE  cleanupExpiredKeys(afterOptions(db, key, words, n), now) = cleanupExpiredKeys(db, now)
  BY SeenAfterLookup DEF afterOptions

(* A SET that is refused has at most erased an expired entry               *)
LEMMA cmdSetEffect ==
  ASSUME NEW db, Good(db), NEW key \in Keys, NEW s,
         NEW words, cmdSet(db, key, s, words)
  PROVE  Overwrites(db)
<1>1. CASE \E n \in options(words) :
             Respond(afterOptions(db, key, words, n),
                     IF takesOneWord(words[n]) THEN Null ELSE Error("not an integer"))
  <2>1. PICK n, r : Respond(afterOptions(db, key, words, n), r)
    BY <1>1
  <2>2. Leaves(db)
    BY <2>1, SeenAfterOptions, RespondLeaves
  <2> QED BY <2>2, LeavesIsWeakest
<1> DEFINE d == afterOptions(db, key, words, Len(words))
<1>2. CASE Respond(d, Error("syntax"))
  BY <1>2, SeenAfterOptions, RespondLeaves, LeavesIsWeakest
<1>3. CASE Respond(setValue(d, key, valueToSet(s, words)), Simple("OK"))
  BY <1>3, ReplyKindOf DEF Respond, Overwrites, Refuses
<1> QED BY <1>1, <1>2, <1>3 DEF cmdSet

LEMMA StringReadEffect ==
  ASSUME NEW db, Good(db), NEW key \in Keys,
         cmdGet(db, key) \/ cmdType(db, key) \/ cmdStrlen(db, key)
  PROVE  Leaves(db)
  BY SeenAfterLookup, RespondLeaves DEF cmdGet, cmdType, cmdStrlen

LEMMA KeysReadEffect ==
  ASSUME NEW db, Good(db), NEW keys, cmdExists(db, keys) \/ cmdMget(db, keys)
  PROVE  Leaves(db)
  BY SeenAfterLookupAll, RespondLeaves DEF cmdExists, cmdMget

LEMMA cmdDelEffect ==
  ASSUME NEW db, Good(db), NEW keys, cmdDel(db, keys)
  PROVE  Removes(db)
<1> DEFINE d == [k \in Keys |-> IF k \in ToSet(keys) THEN NoValue ELSE db[k]]
<1>1. \E r : r.kind = "integer" /\ Respond(d, r)
  BY ReplyKindOf DEF cmdDel
<1>2. \A k \in Keys : \/ cleanupExpiredKeys(d, now)[k] = cleanupExpiredKeys(db, now)[k]
                       \/ cleanupExpiredKeys(d, now)[k] = NoValue
  BY DEF cleanupExpiredKeys, expiredIn, present, NoValue
<1> QED BY <1>1, <1>2 DEF Respond, Removes, Refuses, removes, old, new

(* INCR and its like store a string, under a key that held one or nothing  *)
LEMMA storeNumberEffect ==
  ASSUME NEW db, Good(db), NEW key \in Keys, NEW n,
         ~isOtherType(lookup(db, key, now), key, "string"),
         storeNumber(lookup(db, key, now), key, n)
  PROVE  Restores(db)
<1> DEFINE d == lookup(db, key, now)
           v == StringValue(toString(n))
<1>1. v.type = "string" /\ ~isExpired(v, now)
  BY DEF StringValue, NewValue, isExpired
<1>2. /\ now' = now /\ reply' = Integer(n)
      /\ \A k \in Keys \ {key} : new(k) = old(db, k)
      /\ new(key) = v
      /\ old(db, key) = d[key]
  BY <1>1, StoreShows DEF storeNumber
<1>3. old(db, key) = NoValue \/ old(db, key).type = "string"
  BY <1>2, LookupGood, AbsentIsNoValue DEF isOtherType
<1>4. \A k \in Keys : restores(db, k)
  BY <1>1, <1>2, <1>3 DEF restores, removes
<1> QED BY <1>2, <1>4, ReplyKindOf DEF Restores, Refuses

LEMMA addToEffect ==
  ASSUME NEW db, Good(db), NEW key \in Keys, NEW delta, addTo(db, key, delta)
  PROVE  Restores(db)
<1> DEFINE d == lookup(db, key, now)
<1>1. CASE \E n : ~isOtherType(d, key, "string") /\ storeNumber(d, key, n)
  BY <1>1, storeNumberEffect
<1>2. CASE \E r : Respond(d, r)
  BY <1>2, SeenAfterLookup, RespondLeaves, LeavesIsWeakest
<1> QED BY <1>1, <1>2 DEF addTo, isOtherType, isType

LEMMA cmdIncrEffect ==
  ASSUME NEW db, Good(db), NEW key \in Keys, NEW amount,
         \/ cmdIncr(db, key) \/ cmdDecr(db, key)
         \/ cmdIncrBy(db, key, amount) \/ cmdDecrBy(db, key, amount)
  PROVE  Restores(db)
  BY addToEffect, RespondLeaves, LeavesIsWeakest DEF cmdIncr, cmdDecr, cmdIncrBy, cmdDecrBy

LEMMA cmdAppendEffect ==
  ASSUME NEW db, NEW key, NEW s, cmdAppend(db, key, s)
  PROVE  Overwrites(db)
  BY ReplyKindOf DEF cmdAppend, storeText, Respond, Overwrites, Refuses

LEMMA cmdMsetEffect ==
  ASSUME NEW db, NEW pairs, cmdMset(db, pairs)
  PROVE  Overwrites(db)
  BY ReplyKindOf DEF cmdMset, Respond, Overwrites, Refuses

-----------------------------------------------------------------------------
(* List commands                                                           *)

LEMMA cmdPushEffect ==
  ASSUME NEW db, Good(db), NEW key \in Keys, NEW items, cmdLpush(db, key, items) \/ cmdRpush(db, key, items)
  PROVE  Creates(db)
<1> DEFINE d == lookup(db, key, now)
<1>1. CASE Respond(d, Error("wrong type"))
  BY <1>1, SeenAfterLookup, RespondLeaves, LeavesIsWeakest
<1>2. CASE \E l, n : Respond(setValue(d, key, [listAt(d, key) EXCEPT !.list_value = l]), Integer(n))
  BY <1>2, ContainerStored, ReplyKindOf DEF listAt, Types
<1> QED BY <1>1, <1>2 DEF cmdLpush, cmdRpush, pushTo

LEMMA cmdPopEffect ==
  ASSUME NEW db, Good(db), NEW key \in Keys, cmdLpop(db, key) \/ cmdRpop(db, key)
  PROVE  ChangesInPlace(db)
<1> DEFINE d == lookup(db, key, now)
<1>1. PICK popped, rest : popFrom(db, key, popped, rest)
  BY DEF cmdLpop, cmdRpop
<1>2. CASE Respond(d, Null)
  BY <1>2, SeenAfterLookup, RespondLeaves, LeavesIsWeakest
<1>3. CASE Respond(deleteKey(d, key), Bulk(popped))
  BY <1>3, DeleteRemoves, RemovesIsWeaker, ReplyKindOf
<1>4. CASE /\ isType(d, key, "list")
           /\ Respond(setValue(d, key, [d[key] EXCEPT !.list_value = rest]), Bulk(popped))
  <2>1. present(d, key)
    BY <1>4, TypePresent DEF Types
  <2> QED BY <1>4, <2>1, ContainerStored, ReplyKindOf DEF Types
<1> QED BY <1>1, <1>2, <1>3, <1>4 DEF popFrom

LEMMA ListReadEffect ==
  ASSUME NEW db, Good(db), NEW key \in Keys, NEW a, NEW b,
         cmdLlen(db, key) \/ cmdLrange(db, key, a, b) \/ cmdLindex(db, key, a)
  PROVE  Leaves(db)
  BY SeenAfterLookup, RespondLeaves DEF cmdLlen, cmdLrange, cmdLindex

LEMMA cmdLsetEffect ==
  ASSUME NEW db, Good(db), NEW key \in Keys, NEW a, NEW s, cmdLset(db, key, a, s)
  PROVE  ChangesInPlace(db)
<1> DEFINE d == lookup(db, key, now)
<1>1. CASE \E r : Respond(db, r) \/ Respond(d, r)
  BY <1>1, SeenAfterLookup, RespondLeaves, LeavesIsWeakest
<1>2. CASE /\ isType(d, key, "list")
           /\ \E l : Respond(setValue(d, key, [d[key] EXCEPT !.list_value = l]), Simple("OK"))
  <2>1. present(d, key)
    BY <1>2, TypePresent DEF Types
  <2> QED BY <1>2, <2>1, ContainerStored, ReplyKindOf DEF Types
<1> QED BY <1>1, <1>2 DEF cmdLset

-----------------------------------------------------------------------------
(* Set commands                                                            *)

LEMMA cmdSaddEffect ==
  ASSUME NEW db, Good(db), NEW key \in Keys, NEW members, cmdSadd(db, key, members)
  PROVE  Creates(db)
<1> DEFINE d == lookup(db, key, now)
           v == IF present(d, key) THEN d[key] ELSE NewValue("set")
<1>1. CASE Respond(d, Error("wrong type"))
  BY <1>1, SeenAfterLookup, RespondLeaves, LeavesIsWeakest
<1>2. CASE \E S, n : Respond(setValue(d, key, [v EXCEPT !.set_value = S]), Integer(n))
  BY <1>2, ContainerStored, ReplyKindOf DEF Types
<1> QED BY <1>1, <1>2 DEF cmdSadd

(* Members taken out of a set, which is deleted with its last one          *)
LEMMA withSetEffect ==
  ASSUME NEW db, Good(db), NEW key \in Keys, isType(lookup(db, key, now), key, "set"), NEW S,
         NEW r, r.kind \notin {"error", "null"},
         Respond(withSet(lookup(db, key, now), key, S), r)
  PROVE  ChangesInPlace(db)
<1> DEFINE d == lookup(db, key, now)
<1>1. present(d, key)
  BY TypePresent DEF Types
<1>2. CASE Respond(deleteKey(d, key), r)
  BY <1>2, DeleteRemoves, RemovesIsWeaker
<1>3. CASE Respond(setValue(d, key, [d[key] EXCEPT !.set_value = S]), r)
  BY <1>1, <1>3, ContainerStored DEF Types
<1> QED BY <1>2, <1>3 DEF withSet

LEMMA cmdSremEffect ==
  ASSUME NEW db, Good(db), NEW key \in Keys, NEW members,
         cmdSrem(db, key, members) \/ cmdSpop(db, key)
  PROVE  ChangesInPlace(db)
<1> DEFINE d == lookup(db, key, now)
<1>1. CASE \E r : Respond(d, r)
  BY <1>1, SeenAfterLookup, RespondLeaves, LeavesIsWeakest
<1>2. CASE \E S, x : /\ isType(d, key, "set")
                     /\ \/ Respond(withSet(d, key, S), Integer(x))
                        \/ Respond(withSet(d, key, S), Bulk(x))
  BY <1>2, withSetEffect, ReplyKindOf
<1> QED BY <1>1, <1>2 DEF cmdSrem, cmdSpop

LEMMA SetReadEffect ==
  ASSUME NEW db, Good(db), NEW key \in Keys, NEW m,
         cmdSismember(db, key, m) \/ cmdScard(db, key) \/ cmdSmembers(db, key)
  PROVE  Leaves(db)
  BY SeenAfterLookup, RespondLeaves DEF cmdSismember, cmdScard, cmdSmembers

-----------------------------------------------------------------------------
(* Hash commands                                                           *)

LEMMA cmdHsetEffect ==
  ASSUME NEW db, Good(db), NEW key \in Keys, NEW pairs, cmdHset(db, key, pairs)
  PROVE  Creates(db)
<1> DEFINE d == lookup(db, key, now)
           v == IF present(d, key) THEN d[key] ELSE NewValue("hash")
<1>1. CASE Respond(d, Error("wrong type"))
  BY <1>1, SeenAfterLookup, RespondLeaves, LeavesIsWeakest
<1>2. CASE \E h, n : Respond(setValue(d, key, [v EXCEPT !.hash_value = h]), Integer(n))
  BY <1>2, ContainerStored, ReplyKindOf DEF Types
<1> QED BY <1>1, <1>2 DEF cmdHset

LEMMA cmdHdelEffect ==
  ASSUME NEW db, Good(db), NEW key \in Keys, NEW fields, cmdHdel(db, key, fields)
  PROVE  ChangesInPlace(db)
<1> DEFINE d == lookup(db, key, now)
<1>1. CASE \E r : Respond(d, r)
  BY <1>1, SeenAfterLookup, RespondLeaves, LeavesIsWeakest
<1>2. CASE \E n : Respond(deleteKey(d, key), Integer(n))
  BY <1>2, DeleteRemoves, RemovesIsWeaker, ReplyKindOf
<1>3. CASE /\ isType(d, key, "hash")
           /\ \E h, n : Respond(setValue(d, key, [d[key] EXCEPT !.hash_value = h]), Integer(n))
  <2>1. present(d, key)
    BY <1>3, TypePresent DEF Types
  <2> QED BY <1>3, <2>1, ContainerStored, ReplyKindOf DEF Types
<1> QED BY <1>1, <1>2, <1>3 DEF cmdHdel

LEMMA HashReadEffect ==
  ASSUME NEW db, Good(db), NEW key \in Keys, NEW f,
         \/ cmdHget(db, key, f) \/ cmdHexists(db, key, f) \/ cmdHlen(db, key)
         \/ cmdHkeys(db, key) \/ cmdHvals(db, key) \/ cmdHgetall(db, key)
  PROVE  Leaves(db)
  BY SeenAfterLookup, RespondLeaves
  DEF cmdHget, cmdHexists, cmdHlen, cmdHkeys, cmdHvals, cmdHgetall, listHash

-----------------------------------------------------------------------------
(* TTL commands                                                            *)

(* The deadline of the value found becomes another, in the past perhaps    *)
LEMMA DeadlineStored ==
  ASSUME NEW db, Good(db), NEW key \in Keys, present(lookup(db, key, now), key),
         NEW e, NEW b, NEW r, r.kind \notin {"error", "null"},
         Respond(setValue(lookup(db, key, now), key,
                          [lookup(db, key, now)[key] EXCEPT !.expiry = e, !.has_expiry = b]),
                 r)
  PROVE  MovesDeadline(db)
<1> DEFINE d == lookup(db, key, now)
           v == d[key]
           w == [v EXCEPT !.expiry = e, !.has_expiry = b]
<1>1. Good(d) /\ cleanupExpiredKeys(d, now) = cleanupExpiredKeys(db, now) /\ goodValue(v)
  BY LookupGood, SeenAfterLookup, FoundGood
<1>2. w.type = v.type /\ w.type # "none" /\ sameData(v, w)
  BY <1>1 DEF goodValue, isRedisValue, valuesOver, Types, sameData, clearExpiry
<1>3. database' = setValue(d, key, w) /\ reply' = r /\ now' = now
  BY DEF Respond
<1>4. v = old(db, key) /\ v # NoValue
  BY <1>1, SeenAfterLookup, AbsentIsNoValue DEF old
<1>5. /\ \A k \in Keys \ {key} : new(k) = old(db, k)
      /\ new(key) = w \/ new(key) = NoValue
  <2> HIDE DEF v, w
  <2> QED BY <1>1, <1>2, <1>3, SeenAfterStore DEF old, new
<1>6. \A k \in Keys : movesDeadline(db, k)
  BY <1>2, <1>4, <1>5 DEF movesDeadline, removes
<1> QED BY <1>3, <1>6 DEF MovesDeadline, Refuses

LEMMA DeadlineEffect ==
  ASSUME NEW db, Good(db), NEW key \in Keys, NEW a,
         cmdExpire(db, key, a) \/ cmdExpireat(db, key, a) \/ cmdPersist(db, key)
  PROVE  MovesDeadline(db)
<1> DEFINE d == lookup(db, key, now)
<1>1. CASE \E r : Respond(db, r) \/ Respond(d, r)
  BY <1>1, SeenAfterLookup, RespondLeaves, LeavesIsWeakest
<1>2. CASE Respond(deleteKey(d, key), Integer(1))
  BY <1>2, DeleteRemoves, RemovesIsWeaker, ReplyKindOf
<1>3. CASE /\ present(d, key)
           /\ \E e, b : Respond(setValue(d, key, [d[key] EXCEPT !.expiry = e, !.has_expiry = b]),
                                Integer(1))
  BY <1>3, DeadlineStored, ReplyKindOf
<1> QED BY <1>1, <1>2, <1>3 DEF cmdExpire, cmdExpireat, cmdPersist, setExpiry, clearExpiry

LEMMA cmdTtlEffect ==
  ASSUME NEW db, Good(db), NEW key \in Keys, cmdTtl(db, key)
  PROVE  Leaves(db)
  BY SeenAfterLookup, RespondLeaves DEF cmdTtl

-----------------------------------------------------------------------------
(* Server commands                                                         *)

LEMMA ServerReadEffect ==
  ASSUME NEW db, Good(db), NEW x,
         \/ cmdPing(db) \/ cmdEcho(db, x) \/ cmdTime(db) \/ cmdInfo(db)
         \/ cmdKeys(db, x) \/ cmdKeysBadPattern(db) \/ cmdDbsize(db)
  PROVE  Leaves(db)
  BY SeenAfterCleanup, RespondLeaves
  DEF cmdPing, cmdEcho, cmdTime, cmdInfo, cmdKeys, cmdKeysBadPattern, cmdDbsize

LEMMA cmdFlushallEffect ==
  ASSUME NEW db, cmdFlushall(db)
  PROVE  Removes(db)
  BY ReplyKindOf DEF cmdFlushall, Respond, Removes, Refuses, removes, old, new, clearDatabase,
     cleanupExpiredKeys, expiredIn

-----------------------------------------------------------------------------
(* The commands, from the map the client has seen                          *)

LEMMA EntrySeen ==
  Good(database) => cleanupExpiredKeys(entry, now) = cleanupExpiredKeys(database, now)
  BY SeenAfterCleanup DEF entry

(* Which effect a command has                                              *)
Reading ==
  \/ Get \/ Exists \/ Type \/ Strlen \/ Mget \/ Llen \/ Lrange \/ Lindex
  \/ Sismember \/ Scard \/ Smembers
  \/ Hget \/ Hexists \/ Hlen \/ Hkeys \/ Hvals \/ Hgetall
  \/ Ttl \/ Ping \/ Echo \/ Time \/ Info \/ KeysMatching \/ KeysBadPattern \/ Dbsize
  \/ NoCommand

Removing    == Del \/ Flushall
Changing    == Lpop \/ Rpop \/ Lset \/ Srem \/ Spop \/ Hdel
Creating    == Lpush \/ Rpush \/ Sadd \/ Hset
Timing      == Expire \/ Expireat \/ Persist
Adding      == Incr \/ Decr \/ IncrBy \/ DecrBy
Overwriting == Set \/ Mset \/ AppendTo

LEMMA CommandsByEffect ==
  Next => \/ Reading \/ Removing \/ Changing \/ Creating \/ Timing \/ Adding \/ Overwriting
          \/ Tick
  BY DEF Next, StringCommand, ListCommand, SetCommand, HashCommand, TTLCommand, ServerCommand,
     Reading, Removing, Changing, Creating, Timing, Adding, Overwriting

(* The effect, seen from entry and so from database                        *)
LEMMA EntryIsAsGood ==
  ASSUME Good(database)
  PROVE  /\ Leaves(entry) => Leaves(database)
         /\ Removes(entry) => Removes(database)
         /\ ChangesInPlace(entry) => ChangesInPlace(database)
         /\ Creates(entry) => Creates(database)
         /\ MovesDeadline(entry) => MovesDeadline(database)
         /\ Restores(entry) => Restores(database)
         /\ Overwrites(entry) => Overwrites(database)
  BY EntrySeen
  DEF Leaves, Removes, ChangesInPlace, Creates, MovesDeadline, Restores, Overwrites, Refuses,
      NothingSeen, removes, changesInPlace, creates, movesDeadline, restores, old, new

LEMMA ReadingEffect == Good(database) /\ Reading => Leaves(database)
<1> SUFFICES ASSUME Good(database), Reading PROVE Leaves(database)
  OBVIOUS
<1>1. Good(entry)
  BY EntryGood
<1>2. CASE Get \/ Exists \/ Type \/ Strlen \/ Mget
  BY <1>1, <1>2, StringReadEffect, KeysReadEffect, EntryIsAsGood DEF Get, Exists, Type, Strlen, Mget
<1>3. CASE Llen \/ Lrange \/ Lindex
  BY <1>1, <1>3, ListReadEffect, EntryIsAsGood DEF Llen, Lrange, Lindex
<1>4. CASE Sismember \/ Scard \/ Smembers
  BY <1>1, <1>4, SetReadEffect, EntryIsAsGood DEF Sismember, Scard, Smembers
<1>5. CASE Hget \/ Hexists \/ Hlen \/ Hkeys \/ Hvals \/ Hgetall
  BY <1>1, <1>5, HashReadEffect, EntryIsAsGood DEF Hget, Hexists, Hlen, Hkeys, Hvals, Hgetall
<1>6. CASE Ttl
  BY <1>1, <1>6, cmdTtlEffect, EntryIsAsGood DEF Ttl
<1>7. CASE Ping \/ Echo \/ Time \/ Info \/ KeysMatching \/ KeysBadPattern \/ Dbsize
  BY <1>1, <1>7, ServerReadEffect, EntryIsAsGood
  DEF Ping, Echo, Time, Info, KeysMatching, KeysBadPattern, Dbsize
<1>8. CASE NoCommand
  BY <1>8, EntrySeen, RespondLeaves DEF NoCommand, EmptyCommand, UnknownCommand, WrongArity
<1> QED BY <1>2, <1>3, <1>4, <1>5, <1>6, <1>7, <1>8 DEF Reading

LEMMA RemovingEffect == Good(database) /\ Removing => Removes(database)
  BY EntryGood, cmdDelEffect, cmdFlushallEffect, EntryIsAsGood DEF Removing, Del, Flushall

LEMMA ChangingEffect == Good(database) /\ Changing => ChangesInPlace(database)
  BY EntryGood, cmdPopEffect, cmdLsetEffect, cmdSremEffect, cmdHdelEffect, EntryIsAsGood
  DEF Changing, Lpop, Rpop, Lset, Srem, Spop, Hdel

LEMMA CreatingEffect == Good(database) /\ Creating => Creates(database)
  BY EntryGood, cmdPushEffect, cmdSaddEffect, cmdHsetEffect, EntryIsAsGood
  DEF Creating, Lpush, Rpush, Sadd, Hset

LEMMA TimingEffect == Good(database) /\ Timing => MovesDeadline(database)
  BY EntryGood, DeadlineEffect, EntryIsAsGood DEF Timing, Expire, Expireat, Persist

LEMMA AddingEffect == Good(database) /\ Adding => Restores(database)
  BY EntryGood, cmdIncrEffect, EntryIsAsGood DEF Adding, Incr, Decr, IncrBy, DecrBy

LEMMA OverwritingEffect == Good(database) /\ Overwriting => Overwrites(database)
  BY EntryGood, cmdSetEffect, cmdAppendEffect, cmdMsetEffect, EntryIsAsGood
  DEF Overwriting, Set, AppendTo, Mset

-----------------------------------------------------------------------------
(* The steps the action properties speak of                                *)

(* A key in the view, before a command and after it, while the clock       *)
(* stands still                                                            *)
LEMMA SeenBeforeAndAfter ==
  ASSUME Good(database), Good(database'), now' = now, NEW k \in Keys
  PROVE  /\ live(database, k, now) <=> old(database, k) # NoValue
         /\ live(database, k, now) => old(database, k) = database[k]
         /\ live(database', k, now') <=> new(k) # NoValue
         /\ live(database', k, now') => new(k) = database'[k]
  BY SeenIsLive DEF old, new

(* The clock alone brings nothing to life and leaves the map as it is      *)
LEMMA TickKillsOnly ==
  ASSUME IInv, Tick, NEW k \in Keys
  PROVE  /\ database' = database
         /\ live(database', k, now') => live(database, k, now)
<1>1. now \in Int /\ now' = now + 1 /\ database' = database
  BY IInvGood, HandlerAssumption, DataAssumption DEF Tick
<1>2. present(database, k) => database[k].expiry \in Int
  BY IInvGood, DataAssumption DEF Good, goodValue, isRedisValue, valuesOver, LongLong
<1> QED BY <1>1, <1>2 DEF live, isExpired

LEMMA SameTypeFromData ==
  ASSUME NEW v, NEW w, isRedisValue(v), isRedisValue(w), sameData(v, w)
  PROVE  v.type = w.type
  BY DEF isRedisValue, valuesOver, sameData, clearExpiry

(* What each kind of step may do to a key                                  *)
RefusalStep ==
  reply'.kind \in {"error", "null"} /\ now' = now =>
    cleanupExpiredKeys(database', now) = cleanupExpiredKeys(database, now)

staysLive(k) == live(database, k, now) /\ live(database', k, now')

TypeStep(k) == staysLive(k) => database'[k].type = database[k].type

DeadlineStep(k) == staysLive(k) => deadline(database'[k]) = deadline(database[k])

SameDataStep(k) == staysLive(k) => sameData(database[k], database'[k])

DeathStep(k) == ~live(database, k, now) => ~live(database', k, now')

LEMMA ReadingStep ==
  ASSUME IInv, IInv', Reading \/ Tick \/ UNCHANGED vars, NEW k \in Keys
  PROVE  RefusalStep /\ TypeStep(k) /\ DeadlineStep(k) /\ DeathStep(k)
<1> USE DEF RefusalStep, TypeStep, DeadlineStep, DeathStep, staysLive
<1>1. Good(database) /\ Good(database') /\ now \in Int
  BY IInvGood, IInvGoodNext, HandlerAssumption, DataAssumption
<1>2. CASE Reading
  BY <1>1, <1>2, ReadingEffect, SeenBeforeAndAfter DEF Leaves, NothingSeen, old, new
<1>3. CASE Tick
  BY <1>1, <1>3, TickKillsOnly DEF Tick
<1>4. CASE UNCHANGED vars
  BY <1>4 DEF vars
<1> QED BY <1>2, <1>3, <1>4

LEMMA ChangingStep ==
  ASSUME IInv, IInv', Removing \/ Changing, NEW k \in Keys
  PROVE  RefusalStep /\ TypeStep(k) /\ DeadlineStep(k) /\ DeathStep(k)
<1>1. Good(database) /\ Good(database')
  BY IInvGood, IInvGoodNext
<1>2. ChangesInPlace(database)
  BY <1>1, RemovingEffect, ChangingEffect, RemovesIsWeaker
<1> QED BY <1>1, <1>2, SeenBeforeAndAfter
        DEF ChangesInPlace, Refuses, NothingSeen, changesInPlace, removes, RefusalStep, TypeStep,
            DeadlineStep, DeathStep, staysLive

LEMMA CreatingStep ==
  ASSUME IInv, IInv', Creating, NEW k \in Keys
  PROVE  RefusalStep /\ TypeStep(k) /\ DeadlineStep(k)
<1>1. Good(database) /\ Good(database') /\ Creates(database)
  BY IInvGood, IInvGoodNext, CreatingEffect
<1> QED BY <1>1, SeenBeforeAndAfter
        DEF Creates, Refuses, NothingSeen, creates, changesInPlace, removes, RefusalStep,
            TypeStep, DeadlineStep, staysLive

LEMMA TimingStep ==
  ASSUME IInv, IInv', Timing, NEW k \in Keys
  PROVE  RefusalStep /\ TypeStep(k) /\ SameDataStep(k) /\ DeathStep(k)
<1>1. Good(database) /\ Good(database') /\ MovesDeadline(database)
  BY IInvGood, IInvGoodNext, TimingEffect
<1>2. RefusalStep
  BY <1>1 DEF MovesDeadline, Refuses, NothingSeen, RefusalStep
<1>3. SameDataStep(k) /\ DeathStep(k)
  BY <1>1, SeenBeforeAndAfter
  DEF MovesDeadline, movesDeadline, removes, SameDataStep, DeathStep, staysLive, sameData
<1>4. TypeStep(k)
  <2> SUFFICES ASSUME staysLive(k) PROVE database'[k].type = database[k].type
    BY DEF TypeStep
  <2>1. isRedisValue(database[k]) /\ isRedisValue(database'[k])
    BY <1>1 DEF staysLive, live, Good, goodValue
  <2> QED BY <1>3, <2>1, SameTypeFromData DEF SameDataStep
<1> QED BY <1>2, <1>3, <1>4

LEMMA AddingStep ==
  ASSUME IInv, IInv', Adding, NEW k \in Keys
  PROVE  RefusalStep /\ TypeStep(k)
<1>1. Good(database) /\ Good(database') /\ Restores(database)
  BY IInvGood, IInvGoodNext, AddingEffect
<1> QED BY <1>1, SeenBeforeAndAfter
        DEF Restores, Refuses, NothingSeen, restores, removes, RefusalStep, TypeStep, staysLive

LEMMA OverwritingStep ==
  ASSUME IInv, Overwriting
  PROVE  RefusalStep
<1>1. Overwrites(database)
  BY IInvGood, OverwritingEffect
<1> QED BY <1>1 DEF Overwrites, Refuses, NothingSeen, RefusalStep

LEMMA Invariant == Spec => []IInv
BY InitIInv, NextIInv, PTL DEF Spec

-----------------------------------------------------------------------------
(* A command that answers with an error or with nil has had no effect a    *)
(* client can see, whatever it was and whatever it found.                  *)
THEOREM RefusalsChangeNothing == Spec => RefusalChangesNothing
<1>1. IInv /\ IInv' /\ [Next]_vars => [RefusalStep]_vars
  <2> SUFFICES ASSUME IInv, IInv', Next PROVE RefusalStep
    OBVIOUS
  <2>1. CASE \E k : k \in Keys
    BY <2>1, CommandsByEffect, ReadingStep, ChangingStep, CreatingStep, TimingStep, AddingStep,
       OverwritingStep
  <2>2. CASE Keys = {}
    BY <2>2 DEF RefusalStep, cleanupExpiredKeys
  <2> QED BY <2>1, <2>2
<1> QED BY <1>1, Invariant, NextIInv, PTL DEF Spec, RefusalChangesNothing, RefusalStep

(* No command of one type works on a value of another: a key that stays    *)
(* live keeps its type but for SET, MSET and APPEND.                       *)
THEOREM TypesAreSticky == Spec => TypeIsSticky
<1>1. IInv /\ IInv' /\ [Next]_vars =>
        [\A k \in Keys : TypeStep(k) \/ Overwriting]_vars
  BY CommandsByEffect, ReadingStep, ChangingStep, CreatingStep, TimingStep, AddingStep
<1>2. (\A k \in Keys : TypeStep(k) \/ Overwriting) =>
        \A k \in Keys :
          /\ live(database, k, now)
          /\ live(database', k, now')
          /\ database'[k].type # database[k].type
          => Set \/ Mset \/ AppendTo
  BY DEF TypeStep, staysLive, Overwriting
<1> QED BY <1>1, <1>2, Invariant, PTL DEF Spec, TypeIsSticky

(* A key that stays live keeps its deadline but for EXPIRE, EXPIREAT and   *)
(* PERSIST, which leave its data alone, and for the commands that store a  *)
(* fresh string.                                                           *)
THEOREM DeadlinesAreSticky == Spec => DeadlineIsSticky
<1>1. IInv /\ IInv' /\ [Next]_vars =>
        [\A k \in Keys : \/ DeadlineStep(k) \/ Overwriting \/ Adding
                         \/ SameDataStep(k) /\ Timing]_vars
  BY CommandsByEffect, ReadingStep, ChangingStep, CreatingStep, TimingStep
<1>2. (\A k \in Keys : \/ DeadlineStep(k) \/ Overwriting \/ Adding
                       \/ SameDataStep(k) /\ Timing) =>
        \A k \in Keys :
          /\ live(database, k, now)
          /\ live(database', k, now')
          /\ deadline(database'[k]) # deadline(database[k])
          => \/ Set \/ Mset \/ AppendTo \/ Incr \/ Decr \/ IncrBy \/ DecrBy
             \/ /\ sameData(database[k], database'[k])
                /\ Expire \/ Expireat \/ Persist
  BY DEF DeadlineStep, SameDataStep, staysLive, Overwriting, Adding, Timing
<1> QED BY <1>1, <1>2, Invariant, PTL DEF Spec, DeadlineIsSticky

(* An expired entry that is still in the map never comes back to life: a   *)
(* key that is not live becomes so only when a fresh value is stored.      *)
THEOREM ExpiredKeysStayDead == Spec => ExpiredStaysDead
<1>1. IInv /\ IInv' /\ [Next]_vars =>
        [\A k \in Keys : DeathStep(k) \/ Overwriting \/ Adding \/ Creating]_vars
  BY CommandsByEffect, ReadingStep, ChangingStep, TimingStep
<1>2. (\A k \in Keys : DeathStep(k) \/ Overwriting \/ Adding \/ Creating) =>
        \A k \in Keys :
          /\ ~live(database, k, now)
          /\ live(database', k, now')
          => \/ Set \/ Mset \/ AppendTo \/ Incr \/ Decr \/ IncrBy \/ DecrBy
             \/ Lpush \/ Rpush \/ Sadd \/ Hset
  BY DEF DeathStep, Overwriting, Adding, Creating
<1> QED BY <1>1, <1>2, Invariant, PTL DEF Spec, ExpiredStaysDead

-----------------------------------------------------------------------------
(* LRANGE against LINDEX                                                   *)

LEMMA ClampedEnds ==
  ASSUME NEW n \in Nat, NEW A \in Int, NEW B \in Int,
         NEW i \in 0 .. n - 1, A <= i, i <= B
  PROVE  LET lo == clamp(A, n)
             hi == clamp(B, n)
         IN  /\ lo \in Int /\ hi \in Int /\ 0 <= lo /\ lo <= hi /\ hi <= n - 1
             /\ \A j \in 0 .. n - 1 : A <= j /\ j <= B <=> lo <= j /\ j <= hi
  BY DEF clamp

(* A range whose ends lie in the list, as positions from 0                 *)
LEMMA RangeOfList ==
  ASSUME NEW S, NEW list \in Seq(S), NEW lo \in Int, NEW hi \in Int,
         0 <= lo, lo <= hi, hi <= Len(list) - 1
  PROVE  LET part == SubSeq(list, lo + 1, hi + 1)
         IN  /\ Len(part) = hi - lo + 1
             /\ \A i \in lo .. hi : part[i + 1 - lo] = list[i + 1]
<1>1. Len(SubSeq(list, lo + 1, hi + 1)) = hi - lo + 1
  OBVIOUS
<1>2. ASSUME NEW i \in lo .. hi
      PROVE  SubSeq(list, lo + 1, hi + 1)[i + 1 - lo] = list[i + 1]
  OBVIOUS
<1> QED BY <1>1, <1>2

LEMMA LrangeIsLindex ==
  ASSUME NEW S, NEW list \in Seq(S), NEW a \in Int, NEW b \in Int,
         indicesIn(list, a, b) # {}
  PROVE  LET I == indicesIn(list, a, b)
         IN  /\ Len(lrange(list, a, b)) = Cardinality(I)
             /\ \A i \in I :
                  lrange(list, a, b)[i + 1 - Cardinality({j \in 0 .. i - 1 : j \notin I})]
                    = list[i + 1]
<1> DEFINE I  == indicesIn(list, a, b)
           n  == Len(list)
           A  == fromEnd(a, n)
           B  == fromEnd(b, n)
           lo == clamp(A, n)
           hi == clamp(B, n)
<1>1. n \in Nat /\ A \in Int /\ B \in Int
  BY DEF fromEnd
<1>2. I = {i \in 0 .. n - 1 : A <= i /\ i <= B}
  BY DEF indicesIn
<1>3. PICK i0 \in 0 .. n - 1 : A <= i0 /\ i0 <= B
  BY <1>2
<1> HIDE DEF n, A, B, I
<1>4. /\ lo \in Int /\ hi \in Int /\ 0 <= lo /\ lo <= hi /\ hi <= n - 1
      /\ \A j \in 0 .. n - 1 : A <= j /\ j <= B <=> lo <= j /\ j <= hi
  BY <1>1, <1>3, ClampedEnds
<1>5. lrange(list, a, b) = SubSeq(list, lo + 1, hi + 1)
  <2>1. lo <= hi /\ n > 0
    BY <1>1, <1>4
  <2> QED BY <2>1 DEF lrange, n, A, B
<1> HIDE DEF lo, hi
<1>6. I = lo .. hi
  <2>1. ASSUME NEW j \in I PROVE j \in lo .. hi
    <3>1. j \in 0 .. n - 1 /\ A <= j /\ j <= B
      BY <1>2, <2>1
    <3>2. lo <= j /\ j <= hi
      BY <1>4, <3>1
    <3>3. j \in Int
      BY <1>1, <3>1
    <3> QED BY <1>4, <3>2, <3>3
  <2>2. ASSUME NEW j \in lo .. hi PROVE j \in I
    <3>1. j \in 0 .. n - 1
      BY <1>1, <1>4
    <3> QED BY <1>2, <1>4, <3>1
  <2> QED BY <2>1, <2>2
<1>7. Cardinality(I) = hi - lo + 1
  BY <1>4, <1>6, FS_Interval
<1>8. /\ Len(lrange(list, a, b)) = hi - lo + 1
      /\ \A i \in lo .. hi : lrange(list, a, b)[i + 1 - lo] = list[i + 1]
  BY <1>4, <1>5, RangeOfList DEF n
<1>9. ASSUME NEW i \in I
      PROVE  Cardinality({j \in 0 .. i - 1 : j \notin I}) = lo
  <2>1. {j \in 0 .. i - 1 : j \notin I} = 0 .. lo - 1
    BY <1>4, <1>6
  <2>2. Cardinality(0 .. lo - 1) = lo
    BY <1>4, FS_Interval
  <2> QED BY <2>1, <2>2
<1>10. Len(lrange(list, a, b)) = Cardinality(I)
  BY <1>7, <1>8
<1>11. ASSUME NEW i \in I
       PROVE  lrange(list, a, b)[i + 1 - Cardinality({j \in 0 .. i - 1 : j \notin I})]
                = list[i + 1]
  BY <1>6, <1>8, <1>9
<1> QED BY <1>10, <1>11 DEF I

(* No position lies between the ends: once both are clamped they coincide, *)
(* if they do not cross.                                                   *)
LEMMA LrangeMisses ==
  ASSUME NEW S, NEW list \in Seq(S), NEW a \in Int, NEW b \in Int,
         indicesIn(list, a, b) = {}
  PROVE  Len(lrange(list, a, b)) <= 1
<1> DEFINE n  == Len(list)
           A  == fromEnd(a, n)
           B  == fromEnd(b, n)
           lo == clamp(A, n)
           hi == clamp(B, n)
<1>1. n \in Nat /\ A \in Int /\ B \in Int
  BY DEF fromEnd
<1>2. \A i \in 0 .. n - 1 : ~(A <= i /\ i <= B)
  BY DEF indicesIn
<1>3. CASE lo <= hi /\ n > 0
  <2>1. lrange(list, a, b) = SubSeq(list, lo + 1, hi + 1)
    BY <1>3 DEF lrange
  <2> HIDE DEF n, A, B
  <2>2. lo \in 0 .. n - 1 /\ hi \in 0 .. n - 1 /\ lo = hi
    BY <1>1, <1>2, <1>3 DEF clamp
  <2> HIDE DEF lo, hi
  <2>3. lo \in Int /\ hi \in Int /\ 0 <= lo /\ lo <= hi /\ hi <= Len(list) - 1
    BY <1>1, <2>2 DEF n
  <2>4. Len(lrange(list, a, b)) = hi - lo + 1
    BY <2>1, <2>3, RangeOfList
  <2> QED BY <2>2, <2>3, <2>4
<1>4. CASE ~(lo <= hi /\ n > 0)
  <2>1. lrange(list, a, b) = <<>>
    BY <1>4 DEF lrange
  <2> QED BY <2>1
<1> QED BY <1>3, <1>4

(* A range that meets a stored list, of any length and with ends as far    *)
(* outside it as may be, is answered with the elements LINDEX gives for    *)
(* its positions, in order and none left out; one that misses it, with one *)
(* element at the most.                                                    *)
THEOREM RangesAgree == Spec => []LrangeAgreesWithLindex
<1>1. IInv => LrangeAgreesWithLindex
  <2> SUFFICES ASSUME IInv, NEW k \in Keys, isType(database, k, "list"),
                      NEW a \in around(database[k].list_value),
                      NEW b \in around(database[k].list_value)
               PROVE  LET list == database[k].list_value
                          I    == indicesIn(list, a, b)
                      IN  /\ I # {} => Len(lrange(list, a, b)) = Cardinality(I)
                          /\ I = {} => Len(lrange(list, a, b)) <= 1
                          /\ \A i \in I :
                               lrange(list, a, b)[i + 1 - Cardinality({j \in 0 .. i - 1 : j \notin I})]
                                 = list[i + 1]
    BY DEF LrangeAgreesWithLindex
  <2>1. database[k].list_value \in Seq(Strings)
    BY IInvGood, FoundGood, TypePresent DEF Types, goodValue, isRedisValue, valuesOver
  <2>2. a \in Int /\ b \in Int
    BY <2>1 DEF around
  <2> QED BY <2>1, <2>2, LrangeIsLindex, LrangeMisses
<1> QED BY <1>1, Invariant, PTL
===============================================================================

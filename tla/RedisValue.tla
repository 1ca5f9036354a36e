------------------------------ MODULE RedisValue ------------------------------
(***************************************************************************)
(* The data a CppRedis server keeps: the struct RedisValue of              *)
(* redis/database/redis_value.h, the strings clients send, the conversions *)
(* between strings and 64-bit integers (utils/utility_functions.cpp) and   *)
(* the arithmetic of the clock that expiry times are computed with.        *)
(*                                                                         *)
(* A string is either a numeral <<"num", n>>, the decimal text of an       *)
(* integer n of ANY size, or some other text <<"txt", t>>.  Two spellings  *)
(* of one integer ("7", "+7", "007") are the same numeral: no property     *)
(* tells them apart.                                                       *)
(***************************************************************************)
EXTENDS Integers, Sequences, FiniteSets

CONSTANTS
  Keys,             \* the keys clients use
  Texts,            \* names for the strings that are not integers
  EmptyText,        \* the one of them that names the empty string
  Numbers,          \* the integers that occur as numerals, of any size
  Concat(_, _),     \* std::string operator+, on the strings of this model
  Length(_),        \* std::string::length
  LLMax,            \* largest long long (2^63 - 1 in the build)
  TicksPerSecond,   \* clock ticks in a second (10^9: system_clock counts ns)
  TicksPerMillisecond

LongLong == -(LLMax + 1) .. LLMax

Strings == ({"num"} \X Numbers) \cup ({"txt"} \X Texts)

EmptyString == <<"txt", EmptyText>>

ASSUME DataAssumption ==
  /\ LLMax \in Nat
  /\ TicksPerSecond \in Nat \ {0}
  /\ TicksPerMillisecond \in Nat \ {0}
  /\ Numbers \subseteq Int
  /\ LongLong \subseteq Numbers
  /\ EmptyText \in Texts
  /\ \A s, t \in Strings : Concat(s, t) \in Strings
  /\ \A s \in Strings : Length(s) \in Nat

(* Two's-complement wrap-around, which is what the build makes of a signed *)
(* overflow in long long and in the 64-bit count of a std::chrono duration *)
Wrap(n) == ((n + LLMax + 1) % (2 * (LLMax + 1))) - (LLMax + 1)

-----------------------------------------------------------------------------
(* UtilityFunctions::isInteger accepts digits of any length, so it does    *)
(* not bound the value; parseInt (std::stoll) turns an integer that does   *)
(* not fit a long long, and anything else it cannot read, into 0.          *)

isInteger(s) == s[1] = "num"

parseInt(s) == IF isInteger(s) /\ s[2] \in LongLong THEN s[2] ELSE 0

toString(n) == <<"num", n>>      \* std::to_string

-----------------------------------------------------------------------------
(* struct RedisValue.  The enum also names ZSET and STREAM, which no       *)
(* command ever creates.  expiry is meaningful only under has_expiry and   *)
(* is reset to 0 when has_expiry is cleared.                               *)

Types == {"string", "list", "set", "hash"}

(* The values whose hash has the fields F                                  *)
valuesOver(F) ==
  [type         : Types,
   string_value : Strings,
   list_value   : Seq(Strings),
   set_value    : SUBSET Strings,
   hash_value   : [F -> Strings],
   has_expiry   : BOOLEAN,
   expiry       : LongLong]

isRedisValue(v) ==
  LET F == DOMAIN v.hash_value IN F \subseteq Strings /\ v \in valuesOver(F)

NoHash == [f \in {} |-> EmptyString]

NewValue(t) ==                                 \* RedisValue(RedisType t)
  [type         |-> t,
   string_value |-> EmptyString,
   list_value   |-> <<>>,
   set_value    |-> {},
   hash_value   |-> NoHash,
   has_expiry   |-> FALSE,
   expiry       |-> 0]

StringValue(s) ==                              \* RedisValue(const std::string&)
  [NewValue("string") EXCEPT !.string_value = s]

isExpired(v, now) == v.has_expiry /\ now >= v.expiry

(* expiry = now + ttl: the conversion of the ttl to clock ticks and the    *)
(* addition both overflow silently.  The code converts seconds by way of   *)
(* milliseconds; wrapping once or twice is the same.                       *)
setExpiry(v, now, ticks) ==
  [v EXCEPT !.expiry = Wrap(now + ticks), !.has_expiry = TRUE]

clearExpiry(v) == [v EXCEPT !.expiry = 0, !.has_expiry = FALSE]
===============================================================================

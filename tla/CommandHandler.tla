---------------------------- MODULE CommandHandler ----------------------------
(***************************************************************************)
(* class CommandHandler (redis/command_handler.cpp): the command table and *)
(* processCommand, driven by one client.  One action per command; a step   *)
(* is the whole of processCommand, that is the count of commands, the      *)
(* periodic sweep of expired keys, and the handler.                        *)
(*                                                                         *)
(* This is what the server does for a single connection, and what it means *)
(* a command to do.  Handlers of several connections that run at the same  *)
(* time are not looked at here.                                            *)
(***************************************************************************)
EXTENDS StringCommands, ListCommands, SetCommands, HashCommands, TTLCommands,
        ServerCommands

CONSTANTS
  CleanupPeriod,    \* sweep every so many commands (100 in the code)
  MaxNow,           \* bound: the clock stops here
  MaxListLength     \* bound: no list grows longer than this

ASSUME HandlerAssumption ==
  /\ CleanupPeriod \in Nat \ {0}
  /\ MaxNow \in 0 .. LLMax
  /\ MaxListLength \in Nat

VARIABLE
  processed         \* total_commands_processed % CleanupPeriod

vars == <<database, now, reply, processed>>

Init ==
  /\ database = clearDatabase
  /\ now = 0
  /\ reply = Null
  /\ processed = 0

(* processCommand(args), around the handler: entry is the map the handler  *)
(* finds.                                                                  *)
count == processed' = (processed + 1) % CleanupPeriod

entry ==
  IF (processed + 1) % CleanupPeriod = 0
  THEN cleanupExpiredKeys(database, now)
  ELSE database

-----------------------------------------------------------------------------
(* String commands                                                         *)

Set ==
  /\ count
  /\ \E k \in Keys, s \in Values, words \in SetWordLists : cmdSet(entry, k, s, words)

Get    == count /\ \E k \in Keys : cmdGet(entry, k)
Del    == count /\ \E l \in KeyLists : cmdDel(entry, l)
Exists == count /\ \E l \in KeyLists : cmdExists(entry, l)
Type   == count /\ \E k \in Keys : cmdType(entry, k)
Incr   == count /\ \E k \in Keys : cmdIncr(entry, k)
Decr   == count /\ \E k \in Keys : cmdDecr(entry, k)
IncrBy == count /\ \E k \in Keys, a \in Amounts : cmdIncrBy(entry, k, a)
DecrBy == count /\ \E k \in Keys, a \in Amounts : cmdDecrBy(entry, k, a)
Strlen == count /\ \E k \in Keys : cmdStrlen(entry, k)
AppendTo == count /\ \E k \in Keys, s \in Values : cmdAppend(entry, k, s)
Mget   == count /\ \E l \in KeyLists : cmdMget(entry, l)
Mset   == count /\ \E l \in KeyValueLists : cmdMset(entry, l)

(* List commands                                                           *)

roomFor(k, items) ==
  isType(database, k, "list") => Len(database[k].list_value) + Len(items) <= MaxListLength

Lpush ==
  /\ count
  /\ \E k \in Keys, l \in ValueLists : roomFor(k, l) /\ cmdLpush(entry, k, l)
Rpush ==
  /\ count
  /\ \E k \in Keys, l \in ValueLists : roomFor(k, l) /\ cmdRpush(entry, k, l)
Lpop   == count /\ \E k \in Keys : cmdLpop(entry, k)
Rpop   == count /\ \E k \in Keys : cmdRpop(entry, k)
Llen   == count /\ \E k \in Keys : cmdLlen(entry, k)
Lrange == count /\ \E k \in Keys, a, b \in Amounts : cmdLrange(entry, k, a, b)
Lindex == count /\ \E k \in Keys, a \in Amounts : cmdLindex(entry, k, a)
Lset   == count /\ \E k \in Keys, a \in Amounts, s \in Values : cmdLset(entry, k, a, s)

(* Set commands                                                            *)

Sadd      == count /\ \E k \in Keys, l \in ValueLists : cmdSadd(entry, k, l)
Srem      == count /\ \E k \in Keys, l \in ValueLists : cmdSrem(entry, k, l)
Sismember == count /\ \E k \in Keys, s \in Values : cmdSismember(entry, k, s)
Scard     == count /\ \E k \in Keys : cmdScard(entry, k)
Smembers  == count /\ \E k \in Keys : cmdSmembers(entry, k)
Spop      == count /\ \E k \in Keys : cmdSpop(entry, k)

(* Hash commands                                                           *)

Hset    == count /\ \E k \in Keys, l \in FieldLists : cmdHset(entry, k, l)
Hget    == count /\ \E k \in Keys, s \in Values : cmdHget(entry, k, s)
Hdel    == count /\ \E k \in Keys, l \in ValueLists : cmdHdel(entry, k, l)
Hexists == count /\ \E k \in Keys, s \in Values : cmdHexists(entry, k, s)
Hlen    == count /\ \E k \in Keys : cmdHlen(entry, k)
Hkeys   == count /\ \E k \in Keys : cmdHkeys(entry, k)
Hvals   == count /\ \E k \in Keys : cmdHvals(entry, k)
Hgetall == count /\ \E k \in Keys : cmdHgetall(entry, k)

(* TTL commands                                                            *)

Expire   == count /\ \E k \in Keys, a \in Amounts : cmdExpire(entry, k, a)
Expireat == count /\ \E k \in Keys, a \in Amounts : cmdExpireat(entry, k, a)
Ttl      == count /\ \E k \in Keys : cmdTtl(entry, k)
Persist  == count /\ \E k \in Keys : cmdPersist(entry, k)

(* Server commands                                                         *)

Ping     == count /\ cmdPing(entry)
Echo     == count /\ \E s \in Values : cmdEcho(entry, s)
Time     == count /\ cmdTime(entry)
Info     == count /\ cmdInfo(entry)
Flushall == count /\ cmdFlushall(entry)
KeysMatching   == count /\ \E m \in SUBSET Keys : cmdKeys(entry, m)
KeysBadPattern == count /\ cmdKeysBadPattern(entry)
Dbsize   == count /\ cmdDbsize(entry)

-----------------------------------------------------------------------------
(* The paths of processCommand that reach no handler                       *)

EmptyCommand ==
  Respond(database, Error("empty command")) /\ UNCHANGED processed

UnknownCommand == count /\ Respond(entry, Error("unknown command"))

(* The check of the number of arguments, which every handler but that of   *)
(* INFO begins with: wherever it fails, this is all the command does.      *)
WrongArity == count /\ Respond(entry, Error("wrong number of arguments"))

(* The system clock                                                        *)
Tick ==
  /\ now < MaxNow
  /\ now' = now + 1
  /\ UNCHANGED <<database, reply, processed>>

StringCommand ==
  \/ Set \/ Get \/ Del \/ Exists \/ Type \/ Incr \/ Decr \/ IncrBy \/ DecrBy
  \/ Strlen \/ AppendTo \/ Mget \/ Mset

ListCommand ==
  Lpush \/ Rpush \/ Lpop \/ Rpop \/ Llen \/ Lrange \/ Lindex \/ Lset

SetCommand == Sadd \/ Srem \/ Sismember \/ Scard \/ Smembers \/ Spop

HashCommand ==
  Hset \/ Hget \/ Hdel \/ Hexists \/ Hlen \/ Hkeys \/ Hvals \/ Hgetall

TTLCommand == Expire \/ Expireat \/ Ttl \/ Persist

ServerCommand ==
  \/ Ping \/ Echo \/ Time \/ Info \/ Flushall \/ KeysMatching \/ KeysBadPattern
  \/ Dbsize

NoCommand == EmptyCommand \/ UnknownCommand \/ WrongArity

Next ==
  \/ StringCommand \/ ListCommand \/ SetCommand \/ HashCommand \/ TTLCommand
  \/ ServerCommand \/ NoCommand \/ Tick

Spec == Init /\ [][Next]_vars

-----------------------------------------------------------------------------
(* Types: a reply's kind is one of RESPFormatter's; its value is not typed *)
TypeOK ==
  /\ isDatabase(database)
  /\ now \in 0 .. MaxNow
  /\ reply.kind \in ReplyKinds
  /\ processed \in 0 .. CleanupPeriod - 1

(* A RedisValue has a container per type, and only its type says which one *)
(* counts.  Whatever commands ran, the others are empty, and a list, set   *)
(* or hash that is stored has an element: LPOP, RPOP, SREM, SPOP and HDEL  *)
(* delete the key with its last element, LPUSH, SADD and HSET never leave  *)
(* the empty value they first store.                                       *)
payloadMatchesType(v) ==
  /\ v.type # "string" => v.string_value = EmptyString
  /\ v.type = "list" <=> v.list_value # <<>>
  /\ v.type = "set" <=> v.set_value # {}
  /\ v.type = "hash" <=> DOMAIN v.hash_value # {}

PayloadMatchesType ==
  \A k \in Keys : present(database, k) => payloadMatchesType(database[k])

(* What a client can see of the keyspace at time t                         *)
live(db, k, t) == present(db, k) /\ ~isExpired(db[k], t)

(* A command that answers with an error or with nil has had no effect a    *)
(* client can see: every check of every handler comes before its first     *)
(* store, in a SET with several options as well.                           *)
RefusalChangesNothing ==
  [][reply'.kind \in {"error", "null"} /\ now' = now =>
       cleanupExpiredKeys(database', now) = cleanupExpiredKeys(database, now)]_vars

(* SET means what its words say.  Every word after the value is an option, *)
(* except the word that follows one other than NX and XX, which belongs to *)
(* that option.  A SET in which no option is left without its word, no     *)
(* time is anything but an integer, and NX and XX agree with what the      *)
(* client can see of the key, stores the value with the last time given;   *)
(* any other SET has no effect the client can see, and only the first kind *)
(* is answered with OK.                                                    *)
isReading(words, O) ==
  \A i \in DOMAIN words : i \in O <=> (i - 1 \in O => takesOneWord(words[i - 1]))

timesIn(words, O) == {i \in O : optionOf(words[i]) \in {"EX", "PX"}}

unitOf(word) == IF optionOf(word) = "EX" THEN TicksPerSecond ELSE TicksPerMillisecond

holds(k, words, O) ==
  /\ Len(words) \notin O
  /\ \A i \in timesIn(words, O) : isInteger(words[i + 1])
  /\ \A i \in O : /\ optionOf(words[i]) = "NX" => ~live(database, k, now)
                  /\ optionOf(words[i]) = "XX" => live(database, k, now)

SetMeansItsOptions ==
  [][\A k \in Keys, s \in Values, words \in SetWordLists :
       count /\ cmdSet(entry, k, s, words) =>
         \E O \in SUBSET DOMAIN words :
           /\ isReading(words, O)
           /\ reply' = Simple("OK") <=> holds(k, words, O)
           /\ IF holds(k, words, O)
              THEN /\ database'[k].type = "string"
                   /\ database'[k].string_value = s
                   /\ database'[k].has_expiry <=> timesIn(words, O) # {}
                   /\ \A i \in timesIn(words, O) :
                        \/ \E j \in timesIn(words, O) : j > i
                        \/ database'[k].expiry =
                             Wrap(now + parseInt(words[i + 1]) * unitOf(words[i]))
              ELSE cleanupExpiredKeys(database', now) = cleanupExpiredKeys(database, now)]_vars

(* A key that stays live keeps its type, unless it is overwritten by SET,  *)
(* MSET or APPEND (the last of which overwrites any other type): no        *)
(* command of one type works on a value of another.                        *)
TypeIsSticky ==
  [][\A k \in Keys :
       /\ live(database, k, now)
       /\ live(database', k, now')
       /\ database'[k].type # database[k].type
       => Set \/ Mset \/ AppendTo]_vars

(* A key that stays live keeps its deadline, unless EXPIRE, EXPIREAT or    *)
(* PERSIST moves it and leaves the data alone, or one of the commands that *)
(* store a fresh value forgets it.  Commands that change a list, set or    *)
(* hash in place therefore never lengthen or shorten its life.             *)
deadline(v) == <<v.has_expiry, v.expiry>>

sameData(v, w) == clearExpiry(v) = clearExpiry(w)

DeadlineIsSticky ==
  [][\A k \in Keys :
       /\ live(database, k, now)
       /\ live(database', k, now')
       /\ deadline(database'[k]) # deadline(database[k])
       => \/ Set \/ Mset \/ AppendTo \/ Incr \/ Decr \/ IncrBy \/ DecrBy
          \/ /\ sameData(database[k], database'[k])
             /\ Expire \/ Expireat \/ Persist]_vars

(* A key that is not live comes to life only by a command that stores a    *)
(* fresh value: no other finds the entry of an expired key and gives it a  *)
(* new deadline or none, though the entry may still be in the map.         *)
ExpiredStaysDead ==
  [][\A k \in Keys :
       /\ ~live(database, k, now)
       /\ live(database', k, now')
       => \/ Set \/ Mset \/ AppendTo \/ Incr \/ Decr \/ IncrBy \/ DecrBy
          \/ Lpush \/ Rpush \/ Sadd \/ Hset]_vars

(* LRANGE against LINDEX: a range that meets the list is answered with the *)
(* elements LINDEX gives for the positions in it, in order; one that       *)
(* misses it, crossed or wholly outside, with one element at the most.     *)
indicesIn(list, a, b) ==
  {i \in 0 .. Len(list) - 1 :
     fromEnd(a, Len(list)) <= i /\ i <= fromEnd(b, Len(list))}

around(list) == -(Len(list) + 2) .. Len(list) + 2

LrangeAgreesWithLindex ==
  \A k \in Keys : isType(database, k, "list") =>
    LET list == database[k].list_value
    IN  \A a, b \in around(list) :
          LET I == indicesIn(list, a, b)
          IN  /\ I # {} => Len(lrange(list, a, b)) = Cardinality(I)
              /\ I = {} => Len(lrange(list, a, b)) <= 1
              /\ \A i \in I :
                   lrange(list, a, b)[i + 1 - Cardinality({j \in 0 .. i - 1 : j \notin I})]
                     = list[i + 1]
===============================================================================

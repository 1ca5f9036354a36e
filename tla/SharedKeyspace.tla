---------------------------- MODULE SharedKeyspace ----------------------------
(***************************************************************************)
(* processCommand (redis/command_handler.cpp) in several threads at once,  *)
(* one per connection, on one RedisDatabase.  Each member function of the  *)
(* database holds db_mutex from its first line to its last, so it is one   *)
(* step here; what a handler does between two of them is one step for each *)
(* time it uses the pointer getValue has returned.                         *)
(*                                                                         *)
(* There is a command of every shape the handlers have: SET, SETNX (SET    *)
(* key value NX EX 1), DEL, FLUSHALL, GET, INCR, LPUSH, LPOP, EXPIRE, TTL  *)
(* and PERSIST.  The others take the same steps: RPUSH, SADD and HSET are  *)
(* like LPUSH, RPOP, SREM, SPOP and HDEL like LPOP, DECR and APPEND like   *)
(* INCR, EXPIREAT like EXPIRE, those that only read like GET.              *)
(***************************************************************************)
EXTENDS Commands

CONSTANTS
  Threads,
  KeysOf,           \* the keys the client of each thread uses
  Offered,          \* the commands clients send
  CleanupPeriod,    \* sweep every so many commands (100 in the code)
  MaxNow,           \* bound: the clock stops here
  MaxListLength     \* bound: clients push no more to a list that long

Ops ==
  {"SET", "SETNX", "DEL", "FLUSHALL", "GET", "INCR", "LPUSH", "LPOP", "EXPIRE", "TTL", "PERSIST"}

ASSUME SharedAssumption ==
  /\ KeysOf \in [Threads -> SUBSET Keys]
  /\ Offered \subseteq Ops
  /\ CleanupPeriod \in Nat \ {0}
  /\ MaxNow \in 0 .. LLMax
  /\ MaxListLength \in Nat

VARIABLES
  total,            \* total_commands_processed % CleanupPeriod
  place,            \* where each thread is in processCommand
  task,             \* its command
  loaded,           \* the count of commands as it has read it
  pointer,          \* what getValue has returned: "null", "entry" (the key's
                    \* entry in the map) or "dangling" (an entry since erased)
  local,            \* the value its handler has read or made, a number or an
                    \* element being a string value
  undefined         \* a pointer was used that does not point at what it should:
                    \* the program's behaviour is undefined from here on

threadVars == <<place, task, loaded, pointer, local>>
vars == <<database, now, reply, total, threadVars, undefined>>

NoTask == [op |-> "none", key |-> "none", arg |-> EmptyString]

Blank == NewValue("string")

argsOf(op) ==
  CASE op \in {"SET", "SETNX", "LPUSH"} -> Values
    [] op = "EXPIRE" -> {a \in Amounts : isInteger(a)}
    [] OTHER -> {EmptyString}

requests(t) ==
  UNION {[op : {op}, key : KeysOf[t], arg : argsOf(op)] : op \in Offered}

Init ==
  /\ database = clearDatabase
  /\ now = 0
  /\ reply = Null
  /\ total = 0
  /\ place = [t \in Threads |-> "idle"]
  /\ task = [t \in Threads |-> NoTask]
  /\ loaded = [t \in Threads |-> 0]
  /\ pointer = [t \in Threads |-> "null"]
  /\ local = [t \in Threads |-> Blank]
  /\ undefined = FALSE

-----------------------------------------------------------------------------
(* Steps are taken at a place, by a command of one of some shapes          *)
at(t, p, ops) == ~undefined /\ place[t] = p /\ task[t].op \in ops

key(t) == task[t].key

entryOf(t) == database[key(t)]

goesTo(t, p) == place' = [place EXCEPT ![t] = p]

(* What u's pointer is after the step: a node of the map lasts until its   *)
(* key is erased, and an assignment to its key leaves it where it is.      *)
kept(u) ==
  IF pointer[u] = "entry" /\ ~present(database', key(u)) THEN "dangling" ELSE pointer[u]

pointerOf(t, p) ==
  pointer' = [u \in Threads |-> IF u = t THEN p ELSE kept(u)]

(* The handler returns r                                                   *)
answers(t, r) ==
  /\ reply' = r
  /\ goesTo(t, "idle")
  /\ task' = [task EXCEPT ![t] = NoTask]
  /\ local' = [local EXCEPT ![t] = Blank]
  /\ pointerOf(t, "null")
  /\ UNCHANGED <<now, total, loaded, undefined>>

(* The handler goes on at p with the value v                               *)
goesOn(t, p, v) ==
  /\ goesTo(t, p)
  /\ local' = [local EXCEPT ![t] = v]
  /\ pointerOf(t, kept(t))
  /\ UNCHANGED <<now, reply, total, task, loaded, undefined>>

(* The handler goes on at p with what getValue has found                   *)
finds(t, p) ==
  /\ goesTo(t, p)
  /\ pointerOf(t, IF present(database', key(t)) THEN "entry" ELSE "null")
  /\ UNCHANGED <<now, reply, total, task, loaded, local, undefined>>

becomes(db) == database' = db

(* Through the pointer: the entry is looked at, or becomes v               *)
sees(t) == pointer[t] = "entry" /\ UNCHANGED database

writes(t, v) == pointer[t] = "entry" /\ becomes([database EXCEPT ![key(t)] = v])

findsNothing(t) == pointer[t] = "null" /\ UNCHANGED database

-----------------------------------------------------------------------------
(* processCommand before the handler                                       *)

(* Bound: a list to which enough is being pushed already is left alone     *)
roomFor(r) ==
  r.op = "LPUSH" /\ isType(database, r.key, "list") =>
    Len(database[r.key].list_value)
      + Cardinality({u \in Threads : task[u].op = r.op /\ key(u) = r.key}) < MaxListLength

(* total_commands_processed++ is a load and a store: the counter is a      *)
(* plain size_t.                                                           *)
Receive(t) ==
  /\ ~undefined /\ place[t] = "idle"
  /\ \E r \in requests(t) : roomFor(r) /\ task' = [task EXCEPT ![t] = r]
  /\ loaded' = [loaded EXCEPT ![t] = total]
  /\ goesTo(t, "count")
  /\ UNCHANGED <<database, now, reply, total, pointer, local, undefined>>

Count(t) ==
  /\ at(t, "count", Ops)
  /\ total' = (loaded[t] + 1) % CleanupPeriod
  /\ goesTo(t, "test")
  /\ UNCHANGED <<database, now, reply, task, loaded, pointer, local, undefined>>

firstPlace(op) ==
  CASE op = "SET" -> "store"
    [] op = "SETNX" -> "exists"
    [] op = "DEL" -> "delete"
    [] op = "FLUSHALL" -> "clear"
    [] OTHER -> "lookup"

(* The counter that is tested may be the one just stored, still in a       *)
(* register, or the one in memory by now.                                  *)
Test(t) ==
  /\ at(t, "test", Ops)
  /\ \E seen \in {(loaded[t] + 1) % CleanupPeriod, total} :
       goesTo(t, IF seen = 0 THEN "sweep" ELSE firstPlace(task[t].op))
  /\ loaded' = [loaded EXCEPT ![t] = 0]
  /\ UNCHANGED <<database, now, reply, total, task, pointer, local, undefined>>

Sweep(t) ==
  /\ at(t, "sweep", Ops)
  /\ becomes(cleanupExpiredKeys(database, now))
  /\ goesOn(t, firstPlace(task[t].op), Blank)

-----------------------------------------------------------------------------
(* Calls of the database                                                   *)

Lookup(t) ==                                      \* value = db.getValue(key)
  /\ at(t, "lookup", Ops)
  /\ becomes(lookup(database, key(t), now))
  /\ finds(t, "check")

(* Mutant: a list deleted in the meantime is created again                 *)
LookupAgainUntilThere(t) ==
  /\ at(t, "again", Ops)
  /\ becomes(lookup(database, key(t), now))
  /\ finds(t, IF present(database', key(t)) THEN "push" ELSE "create")

LookupAgain(t) ==
  /\ at(t, "again", Ops)
  /\ becomes(lookup(database, key(t), now))
  /\ finds(t, "push")

(* Mutant: the new list is taken to be what value points at                *)
CreateForgetsLookup(t) ==
  /\ at(t, "create", Ops)
  /\ becomes(setValue(database, key(t), NewValue("list")))
  /\ goesOn(t, "push", Blank)

Create(t) ==                                      \* an empty list
  /\ at(t, "create", Ops)
  /\ becomes(setValue(database, key(t), NewValue("list")))
  /\ goesOn(t, "again", Blank)

(* keyExists, and then the deadline of the value to be stored               *)
ExistsAlready(t) ==
  /\ at(t, "exists", Ops)
  /\ LET db == lookup(database, key(t), now)
     IN  present(db, key(t)) /\ becomes(db) /\ answers(t, Null)

ExistsNot(t) ==
  /\ at(t, "exists", Ops)
  /\ LET db == lookup(database, key(t), now)
     IN  /\ ~present(db, key(t))
         /\ becomes(db)
         /\ goesOn(t, "store",
                   setExpiry(StringValue(task[t].arg), now, Wrap(TicksPerSecond)))

StoreText(t) ==
  /\ at(t, "store", {"SET"})
  /\ becomes(setValue(database, key(t), StringValue(task[t].arg)))
  /\ answers(t, Simple("OK"))

StoreTextForASecond(t) ==
  /\ at(t, "store", {"SETNX"})
  /\ becomes(setValue(database, key(t), local[t]))
  /\ answers(t, Simple("OK"))

StoreNumber(t) ==
  /\ at(t, "store", {"INCR"})
  /\ LET n == Wrap(parseInt(local[t].string_value) + 1)
     IN  /\ becomes(setValue(database, key(t), StringValue(toString(n))))
         /\ answers(t, Integer(n))

Delete(t) ==
  /\ at(t, "delete", Ops)
  /\ becomes(deleteKey(database, key(t)))
  /\ answers(t, CASE task[t].op = "DEL"    -> Integer(bool(present(database, key(t))))
                  [] task[t].op = "EXPIRE" -> Integer(1)
                  [] task[t].op = "TTL"    -> Integer(-2)
                  [] OTHER                 -> Bulk(local[t].string_value))

Clear(t) ==
  /\ at(t, "clear", Ops)
  /\ becomes(clearDatabase)
  /\ answers(t, Simple("OK"))

-----------------------------------------------------------------------------
(* What handlers do with the pointer                                       *)

(* Nothing is found                                                        *)
Missing(t) ==
  /\ findsNothing(t)
  /\ \/ at(t, "check", {"GET", "LPOP"}) /\ answers(t, Null)
     \/ at(t, "check", {"EXPIRE", "PERSIST"}) /\ answers(t, Integer(0))
     \/ at(t, "check", {"TTL"}) /\ answers(t, Integer(-2))
     \/ at(t, "check", {"INCR"}) /\ goesOn(t, "store", StringValue(toString(0)))
     \/ at(t, "check", {"LPUSH"}) /\ goesOn(t, "create", Blank)

Get(t) ==
  /\ at(t, "check", {"GET"})
  /\ sees(t)
  /\ answers(t, IF entryOf(t).type = "string" THEN Bulk(entryOf(t).string_value) ELSE Null)

ReadNumber(t) ==
  /\ at(t, "check", {"INCR"})
  /\ sees(t)
  /\ LET v == entryOf(t)
     IN  \/ v.type # "string" /\ answers(t, Error("wrong type"))
         \/ v.type = "string" /\ ~isInteger(v.string_value) /\ answers(t, Error("not an integer"))
         \/ v.type = "string" /\ isInteger(v.string_value) /\ goesOn(t, "store", StringValue(v.string_value))

CheckPush(t) ==
  /\ at(t, "check", {"LPUSH"})
  /\ sees(t)
  /\ \/ entryOf(t).type # "list" /\ answers(t, Error("wrong type"))
     \/ entryOf(t).type = "list" /\ goesOn(t, "push", Blank)

(* push_front goes into list_value, whatever the type is by now            *)
Push(t) ==
  /\ at(t, "push", Ops)
  /\ pointer[t] = "entry"
  /\ LET list == <<task[t].arg>> \o entryOf(t).list_value
     IN  /\ writes(t, [entryOf(t) EXCEPT !.list_value = list])
         /\ answers(t, Integer(Len(list)))

CheckPop(t) ==
  /\ at(t, "check", {"LPOP"})
  /\ sees(t)
  /\ LET poppable == entryOf(t).type = "list" /\ entryOf(t).list_value # <<>>
     IN  \/ ~poppable /\ answers(t, Null)
         \/ poppable /\ goesOn(t, "pop", Blank)

Pop(t) ==
  /\ at(t, "pop", Ops)
  /\ pointer[t] = "entry" /\ entryOf(t).list_value # <<>>
  /\ writes(t, [entryOf(t) EXCEPT !.list_value = Tail(@)])
  /\ goesOn(t, "popped", StringValue(Head(entryOf(t).list_value)))

(* Mutant: the key is deleted with whatever is left                        *)
PoppedDeletes(t) ==
  /\ at(t, "popped", Ops)
  /\ sees(t)
  /\ goesOn(t, "delete", local[t])

Popped(t) ==
  /\ at(t, "popped", Ops)
  /\ sees(t)
  /\ \/ entryOf(t).list_value # <<>> /\ answers(t, Bulk(local[t].string_value))
     \/ entryOf(t).list_value = <<>> /\ goesOn(t, "delete", local[t])

seconds(t) == parseInt(task[t].arg)

ExpireNow(t) ==                             \* without a look at the entry
  /\ at(t, "check", {"EXPIRE"})
  /\ pointer[t] # "null" /\ seconds(t) <= 0
  /\ UNCHANGED database
  /\ goesOn(t, "delete", Blank)

ExpireLater(t) ==
  /\ at(t, "check", {"EXPIRE"})
  /\ seconds(t) > 0
  /\ writes(t, setExpiry(entryOf(t), now, Wrap(seconds(t) * TicksPerSecond)))
  /\ answers(t, Integer(1))

(* The clock is read again                                                 *)
Ttl(t) ==
  /\ at(t, "check", {"TTL"})
  /\ sees(t)
  /\ LET v == entryOf(t)
     IN  \/ ~v.has_expiry /\ answers(t, Integer(-1))
         \/ v.has_expiry /\ now >= v.expiry /\ goesOn(t, "delete", Blank)
         \/ /\ v.has_expiry /\ now < v.expiry
            /\ answers(t, Integer((v.expiry - now) \div TicksPerSecond))

Persist(t) ==
  /\ at(t, "check", {"PERSIST"})
  /\ pointer[t] = "entry"
  /\ \/ ~entryOf(t).has_expiry /\ sees(t) /\ answers(t, Integer(0))
     \/ entryOf(t).has_expiry /\ writes(t, clearExpiry(entryOf(t))) /\ answers(t, Integer(1))

-----------------------------------------------------------------------------
(* Undefined behaviour                                                     *)

follows(t) ==                               \* the pointer, in the next step
  \/ place[t] \in {"push", "pop", "popped"}
  \/ place[t] = "check" /\ (task[t].op = "EXPIRE" => seconds(t) > 0)

(* A pointer that dangles is followed, the null pointer is where no        *)
(* handler expects it, or an element is taken from an empty list.          *)
Misuse(t) ==
  /\ ~undefined /\ follows(t)
  /\ \/ pointer[t] = "dangling"
     \/ pointer[t] = "null" /\ place[t] # "check"
     \/ pointer[t] = "entry" /\ place[t] = "pop" /\ entryOf(t).list_value = <<>>
  /\ undefined' = TRUE
  /\ UNCHANGED <<database, now, reply, total, threadVars>>

(* A data race: what t does next through the pointer, without the lock,    *)
(* and what u does next to the same part of the same entry, with the lock  *)
(* or without, are not ordered, and one of them writes.  The parts of an   *)
(* entry are its deadline and its data.                                    *)
unlocked(t) == follows(t) /\ pointer[t] = "entry"

writesUnlocked(t) ==
  CASE place[t] \in {"push", "pop"} -> {<<key(t), "data">>}
    [] place[t] = "check" /\ task[t].op = "EXPIRE" -> {<<key(t), "deadline">>}
    [] place[t] = "check" /\ task[t].op = "PERSIST" /\ entryOf(t).has_expiry ->
         {<<key(t), "deadline">>}
    [] OTHER -> {}

readsUnlocked(t) ==
  CASE place[t] = "popped" -> {<<key(t), "data">>}
    [] place[t] = "check" /\ task[t].op \in {"GET", "INCR", "LPUSH", "LPOP"} ->
         {<<key(t), "data">>}
    [] place[t] = "check" /\ task[t].op \in {"TTL", "PERSIST"} -> {<<key(t), "deadline">>}
    [] OTHER -> {}

wholeEntries(K) == K \X {"data", "deadline"}

(* The keys whose entries a call of the database assigns or erases         *)
keysChanged(t) ==
  CASE place[t] \in {"store", "create", "delete"} -> {key(t)}
    [] place[t] = "clear" -> Keys
    [] place[t] = "sweep" -> {k \in Keys : expiredIn(database, k, now)}
    [] place[t] \in {"lookup", "again", "exists"} ->
         {k \in {key(t)} : expiredIn(database, k, now)}
    [] OTHER -> {}

keysTested(t) ==                            \* for isExpired
  CASE place[t] = "sweep" -> Keys
    [] place[t] \in {"lookup", "again", "exists"} -> {key(t)}
    [] OTHER -> {}

writing(t) ==
  wholeEntries(keysChanged(t)) \cup (IF unlocked(t) THEN writesUnlocked(t) ELSE {})

reading(t) ==
  (keysTested(t) \X {"deadline"}) \cup (IF unlocked(t) THEN readsUnlocked(t) ELSE {})

races(t, u) ==
  /\ unlocked(t)
  /\ \/ writesUnlocked(t) \cap (writing(u) \cup reading(u)) # {}
     \/ readsUnlocked(t) \cap writing(u) # {}

Race(t) ==
  /\ ~undefined
  /\ \E u \in Threads \ {t} : races(t, u)
  /\ undefined' = TRUE
  /\ UNCHANGED <<database, now, reply, total, threadVars>>

-----------------------------------------------------------------------------
Tick ==
  /\ ~undefined /\ now < MaxNow
  /\ now' = now + 1
  /\ UNCHANGED <<database, reply, total, threadVars, undefined>>

Handler(t) ==
  \/ Lookup(t) \/ LookupAgain(t) \/ Create(t) \/ ExistsAlready(t) \/ ExistsNot(t)
  \/ StoreText(t) \/ StoreTextForASecond(t) \/ StoreNumber(t) \/ Delete(t) \/ Clear(t)
  \/ Missing(t) \/ Get(t) \/ ReadNumber(t) \/ CheckPush(t) \/ Push(t)
  \/ CheckPop(t) \/ Pop(t) \/ Popped(t) \/ ExpireNow(t) \/ ExpireLater(t)
  \/ Ttl(t) \/ Persist(t)

Working(t) ==
  Count(t) \/ Test(t) \/ Sweep(t) \/ Handler(t) \/ Misuse(t) \/ Race(t)

Next == Tick \/ \E t \in Threads : Receive(t) \/ Working(t)

Spec == Init /\ [][Next]_vars

(* The scheduler leaves no thread in the middle of a command for ever; a   *)
(* client need not send another.                                           *)
FairSpec == Spec /\ \A t \in Threads : WF_vars(Working(t))

-----------------------------------------------------------------------------
(* Types: in particular a thread without a command holds no pointer        *)
Places ==
  {"idle", "count", "test", "sweep", "lookup", "check", "exists", "store", "create", "again",
   "push", "pop", "popped", "delete", "clear"}

TypeOK ==
  /\ isDatabase(database)
  /\ now \in 0 .. MaxNow
  /\ total \in 0 .. CleanupPeriod - 1
  /\ place \in [Threads -> Places]
  /\ loaded \in [Threads -> 0 .. CleanupPeriod - 1]
  /\ pointer \in [Threads -> {"null", "entry", "dangling"}]
  /\ undefined \in BOOLEAN
  /\ \A t \in Threads :
       /\ isRedisValue(local[t])
       /\ IF place[t] = "idle" THEN task[t] = NoTask /\ pointer[t] = "null"
                               ELSE task[t] \in requests(t)

(* README.md:9, "Thread-safe in-memory key-value store": whatever commands *)
(* the clients send and however their threads are scheduled, no handler    *)
(* uses an entry that has been erased, a null pointer or an empty list,    *)
(* and no two threads use one part of an entry at once with one of them    *)
(* writing.  It speaks of entries only: the counter of commands, a plain   *)
(* size_t, is raced for by any two threads, and Count and Test have its    *)
(* outcomes.                                                               *)
EntriesAreSafe == ~undefined

(* What has to be left to the clients, because nothing in the code sees to *)
(* it.  Commands overlap on a key, or with FLUSHALL, only if all of them   *)
(* do everything under the lock or none of them changes anything; no key   *)
(* expires while a handler has a pointer to its entry; and no sweep meets  *)
(* a handler that is about to move a deadline.                             *)
Locked  == {"SET", "SETNX", "DEL", "FLUSHALL"}
Readers == {"GET", "TTL"}

busy(t) == place[t] # "idle"

meet(t, u) ==
  busy(t) /\ busy(u) /\ (key(t) = key(u) \/ "FLUSHALL" \in {task[t].op, task[u].op})

agree(t, u) ==
  {task[t].op, task[u].op} \subseteq Locked \/ {task[t].op, task[u].op} \subseteq Readers

movesDeadline(t) == place[t] = "check" /\ task[t].op \in {"EXPIRE", "PERSIST"}

Apart ==
  /\ \A t \in Threads : pointer[t] = "entry" => ~expiredIn(database, key(t), now)
  /\ \A t \in Threads : \A u \in Threads \ {t} :
       /\ meet(t, u) => agree(t, u)
       /\ movesDeadline(t) => place[u] # "sweep"

(* Every handler returns, whatever the other threads do to its key in the  *)
(* meantime: it takes a bounded number of steps and repeats none.  Only    *)
(* undefined behaviour can keep a client from its answer.                  *)
HandlersReturn ==
  \A t \in Threads : place[t] # "idle" ~> place[t] = "idle" \/ undefined
===============================================================================

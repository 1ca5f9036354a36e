------------------------- MODULE SharedKeyspaceProofs -------------------------
(***************************************************************************)
(* Proofs about SharedKeyspace and AtomicKeyspace, for any number of       *)
(* clients, keys and values, and any period of the sweep.                  *)
(*                                                                         *)
(* 1. Types hold whatever keys the clients share and whatever they send.   *)
(* 2. Clients that keep Apart never drive the server into undefined        *)
(*    behaviour on an entry.                                               *)
(* 3. Under that condition each command happens at once, and keys go when  *)
(*    their time comes: what the threads do implements EagerExpiry.        *)
(***************************************************************************)
EXTENDS AtomicKeyspace, FiniteSetTheorems, TLAPS

Functional ==
  /\ place = [t \in Threads |-> place[t]]
  /\ task = [t \in Threads |-> task[t]]
  /\ pointer = [t \in Threads |-> pointer[t]]

-----------------------------------------------------------------------------
(* Types, whatever keys the clients share and whatever they send           *)

TypeInv ==
  /\ TypeOK
  /\ Functional
  /\ local = [t \in Threads |-> local[t]]
  /\ \A t \in Threads : pointer[t] = "entry" => present(database, key(t))

LEMMA WrapType == ASSUME NEW n \in Int PROVE Wrap(n) \in LongLong
  BY DataAssumption DEF Wrap, LongLong

LEMMA StringsType ==
  /\ EmptyString \in Strings
  /\ \A n \in LongLong : toString(n) \in Strings
  /\ \A x : parseInt(x) \in LongLong
  BY DataAssumption DEF EmptyString, Strings, toString, parseInt, LongLong

LEMMA ValueOver ==
  ASSUME NEW F \in SUBSET Strings, NEW v \in valuesOver(F)
  PROVE  isRedisValue(v)
  BY DEF valuesOver, isRedisValue

LEMMA NewValueIsValue ==
  ASSUME NEW type \in Types
  PROVE  NewValue(type) \in valuesOver({}) /\ isRedisValue(NewValue(type))
<1>1. EmptyString \in Strings /\ 0 \in LongLong
  BY StringsType, DataAssumption DEF LongLong
<1>2. NoHash \in [{} -> Strings]
  BY DEF NoHash
<1>3. NewValue(type) \in valuesOver({})
  BY <1>1, <1>2 DEF NewValue, valuesOver
<1> QED BY <1>3, ValueOver

LEMMA StringValueIsValue ==
  ASSUME NEW x \in Strings
  PROVE  isRedisValue(StringValue(x))
<1> DEFINE v == NewValue("string")
<1>1. v \in valuesOver({})
  BY NewValueIsValue DEF Types
<1>2. StringValue(x) \in valuesOver({})
  BY <1>1 DEF StringValue, valuesOver
<1> QED BY <1>2, ValueOver

LEMMA ListChanged ==
  ASSUME NEW v, isRedisValue(v), NEW l \in Seq(Strings)
  PROVE  isRedisValue([v EXCEPT !.list_value = l])
  BY DEF isRedisValue, valuesOver

LEMMA DeadlineChanged ==
  ASSUME NEW v, isRedisValue(v), NEW e \in LongLong, NEW b \in BOOLEAN
  PROVE  isRedisValue([v EXCEPT !.expiry = e, !.has_expiry = b])
  BY DEF isRedisValue, valuesOver

LEMMA PartsOfValue ==
  ASSUME NEW v, isRedisValue(v)
  PROVE  v.string_value \in Strings /\ v.list_value \in Seq(Strings) /\ v.type # "none"
  BY DEF isRedisValue, valuesOver, Types

(* Calls of the database keep it one                                       *)
LEMMA DatabaseCalls ==
  ASSUME NEW db, isDatabase(db), NEW k \in Keys, NEW t
  PROVE  /\ isDatabase(lookup(db, k, t))
         /\ isDatabase(cleanupExpiredKeys(db, t))
         /\ isDatabase(deleteKey(db, k))
         /\ isDatabase(clearDatabase)
         /\ \A v : isRedisValue(v) => isDatabase([db EXCEPT ![k] = v])
  BY DEF isDatabase, lookup, cleanupExpiredKeys, deleteKey, clearDatabase

LEMMA EntryIsValue ==
  ASSUME NEW db, isDatabase(db), NEW k \in Keys, present(db, k)
  PROVE  isRedisValue(db[k])
  BY DEF isDatabase, present, NoValue

(* A thread that has a command                                             *)
LEMMA BusyThread ==
  ASSUME TypeInv, NEW t \in Threads, place[t] # "idle"
  PROVE  /\ task[t] \in requests(t)
         /\ key(t) \in Keys
         /\ task[t].arg \in Strings
         /\ task[t].op \in Ops
         /\ isRedisValue(local[t])
         /\ pointer[t] = "entry" => isRedisValue(entryOf(t))
<1>1. task[t] \in requests(t) /\ isRedisValue(local[t]) /\ isDatabase(database)
  BY DEF TypeInv, TypeOK
<1>2. PICK op \in Offered : task[t] \in [op : {op}, key : KeysOf[t], arg : argsOf(op)]
  BY <1>1 DEF requests
<1>3. argsOf(op) \subseteq Strings
  BY ArgumentAssumption, StringsType DEF argsOf
<1>4. key(t) \in Keys /\ task[t].arg \in Strings /\ task[t].op \in Ops
  BY <1>2, <1>3, SharedAssumption DEF key
<1>5. pointer[t] = "entry" => isRedisValue(entryOf(t))
  BY <1>1, <1>4, EntryIsValue DEF TypeInv, entryOf
<1> QED BY <1>1, <1>4, <1>5

(* A step of a handler that leaves a database behind                       *)
LEMMA StepTypes ==
  ASSUME TypeInv, NEW t \in Threads, place[t] # "idle", isDatabase(database'),
         UNCHANGED <<now, total, loaded, undefined>>,
         NEW p \in Places, goesTo(t, p),
         NEW v, isRedisValue(v), local' = [local EXCEPT ![t] = v],
         NEW q \in {"null", "entry", "dangling"}, pointerOf(t, q),
         \/ p = "idle" /\ q = "null" /\ task' = [task EXCEPT ![t] = NoTask]
         \/ /\ p # "idle" /\ task' = task
            /\ q = "entry" => present(database', key(t))
  PROVE  TypeInv'
<1>1. /\ Functional' /\ local' = [u \in Threads |-> local'[u]]
      /\ place'[t] = p /\ pointer'[t] = q /\ local'[t] = v
  BY DEF TypeInv, Functional, goesTo, pointerOf
<1>2. ASSUME NEW u \in Threads \ {t}
      PROVE  /\ place'[u] = place[u] /\ pointer'[u] = kept(u)
             /\ local'[u] = local[u] /\ task'[u] = task[u]
  BY DEF TypeInv, Functional, goesTo, pointerOf
<1>3. ASSUME NEW u \in Threads
      PROVE  /\ place'[u] \in Places
             /\ pointer'[u] \in {"null", "entry", "dangling"}
             /\ isRedisValue(local'[u])
             /\ IF place'[u] = "idle"
                THEN task'[u] = NoTask /\ pointer'[u] = "null"
                ELSE task'[u] \in requests(u)
             /\ pointer'[u] = "entry" => present(database', task'[u].key)
  <2>1. CASE u = t
    BY <1>1, <2>1, BusyThread DEF TypeInv, Functional, key
  <2>2. CASE u # t
    BY <1>2, <2>2 DEF TypeInv, TypeOK, kept, key
  <2> QED BY <2>1, <2>2
<1>4. place' \in [Threads -> Places] /\ pointer' \in [Threads -> {"null", "entry", "dangling"}]
  BY <1>1, <1>3 DEF Functional
<1>5. TypeOK'
  BY <1>3, <1>4 DEF TypeInv, TypeOK, requests, argsOf
<1> QED BY <1>1, <1>3, <1>5 DEF TypeInv, key

LEMMA AnswersTypes ==
  ASSUME TypeInv, NEW t \in Threads, place[t] # "idle", isDatabase(database'),
         NEW r, answers(t, r)
  PROVE  TypeInv'
<1>1. isRedisValue(Blank) /\ "idle" \in Places
  BY NewValueIsValue DEF Blank, Types, Places
<1> QED BY <1>1, StepTypes DEF answers

LEMMA GoesOnTypes ==
  ASSUME TypeInv, NEW t \in Threads, place[t] # "idle", isDatabase(database'),
         NEW p \in Places \ {"idle"}, NEW v, isRedisValue(v), goesOn(t, p, v)
  PROVE  TypeInv'
<1>1. /\ kept(t) \in {"null", "entry", "dangling"}
      /\ kept(t) = "entry" => present(database', key(t))
  BY DEF TypeInv, TypeOK, kept
<1> QED BY <1>1, StepTypes DEF goesOn

LEMMA FindsTypes ==
  ASSUME TypeInv, NEW t \in Threads, place[t] # "idle", isDatabase(database'),
         NEW p \in Places \ {"idle"}, finds(t, p)
  PROVE  TypeInv'
<1>1. isRedisValue(local[t]) /\ local' = [local EXCEPT ![t] = local[t]]
  BY BusyThread DEF finds, TypeInv
<1> QED BY <1>1, StepTypes DEF finds

(* A value written under the key of t                                      *)
LEMMA WriteTypes ==
  ASSUME TypeInv, NEW t \in Threads, place[t] # "idle", NEW v, isRedisValue(v),
         database' = [database EXCEPT ![key(t)] = v]
  PROVE  isDatabase(database')
  BY BusyThread, DatabaseCalls DEF TypeInv, TypeOK

LEMMA BlankIsValue == isRedisValue(Blank)
  BY NewValueIsValue DEF Blank, Types

LEMMA ReceiveTypes == ASSUME TypeInv, NEW t \in Threads, Receive(t) PROVE TypeInv'
<1>1. PICK r \in requests(t) : task' = [task EXCEPT ![t] = r]
  BY DEF Receive
<1>2. /\ Functional' /\ local' = [u \in Threads |-> local'[u]]
      /\ place'[t] = "count" /\ task'[t] = r
      /\ \A u \in Threads : pointer'[u] = pointer[u] /\ local'[u] = local[u]
      /\ \A u \in Threads \ {t} : place'[u] = place[u] /\ task'[u] = task[u]
  BY <1>1 DEF Receive, goesTo, TypeInv, Functional
<1>3. pointer[t] = "null"
  BY DEF Receive, TypeInv, TypeOK
<1>4. ASSUME NEW u \in Threads
      PROVE  /\ place'[u] \in Places
             /\ isRedisValue(local'[u])
             /\ IF place'[u] = "idle"
                THEN task'[u] = NoTask /\ pointer'[u] = "null"
                ELSE task'[u] \in requests(u)
             /\ pointer'[u] = "entry" => present(database', task'[u].key)
  <2>1. CASE u = t
    BY <1>1, <1>2, <1>3, <2>1 DEF TypeInv, TypeOK, Places
  <2>2. CASE u # t
    BY <1>2, <2>2 DEF TypeInv, TypeOK, Receive, key
  <2> QED BY <2>1, <2>2
<1>5. place' \in [Threads -> Places]
  BY <1>2, <1>4 DEF Functional
<1>6. TypeOK'
  BY <1>4, <1>5 DEF TypeInv, TypeOK, Receive, requests, argsOf
<1> QED BY <1>2, <1>4, <1>6 DEF TypeInv, key

(* The steps that count, before the handler                                *)
LEMMA MovesOnTypes ==
  ASSUME TypeInv, NEW t \in Threads, place[t] # "idle",
         NEW p \in Places \ {"idle"}, goesTo(t, p),
         total' \in 0 .. CleanupPeriod - 1,
         loaded' \in [Threads -> 0 .. CleanupPeriod - 1],
         UNCHANGED <<database, now, task, pointer, local, undefined>>
  PROVE  TypeInv'
<1>1. place' = [u \in Threads |-> IF u = t THEN p ELSE place[u]]
  BY DEF TypeInv, Functional, goesTo
<1>2. place' \in [Threads -> Places]
  BY <1>1 DEF TypeInv, TypeOK
<1>3. \A u \in Threads : place'[u] = "idle" <=> place[u] = "idle"
  BY <1>1
<1>4. TypeOK'
  BY <1>2, <1>3 DEF TypeInv, TypeOK, requests, argsOf
<1> QED BY <1>1, <1>4 DEF TypeInv, Functional, key, present

LEMMA CountTypes == ASSUME TypeInv, NEW t \in Threads, Count(t) PROVE TypeInv'
<1>1. CleanupPeriod \in Nat \ {0} /\ loaded[t] \in Int
  BY SharedAssumption DEF TypeInv, TypeOK
<1>2. (loaded[t] + 1) % CleanupPeriod \in 0 .. CleanupPeriod - 1
  BY <1>1
<1> QED BY <1>2, MovesOnTypes DEF Count, at, Places, TypeInv, TypeOK

LEMMA FirstPlaceType == \A op : firstPlace(op) \in Places \ {"idle"}
  BY DEF firstPlace, Places

LEMMA TestTypes == ASSUME TypeInv, NEW t \in Threads, Test(t) PROVE TypeInv'
<1>1. PICK p \in {"sweep", firstPlace(task[t].op)} : goesTo(t, p)
  BY DEF Test
<1>2. p \in Places \ {"idle"}
  BY <1>1, FirstPlaceType DEF Places
<1>3. 0 \in 0 .. CleanupPeriod - 1
  BY SharedAssumption
<1>4. loaded' \in [Threads -> 0 .. CleanupPeriod - 1]
  BY <1>3 DEF Test, TypeInv, TypeOK
<1> QED BY <1>1, <1>2, <1>4, MovesOnTypes DEF Test, at, TypeInv, TypeOK

LEMMA SweepTypes == ASSUME TypeInv, NEW t \in Threads, Sweep(t) PROVE TypeInv'
<1>1. isDatabase(database')
  BY BusyThread, DatabaseCalls DEF Sweep, at, becomes, TypeInv, TypeOK
<1> QED BY <1>1, GoesOnTypes, BlankIsValue, FirstPlaceType DEF Sweep, at

LEMMA LookupTypes ==
  ASSUME TypeInv, NEW t \in Threads, Lookup(t) \/ LookupAgain(t)
  PROVE  TypeInv'
<1>1. isDatabase(database')
  BY BusyThread, DatabaseCalls DEF Lookup, LookupAgain, at, becomes, TypeInv, TypeOK
<1> QED BY <1>1, FindsTypes DEF Lookup, LookupAgain, at, Places

LEMMA CreateTypes == ASSUME TypeInv, NEW t \in Threads, Create(t) PROVE TypeInv'
<1>1. isDatabase(database')
  BY WriteTypes, NewValueIsValue DEF Create, at, becomes, setValue, Types
<1> QED BY <1>1, GoesOnTypes, BlankIsValue DEF Create, at, Places

(* A deadline counted from now                                             *)
LEMMA ExpirySet ==
  ASSUME TypeInv, NEW v, isRedisValue(v), NEW n \in Int
  PROVE  isRedisValue(setExpiry(v, now, n))
<1>1. now + n \in Int
  BY SharedAssumption, DataAssumption DEF TypeInv, TypeOK
<1> QED BY <1>1, WrapType, DeadlineChanged DEF setExpiry

LEMMA WrapInt == ASSUME NEW n \in Int PROVE Wrap(n) \in Int
  BY WrapType, DataAssumption DEF LongLong

LEMMA ExistsTypes ==
  ASSUME TypeInv, NEW t \in Threads, ExistsAlready(t) \/ ExistsNot(t)
  PROVE  TypeInv'
<1>1. place[t] # "idle" /\ isDatabase(database')
  BY BusyThread, DatabaseCalls DEF ExistsAlready, ExistsNot, at, becomes, TypeInv, TypeOK
<1>2. CASE ExistsAlready(t)
  BY <1>1, <1>2, AnswersTypes DEF ExistsAlready
<1>3. CASE ExistsNot(t)
  <2> DEFINE v == setExpiry(StringValue(task[t].arg), now, Wrap(TicksPerSecond))
  <2>1. isRedisValue(v)
    BY <1>1, BusyThread, StringValueIsValue, ExpirySet, WrapInt, DataAssumption
  <2>2. goesOn(t, "store", v)
    BY <1>3 DEF ExistsNot
  <2> QED BY <1>1, <2>1, <2>2, GoesOnTypes DEF Places
<1> QED BY <1>2, <1>3

LEMMA StoreTypes ==
  ASSUME TypeInv, NEW t \in Threads,
         StoreText(t) \/ StoreTextForASecond(t) \/ StoreNumber(t)
  PROVE  TypeInv'
<1>1. place[t] # "idle"
  BY DEF StoreText, StoreTextForASecond, StoreNumber, at
<1>2. CASE StoreText(t) \/ StoreTextForASecond(t)
  <2>1. isDatabase(database')
    BY <1>1, <1>2, WriteTypes, BusyThread, StringValueIsValue
    DEF StoreText, StoreTextForASecond, becomes, setValue
  <2> QED BY <1>1, <1>2, <2>1, AnswersTypes DEF StoreText, StoreTextForASecond
<1>3. CASE StoreNumber(t)
  <2> DEFINE n == Wrap(parseInt(local[t].string_value) + 1)
  <2>1. parseInt(local[t].string_value) + 1 \in Int
    BY StringsType, DataAssumption DEF LongLong
  <2>2. isRedisValue(StringValue(toString(n)))
    BY <2>1, WrapType, StringsType, StringValueIsValue
  <2>3. isDatabase(database')
    BY <1>1, <1>3, <2>2, WriteTypes DEF StoreNumber, becomes, setValue
  <2> QED BY <1>1, <1>3, <2>3, AnswersTypes DEF StoreNumber
<1> QED BY <1>2, <1>3

LEMMA DeleteTypes ==
  ASSUME TypeInv, NEW t \in Threads, Delete(t) \/ Clear(t)
  PROVE  TypeInv'
<1>1. isDatabase(database')
  BY BusyThread, DatabaseCalls DEF Delete, Clear, at, becomes, TypeInv, TypeOK
<1> QED BY <1>1, AnswersTypes DEF Delete, Clear, at

LEMMA SameDatabaseTypes == ASSUME TypeInv, UNCHANGED database PROVE isDatabase(database')
  BY DEF TypeInv, TypeOK

LEMMA MissingTypes == ASSUME TypeInv, NEW t \in Threads, Missing(t) PROVE TypeInv'
<1>1. isDatabase(database') /\ place[t] # "idle"
  BY SameDatabaseTypes DEF Missing, findsNothing, at
<1>2. isRedisValue(StringValue(toString(0)))
  BY StringsType, StringValueIsValue, DataAssumption DEF LongLong
<1> QED BY <1>1, <1>2, BlankIsValue, AnswersTypes, GoesOnTypes DEF Missing, Places

LEMMA ReadTypes ==
  ASSUME TypeInv, NEW t \in Threads,
         Get(t) \/ ReadNumber(t) \/ CheckPush(t) \/ CheckPop(t) \/ Popped(t) \/ ExpireNow(t)
           \/ Ttl(t)
  PROVE  TypeInv'
<1>1. isDatabase(database') /\ place[t] # "idle"
  BY SameDatabaseTypes
  DEF Get, ReadNumber, CheckPush, CheckPop, Popped, ExpireNow, Ttl, sees, at
<1>2. isRedisValue(local[t])
  BY <1>1, BusyThread
<1>3. CASE Get(t) \/ CheckPush(t) \/ CheckPop(t) \/ Popped(t)
  BY <1>1, <1>2, <1>3, BlankIsValue, AnswersTypes, GoesOnTypes
  DEF Get, CheckPush, CheckPop, Popped, Places
<1>4. CASE ExpireNow(t) \/ Ttl(t)
  BY <1>1, <1>4, BlankIsValue, AnswersTypes, GoesOnTypes DEF ExpireNow, Ttl, Places
<1>5. CASE ReadNumber(t)
  <2>1. isRedisValue(StringValue(entryOf(t).string_value))
    BY <1>1, <1>5, BusyThread, PartsOfValue, StringValueIsValue DEF ReadNumber, sees
  <2> QED BY <1>1, <1>5, <2>1, AnswersTypes, GoesOnTypes DEF ReadNumber, Places
<1> QED BY <1>3, <1>4, <1>5

LEMMA PushTypes == ASSUME TypeInv, NEW t \in Threads, Push(t) PROVE TypeInv'
<1>1. place[t] # "idle" /\ pointer[t] = "entry"
  BY DEF Push, at
<1>2. isRedisValue(entryOf(t)) /\ task[t].arg \in Strings
  BY <1>1, BusyThread
<1>3. <<task[t].arg>> \o entryOf(t).list_value \in Seq(Strings)
  BY <1>2, PartsOfValue
<1>4. isDatabase(database')
  BY <1>1, <1>2, <1>3, ListChanged, WriteTypes DEF Push, writes, becomes
<1> QED BY <1>1, <1>4, AnswersTypes DEF Push

LEMMA PopTypes == ASSUME TypeInv, NEW t \in Threads, Pop(t) PROVE TypeInv'
<1>1. place[t] # "idle" /\ pointer[t] = "entry" /\ entryOf(t).list_value # <<>>
  BY DEF Pop, at
<1>2. isRedisValue(entryOf(t)) /\ entryOf(t).list_value \in Seq(Strings)
  BY <1>1, BusyThread, PartsOfValue
<1>3. Tail(entryOf(t).list_value) \in Seq(Strings) /\ Head(entryOf(t).list_value) \in Strings
  BY <1>1, <1>2
<1>4. isDatabase(database')
  BY <1>1, <1>2, <1>3, ListChanged, WriteTypes DEF Pop, writes, becomes
<1> QED BY <1>1, <1>3, <1>4, StringValueIsValue, GoesOnTypes DEF Pop, Places

LEMMA DeadlineTypes ==
  ASSUME TypeInv, NEW t \in Threads, ExpireLater(t) \/ Persist(t)
  PROVE  TypeInv'
<1>1. place[t] # "idle"
  BY DEF ExpireLater, Persist, at
<1>2. CASE ExpireLater(t)
  <2>1. seconds(t) \in Int /\ TicksPerSecond \in Int
    BY StringsType, DataAssumption DEF seconds, LongLong
  <2>2. seconds(t) * TicksPerSecond \in Int
    BY <2>1
  <2>3. isRedisValue(setExpiry(entryOf(t), now, Wrap(seconds(t) * TicksPerSecond)))
    BY <1>1, <1>2, <2>2, BusyThread, ExpirySet, WrapInt DEF ExpireLater, writes
  <2>4. isDatabase(database')
    BY <1>1, <1>2, <2>3, WriteTypes DEF ExpireLater, writes, becomes
  <2> QED BY <1>1, <1>2, <2>4, AnswersTypes DEF ExpireLater
<1>3. CASE Persist(t)
  <2>0. pointer[t] = "entry"
    BY <1>3 DEF Persist
  <2>1. isRedisValue(clearExpiry(entryOf(t)))
    <3>1. isRedisValue(entryOf(t))
      BY <1>1, <2>0, BusyThread
    <3>2. 0 \in LongLong
      BY DataAssumption DEF LongLong
    <3> QED BY <3>1, <3>2, DeadlineChanged DEF clearExpiry
  <2>2. isDatabase(database')
    BY <1>1, <1>3, <2>1, SameDatabaseTypes, WriteTypes DEF Persist, sees, writes, becomes
  <2> QED BY <1>1, <1>3, <2>2, AnswersTypes DEF Persist
<1> QED BY <1>2, <1>3

LEMMA HandlerTypes == ASSUME TypeInv, NEW t \in Threads, Handler(t) PROVE TypeInv'
  BY LookupTypes, CreateTypes, ExistsTypes, StoreTypes, DeleteTypes, MissingTypes, ReadTypes,
     PushTypes, PopTypes, DeadlineTypes
  DEF Handler

(* The clock, undefined behaviour and stuttering                           *)
LEMMA OthersTypes ==
  ASSUME TypeInv, UNCHANGED <<database, total, threadVars>>,
         now' \in 0 .. MaxNow, undefined' \in BOOLEAN
  PROVE  TypeInv'
  BY DEF TypeInv, TypeOK, Functional, threadVars, present, key, requests, argsOf

LEMMA InitTypes == Init => TypeInv
<1> SUFFICES ASSUME Init PROVE TypeInv
  OBVIOUS
<1>1. isDatabase(database)
  BY DEF Init, isDatabase, clearDatabase
<1>2. 0 \in 0 .. MaxNow /\ 0 \in 0 .. CleanupPeriod - 1
  BY SharedAssumption
<1> QED BY <1>1, <1>2, BlankIsValue DEF Init, TypeInv, TypeOK, Functional, Places

LEMMA NextTypes == TypeInv /\ [Next]_vars => TypeInv'
<1> SUFFICES ASSUME TypeInv, [Next]_vars PROVE TypeInv'
  OBVIOUS
<1>1. now \in 0 .. MaxNow /\ undefined \in BOOLEAN
  BY DEF TypeInv, TypeOK
<1>2. CASE UNCHANGED vars
  BY <1>1, <1>2, OthersTypes DEF vars
<1>3. CASE Tick
  <2>1. now' \in 0 .. MaxNow
    BY <1>1, <1>3, SharedAssumption DEF Tick
  <2> QED BY <1>1, <1>3, <2>1, OthersTypes DEF Tick
<1>4. ASSUME NEW t \in Threads, Misuse(t) \/ Race(t)
      PROVE  TypeInv'
  BY <1>1, <1>4, OthersTypes DEF Misuse, Race
<1> QED BY <1>2, <1>3, <1>4, ReceiveTypes, CountTypes, TestTypes, SweepTypes, HandlerTypes
        DEF Next, Working

(* Whatever keys the clients share and whatever they send, every entry in  *)
(* the map and every value a handler holds is a RedisValue, a thread with  *)
(* no command holds no pointer, and the count of commands stays in range.  *)
THEOREM SharedTypesCorrect == Spec => []TypeOK
<1>1. TypeInv => TypeOK
  BY DEF TypeInv
<1> QED BY <1>1, InitTypes, NextTypes, PTL DEF Spec
-----------------------------------------------------------------------------
(* Undefined behaviour, while clients keep Apart                           *)

(* The commands that may be at p                                           *)
opsAt(p) ==
  CASE p \in {"lookup", "check"} -> Ops \ Locked
    [] p \in {"create", "again", "push"} -> {"LPUSH"}
    [] p \in {"pop", "popped"} -> {"LPOP"}
    [] p = "exists" -> {"SETNX"}
    [] p = "clear" -> {"FLUSHALL"}
    [] p = "store" -> {"SET", "SETNX", "INCR"}
    [] p = "delete" -> {"DEL", "LPOP", "EXPIRE"}
    [] OTHER -> Ops

(* A thread's pointer, if it has one, points at the entry of its key, and  *)
(* its handler has one wherever it follows it.                             *)
pointsAtEntry(t) ==
  /\ pointer[t] \in {"null", "entry"}
  /\ pointer[t] = "entry" => busy(t) /\ task[t].op \notin Locked
  /\ busy(t) => task[t].op \in opsAt(place[t])
  /\ place[t] \in {"push", "pop", "popped"} => pointer[t] = "entry"
  /\ place[t] = "again" => database[key(t)] = NewValue("list")
  /\ place[t] = "pop" => database[key(t)].list_value # <<>>

SafeInv == TypeInv /\ EntriesAreSafe /\ \A t \in Threads : pointsAtEntry(t)

-----------------------------------------------------------------------------
(* Whose entries a step of t may change: its own, if it changes any, all   *)
(* of them if it clears the map, and expired ones, which it may erase.     *)
owns(t, k) ==
  /\ busy(t)
  /\ \/ key(t) = k /\ task[t].op \notin Readers
     \/ task[t].op = "FLUSHALL"

Changes(t) ==
  \A k \in Keys :
    \/ database'[k] = database[k]
    \/ expiredIn(database, k, now) /\ database'[k] = NoValue
    \/ owns(t, k)

(* No other thread's command is about a key that t may change, and t works *)
(* on with a pointer.                                                      *)
LEMMA NoneMeets ==
  ASSUME Apart, NEW t \in Threads, NEW u \in Threads \ {t},
         busy(u), task[u].op \notin Locked
  PROVE  ~owns(t, key(u))
BY DEF Apart, meet, agree, owns, Locked, Readers

LEMMA EntryKept ==
  ASSUME SafeInv, Apart, NEW t \in Threads, Changes(t), NEW u \in Threads \ {t},
         busy(u), task[u].op \notin Locked
  PROVE  /\ \/ database'[key(u)] = database[key(u)]
            \/ expiredIn(database, key(u), now) /\ database'[key(u)] = NoValue
         /\ pointer[u] = "entry" => database'[key(u)] = database[key(u)]
         /\ kept(u) = pointer[u]
<1>1. key(u) \in Keys
  BY BusyThread DEF SafeInv, busy
<1>2. \/ database'[key(u)] = database[key(u)]
      \/ expiredIn(database, key(u), now) /\ database'[key(u)] = NoValue
  BY <1>1, NoneMeets DEF Changes
<1>3. pointer[u] = "entry" => database'[key(u)] = database[key(u)]
  BY <1>2 DEF Apart
<1>4. kept(u) = pointer[u]
  BY <1>3 DEF kept, SafeInv, TypeInv, present
<1> QED BY <1>2, <1>3, <1>4

(* What another thread relies on is left as it is.                         *)
LEMMA OthersKept ==
  ASSUME SafeInv, Apart, NEW t \in Threads, Changes(t), NEW u \in Threads \ {t},
         place'[u] = place[u], task'[u] = task[u], pointer'[u] = kept(u)
  PROVE  pointsAtEntry(u)'
<1>1. pointsAtEntry(u)
  BY DEF SafeInv
<1>2. CASE busy(u) /\ task[u].op \notin Locked
  <2>1. /\ kept(u) = pointer[u]
        /\ \/ database'[key(u)] = database[key(u)]
           \/ expiredIn(database, key(u), now) /\ pointer[u] # "entry"
    BY <1>2, EntryKept DEF Apart
  <2>2. ~NewValue("list").has_expiry
    BY DEF NewValue
  <2>3. place[u] = "again" => database'[key(u)] = NewValue("list")
    BY <1>1, <2>1, <2>2 DEF pointsAtEntry, expiredIn, isExpired
  <2> QED BY <1>1, <2>1, <2>3 DEF pointsAtEntry, busy, key
<1>3. CASE ~busy(u) \/ task[u].op \in Locked
  <2>1. pointer[u] = "null" /\ place[u] \notin {"push", "pop", "popped", "again"}
    BY <1>1, <1>3 DEF pointsAtEntry, busy, opsAt, Locked
  <2> QED BY <1>1, <2>1 DEF pointsAtEntry, busy, kept
<1> QED BY <1>2, <1>3

(* A step of a handler                                                     *)
LEMMA StepKeepsSafe ==
  ASSUME SafeInv, Apart, TypeInv', NEW t \in Threads, Changes(t),
         NEW p, goesTo(t, p), NEW q, pointerOf(t, q),
         task' = task \/ task' = [task EXCEPT ![t] = NoTask],
         pointsAtEntry(t)', UNCHANGED undefined
  PROVE  SafeInv'
<1>1. ASSUME NEW u \in Threads \ {t}
      PROVE  pointsAtEntry(u)'
  <2>1. place'[u] = place[u] /\ task'[u] = task[u] /\ pointer'[u] = kept(u)
    BY DEF SafeInv, TypeInv, Functional, pointerOf, goesTo
  <2> QED BY <2>1, OthersKept
<1> QED BY <1>1 DEF SafeInv, EntriesAreSafe

LEMMA AnswersKeep ==
  ASSUME SafeInv, Apart, TypeInv', NEW t \in Threads, Changes(t), NEW r, answers(t, r)
  PROVE  SafeInv'
<1>1. place'[t] = "idle" /\ pointer'[t] = "null"
  BY DEF answers, goesTo, pointerOf, SafeInv, TypeInv, Functional
<1>2. pointsAtEntry(t)'
  BY <1>1 DEF pointsAtEntry, busy
<1> QED BY <1>2, StepKeepsSafe DEF answers

LEMMA GoesOnKeeps ==
  ASSUME SafeInv, Apart, TypeInv', NEW t \in Threads, busy(t), Changes(t),
         NEW p \in Places \ {"idle"}, NEW v, goesOn(t, p, v), task[t].op \in opsAt(p),
         pointer[t] = "entry" => present(database', key(t)),
         p \in {"push", "pop", "popped"} => pointer[t] = "entry",
         p = "again" => database'[key(t)] = NewValue("list"),
         p = "pop" => database'[key(t)].list_value # <<>>
  PROVE  SafeInv'
<1>1. place'[t] = p /\ pointer'[t] = pointer[t] /\ task' = task
  BY DEF goesOn, goesTo, pointerOf, kept, SafeInv, TypeInv, Functional
<1>2. pointsAtEntry(t)
  BY DEF SafeInv
<1>3. pointsAtEntry(t)'
  BY <1>1, <1>2 DEF pointsAtEntry, key, busy
<1> QED BY <1>3, StepKeepsSafe DEF goesOn

LEMMA FindsKeeps ==
  ASSUME SafeInv, Apart, TypeInv', NEW t \in Threads, busy(t), Changes(t),
         NEW p \in {"check", "push"}, finds(t, p), task[t].op \in opsAt(p),
         task[t].op \notin Locked,
         p = "push" => present(database', key(t))
  PROVE  SafeInv'
<1>1. /\ place'[t] = p /\ task' = task
      /\ pointer'[t] = IF present(database', key(t)) THEN "entry" ELSE "null"
  BY DEF finds, goesTo, pointerOf, SafeInv, TypeInv, Functional
<1>2. pointsAtEntry(t)'
  BY <1>1 DEF pointsAtEntry, key, busy
<1> QED BY <1>2, StepKeepsSafe DEF finds

-----------------------------------------------------------------------------
(* What the calls of the database change                                   *)

LEMMA LookupChanges ==
  ASSUME SafeInv, NEW t \in Threads, busy(t), becomes(lookup(database, key(t), now))
  PROVE  Changes(t)
BY DEF Changes, becomes, lookup, SafeInv, TypeInv, TypeOK, isDatabase

LEMMA SweepChanges ==
  ASSUME SafeInv, NEW t \in Threads, becomes(cleanupExpiredKeys(database, now))
  PROVE  Changes(t)
BY DEF Changes, becomes, cleanupExpiredKeys

LEMMA StoreChanges ==
  ASSUME SafeInv, NEW t \in Threads, busy(t), task[t].op \notin Readers, NEW v,
         database' = [database EXCEPT ![key(t)] = v]
  PROVE  Changes(t) /\ database'[key(t)] = v
BY BusyThread DEF Changes, owns, busy, SafeInv, TypeInv, TypeOK, isDatabase

LEMMA SameDatabase == ASSUME UNCHANGED database, NEW t PROVE Changes(t)
BY DEF Changes

-----------------------------------------------------------------------------
(* One lemma per action                                                    *)

LEMMA ReceiveKeepsSafe ==
  ASSUME SafeInv, TypeInv', NEW t \in Threads, Receive(t)
  PROVE  SafeInv'
<1>1. PICK r \in requests(t) : task' = [task EXCEPT ![t] = r]
  BY DEF Receive
<1>2. r.op \in Ops
  BY <1>1, SharedAssumption DEF requests
<1>3. ASSUME NEW u \in Threads PROVE pointsAtEntry(u)'
  <2>1. pointsAtEntry(u)
    BY DEF SafeInv
  <2>2. CASE u = t
    <3>1. place'[t] = "count" /\ task'[t] = r /\ pointer'[t] = "null"
      BY <1>1, <2>1, <2>2 DEF Receive, goesTo, SafeInv, TypeInv, Functional, pointsAtEntry, busy
    <3> QED BY <1>2, <2>2, <3>1 DEF pointsAtEntry, opsAt, busy
  <2>3. CASE u # t
    <3>1. /\ place'[u] = place[u] /\ task'[u] = task[u] /\ pointer'[u] = pointer[u]
          /\ database' = database
      BY <1>1, <2>3 DEF Receive, goesTo, SafeInv, TypeInv, Functional
    <3> QED BY <2>1, <3>1 DEF pointsAtEntry, key, busy
  <2> QED BY <2>2, <2>3
<1> QED BY <1>3 DEF Receive, SafeInv, EntriesAreSafe

(* A step that only moves t on, before the handler                         *)
LEMMA MovesOnKeepsSafe ==
  ASSUME SafeInv, Apart, TypeInv', NEW t \in Threads, busy(t),
         NEW p \in Places \ {"idle", "again", "push", "pop", "popped"},
         task[t].op \in opsAt(p), goesTo(t, p),
         UNCHANGED <<database, task, pointer, undefined>>
  PROVE  SafeInv'
<1>1. pointer'[t] = pointer[t] /\ place'[t] = p
  BY DEF SafeInv, TypeInv, Functional, goesTo
<1>2. \A u \in Threads : kept(u) = pointer[u]
  BY DEF SafeInv, TypeInv, kept
<1>3. pointerOf(t, pointer[t])
  BY <1>2 DEF pointerOf, SafeInv, TypeInv, Functional
<1>4. pointsAtEntry(t)'
  BY <1>1 DEF pointsAtEntry, SafeInv, busy
<1> QED BY <1>3, <1>4, SameDatabase, StepKeepsSafe

(* Where handlers start                                                    *)
LEMMA FirstPlaces ==
  ASSUME NEW op \in Ops
  PROVE  /\ firstPlace(op) \in {"store", "exists", "delete", "clear", "lookup"}
         /\ op \in opsAt(firstPlace(op))
BY DEF firstPlace, opsAt, Ops, Locked

LEMMA CountKeepsSafe ==
  ASSUME SafeInv, Apart, TypeInv', NEW t \in Threads, Count(t)
  PROVE  SafeInv'
<1>1. "test" \in Places \ {"idle", "again", "push", "pop", "popped"}
  BY DEF Places
<1>2. busy(t) /\ task[t].op \in opsAt("test")
  BY DEF Count, at, opsAt, busy
<1> QED BY <1>1, <1>2, MovesOnKeepsSafe DEF Count

LEMMA TestKeepsSafe ==
  ASSUME SafeInv, Apart, TypeInv', NEW t \in Threads, Test(t)
  PROVE  SafeInv'
<1>1. busy(t) /\ task[t].op \in Ops
  BY DEF Test, at, busy
<1>2. PICK p \in {"sweep", firstPlace(task[t].op)} : goesTo(t, p)
  BY DEF Test
<1>3. /\ p \in Places \ {"idle", "again", "push", "pop", "popped"}
      /\ task[t].op \in opsAt(p)
  <2>1. CASE p = "sweep"
    BY <1>1, <2>1 DEF Places, opsAt
  <2>2. CASE p = firstPlace(task[t].op)
    BY <1>1, <2>2, FirstPlaces DEF Places
  <2> QED BY <2>1, <2>2
<1> QED BY <1>1, <1>2, <1>3, MovesOnKeepsSafe DEF Test

(* The entry t has a pointer to does not go by what lookups and sweeps do  *)
LEMMA OwnEntryKept ==
  ASSUME SafeInv, Apart, NEW t \in Threads, busy(t), pointer[t] = "entry",
         \/ becomes(lookup(database, key(t), now))
         \/ becomes(cleanupExpiredKeys(database, now))
         \/ UNCHANGED database
  PROVE  database'[key(t)] = database[key(t)] /\ present(database', key(t))
<1>1. present(database, key(t)) /\ ~expiredIn(database, key(t), now) /\ key(t) \in Keys
  BY BusyThread DEF SafeInv, TypeInv, Apart, busy
<1>2. database'[key(t)] = database[key(t)]
  BY <1>1 DEF becomes, lookup, cleanupExpiredKeys
<1> QED BY <1>1, <1>2 DEF present

LEMMA SweepKeepsSafe ==
  ASSUME SafeInv, Apart, TypeInv', NEW t \in Threads, Sweep(t)
  PROVE  SafeInv'
<1> DEFINE p == firstPlace(task[t].op)
<1>1. busy(t) /\ becomes(cleanupExpiredKeys(database, now)) /\ goesOn(t, p, Blank)
  BY DEF Sweep, at, busy
<1>2. p \in {"store", "exists", "delete", "clear", "lookup"} /\ task[t].op \in opsAt(p)
  BY FirstPlaces DEF Sweep, at
<1>3. p \in Places \ {"idle"} /\ p \notin {"push", "pop", "popped", "again"}
  BY <1>2 DEF Places
<1>4. pointer[t] = "entry" => present(database', key(t))
  BY <1>1, OwnEntryKept
<1>5. Changes(t)
  BY <1>1, SweepChanges
<1> HIDE DEF p
<1> QED BY <1>1, <1>2, <1>3, <1>4, <1>5, GoesOnKeeps

LEMMA LookupKeepsSafe ==
  ASSUME SafeInv, Apart, TypeInv', NEW t \in Threads, Lookup(t)
  PROVE  SafeInv'
<1>1. busy(t) /\ place[t] = "lookup" /\ Changes(t)
  BY LookupChanges DEF Lookup, at, busy
<1>2. task[t].op \in opsAt("check") /\ task[t].op \notin Locked
  BY <1>1 DEF SafeInv, pointsAtEntry, opsAt
<1> QED BY <1>1, <1>2, FindsKeeps DEF Lookup

LEMMA LookupAgainKeepsSafe ==
  ASSUME SafeInv, Apart, TypeInv', NEW t \in Threads, LookupAgain(t)
  PROVE  SafeInv'
<1>1. busy(t) /\ place[t] = "again" /\ Changes(t)
  BY LookupChanges DEF LookupAgain, at, busy
<1>2. task[t].op = "LPUSH" /\ database[key(t)] = NewValue("list")
  BY <1>1 DEF SafeInv, pointsAtEntry, opsAt
<1>3. present(database', key(t))
  BY <1>2 DEF LookupAgain, becomes, lookup, expiredIn, isExpired, present, NewValue
<1> QED BY <1>1, <1>2, <1>3, FindsKeeps DEF LookupAgain, opsAt, Locked

LEMMA CreateKeepsSafe ==
  ASSUME SafeInv, Apart, TypeInv', NEW t \in Threads, Create(t)
  PROVE  SafeInv'
<1>1. busy(t) /\ place[t] = "create"
  BY DEF Create, at, busy
<1>2. task[t].op = "LPUSH"
  BY <1>1 DEF SafeInv, pointsAtEntry, opsAt
<1>3. Changes(t) /\ database'[key(t)] = NewValue("list")
  BY <1>1, <1>2, StoreChanges DEF Create, becomes, setValue, Readers
<1>4. present(database', key(t))
  BY <1>3 DEF present, NewValue
<1>5. goesOn(t, "again", Blank)
  BY DEF Create
<1> QED BY <1>1, <1>2, <1>3, <1>4, <1>5, GoesOnKeeps DEF Places, opsAt

LEMMA ExistsKeepsSafe ==
  ASSUME SafeInv, Apart, TypeInv', NEW t \in Threads, ExistsAlready(t) \/ ExistsNot(t)
  PROVE  SafeInv'
<1>1. busy(t) /\ place[t] = "exists" /\ Changes(t)
  BY LookupChanges DEF ExistsAlready, ExistsNot, at, busy
<1>2. task[t].op = "SETNX" /\ pointer[t] # "entry"
  BY <1>1 DEF SafeInv, pointsAtEntry, opsAt, Locked
<1>3. CASE ExistsAlready(t)
  BY <1>1, <1>3, AnswersKeep DEF ExistsAlready
<1>4. CASE ExistsNot(t)
  <2>1. PICK v : goesOn(t, "store", v)
    BY <1>4 DEF ExistsNot
  <2> QED BY <1>1, <1>2, <2>1, GoesOnKeeps DEF Places, opsAt
<1> QED BY <1>3, <1>4

LEMMA StoreKeepsSafe ==
  ASSUME SafeInv, Apart, TypeInv', NEW t \in Threads,
         StoreText(t) \/ StoreTextForASecond(t) \/ StoreNumber(t) \/ Delete(t)
  PROVE  SafeInv'
<1>1. busy(t) /\ place[t] \in {"store", "delete"}
  BY DEF StoreText, StoreTextForASecond, StoreNumber, Delete, at, busy
<1>2. task[t].op \notin Readers
  BY <1>1 DEF SafeInv, pointsAtEntry, opsAt, Readers
<1>3. PICK v : database' = [database EXCEPT ![key(t)] = v]
  BY DEF StoreText, StoreTextForASecond, StoreNumber, Delete, becomes, setValue, deleteKey
<1>4. Changes(t)
  BY <1>1, <1>2, <1>3, StoreChanges
<1> QED BY <1>4, AnswersKeep DEF StoreText, StoreTextForASecond, StoreNumber, Delete

LEMMA ClearKeepsSafe ==
  ASSUME SafeInv, Apart, TypeInv', NEW t \in Threads, Clear(t)
  PROVE  SafeInv'
<1>1. busy(t) /\ place[t] = "clear"
  BY DEF Clear, at, busy
<1>2. task[t].op = "FLUSHALL"
  BY <1>1 DEF SafeInv, pointsAtEntry, opsAt
<1>3. Changes(t)
  BY <1>1, <1>2 DEF Changes, owns
<1> QED BY <1>3, AnswersKeep DEF Clear

(* A handler that has looked and leaves the map alone                      *)
LEMMA LookGoesOnKeeps ==
  ASSUME SafeInv, Apart, TypeInv', NEW t \in Threads, busy(t), UNCHANGED database, NEW v,
         NEW p \in {"store", "create", "delete", "push", "pop"}, goesOn(t, p, v),
         task[t].op \in opsAt(p),
         p \in {"push", "pop"} => pointer[t] = "entry",
         p = "pop" => database[key(t)].list_value # <<>>
  PROVE  SafeInv'
<1>1. Changes(t)
  BY SameDatabase
<1>2. pointer[t] = "entry" => present(database', key(t))
  BY OwnEntryKept
<1>3. p \in Places \ {"idle"} /\ p \notin {"again", "popped"}
  BY DEF Places
<1> QED BY <1>1, <1>2, <1>3, GoesOnKeeps

LEMMA LookAnswersKeeps ==
  ASSUME SafeInv, Apart, TypeInv', NEW t \in Threads, UNCHANGED database, NEW r, answers(t, r)
  PROVE  SafeInv'
BY SameDatabase, AnswersKeep

LEMMA MissingKeepsSafe ==
  ASSUME SafeInv, Apart, TypeInv', NEW t \in Threads, Missing(t)
  PROVE  SafeInv'
<1>1. busy(t) /\ UNCHANGED database
  BY DEF Missing, findsNothing, at, busy
<1>2. CASE \E r : answers(t, r)
  BY <1>1, <1>2, LookAnswersKeeps
<1>3. CASE at(t, "check", {"INCR"}) /\ goesOn(t, "store", StringValue(toString(0)))
  <2>1. task[t].op \in opsAt("store")
    BY <1>3 DEF at, opsAt
  <2> QED BY <1>1, <1>3, <2>1, LookGoesOnKeeps
<1>4. CASE at(t, "check", {"LPUSH"}) /\ goesOn(t, "create", Blank)
  <2>1. task[t].op \in opsAt("create")
    BY <1>4 DEF at, opsAt
  <2> QED BY <1>1, <1>4, <2>1, LookGoesOnKeeps
<1> QED BY <1>2, <1>3, <1>4 DEF Missing

LEMMA ReadersKeepSafe ==
  ASSUME SafeInv, Apart, TypeInv', NEW t \in Threads,
         Get(t) \/ ReadNumber(t) \/ CheckPush(t) \/ CheckPop(t) \/ Popped(t) \/ ExpireNow(t)
           \/ Ttl(t)
  PROVE  SafeInv'
<1>1. busy(t) /\ UNCHANGED database
  BY DEF Get, ReadNumber, CheckPush, CheckPop, Popped, ExpireNow, Ttl, at, sees, busy
<1>2. CASE \E r : answers(t, r)
  BY <1>1, <1>2, LookAnswersKeeps
<1>3. ASSUME NEW p \in {"store", "delete", "push", "pop"}, NEW v, goesOn(t, p, v),
             task[t].op \in opsAt(p), p \in {"push", "pop"} => pointer[t] = "entry",
             p = "pop" => database[key(t)].list_value # <<>>
      PROVE  SafeInv'
  BY <1>1, <1>3, LookGoesOnKeeps
<1>4. CASE Get(t)
  BY <1>2, <1>4 DEF Get
<1>5. CASE ReadNumber(t)
  BY <1>2, <1>3, <1>5 DEF ReadNumber, at, opsAt
<1>6. CASE CheckPush(t)
  BY <1>2, <1>3, <1>6 DEF CheckPush, at, opsAt, sees
<1>7. CASE CheckPop(t)
  BY <1>2, <1>3, <1>7 DEF CheckPop, at, opsAt, sees, entryOf
<1>8. CASE Popped(t)
  <2>1. task[t].op = "LPOP"
    BY <1>8 DEF Popped, at, SafeInv, pointsAtEntry, opsAt, busy
  <2> QED BY <1>2, <1>3, <1>8, <2>1 DEF Popped, opsAt
<1>9. CASE ExpireNow(t)
  BY <1>3, <1>9 DEF ExpireNow, at, opsAt
<1>10. CASE Ttl(t)
  <2>1. ~(entryOf(t).has_expiry /\ now >= entryOf(t).expiry)
    BY <1>10 DEF Ttl, sees, Apart, SafeInv, TypeInv, expiredIn, isExpired, entryOf
  <2> QED BY <1>2, <1>10, <2>1 DEF Ttl
<1> QED BY <1>4, <1>5, <1>6, <1>7, <1>8, <1>9, <1>10

(* The entry of t becomes v                                                *)
LEMMA WritesChange ==
  ASSUME SafeInv, NEW t \in Threads, busy(t), task[t].op \notin Readers, NEW v, writes(t, v)
  PROVE  Changes(t) /\ database'[key(t)] = v
BY StoreChanges DEF writes, becomes

LEMMA PushKeepsSafe ==
  ASSUME SafeInv, Apart, TypeInv', NEW t \in Threads, Push(t)
  PROVE  SafeInv'
<1>1. busy(t) /\ task[t].op = "LPUSH"
  BY DEF Push, at, busy, SafeInv, pointsAtEntry, opsAt
<1>2. Changes(t)
  BY <1>1, WritesChange DEF Push, Readers
<1> QED BY <1>2, AnswersKeep DEF Push

LEMMA PopKeepsSafe ==
  ASSUME SafeInv, Apart, TypeInv', NEW t \in Threads, Pop(t)
  PROVE  SafeInv'
<1> DEFINE v == [entryOf(t) EXCEPT !.list_value = Tail(entryOf(t).list_value)]
<1>1. busy(t) /\ task[t].op = "LPOP" /\ pointer[t] = "entry" /\ writes(t, v)
  BY DEF Pop, at, busy, SafeInv, pointsAtEntry, opsAt
<1>2. Changes(t) /\ database'[key(t)] = v
  BY <1>1, WritesChange DEF Readers
<1>3. isRedisValue(entryOf(t))
  BY <1>1, BusyThread DEF SafeInv, busy
<1>4. v.type = entryOf(t).type
  BY <1>3 DEF isRedisValue, valuesOver
<1>5. present(database', key(t))
  BY <1>2, <1>3, <1>4, PartsOfValue DEF present
<1>6. PICK w : goesOn(t, "popped", w)
  BY DEF Pop
<1> QED BY <1>1, <1>2, <1>5, <1>6, GoesOnKeeps DEF Places, opsAt

LEMMA DeadlineKeepsSafe ==
  ASSUME SafeInv, Apart, TypeInv', NEW t \in Threads, ExpireLater(t) \/ Persist(t)
  PROVE  SafeInv'
<1>1. busy(t) /\ task[t].op \notin Readers
  BY DEF ExpireLater, Persist, at, busy, Readers
<1>2. CASE UNCHANGED database
  BY <1>2, LookAnswersKeeps DEF ExpireLater, Persist
<1>3. CASE \E v : writes(t, v)
  <2>1. Changes(t)
    BY <1>1, <1>3, WritesChange
  <2> QED BY <2>1, AnswersKeep DEF ExpireLater, Persist
<1> QED BY <1>2, <1>3 DEF ExpireLater, Persist, sees

-----------------------------------------------------------------------------
(* No undefined behaviour                                                  *)

LEMMA NoMisuse ==
  ASSUME SafeInv, NEW t \in Threads
  PROVE  ~Misuse(t)
BY DEF Misuse, follows, SafeInv, pointsAtEntry, entryOf

(* What u writes next, in all: parts of entries it owns or erases          *)
LEMMA WritesItsOwn ==
  ASSUME SafeInv, NEW u \in Threads, NEW k \in Keys, NEW part, <<k, part>> \in writing(u)
  PROVE  owns(u, k) \/ expiredIn(database, k, now)
<1>1. pointsAtEntry(u)
  BY DEF SafeInv
<1>2. CASE k \in keysChanged(u)
  <2>1. CASE place[u] \in {"store", "create", "delete"}
    BY <1>1, <1>2, <2>1 DEF keysChanged, pointsAtEntry, opsAt, busy, owns, Readers
  <2>2. CASE place[u] = "clear"
    BY <1>1, <2>2 DEF pointsAtEntry, opsAt, busy, owns
  <2>3. CASE place[u] \in {"sweep", "lookup", "again", "exists"}
    BY <1>2, <2>3 DEF keysChanged
  <2> QED BY <1>2, <2>1, <2>2, <2>3 DEF keysChanged
<1>3. CASE unlocked(u) /\ <<k, part>> \in writesUnlocked(u)
  <2>1. key(u) = k /\ place[u] \in {"push", "pop", "check"}
    BY <1>3 DEF writesUnlocked
  <2>2. task[u].op \notin Readers
    BY <1>1, <1>3, <2>1 DEF writesUnlocked, pointsAtEntry, opsAt, busy, Readers
  <2> QED BY <2>1, <2>2 DEF owns, busy
<1>4. <<k, part>> \in wholeEntries(keysChanged(u)) => k \in keysChanged(u)
  BY DEF wholeEntries
<1> QED BY <1>2, <1>3, <1>4 DEF writing

(* What u reads next: parts of its key's entry, or, in a sweep, deadlines  *)
LEMMA ReadsItsOwn ==
  ASSUME SafeInv, NEW u \in Threads, NEW k \in Keys, NEW part, <<k, part>> \in reading(u)
  PROVE  \/ busy(u) /\ key(u) = k
         \/ place[u] = "sweep" /\ part = "deadline"
<1>1. CASE k \in keysTested(u) /\ part = "deadline"
  BY <1>1 DEF keysTested, busy
<1>2. CASE unlocked(u) /\ <<k, part>> \in readsUnlocked(u)
  BY <1>2 DEF readsUnlocked, busy
<1> QED BY <1>1, <1>2 DEF reading

(* What t uses without the lock: parts of its key's entry, and if it       *)
(* writes the deadline it is about to move it.                             *)
LEMMA UnlockedParts ==
  ASSUME SafeInv, NEW t \in Threads, unlocked(t), NEW x,
         x \in writesUnlocked(t) \cup readsUnlocked(t)
  PROVE  /\ busy(t) /\ task[t].op \notin Locked /\ key(t) \in Keys
         /\ \E part \in {"data", "deadline"} : x = <<key(t), part>>
         /\ x \in writesUnlocked(t) =>
              task[t].op \notin Readers /\ (x = <<key(t), "data">> \/ movesDeadline(t))
<1>1. pointsAtEntry(t) /\ pointer[t] = "entry"
  BY DEF SafeInv, unlocked
<1>2. busy(t) /\ task[t].op \notin Locked /\ key(t) \in Keys
  BY <1>1, BusyThread DEF pointsAtEntry, SafeInv, busy
<1>3. \E part \in {"data", "deadline"} : x = <<key(t), part>>
  BY DEF writesUnlocked, readsUnlocked
<1>4. ASSUME x \in writesUnlocked(t)
      PROVE  task[t].op \notin Readers /\ (x = <<key(t), "data">> \/ movesDeadline(t))
  BY <1>1, <1>2, <1>4 DEF writesUnlocked, pointsAtEntry, opsAt, Readers, movesDeadline
<1> QED BY <1>2, <1>3, <1>4

LEMMA NoRace ==
  ASSUME SafeInv, Apart, NEW t \in Threads
  PROVE  ~Race(t)
<1>1. SUFFICES ASSUME NEW u \in Threads \ {t}, races(t, u) PROVE FALSE
  BY DEF Race
<1>2. unlocked(t) /\ pointer[t] = "entry"
  BY <1>1 DEF races, unlocked
<1>3. PICK x : \/ x \in writesUnlocked(t) /\ x \in writing(u) \cup reading(u)
               \/ x \in readsUnlocked(t) /\ x \in writing(u)
  BY <1>1 DEF races
<1>4. /\ busy(t) /\ task[t].op \notin Locked /\ key(t) \in Keys
      /\ \E part \in {"data", "deadline"} : x = <<key(t), part>>
      /\ x \in writesUnlocked(t) =>
           task[t].op \notin Readers /\ (x = <<key(t), "data">> \/ movesDeadline(t))
  BY <1>2, <1>3, UnlockedParts
<1>5. PICK part \in {"data", "deadline"} : x = <<key(t), part>>
  BY <1>4
<1>6. CASE x \in writing(u)
  <2>1. owns(u, key(t)) \/ expiredIn(database, key(t), now)
    BY <1>4, <1>5, <1>6, WritesItsOwn
  <2>2. ~owns(u, key(t))
    BY <1>4, NoneMeets
  <2> QED BY <1>2, <2>1, <2>2 DEF Apart
<1>7. CASE x \in writesUnlocked(t) /\ x \in reading(u)
  <2>1. CASE busy(u) /\ key(u) = key(t)
    BY <1>4, <1>7, <2>1 DEF Apart, meet, agree
  <2>2. CASE place[u] = "sweep" /\ part = "deadline"
    <3>1. x # <<key(t), "data">>
      BY <1>5, <2>2
    <3> QED BY <1>4, <1>7, <2>2, <3>1 DEF Apart
  <2> QED BY <1>4, <1>5, <1>7, <2>1, <2>2, ReadsItsOwn
<1> QED BY <1>3, <1>6, <1>7

-----------------------------------------------------------------------------
LEMMA InitSafe == Init => SafeInv /\ Apart
<1> SUFFICES ASSUME Init PROVE SafeInv /\ Apart
  OBVIOUS
<1>1. SafeInv
  BY InitTypes DEF Init, SafeInv, pointsAtEntry, busy, EntriesAreSafe
<1>2. Apart
  BY DEF Init, Apart, meet, busy, movesDeadline
<1> QED BY <1>1, <1>2

LEMMA HandlerKeepsSafe ==
  ASSUME SafeInv, Apart, TypeInv', NEW t \in Threads, Handler(t)
  PROVE  SafeInv'
BY LookupKeepsSafe, LookupAgainKeepsSafe, CreateKeepsSafe, ExistsKeepsSafe, StoreKeepsSafe,
   ClearKeepsSafe, MissingKeepsSafe, ReadersKeepSafe, PushKeepsSafe, PopKeepsSafe,
   DeadlineKeepsSafe
   DEF Handler

LEMMA NextKeepsSafe == SafeInv /\ Apart /\ [Next]_vars => SafeInv'
<1> SUFFICES ASSUME SafeInv, Apart, [Next]_vars PROVE SafeInv'
  OBVIOUS
<1>1. TypeInv'
  BY NextTypes DEF SafeInv
<1>2. CASE Tick \/ UNCHANGED vars
  <2>1. UNCHANGED <<database, place, task, pointer, undefined>>
    BY <1>2 DEF Tick, vars, threadVars
  <2> QED BY <1>1, <2>1 DEF SafeInv, pointsAtEntry, EntriesAreSafe, key, busy
<1>3. ASSUME NEW t \in Threads, Receive(t) \/ Working(t)
      PROVE  SafeInv'
  BY <1>1, <1>3, ReceiveKeepsSafe, CountKeepsSafe, TestKeepsSafe, SweepKeepsSafe,
     HandlerKeepsSafe, NoMisuse, NoRace DEF Working
<1> QED BY <1>2, <1>3 DEF Next

(* Whatever keys the clients share and whatever they send, with deadlines  *)
(* and sweeps, no handler uses an erased entry, a null pointer or an empty *)
(* list, and no two threads race on an entry, as long as the clients keep  *)
(* Apart.  Every handler works outside the lock on the entry getValue has  *)
(* found, so that without the condition all of this happens.               *)
THEOREM SafeWhileApart == Spec /\ []Apart => []EntriesAreSafe
<1>1. Init => SafeInv
  BY InitSafe
<1>2. SafeInv => EntriesAreSafe
  BY DEF SafeInv
<1> QED BY <1>1, <1>2, NextKeepsSafe, PTL DEF Spec

-----------------------------------------------------------------------------
(* One command at a time: AtomicKeyspace                                   *)

(* What EagerExpiry has of an entry v of the map                           *)
seen(v) == IF v.type # "none" /\ isExpired(v, now) THEN NoValue ELSE v

inSteps(t) == task[t].op \in {"LPUSH", "LPOP"}

(* What a handler has found out about its key's entry                      *)
hasFound(t) ==
  /\ place[t] = "check" /\ pointer[t] = "null" => ~present(database, key(t))
  /\ place[t] = "create" => ~present(database, key(t))
  /\ place[t] = "store" /\ task[t].op = "INCR" =>
       IF pointer[t] = "null"
       THEN ~present(database, key(t)) /\ local[t].string_value = toString(0)
       ELSE /\ entryOf(t).type = "string" /\ isInteger(entryOf(t).string_value)
            /\ local[t].string_value = entryOf(t).string_value
  /\ place[t] = "delete" /\ task[t].op = "EXPIRE" => pointer[t] = "entry" /\ seconds(t) <= 0

(* What a push or a pop has made so far, v, of the entry old its key had   *)
(* when it arrived                                                         *)
hasMade(t, old, v) ==
  /\ task[t].op = "LPUSH" /\ old.type = "list" => Len(old.list_value) < MaxListLength
  /\ place[t] \in {"count", "test", "sweep", "lookup", "check", "create"} => old = seen(v)
  /\ place[t] = "again" => old = NoValue
  /\ place[t] = "push" =>
       v.type = "list" /\ v = IF old.type = "none" THEN NewValue("list") ELSE old
  /\ place[t] = "pop" => v = old /\ old.type = "list"
  /\ place[t] \in {"popped", "delete"} =>
       /\ pointer[t] = "entry" /\ old.type = "list" /\ old.list_value # <<>>
       /\ v = [old EXCEPT !.list_value = Tail(old.list_value)]
       /\ local[t].string_value = Head(old.list_value)
  /\ place[t] = "delete" => Tail(old.list_value) = <<>>

ownWork(t) ==
  hasFound(t) /\ (inSteps(t) => hasMade(t, shown[key(t)], database[key(t)]))

History ==
  /\ isDatabase(shown)
  /\ \A k \in Keys : ~expiredIn(shown, k, now)
  /\ \A k \in Keys : ~inUse(k) => shown[k] = seen(database[k])
  /\ \A t \in Threads : busy(t) => ownWork(t)

AtomicInv == SafeInv /\ Apart /\ History

-----------------------------------------------------------------------------
(* What EagerExpiry does from the history variable.  Its operators that do *)
(* not speak of the variables are ours.                                    *)

LEMMA SameReplies ==
  /\ \A x : /\ Eager!Simple(x) = Simple(x)
            /\ Eager!Error(x) = Error(x)
            /\ Eager!Integer(x) = Integer(x)
            /\ Eager!Bulk(x) = Bulk(x)
  /\ Eager!Null = Null
  BY DEF Simple, Error, Integer, Bulk, Null,
         Eager!Simple, Eager!Error, Eager!Integer, Eager!Bulk, Eager!Null

LEMMA SameStrings ==
  /\ \A s : Eager!isInteger(s) = isInteger(s)
  /\ \A s : Eager!parseInt(s) = parseInt(s)
  /\ \A n : Eager!toString(n) = toString(n)
  /\ \A n : Eager!Wrap(n) = Wrap(n)
  BY DEF isInteger, parseInt, toString, Wrap, LongLong,
         Eager!isInteger, Eager!parseInt, Eager!toString, Eager!Wrap, Eager!LongLong

LEMMA SameValues ==
  /\ \A x : Eager!NewValue(x) = NewValue(x)
  /\ \A s : Eager!StringValue(s) = StringValue(s)
  /\ \A v, n : Eager!setExpiry(v, now, n) = setExpiry(v, now, n)
  /\ \A v : Eager!clearExpiry(v) = clearExpiry(v)
  /\ \A v : Eager!isExpired(v, now) <=> isExpired(v, now)
  BY SameStrings
  DEF NewValue, StringValue, NoHash, EmptyString, setExpiry, clearExpiry, isExpired,
      Eager!NewValue, Eager!StringValue, Eager!NoHash, Eager!EmptyString, Eager!setExpiry,
      Eager!clearExpiry, Eager!isExpired

LEMMA SameCalls ==
  /\ Eager!NoValue = NoValue
  /\ Eager!clearDatabase = clearDatabase
  /\ \A db, k : Eager!present(db, k) <=> db[k].type # "none"
  /\ \A db, k, x : Eager!isType(db, k, x) <=> db[k].type = x
  /\ \A db, k, x : Eager!isOtherType(db, k, x) <=> db[k].type # "none" /\ db[k].type # x
  /\ \A db, k, v : Eager!setValue(db, k, v) = [db EXCEPT ![k] = v]
  /\ \A db, k : Eager!deleteKey(db, k) = [db EXCEPT ![k] = NoValue]
  BY DEF NoValue, clearDatabase, Eager!NoValue, Eager!clearDatabase, Eager!present,
         Eager!isType, Eager!isOtherType, Eager!setValue, Eager!deleteKey

(* The map EagerExpiry has holds nothing expired: lookups find it as it    *)
(* is, and the sweep leaves it.                                            *)
LEMMA ShownIsFound ==
  ASSUME History
  PROVE  /\ Eager!entry = shown
         /\ \A k \in Keys : Eager!lookup(shown, k, now) = shown
<1>1. \A k \in Keys : ~Eager!expiredIn(shown, k, now)
  BY DEF History, expiredIn, present, isExpired,
         Eager!expiredIn, Eager!present, Eager!isExpired
<1>2. Eager!cleanupExpiredKeys(shown, now) = shown
  BY <1>1 DEF History, isDatabase, Eager!cleanupExpiredKeys
<1>3. 1 % 1 = 0 /\ 0 + 1 = 1
  OBVIOUS
<1> QED BY <1>1, <1>2, <1>3 DEF Eager!entry, Eager!lookup

LEMMA CountIsZero == Eager!count
  BY DEF Eager!count

(* What a command does as one step: its key's entry becomes v              *)
ends(k, v, r) == shown' = [shown EXCEPT ![k] = v] /\ reply' = r /\ now' = now

LEMMA LeavesMap ==
  ASSUME History, NEW k \in Keys, NEW r, ends(k, shown[k], r)
  PROVE  shown' = shown /\ reply' = r /\ now' = now
  BY DEF ends, History, isDatabase

LEMMA SetAtOnce ==
  ASSUME History, PlainCommands, NEW k \in Keys, NEW s \in Values,
         ends(k, StringValue(s), Simple("OK"))
  PROVE  Eager!Set
<1>1. DOMAIN <<>> = {} /\ Len(<<>>) = 0
  OBVIOUS
<1>2. Eager!positions(<<>>) = {}
  BY <1>1 DEF Eager!positions
<1>3. Eager!options(<<>>) = {} /\ ~Eager!dangling(<<>>)
  BY <1>1, <1>2 DEF Eager!options, Eager!dangling
<1>4. Eager!afterOptions(shown, k, <<>>, 0) = shown
  BY <1>3 DEF Eager!afterOptions
<1>5. Eager!valueToSet(s, <<>>) = StringValue(s)
  BY <1>3, SameValues DEF Eager!valueToSet
<1>6. Eager!cmdSet(shown, k, s, <<>>)
  BY <1>1, <1>3, <1>4, <1>5, SameCalls, SameReplies DEF Eager!cmdSet, Eager!Respond, ends
<1> QED BY <1>6, CountIsZero, ShownIsFound DEF Eager!Set, PlainCommands

LEMMA FlushallAtOnce ==
  ASSUME History, shown' = clearDatabase, reply' = Simple("OK"), now' = now
  PROVE  Eager!Flushall
<1>1. Eager!cmdFlushall(shown)
  BY SameCalls, SameReplies DEF Eager!cmdFlushall, Eager!Respond
<1> QED BY <1>1, CountIsZero, ShownIsFound DEF Eager!Flushall

LEMMA GetAtOnce ==
  ASSUME History, NEW k \in Keys,
         ends(k, shown[k], IF shown[k].type = "string" THEN Bulk(shown[k].string_value) ELSE Null)
  PROVE  Eager!Get
<1>1. Eager!lookup(shown, k, now) = shown
  BY ShownIsFound
<1>2. /\ shown' = shown /\ now' = now
      /\ shown[k].type = "string" => reply' = Bulk(shown[k].string_value)
      /\ shown[k].type # "string" => reply' = Null
  BY LeavesMap
<1>3. Eager!cmdGet(shown, k)
  BY <1>1, <1>2, SameCalls, SameReplies DEF Eager!cmdGet, Eager!Respond
<1> QED BY <1>3, CountIsZero, ShownIsFound DEF Eager!Get

LEMMA TtlAtOnce ==
  ASSUME History, NEW k \in Keys, NEW n, ends(k, shown[k], Integer(n)),
         \/ shown[k].type = "none" /\ n = -2
         \/ shown[k].type # "none" /\ ~shown[k].has_expiry /\ n = -1
         \/ /\ shown[k].type # "none" /\ shown[k].has_expiry
            /\ n = (shown[k].expiry - now) \div TicksPerSecond
  PROVE  Eager!Ttl
<1>1. Eager!lookup(shown, k, now) = shown
  BY ShownIsFound
<1>2. shown' = shown /\ reply' = Integer(n) /\ now' = now
  BY LeavesMap
<1>3. Eager!cmdTtl(shown, k)
  BY <1>1, <1>2, SameCalls, SameReplies DEF Eager!cmdTtl, Eager!Respond
<1> QED BY <1>3, CountIsZero, ShownIsFound DEF Eager!Ttl

LEMMA PersistAtOnce ==
  ASSUME History, NEW k \in Keys, NEW v, NEW n, ends(k, v, Integer(n)),
         IF shown[k].type # "none" /\ shown[k].has_expiry
         THEN v = clearExpiry(shown[k]) /\ n = 1
         ELSE v = shown[k] /\ n = 0
  PROVE  Eager!Persist
<1>1. Eager!lookup(shown, k, now) = shown
  BY ShownIsFound
<1>2. Eager!cmdPersist(shown, k)
  <2>1. CASE shown[k].type # "none" /\ shown[k].has_expiry
    BY <1>1, <2>1, SameCalls, SameReplies, SameValues DEF Eager!cmdPersist, Eager!Respond, ends
  <2>2. CASE ~(shown[k].type # "none" /\ shown[k].has_expiry)
    <3>1. shown' = shown /\ reply' = Integer(0) /\ now' = now
      BY <2>2, LeavesMap
    <3>2. Eager!Respond(shown, Eager!Integer(0))
      BY <3>1, SameReplies DEF Eager!Respond
    <3>3. CASE shown[k].type = "none"
      <4>1. ~Eager!present(shown, k)
        BY <3>3, SameCalls
      <4> QED BY <1>1, <3>2, <4>1, Zenon DEF Eager!cmdPersist
    <3>4. CASE shown[k].type # "none" /\ ~shown[k].has_expiry
      BY <1>1, <3>2, <3>4, SameCalls DEF Eager!cmdPersist
    <3> QED BY <2>2, <3>3, <3>4
  <2> QED BY <2>1, <2>2
<1> QED BY <1>2, CountIsZero, ShownIsFound DEF Eager!Persist

(* EXPIRE of a key there is not; then with a time that is past, one that   *)
(* is not, and one that overflows the clock                                *)
LEMMA ExpireAtOnce ==
  ASSUME History, NEW k \in Keys, NEW a \in Amounts, isInteger(a), NEW v, NEW n,
         ends(k, v, Integer(n)),
         \/ shown[k].type = "none" /\ v = shown[k] /\ n = 0
         \/ /\ shown[k].type # "none" /\ n = 1
            /\ v = IF parseInt(a) <= 0
                   THEN NoValue
                   ELSE setExpiry(shown[k], now, Wrap(parseInt(a) * TicksPerSecond))
  PROVE  Eager!Expire
<1>1. Eager!lookup(shown, k, now) = shown
  BY ShownIsFound
<1>2. Eager!secondsToTicks(parseInt(a)) = Wrap(parseInt(a) * TicksPerSecond)
  BY SameStrings DEF Eager!secondsToTicks
<1>3. Eager!cmdExpire(shown, k, a)
  <2>1. CASE shown[k].type = "none"
    <3>1. shown' = shown /\ reply' = Integer(0) /\ now' = now
      BY <2>1, LeavesMap
    <3> QED BY <1>1, <2>1, <3>1, SameCalls, SameReplies, SameStrings
            DEF Eager!cmdExpire, Eager!Respond
  <2>2. CASE shown[k].type # "none"
    BY <1>1, <1>2, <2>2, SameCalls, SameReplies, SameStrings, SameValues
    DEF Eager!cmdExpire, Eager!Respond, ends
  <2> QED BY <2>1, <2>2
<1> QED BY <1>3, CountIsZero, ShownIsFound DEF Eager!Expire

LEMMA ExpireExpiredAtOnce ==
  ASSUME History, NEW k \in Keys, NEW a \in Amounts, shown[k].type # "none",
         isExpired(setExpiry(shown[k], now, Wrap(parseInt(a) * TicksPerSecond)), now),
         ends(k, NoValue, Integer(1))
  PROVE  Eager!ExpireExpired
<1>1. Eager!secondsToTicks(Eager!parseInt(a)) = Wrap(parseInt(a) * TicksPerSecond)
  BY SameStrings DEF Eager!secondsToTicks
<1>2. Eager!present(shown, k)
  BY SameCalls
<1>3. Eager!isExpired(Eager!setExpiry(shown[k], now, Eager!secondsToTicks(Eager!parseInt(a))), now)
  BY <1>1, SameValues
<1>4. Eager!Respond(Eager!deleteKey(shown, k), Eager!Integer(1))
  BY SameCalls, SameReplies DEF Eager!Respond, ends
<1> QED BY <1>2, <1>3, <1>4, CountIsZero DEF Eager!ExpireExpired

(* DEL of one key, counted or not                                          *)
LEMMA DelAtOnce ==
  ASSUME History, PlainCommands, NEW k \in Keys, NEW n \in {0, 1}, ends(k, NoValue, Integer(n)),
         shown[k].type # "none" => n = 1
  PROVE  Eager!DelCountsAtLeast
<1> DEFINE K == IF n = 1 THEN {k} ELSE {}
<1>1. <<k>> \in KeyLists /\ Eager!ToSet(<<k>>) = {k}
  BY DEF PlainCommands, Eager!ToSet
<1>2. Eager!Cardinality(K) = n
  <2>1. Eager!Cardinality(K) = Cardinality(K)
    BY DEF Cardinality, Eager!Cardinality
  <2> QED BY <2>1, FS_Singleton, FS_EmptySet
<1>3. K \in SUBSET {k} /\ {l \in {k} : Eager!present(shown, l)} \subseteq K
  BY SameCalls
<1> HIDE DEF K
<1>4. [shown EXCEPT ![k] = NoValue]
        = [l \in Keys |-> IF l \in {k} THEN Eager!NoValue ELSE shown[l]]
  BY SameCalls DEF History, isDatabase
<1>5. Eager!Respond([l \in Keys |-> IF l \in {k} THEN Eager!NoValue ELSE shown[l]],
                    Eager!Integer(Eager!Cardinality(K)))
  BY <1>2, <1>4, SameReplies DEF Eager!Respond, ends
<1> QED BY <1>1, <1>3, <1>5, CountIsZero DEF Eager!DelCountsAtLeast

(* The number INCR adds to, the text of it, and the two errors             *)
LEMMA IncrStoresAtOnce ==
  ASSUME History, NEW k \in Keys, NEW s,
         IF shown[k].type = "none"
         THEN s = toString(0)
         ELSE shown[k].type = "string" /\ isInteger(shown[k].string_value)
              /\ s = shown[k].string_value,
         ends(k, StringValue(toString(Wrap(parseInt(s) + 1))), Integer(Wrap(parseInt(s) + 1)))
  PROVE  Eager!Incr
<1>1. Eager!lookup(shown, k, now) = shown
  BY ShownIsFound
<1>2. Wrap(parseInt(toString(0)) + 1) = Wrap(1)
  <2>1. 0 \in LongLong /\ 0 + 1 = 1
    BY DataAssumption DEF LongLong
  <2> QED BY <2>1 DEF parseInt, toString, isInteger
<1>3. Eager!cmdIncr(shown, k)
  <2>1. CASE shown[k].type = "none"
    <3>1. s = toString(0)
      BY <2>1
    <3>2. ends(k, StringValue(toString(Wrap(1))), Integer(Wrap(1)))
      BY <1>2, <3>1
    <3> QED BY <1>1, <2>1, <3>2, SameCalls, SameReplies, SameStrings, SameValues
            DEF Eager!cmdIncr, Eager!addTo, Eager!storeNumber, Eager!Respond, ends
  <2>2. CASE shown[k].type # "none"
    <3>1. /\ shown[k].type = "string" /\ isInteger(shown[k].string_value)
          /\ s = shown[k].string_value
      BY <2>2
    <3> DEFINE n == Wrap(parseInt(s) + 1)
    <3>2. /\ shown' = [shown EXCEPT ![k] = StringValue(toString(n))]
          /\ reply' = Integer(n) /\ now' = now
      BY DEF ends
    <3>3. Eager!Wrap(Eager!parseInt(shown[k].string_value) + 1) = n
      BY <3>1, SameStrings
    <3> HIDE DEF n
    <3>4. Eager!storeNumber(shown, k, n)
      BY <3>2, SameCalls, SameReplies, SameStrings, SameValues
      DEF Eager!storeNumber, Eager!Respond
    <3>5. Eager!addTo(shown, k, 1)
      BY <1>1, <3>1, <3>3, <3>4, SameCalls, SameStrings DEF Eager!addTo
    <3> QED BY <3>5 DEF Eager!cmdIncr
  <2> QED BY <2>1, <2>2
<1> QED BY <1>3, CountIsZero, ShownIsFound DEF Eager!Incr

LEMMA IncrRefusesAtOnce ==
  ASSUME History, NEW k \in Keys, NEW r, ends(k, shown[k], r), shown[k].type # "none",
         \/ shown[k].type # "string" /\ r = Error("wrong type")
         \/ /\ shown[k].type = "string" /\ ~isInteger(shown[k].string_value)
            /\ r = Error("not an integer")
  PROVE  Eager!Incr
<1>1. Eager!lookup(shown, k, now) = shown
  BY ShownIsFound
<1>2. shown' = shown /\ reply' = r /\ now' = now
  BY LeavesMap
<1>3. Eager!cmdIncr(shown, k)
  BY <1>1, <1>2, SameCalls, SameReplies, SameStrings
  DEF Eager!cmdIncr, Eager!addTo, Eager!Respond
<1> QED BY <1>3, CountIsZero, ShownIsFound DEF Eager!Incr

(* LPUSH of one value                                                      *)
LEMMA PushRefusesAtOnce ==
  ASSUME History, PlainCommands, NEW k \in Keys, NEW s \in Values,
         shown[k].type # "none", shown[k].type # "list",
         ends(k, shown[k], Error("wrong type"))
  PROVE  Eager!Lpush
<1>1. Eager!lookup(shown, k, now) = shown
  BY ShownIsFound
<1>2. Eager!cmdLpush(shown, k, <<s>>)
  BY <1>1, LeavesMap, SameCalls, SameReplies
  DEF Eager!cmdLpush, Eager!pushTo, Eager!Respond
<1>3. Eager!roomFor(k, <<s>>) /\ <<s>> \in ValueLists
  BY SameCalls DEF Eager!roomFor, PlainCommands
<1> QED BY <1>2, <1>3, CountIsZero, ShownIsFound DEF Eager!Lpush

LEMMA PushAtOnce ==
  ASSUME History, PlainCommands, NEW k \in Keys, NEW s \in Values,
         NEW v, v = IF shown[k].type = "none" THEN NewValue("list") ELSE shown[k],
         v.type = "list", v.list_value \in Seq(Strings),
         shown[k].type = "list" => Len(shown[k].list_value) < MaxListLength,
         ends(k, [v EXCEPT !.list_value = <<s>> \o v.list_value],
              Integer(Len(<<s>> \o v.list_value)))
  PROVE  Eager!Lpush
<1> DEFINE l == <<s>> \o v.list_value
<1>1. Eager!lookup(shown, k, now) = shown
  BY ShownIsFound
<1>2. s \in Strings
  BY ArgumentAssumption
<1>3. l \in Seq(Strings)
  BY <1>2
<1>4. Eager!Reverse(<<s>>) = <<s>>
  BY DEF Eager!Reverse
<1>5. l \o <<>> = l
  BY <1>3
<1>6. Eager!listAt(shown, k) = v
  BY SameCalls, SameValues DEF Eager!listAt
<1>7. ~Eager!isOtherType(shown, k, "list")
  BY SameCalls
<1> HIDE DEF l
<1>8. Eager!cmdLpush(shown, k, <<s>>)
  <2>1. Eager!Reverse(<<s>>) \o Eager!listAt(shown, k).list_value \o <<>> = l
    BY <1>4, <1>5, <1>6 DEF l
  <2>2. shown' = [shown EXCEPT ![k] = [v EXCEPT !.list_value = l]]
        /\ reply' = Integer(Len(l)) /\ now' = now
    BY DEF ends, l
  <2> QED BY <1>1, <1>6, <1>7, <2>1, <2>2, SameCalls, SameReplies
          DEF Eager!cmdLpush, Eager!pushTo, Eager!Respond
<1>9. Eager!roomFor(k, <<s>>) /\ <<s>> \in ValueLists
  <2>1. shown[k].type = "list" => Len(shown[k].list_value) \in Nat
    <3>1. shown[k].type = "list" => v = shown[k]
      OBVIOUS
    <3> QED BY <3>1
  <2>2. Len(<<s>>) = 1 /\ MaxListLength \in Nat
    BY SharedAssumption
  <2>3. \A a, b \in Nat : a < b => a + 1 <= b
    OBVIOUS
  <2> QED BY <2>1, <2>2, <2>3, SameCalls DEF Eager!roomFor, PlainCommands
<1> QED BY <1>8, <1>9, CountIsZero, ShownIsFound DEF Eager!Lpush

(* LPOP                                                                    *)
LEMMA PopNothingAtOnce ==
  ASSUME History, NEW k \in Keys, ends(k, shown[k], Null),
         shown[k].type = "list" => shown[k].list_value = <<>>
  PROVE  Eager!Lpop
<1>1. Eager!lookup(shown, k, now) = shown
  BY ShownIsFound
<1>2. Eager!cmdLpop(shown, k)
  BY <1>1, LeavesMap, SameCalls, SameReplies
  DEF Eager!cmdLpop, Eager!popFrom, Eager!Respond
<1> QED BY <1>2, CountIsZero, ShownIsFound DEF Eager!Lpop

LEMMA PopAtOnce ==
  ASSUME History, NEW k \in Keys, shown[k].type = "list", shown[k].list_value # <<>>,
         NEW v, ends(k, v, Bulk(Head(shown[k].list_value))),
         v = IF Tail(shown[k].list_value) = <<>>
             THEN NoValue
             ELSE [shown[k] EXCEPT !.list_value = Tail(shown[k].list_value)]
  PROVE  Eager!Lpop
<1>1. Eager!lookup(shown, k, now) = shown
  BY ShownIsFound
<1>2. Eager!cmdLpop(shown, k)
  BY <1>1, SameCalls, SameReplies DEF Eager!cmdLpop, Eager!popFrom, Eager!Respond, ends
<1> QED BY <1>2, CountIsZero, ShownIsFound DEF Eager!Lpop

-----------------------------------------------------------------------------
(* What a step does to the history variable                                *)

LEMMA SeenValue ==
  ASSUME NEW v
  PROVE  /\ seen(v) = NoValue \/ seen(v) = v
         /\ v = NoValue => seen(v) = NoValue
         /\ v.type # "none" /\ ~isExpired(v, now) => seen(v) = v
  BY DEF seen, NoValue

(* What Remember says of a key, when the clock stands still                *)
LEMMA Remembered ==
  ASSUME History, Remember, UNCHANGED now, NEW k \in Keys
  PROVE  shown'[k] = IF inUse(k)' THEN shown[k] ELSE seen(database'[k])
  BY DEF Remember, cleanupExpiredKeys, expiredIn, present, seen, History

LEMMA ShownIsMap ==
  ASSUME History, TypeInv', Remember, UNCHANGED now
  PROVE  /\ isDatabase(shown)' /\ shown' = [k \in Keys |-> shown'[k]]
         /\ \A k \in Keys : ~expiredIn(shown', k, now)
         /\ \A k \in Keys : ~inUse(k)' => shown'[k] = seen(database'[k])
<1>1. shown' = [k \in Keys |-> shown'[k]]
  BY DEF Remember, cleanupExpiredKeys
<1>2. ASSUME NEW k \in Keys
      PROVE  /\ shown'[k] = NoValue \/ isRedisValue(shown'[k])
             /\ ~expiredIn(shown', k, now)
             /\ ~inUse(k)' => shown'[k] = seen(database'[k])
  <2>1. database'[k] = NoValue \/ isRedisValue(database'[k])
    BY DEF TypeInv, TypeOK, isDatabase
  <2>2. shown[k] = NoValue \/ isRedisValue(shown[k])
    BY DEF History, isDatabase
  <2>3. ~expiredIn(shown, k, now)
    BY DEF History
  <2>4. shown'[k] = IF inUse(k)' THEN shown[k] ELSE seen(database'[k])
    BY Remembered
  <2> QED BY <2>1, <2>2, <2>3, <2>4 DEF seen, expiredIn, present, NoValue
<1> QED BY <1>1, <1>2 DEF isDatabase

(* Only one command at a time works in steps on a key, and no other is     *)
(* about that key then.                                                    *)
LEMMA InUseByOne ==
  ASSUME Apart, NEW t \in Threads, busy(t)
  PROVE  inUse(key(t)) <=> inSteps(t)
  BY DEF Apart, inUse, meet, agree, inSteps, Locked, Readers

(* What t's step leaves of a key that is not its own                       *)
LEMMA ElsewhereSame ==
  ASSUME AtomicInv, NEW t \in Threads, busy(t), Changes(t), task[t].op # "FLUSHALL",
         NEW k \in Keys \ {key(t)}
  PROVE  seen(database'[k]) = seen(database[k])
  BY DEF Changes, owns, seen, expiredIn, present, NoValue, isExpired

(* A step that shows nothing yet of what it does                           *)
Quiet(t) ==
  \A k \in Keys :
    \/ seen(database'[k]) = seen(database[k])
    \/ k = key(t) /\ inSteps(t)

(* A step of a handler that goes on: nothing                               *)
LEMMA GoingOnIsSilent ==
  ASSUME AtomicInv, TypeInv', NEW t \in Threads, busy(t), Quiet(t), Remember,
         UNCHANGED <<now, task>>, NEW p, p # "idle", goesTo(t, p)
  PROVE  shown' = shown
<1>1. \A u \in Threads : busy(u)' <=> busy(u)
  BY DEF AtomicInv, SafeInv, TypeInv, Functional, goesTo, busy
<1>2. \A k \in Keys : inUse(k)' <=> inUse(k)
  BY <1>1 DEF inUse, key
<1>3. ASSUME NEW k \in Keys
      PROVE  shown'[k] = shown[k]
  <2>1. inUse(k) \/ shown[k] = seen(database[k])
    BY DEF AtomicInv, History
  <2>2. inUse(k) \/ seen(database'[k]) = seen(database[k])
    BY InUseByOne DEF AtomicInv, Quiet
  <2> QED BY <1>2, <2>1, <2>2, Remembered DEF AtomicInv
<1> QED BY <1>3, ShownIsMap DEF AtomicInv, History, isDatabase

(* A step that answers: its key's entry is now what it has become          *)
LEMMA AnswerIsSeen ==
  ASSUME AtomicInv, TypeInv', NEW t \in Threads, busy(t), Changes(t), Remember,
         task[t].op # "FLUSHALL", NEW r, answers(t, r)
  PROVE  shown' = [shown EXCEPT ![key(t)] = seen(database'[key(t)])]
<1>1. place' = [u \in Threads |-> IF u = t THEN "idle" ELSE place[u]]
  BY DEF AtomicInv, SafeInv, TypeInv, Functional, answers, goesTo
<1>2. \A u \in Threads \ {t} : task'[u] = task[u] /\ (busy(u)' <=> busy(u))
  BY <1>1 DEF AtomicInv, SafeInv, TypeInv, Functional, answers, busy
<1>3. ~busy(t)'
  BY <1>1 DEF busy
<1>4. PICK k0 \in Keys : k0 = key(t)
  BY BusyThread DEF AtomicInv, SafeInv, busy
<1>5. ~inUse(k0)'
  <2>1. ASSUME NEW u \in Threads, busy(u)', task'[u].op \in {"LPUSH", "LPOP"}
        PROVE  task'[u].key # k0
    <3>1. u # t /\ busy(u) /\ task'[u] = task[u]
      BY <1>2, <1>3, <2>1
    <3>2. key(t) # key(u)
      BY <2>1, <3>1 DEF AtomicInv, Apart, meet, agree, Locked, Readers
    <3> QED BY <1>4, <3>1, <3>2 DEF key
  <2> QED BY <2>1 DEF inUse, key
<1>6. \A k \in Keys \ {key(t)} : inUse(k)' <=> inUse(k)
  BY <1>2, <1>3 DEF inUse, key
<1>7. ASSUME NEW k \in Keys
      PROVE  shown'[k] = IF k = k0 THEN seen(database'[k]) ELSE shown[k]
  <2>1. shown'[k] = IF inUse(k)' THEN shown[k] ELSE seen(database'[k])
    BY Remembered DEF AtomicInv, answers
  <2>2. CASE k = k0
    BY <1>5, <2>1, <2>2
  <2>3. CASE k # k0
    <3>1. inUse(k) \/ shown[k] = seen(database[k])
      BY DEF AtomicInv, History
    <3>2. seen(database'[k]) = seen(database[k]) /\ (inUse(k)' <=> inUse(k))
      BY <1>4, <1>6, <2>3, ElsewhereSame
    <3> QED BY <2>1, <2>3, <3>1, <3>2
  <2> QED BY <2>2, <2>3
<1>8. shown' = [k \in Keys |-> shown'[k]] /\ shown = [k \in Keys |-> shown[k]]
  BY ShownIsMap DEF AtomicInv, History, isDatabase, answers
<1>9. shown' = [k \in Keys |-> IF k = k0 THEN seen(database'[k]) ELSE shown[k]]
  BY <1>7, <1>8
<1> QED BY <1>4, <1>8, <1>9

(* The work of the others is not touched                                   *)
LEMMA OthersWork ==
  ASSUME AtomicInv, NEW t \in Threads, busy(t), Changes(t), UNCHANGED now,
         \A k \in Keys \ {key(t)} : shown'[k] = shown[k] \/ task[t].op = "FLUSHALL",
         NEW u \in Threads \ {t}, busy(u),
         place'[u] = place[u], task'[u] = task[u], local'[u] = local[u],
         pointer'[u] = kept(u)
  PROVE  ownWork(u)'
<1>1. key(u) \in Keys /\ ownWork(u) /\ pointsAtEntry(u) /\ key(u)' = key(u)
  BY BusyThread DEF AtomicInv, SafeInv, busy, History, key
<1>2. CASE task[u].op \in Locked
  BY <1>1, <1>2 DEF pointsAtEntry, opsAt, Locked, ownWork, hasFound, inSteps
<1>3. CASE task[u].op \notin Locked
  <2>1. /\ \/ database'[key(u)] = database[key(u)]
           \/ expiredIn(database, key(u), now) /\ database'[key(u)] = NoValue
        /\ pointer[u] = "entry" => database'[key(u)] = database[key(u)]
        /\ pointer'[u] = pointer[u]
    BY <1>3, EntryKept DEF AtomicInv
  <2>2. ~present(database, key(u)) => ~present(database', key(u))
    BY <2>1 DEF present, NoValue
  <2>3. hasFound(u)'
    BY <1>1, <2>1, <2>2 DEF ownWork, hasFound, pointsAtEntry, entryOf, seconds, key
  <2>4. CASE ~inSteps(u)
    BY <1>1, <2>3, <2>4 DEF ownWork, inSteps
  <2>5. CASE inSteps(u)
    <3>1. key(u) # key(t) /\ task[t].op # "FLUSHALL"
      BY <2>5 DEF AtomicInv, Apart, meet, agree, Locked, Readers, inSteps
    <3>2. shown'[key(u)] = shown[key(u)]
      BY <1>1, <3>1
    <3>3. seen(database'[key(u)]) = seen(database[key(u)])
      BY <1>1, <3>1, ElsewhereSame
    <3>4. hasMade(u, shown[key(u)], database'[key(u)])
      BY <1>1, <2>1, <2>5, <3>3 DEF ownWork, hasMade, pointsAtEntry
    <3>5. hasMade(u, shown[key(u)], database'[key(u)])
            => hasMade(u, shown[key(u)], database[key(u)])'
      BY <1>1, <2>1, <3>2 DEF hasMade, seen, key, kept
    <3> QED BY <1>1, <2>3, <3>4, <3>5 DEF ownWork, inSteps
  <2> QED BY <2>4, <2>5
<1> QED BY <1>2, <1>3

(* A step that goes on is a stutter, if the work of t is as it should be   *)
stutters == UNCHANGED <<shown, now, reply>>

LEMMA GoingOnIsStutter ==
  ASSUME AtomicInv, TypeInv', NEW t \in Threads, busy(t), Changes(t), Remember,
         NEW p, p # "idle", goesTo(t, p), NEW q, pointerOf(t, q),
         local' = [u \in Threads |-> IF u = t THEN local'[u] ELSE local[u]],
         UNCHANGED <<now, reply, task>>,
         Quiet(t),
         shown' = shown => ownWork(t)'
  PROVE  History' /\ stutters
<1>1. shown' = shown
  BY GoingOnIsSilent
<1>2. ASSUME NEW u \in Threads, busy(u)'
      PROVE  ownWork(u)'
  <2>1. CASE u = t
    BY <1>1, <2>1
  <2>2. CASE u # t
    <3>1. /\ place'[u] = place[u] /\ task'[u] = task[u] /\ local'[u] = local[u]
          /\ pointer'[u] = kept(u) /\ busy(u)
      BY <1>2, <2>2 DEF AtomicInv, SafeInv, TypeInv, Functional, goesTo, pointerOf, busy
    <3> QED BY <1>1, <2>2, <3>1, OthersWork
  <2> QED BY <2>1, <2>2
<1>3. /\ isDatabase(shown)'
      /\ \A k \in Keys : ~expiredIn(shown', k, now)
      /\ \A k \in Keys : ~inUse(k)' => shown'[k] = seen(database'[k])
  BY ShownIsMap DEF AtomicInv
<1> QED BY <1>1, <1>2, <1>3 DEF History, stutters, seen

LEMMA AnswerIsStep ==
  ASSUME AtomicInv, TypeInv', NEW t \in Threads, busy(t), Changes(t), Remember,
         task[t].op # "FLUSHALL", NEW r, answers(t, r)
  PROVE  /\ History'
         /\ ends(key(t), seen(database'[key(t)]), r)
<1>1. shown' = [shown EXCEPT ![key(t)] = seen(database'[key(t)])]
  BY AnswerIsSeen
<1>2. \A k \in Keys \ {key(t)} : shown'[k] = shown[k]
  BY <1>1 DEF AtomicInv, History, isDatabase
<1>3. UNCHANGED now
  BY DEF answers
<1>4. ASSUME NEW u \in Threads, busy(u)'
      PROVE  ownWork(u)'
  <2>1. /\ u # t
        /\ place'[u] = place[u] /\ task'[u] = task[u] /\ local'[u] = local[u]
        /\ pointer'[u] = kept(u) /\ busy(u)
    BY <1>4 DEF AtomicInv, SafeInv, TypeInv, Functional, answers, goesTo, pointerOf, busy
  <2> QED BY <1>2, <1>3, <2>1, OthersWork
<1>5. /\ isDatabase(shown)'
      /\ \A k \in Keys : ~expiredIn(shown', k, now)
      /\ \A k \in Keys : ~inUse(k)' => shown'[k] = seen(database'[k])
  BY <1>3, ShownIsMap DEF AtomicInv
<1> QED BY <1>1, <1>3, <1>4, <1>5 DEF History, answers, ends, seen

LEMMA QuietSteps ==
  ASSUME AtomicInv, NEW t \in Threads, busy(t)
  PROVE  /\ UNCHANGED database => Quiet(t)
         /\ becomes(lookup(database, key(t), now)) => Quiet(t)
         /\ becomes(cleanupExpiredKeys(database, now)) => Quiet(t)
         /\ Changes(t) /\ inSteps(t) => Quiet(t)
<1>1. UNCHANGED database => Quiet(t)
  BY DEF Quiet
<1>2. ASSUME NEW k \in Keys, expiredIn(database, k, now)
      PROVE  seen(NoValue) = seen(database[k])
  BY <1>2 DEF seen, expiredIn, present, NoValue
<1>3. becomes(lookup(database, key(t), now)) => Quiet(t)
  BY <1>2 DEF Quiet, becomes, lookup, AtomicInv, SafeInv, TypeInv, TypeOK, isDatabase
<1>4. becomes(cleanupExpiredKeys(database, now)) => Quiet(t)
  BY <1>2 DEF Quiet, becomes, cleanupExpiredKeys
<1>5. Changes(t) /\ inSteps(t) => Quiet(t)
  BY ElsewhereSame DEF Quiet, inSteps
<1> QED BY <1>1, <1>3, <1>4, <1>5

-----------------------------------------------------------------------------
(* One lemma per action: it is a stutter, or the command                   *)

LEMMA CommandsAreSteps ==
  \/ Eager!Set \/ Eager!Get \/ Eager!Incr \/ Eager!Lpush \/ Eager!Lpop
  \/ Eager!Expire \/ Eager!Ttl \/ Eager!Persist \/ Eager!Flushall
  \/ Eager!ExpireExpired \/ Eager!DelCountsAtLeast \/ Eager!TickAndExpire
  => Eager!EagerNext
  BY DEF Eager!EagerNext, Eager!StringCommand, Eager!ListCommand, Eager!TTLCommand,
         Eager!ServerCommand

simulates == History' /\ (stutters \/ Eager!EagerNext)

(* A thread with a command                                                 *)
LEMMA OwnFacts ==
  ASSUME AtomicInv, NEW t \in Threads, busy(t)
  PROVE  /\ key(t) \in Keys /\ hasFound(t) /\ pointsAtEntry(t)
         /\ inSteps(t) => hasMade(t, shown[key(t)], database[key(t)])
         /\ ~inSteps(t) => shown[key(t)] = seen(database[key(t)])
         /\ task[t].op \in Offered /\ task[t].op \in opsAt(place[t])
         /\ task[t].op \in {"SET", "LPUSH"} => task[t].arg \in Values
         /\ task[t].op = "EXPIRE" => task[t].arg \in Amounts /\ isInteger(task[t].arg)
         /\ pointer[t] = "entry" =>
              /\ isRedisValue(entryOf(t)) /\ entryOf(t).type # "none"
              /\ ~isExpired(entryOf(t), now) /\ seen(entryOf(t)) = entryOf(t)
<1>1. key(t) \in Keys /\ task[t] \in requests(t)
  BY BusyThread DEF AtomicInv, SafeInv, busy
<1>2. /\ task[t].op \in Offered
      /\ task[t].op \in {"SET", "LPUSH"} => task[t].arg \in Values
      /\ task[t].op = "EXPIRE" => task[t].arg \in Amounts /\ isInteger(task[t].arg)
  BY <1>1 DEF requests, argsOf
<1>3. ownWork(t) /\ pointsAtEntry(t)
  BY DEF AtomicInv, SafeInv, History
<1>4. ~inSteps(t) => shown[key(t)] = seen(database[key(t)])
  BY <1>1, InUseByOne DEF AtomicInv, History
<1>5. ASSUME pointer[t] = "entry"
      PROVE  /\ isRedisValue(entryOf(t)) /\ entryOf(t).type # "none"
             /\ ~isExpired(entryOf(t), now) /\ seen(entryOf(t)) = entryOf(t)
  <2>1. isRedisValue(entryOf(t)) /\ entryOf(t).type # "none"
    BY <1>5, BusyThread, PartsOfValue DEF AtomicInv, SafeInv, busy
  <2>2. ~isExpired(entryOf(t), now)
    BY <1>5, <2>1 DEF AtomicInv, Apart, expiredIn, present, entryOf
  <2> QED BY <2>1, <2>2, SeenValue
<1> QED BY <1>1, <1>2, <1>3, <1>4, <1>5 DEF ownWork, pointsAtEntry

(* The thread after a step that goes on                                    *)
LEMMA GoneOn ==
  ASSUME AtomicInv, NEW t \in Threads, NEW p, NEW v, goesOn(t, p, v)
  PROVE  /\ place'[t] = p /\ local'[t] = v /\ task'[t] = task[t] /\ key(t)' = key(t)
         /\ pointer'[t] = kept(t)
         /\ local' = [u \in Threads |-> IF u = t THEN local'[u] ELSE local[u]]
         /\ pointer[t] = "entry" /\ present(database', key(t)) => pointer'[t] = "entry"
         /\ pointer[t] = "null" => pointer'[t] = "null"
  BY DEF AtomicInv, SafeInv, TypeInv, Functional, goesOn, goesTo, pointerOf, key, kept

LEMMA GoesOnStutters ==
  ASSUME AtomicInv, TypeInv', Remember, NEW t \in Threads, busy(t), Changes(t), Quiet(t),
         NEW p, p # "idle", NEW v, goesOn(t, p, v), shown' = shown => ownWork(t)'
  PROVE  History' /\ stutters
  BY GoneOn, GoingOnIsStutter DEF goesOn

(* A step that leaves the map, the pointers and the values alone           *)
LEMMA SameHands ==
  ASSUME AtomicInv, UNCHANGED <<database, local, pointer>>, NEW t \in Threads
  PROVE  /\ pointerOf(t, pointer[t])
         /\ local' = [u \in Threads |-> IF u = t THEN local'[u] ELSE local[u]]
<1>1. \A u \in Threads : kept(u) = pointer[u]
  BY DEF kept, AtomicInv, SafeInv, TypeInv
<1> QED BY <1>1 DEF AtomicInv, SafeInv, TypeInv, Functional, pointerOf

LEMMA CountStutters ==
  ASSUME AtomicInv, TypeInv', Remember, NEW t \in Threads, Count(t)
  PROVE  History' /\ stutters
<1>1. busy(t) /\ place[t] = "count" /\ Changes(t)
  BY SameDatabase DEF Count, at, busy
<1>2. place'[t] = "test" /\ key(t)' = key(t) /\ UNCHANGED <<database, task, pointer, local>>
  BY DEF Count, goesTo, AtomicInv, SafeInv, TypeInv, Functional, key
<1>3. shown' = shown => ownWork(t)'
  BY <1>1, <1>2, OwnFacts DEF ownWork, hasFound, hasMade, inSteps, Count, seen
<1> QED BY <1>1, <1>3, SameHands, QuietSteps, GoingOnIsStutter DEF Count

LEMMA TestStutters ==
  ASSUME AtomicInv, TypeInv', Remember, NEW t \in Threads, Test(t)
  PROVE  History' /\ stutters
<1>1. busy(t) /\ place[t] = "test" /\ Changes(t) /\ task[t].op \in Ops
  BY SameDatabase DEF Test, at, busy
<1>2. PICK p \in {"sweep", firstPlace(task[t].op)} : goesTo(t, p)
  BY DEF Test
<1>3. /\ p \in {"sweep", "store", "exists", "delete", "clear", "lookup"}
      /\ p = "store" => task[t].op = "SET"
      /\ p = "delete" => task[t].op = "DEL"
  BY <1>1, <1>2 DEF firstPlace
<1>4. place'[t] = p /\ key(t)' = key(t) /\ UNCHANGED <<database, task, pointer, local>>
  BY <1>2 DEF Test, goesTo, AtomicInv, SafeInv, TypeInv, Functional, key
<1>5. shown' = shown => ownWork(t)'
  BY <1>1, <1>3, <1>4, OwnFacts DEF ownWork, hasFound, hasMade, inSteps, Test, seen
<1> QED BY <1>1, <1>2, <1>3, <1>5, SameHands, QuietSteps, GoingOnIsStutter DEF Test

LEMMA SweepStutters ==
  ASSUME AtomicInv, TypeInv', Remember, NEW t \in Threads, Sweep(t)
  PROVE  History' /\ stutters
<1>1. /\ busy(t) /\ place[t] = "sweep" /\ task[t].op \in Ops
      /\ becomes(cleanupExpiredKeys(database, now))
  BY DEF Sweep, at, busy
<1>2. Changes(t) /\ Quiet(t)
  BY <1>1, SweepChanges, QuietSteps DEF AtomicInv
<1> DEFINE p == firstPlace(task[t].op)
<1>3. /\ p \in {"store", "exists", "delete", "clear", "lookup"}
      /\ p = "store" => task[t].op = "SET"
      /\ p = "delete" => task[t].op = "DEL"
      /\ inSteps(t) => p = "lookup"
  BY <1>1 DEF firstPlace, inSteps
<1>4. goesOn(t, p, Blank)
  BY DEF Sweep
<1> HIDE DEF p
<1>5. place'[t] = p /\ key(t)' = key(t) /\ task'[t] = task[t]
  BY <1>4, GoneOn
<1>6. inSteps(t) => seen(database'[key(t)]) = seen(database[key(t)])
  <2>1. key(t) \in Keys
    BY <1>1, OwnFacts
  <2> QED BY <1>1, <2>1
          DEF becomes, cleanupExpiredKeys, expiredIn, present, seen, NoValue
<1>7. UNCHANGED now
  BY DEF Sweep, goesOn
<1>8. ASSUME shown' = shown
      PROVE  ownWork(t)'
  <2>1. hasFound(t)'
    BY <1>3, <1>5 DEF hasFound
  <2>2. ASSUME inSteps(t)
        PROVE  hasMade(t, shown[key(t)], database[key(t)])'
    <3>1. hasMade(t, shown[key(t)], database[key(t)]) /\ p = "lookup"
      BY <1>1, <1>3, <2>2, OwnFacts
    <3>2. shown[key(t)] = seen(database'[key(t)])
      BY <1>1, <1>6, <2>2, <3>1 DEF hasMade
    <3>3. shown'[key(t)'] = seen(database[key(t)])'
      BY <1>5, <1>7, <1>8, <3>2 DEF seen
    <3> QED BY <1>5, <1>8, <3>1, <3>3 DEF hasMade
  <2> QED BY <1>5, <2>1, <2>2 DEF ownWork, inSteps
<1> QED BY <1>1, <1>2, <1>3, <1>4, <1>8, GoesOnStutters

(* The thread after a lookup                                               *)
LEMMA HasFound ==
  ASSUME AtomicInv, NEW t \in Threads, NEW p, finds(t, p)
  PROVE  /\ place'[t] = p /\ task'[t] = task[t] /\ key(t)' = key(t)
         /\ pointer'[t] = IF present(database', key(t)) THEN "entry" ELSE "null"
         /\ local' = [u \in Threads |-> IF u = t THEN local'[u] ELSE local[u]]
  BY DEF AtomicInv, SafeInv, TypeInv, Functional, finds, goesTo, pointerOf, key

LEMMA LookupStutters ==
  ASSUME AtomicInv, TypeInv', Remember, NEW t \in Threads, Lookup(t) \/ LookupAgain(t)
  PROVE  History' /\ stutters
<1>1. busy(t) /\ place[t] \in {"lookup", "again"} /\ becomes(lookup(database, key(t), now))
  BY DEF Lookup, LookupAgain, at, busy
<1>2. Changes(t) /\ Quiet(t)
  BY <1>1, LookupChanges, QuietSteps DEF AtomicInv
<1>3. PICK p \in {"check", "push"} :
        finds(t, p) /\ (p = "check" <=> place[t] = "lookup")
  BY DEF Lookup, LookupAgain, at
<1>4. key(t) \in Keys /\ isDatabase(database)
  BY <1>1, OwnFacts DEF AtomicInv, SafeInv, TypeInv, TypeOK
<1>5. seen(database'[key(t)]) = seen(database[key(t)])
  BY <1>1, <1>4 DEF becomes, lookup, expiredIn, present, seen, NoValue, isDatabase
<1>6. UNCHANGED now
  BY <1>3 DEF finds
<1>7. ASSUME shown' = shown
      PROVE  ownWork(t)'
  <2>1. CASE p = "check"
    BY <1>1, <1>3, <1>5, <1>6, <1>7, <2>1, OwnFacts, HasFound
    DEF ownWork, hasFound, hasMade, inSteps, seen
  <2>2. CASE p = "push"
    <3>1. task[t].op = "LPUSH" /\ database[key(t)] = NewValue("list")
      BY <1>1, <1>3, <2>2, OwnFacts DEF pointsAtEntry, opsAt
    <3>2. NewValue("list").type = "list" /\ ~NewValue("list").has_expiry
      BY DEF NewValue
    <3>3. database'[key(t)] = NewValue("list")
      BY <1>1, <3>1, <3>2 DEF becomes, lookup, expiredIn, isExpired
    <3>4. shown[key(t)] = NoValue
      BY <1>1, <1>3, <2>2, <3>1, OwnFacts DEF hasMade, inSteps
    <3> QED BY <1>3, <1>7, <2>2, <3>1, <3>2, <3>3, <3>4, HasFound
            DEF ownWork, hasFound, hasMade, inSteps, NoValue
  <2> QED BY <2>1, <2>2
<1>8. UNCHANGED <<reply, task>> /\ goesTo(t, p) /\ p # "idle"
      /\ pointerOf(t, IF present(database', key(t)) THEN "entry" ELSE "null")
  BY <1>3 DEF finds
<1>9. local' = [u \in Threads |-> IF u = t THEN local'[u] ELSE local[u]]
  BY <1>3, HasFound
<1> QED BY <1>1, <1>2, <1>6, <1>7, <1>8, <1>9, GoingOnIsStutter

LEMMA CreateStutters ==
  ASSUME AtomicInv, TypeInv', Remember, NEW t \in Threads, Create(t)
  PROVE  History' /\ stutters
<1>1. busy(t) /\ place[t] = "create"
  BY DEF Create, at, busy
<1>2. task[t].op = "LPUSH" /\ inSteps(t)
  BY <1>1, OwnFacts DEF opsAt, inSteps
<1>3. Changes(t) /\ Quiet(t)
  BY <1>1, <1>2, StoreChanges, QuietSteps DEF Create, becomes, setValue, Readers, AtomicInv
<1>4. goesOn(t, "again", Blank)
  BY DEF Create
<1>5. shown[key(t)] = NoValue
  <2>1. key(t) \in Keys /\ ~present(database, key(t)) /\ shown[key(t)] = seen(database[key(t)])
    BY <1>1, <1>2, OwnFacts DEF hasFound, hasMade
  <2>2. isDatabase(database)
    BY DEF AtomicInv, SafeInv, TypeInv, TypeOK
  <2>3. database[key(t)] = NoValue
    BY <2>1, <2>2, PartsOfValue DEF present, isDatabase
  <2> QED BY <2>1, <2>3, SeenValue
<1>6. shown' = shown => ownWork(t)'
  BY <1>2, <1>4, <1>5, GoneOn DEF ownWork, hasFound, hasMade, inSteps, NoValue
<1> QED BY <1>1, <1>3, <1>4, <1>6, GoesOnStutters

-----------------------------------------------------------------------------
(* The calls of the database that end a command                            *)

LEMMA StoreTextIsSet ==
  ASSUME PlainCommands, AtomicInv, TypeInv', Remember, NEW t \in Threads, StoreText(t)
  PROVE  simulates
<1> DEFINE v == StringValue(task[t].arg)
<1>1. busy(t) /\ task[t].op = "SET" /\ key(t) \in Keys /\ task[t].arg \in Values
  BY OwnFacts DEF StoreText, at, busy
<1>2. Changes(t) /\ database'[key(t)] = v
  BY <1>1, StoreChanges DEF StoreText, becomes, setValue, Readers, AtomicInv
<1>3. seen(v) = v
  BY DEF seen, StringValue, NewValue, isExpired
<1>4. History' /\ ends(key(t), v, Simple("OK"))
  BY <1>1, <1>2, <1>3, AnswerIsStep DEF StoreText
<1>5. Eager!Set
  BY <1>1, <1>4, SetAtOnce DEF AtomicInv
<1> QED BY <1>4, <1>5, CommandsAreSteps DEF simulates

LEMMA StoreNumberIsIncr ==
  ASSUME AtomicInv, TypeInv', Remember, NEW t \in Threads, StoreNumber(t)
  PROVE  simulates
<1> DEFINE s == local[t].string_value
           n == Wrap(parseInt(s) + 1)
           v == StringValue(toString(n))
<1>1. busy(t) /\ place[t] = "store" /\ task[t].op = "INCR" /\ key(t) \in Keys /\ ~inSteps(t)
  BY OwnFacts DEF StoreNumber, at, busy, inSteps
<1>2. answers(t, Integer(n)) /\ database' = [database EXCEPT ![key(t)] = v]
  BY DEF StoreNumber, becomes, setValue
<1>3. Changes(t) /\ database'[key(t)] = v
  BY <1>1, <1>2, StoreChanges DEF AtomicInv, Readers
<1>4. seen(v) = v
  BY DEF seen, StringValue, NewValue, isExpired
<1>5. History' /\ ends(key(t), v, Integer(n))
  BY <1>1, <1>2, <1>3, <1>4, AnswerIsStep
<1>6. LET old == shown[key(t)]
      IN  IF old.type = "none"
          THEN s = toString(0)
          ELSE old.type = "string" /\ isInteger(old.string_value) /\ s = old.string_value
  <2>1. shown[key(t)] = seen(database[key(t)]) /\ hasFound(t) /\ pointsAtEntry(t)
    BY <1>1, OwnFacts
  <2>2. CASE pointer[t] = "null"
    <3>1. ~present(database, key(t)) /\ s = toString(0)
      BY <1>1, <2>1, <2>2 DEF hasFound
    <3> QED BY <2>1, <3>1 DEF seen, present
  <2>3. CASE pointer[t] = "entry"
    <3>1. shown[key(t)] = entryOf(t)
      BY <1>1, <2>1, <2>3, OwnFacts DEF entryOf
    <3> QED BY <1>1, <2>1, <2>3, <3>1 DEF hasFound
  <2> QED BY <2>1, <2>2, <2>3 DEF pointsAtEntry
<1>7. Eager!Incr
  BY <1>1, <1>5, <1>6, IncrStoresAtOnce DEF AtomicInv
<1> QED BY <1>5, <1>7, CommandsAreSteps DEF simulates

LEMMA DeleteEnds ==
  ASSUME PlainCommands, AtomicInv, TypeInv', Remember, NEW t \in Threads, Delete(t)
  PROVE  simulates
<1>1. busy(t) /\ place[t] = "delete" /\ key(t) \in Keys /\ task[t].op \in {"DEL", "LPOP", "EXPIRE"}
  BY OwnFacts DEF Delete, at, busy, opsAt
<1>2. Changes(t) /\ database'[key(t)] = NoValue
  BY <1>1, StoreChanges DEF Delete, becomes, deleteKey, AtomicInv, Readers
<1>3. PICK r : /\ answers(t, r)
               /\ r = CASE task[t].op = "DEL"    -> Integer(bool(present(database, key(t))))
                        [] task[t].op = "EXPIRE" -> Integer(1)
                        [] task[t].op = "TTL"    -> Integer(-2)
                        [] OTHER                 -> Bulk(local[t].string_value)
  BY DEF Delete
<1>4. History' /\ ends(key(t), NoValue, r)
  BY <1>1, <1>2, <1>3, SeenValue, AnswerIsStep
<1>5. CASE task[t].op = "DEL"
  <2> DEFINE n == bool(present(database, key(t)))
  <2>1. shown[key(t)] = seen(database[key(t)])
    BY <1>1, <1>5, OwnFacts DEF inSteps
  <2>2. n \in {0, 1} /\ (shown[key(t)].type # "none" => n = 1) /\ r = Integer(n)
    BY <1>3, <1>5, <2>1 DEF bool, present, seen, NoValue
  <2>3. Eager!DelCountsAtLeast
    BY <1>1, <1>4, <2>2, DelAtOnce DEF AtomicInv
  <2> QED BY <1>4, <2>3, CommandsAreSteps DEF simulates
<1>6. CASE task[t].op = "LPOP"
  <2>1. LET old == shown[key(t)]
        IN  /\ old.type = "list" /\ old.list_value # <<>> /\ Tail(old.list_value) = <<>>
            /\ local[t].string_value = Head(old.list_value)
    BY <1>1, <1>6, OwnFacts DEF hasMade, inSteps
  <2>2. r = Bulk(Head(shown[key(t)].list_value))
    BY <1>3, <1>6, <2>1
  <2>3. Eager!Lpop
    BY <1>1, <1>4, <2>1, <2>2, PopAtOnce DEF AtomicInv
  <2> QED BY <1>4, <2>3, CommandsAreSteps DEF simulates
<1>7. CASE task[t].op = "EXPIRE"
  <2>1. pointer[t] = "entry" /\ parseInt(task[t].arg) <= 0
    BY <1>1, <1>7, OwnFacts DEF hasFound, seconds
  <2>2. shown[key(t)].type # "none"
    BY <1>1, <1>7, <2>1, OwnFacts DEF inSteps, entryOf
  <2>3. task[t].arg \in Amounts /\ isInteger(task[t].arg) /\ r = Integer(1)
    BY <1>1, <1>3, <1>7, OwnFacts
  <2>4. Eager!Expire
    BY <1>1, <1>4, <2>1, <2>2, <2>3, ExpireAtOnce DEF AtomicInv
  <2> QED BY <1>4, <2>4, CommandsAreSteps DEF simulates
<1> QED BY <1>1, <1>5, <1>6, <1>7

LEMMA ClearIsFlushall ==
  ASSUME AtomicInv, TypeInv', Remember, NEW t \in Threads, Clear(t)
  PROVE  simulates
<1>1. busy(t) /\ place[t] = "clear" /\ answers(t, Simple("OK")) /\ database' = clearDatabase
  BY DEF Clear, at, busy, becomes
<1>2. task[t].op = "FLUSHALL" /\ Changes(t)
  BY <1>1, OwnFacts DEF opsAt, Changes, owns
<1>3. ~busy(t)' /\ \A u \in Threads \ {t} :
                     /\ place'[u] = place[u] /\ task'[u] = task[u] /\ local'[u] = local[u]
                     /\ pointer'[u] = kept(u) /\ (busy(u)' <=> busy(u))
  BY <1>1 DEF AtomicInv, SafeInv, TypeInv, Functional, answers, goesTo, pointerOf, busy
<1>4. ASSUME NEW u \in Threads, busy(u)'
      PROVE  ownWork(u)' /\ ~inSteps(u)'
  <2>1. u # t /\ busy(u)
    BY <1>3, <1>4
  <2>2. ~inSteps(u)
    BY <1>1, <1>2, <2>1 DEF AtomicInv, Apart, meet, agree, inSteps, Locked, Readers
  <2>3. ownWork(u)'
    BY <1>1, <1>2, <1>3, <2>1, OthersWork DEF answers
  <2> QED BY <1>3, <2>1, <2>2, <2>3 DEF inSteps
<1>5. \A k \in Keys : ~inUse(k)'
  BY <1>4 DEF inUse, inSteps
<1>6. UNCHANGED now
  BY <1>1 DEF answers
<1>7. ASSUME NEW k \in Keys
      PROVE  shown'[k] = NoValue
  BY <1>1, <1>5, <1>6, Remembered, SeenValue DEF AtomicInv, clearDatabase
<1>8. shown' = clearDatabase
  BY <1>6, <1>7, ShownIsMap DEF AtomicInv, clearDatabase
<1>9. History'
  <2>1. /\ isDatabase(shown)'
        /\ \A k \in Keys : ~expiredIn(shown', k, now)
        /\ \A k \in Keys : ~inUse(k)' => shown'[k] = seen(database'[k])
    BY <1>6, ShownIsMap DEF AtomicInv
  <2> QED BY <1>4, <1>6, <2>1 DEF History, seen
<1>10. Eager!Flushall
  BY <1>1, <1>6, <1>8, FlushallAtOnce DEF AtomicInv, answers
<1> QED BY <1>9, <1>10, CommandsAreSteps DEF simulates

-----------------------------------------------------------------------------
(* What handlers do with the pointer                                       *)

LEMMA Looked ==
  ASSUME AtomicInv, NEW t \in Threads, place[t] = "check"
  PROVE  /\ busy(t) /\ key(t) \in Keys /\ task[t].op \in Ops \ Locked
         /\ shown[key(t)] = seen(database[key(t)])
         /\ pointer[t] = "entry" => shown[key(t)] = entryOf(t)
         /\ pointer[t] = "null" =>
              ~present(database, key(t)) /\ shown[key(t)].type = "none"
<1>1. busy(t)
  BY DEF busy
<1>2. key(t) \in Keys /\ task[t].op \in Ops \ Locked
  BY <1>1, OwnFacts DEF opsAt
<1>3. shown[key(t)] = seen(database[key(t)])
  BY <1>1, OwnFacts DEF hasMade
<1>4. pointer[t] = "entry" => shown[key(t)] = entryOf(t)
  BY <1>1, <1>3, OwnFacts DEF entryOf
<1>5. ASSUME pointer[t] = "null"
      PROVE  ~present(database, key(t)) /\ shown[key(t)].type = "none"
  <2>1. ~present(database, key(t))
    BY <1>1, <1>5, OwnFacts DEF hasFound
  <2> QED BY <1>3, <2>1 DEF seen, present
<1> QED BY <1>1, <1>2, <1>3, <1>4, <1>5

LEMMA LookIsAnswer ==
  ASSUME AtomicInv, TypeInv', Remember, NEW t \in Threads, place[t] = "check",
         UNCHANGED database, NEW r, answers(t, r)
  PROVE  History' /\ ends(key(t), shown[key(t)], r)
<1>1. Changes(t)
  BY SameDatabase
<1>2. busy(t) /\ task[t].op # "FLUSHALL" /\ shown[key(t)] = seen(database'[key(t)])
  BY Looked DEF Locked
<1> QED BY <1>1, <1>2, AnswerIsStep

LEMMA LookGoesOn ==
  ASSUME AtomicInv, TypeInv', Remember, NEW t \in Threads, busy(t), UNCHANGED database,
         NEW p, p # "idle", NEW v, goesOn(t, p, v), shown' = shown => ownWork(t)'
  PROVE  simulates
BY SameDatabase, QuietSteps, GoesOnStutters DEF simulates

LEMMA MissingSimulates ==
  ASSUME AtomicInv, TypeInv', Remember, NEW t \in Threads, Missing(t)
  PROVE  simulates
<1>1. place[t] = "check" /\ pointer[t] = "null" /\ UNCHANGED database
  BY DEF Missing, findsNothing, at
<1>2. /\ busy(t) /\ key(t) \in Keys /\ ~present(database, key(t))
      /\ shown[key(t)].type = "none" /\ shown[key(t)] = seen(database[key(t)])
  BY <1>1, Looked
<1>3. ASSUME NEW r, answers(t, r)
      PROVE  History' /\ ends(key(t), shown[key(t)], r)
  BY <1>1, <1>3, LookIsAnswer
<1>4. CASE task[t].op = "GET" /\ answers(t, Null)
  <2>1. Eager!Get
    BY <1>2, <1>3, <1>4, GetAtOnce DEF AtomicInv
  <2> QED BY <1>3, <1>4, <2>1, CommandsAreSteps DEF simulates
<1>5. CASE task[t].op = "LPOP" /\ answers(t, Null)
  <2>1. Eager!Lpop
    BY <1>2, <1>3, <1>5, PopNothingAtOnce DEF AtomicInv
  <2> QED BY <1>3, <1>5, <2>1, CommandsAreSteps DEF simulates
<1>6. CASE task[t].op = "EXPIRE" /\ answers(t, Integer(0))
  <2>1. task[t].arg \in Amounts /\ isInteger(task[t].arg)
    BY <1>2, <1>6, OwnFacts
  <2>2. Eager!Expire
    BY <1>2, <1>3, <1>6, <2>1, ExpireAtOnce DEF AtomicInv
  <2> QED BY <1>3, <1>6, <2>2, CommandsAreSteps DEF simulates
<1>7. CASE task[t].op = "PERSIST" /\ answers(t, Integer(0))
  <2>1. Eager!Persist
    BY <1>2, <1>3, <1>7, PersistAtOnce DEF AtomicInv
  <2> QED BY <1>3, <1>7, <2>1, CommandsAreSteps DEF simulates
<1>8. CASE task[t].op = "TTL" /\ answers(t, Integer(-2))
  <2>1. Eager!Ttl
    BY <1>2, <1>3, <1>8, TtlAtOnce DEF AtomicInv
  <2> QED BY <1>3, <1>8, <2>1, CommandsAreSteps DEF simulates
<1>9. CASE task[t].op = "INCR" /\ goesOn(t, "store", StringValue(toString(0)))
  <2>1. StringValue(toString(0)).string_value = toString(0)
    BY DEF StringValue, NewValue
  <2>2. ownWork(t)'
    BY <1>1, <1>2, <1>9, <2>1, GoneOn DEF ownWork, hasFound, inSteps, present
  <2> QED BY <1>1, <1>2, <1>9, <2>2, LookGoesOn
<1>10. CASE task[t].op = "LPUSH" /\ goesOn(t, "create", Blank)
  <2>1. UNCHANGED now
    BY <1>10 DEF goesOn
  <2>2. ASSUME shown' = shown
        PROVE  ownWork(t)'
    BY <1>1, <1>2, <1>10, <2>1, <2>2, GoneOn
    DEF ownWork, hasFound, hasMade, inSteps, present, seen
  <2> QED BY <1>1, <1>2, <1>10, <2>2, LookGoesOn
<1> QED BY <1>4, <1>5, <1>6, <1>7, <1>8, <1>9, <1>10 DEF Missing, at

LEMMA GetSimulates ==
  ASSUME AtomicInv, TypeInv', Remember, NEW t \in Threads, Get(t)
  PROVE  simulates
<1>1. place[t] = "check" /\ pointer[t] = "entry" /\ UNCHANGED database
  BY DEF Get, at, sees
<1> DEFINE v == entryOf(t)
           r == IF v.type = "string" THEN Bulk(v.string_value) ELSE Null
<1>2. answers(t, r)
  BY DEF Get
<1>3. key(t) \in Keys /\ v = shown[key(t)]
  BY <1>1, Looked
<1>4. History' /\ ends(key(t), shown[key(t)], r)
  BY <1>1, <1>2, LookIsAnswer
<1>5. Eager!Get
  BY <1>3, <1>4, GetAtOnce DEF AtomicInv
<1> QED BY <1>4, <1>5, CommandsAreSteps DEF simulates

LEMMA ReadNumberSimulates ==
  ASSUME AtomicInv, TypeInv', Remember, NEW t \in Threads, ReadNumber(t)
  PROVE  simulates
<1>1. place[t] = "check" /\ pointer[t] = "entry" /\ UNCHANGED database /\ task[t].op = "INCR"
  BY DEF ReadNumber, at, sees
<1>2. busy(t) /\ key(t) \in Keys /\ entryOf(t) = shown[key(t)] /\ shown[key(t)].type # "none"
  BY <1>1, Looked, OwnFacts
<1>3. ASSUME NEW r, answers(t, r),
             \/ entryOf(t).type # "string" /\ r = Error("wrong type")
             \/ /\ entryOf(t).type = "string" /\ ~isInteger(entryOf(t).string_value)
                /\ r = Error("not an integer")
      PROVE  simulates
  <2>1. History' /\ ends(key(t), shown[key(t)], r)
    BY <1>1, <1>3, LookIsAnswer
  <2>2. LET v == shown[key(t)]
        IN  \/ v.type # "string" /\ r = Error("wrong type")
            \/ v.type = "string" /\ ~isInteger(v.string_value) /\ r = Error("not an integer")
    BY <1>2, <1>3
  <2>3. History /\ key(t) \in Keys /\ shown[key(t)].type # "none"
    BY <1>2 DEF AtomicInv
  <2>4. Eager!Incr
    BY <2>1, <2>2, <2>3, IncrRefusesAtOnce
  <2> QED BY <2>1, <2>4, CommandsAreSteps DEF simulates
<1>4. ASSUME NEW v, goesOn(t, "store", v), v = StringValue(entryOf(t).string_value),
             entryOf(t).type = "string", isInteger(entryOf(t).string_value)
      PROVE  simulates
  <2>1. v.string_value = entryOf(t).string_value
    BY <1>4 DEF StringValue, NewValue
  <2>2. pointer'[t] = "entry" /\ entryOf(t)' = entryOf(t)
    BY <1>1, <1>4, GoneOn DEF present, entryOf
  <2>3. ownWork(t)'
    BY <1>1, <1>4, <2>1, <2>2, GoneOn DEF ownWork, hasFound, inSteps
  <2> QED BY <1>1, <1>2, <1>4, <2>3, LookGoesOn
<1> QED BY <1>3, <1>4 DEF ReadNumber

LEMMA CheckPushSimulates ==
  ASSUME PlainCommands, AtomicInv, TypeInv', Remember, NEW t \in Threads, CheckPush(t)
  PROVE  simulates
<1>1. place[t] = "check" /\ pointer[t] = "entry" /\ UNCHANGED database /\ task[t].op = "LPUSH"
  BY DEF CheckPush, at, sees
<1>2. /\ busy(t) /\ key(t) \in Keys /\ entryOf(t) = shown[key(t)]
      /\ shown[key(t)].type # "none" /\ task[t].arg \in Values
      /\ hasMade(t, shown[key(t)], database[key(t)])
  BY <1>1, Looked, OwnFacts DEF inSteps
<1>3. CASE shown[key(t)].type # "list"
  <2>1. History' /\ ends(key(t), shown[key(t)], Error("wrong type"))
    BY <1>1, <1>2, <1>3, LookIsAnswer DEF CheckPush
  <2>2. Eager!Lpush
    BY <1>2, <1>3, <2>1, PushRefusesAtOnce DEF AtomicInv
  <2> QED BY <2>1, <2>2, CommandsAreSteps DEF simulates
<1>4. CASE shown[key(t)].type = "list"
  <2>1. goesOn(t, "push", Blank)
    BY <1>2, <1>4 DEF CheckPush
  <2>2. ASSUME shown' = shown
        PROVE  ownWork(t)'
    BY <1>1, <1>2, <1>4, <2>1, <2>2, GoneOn
    DEF ownWork, hasFound, hasMade, inSteps, entryOf
  <2> QED BY <1>1, <1>2, <2>1, <2>2, LookGoesOn
<1> QED BY <1>3, <1>4

(* A change of the list, through the pointer                               *)
LEMMA ListWritten ==
  ASSUME AtomicInv, NEW t \in Threads, busy(t), pointer[t] = "entry",
         task[t].op \notin Readers, NEW l,
         writes(t, [entryOf(t) EXCEPT !.list_value = l])
  PROVE  LET w == [entryOf(t) EXCEPT !.list_value = l]
         IN  /\ Changes(t) /\ database'[key(t)] = w /\ seen(w) = w
             /\ w.list_value = l /\ w.type = entryOf(t).type
             /\ w.has_expiry = entryOf(t).has_expiry /\ w.expiry = entryOf(t).expiry
<1> DEFINE w == [entryOf(t) EXCEPT !.list_value = l]
<1>1. Changes(t) /\ database'[key(t)] = w
  BY StoreChanges DEF AtomicInv, writes, becomes
<1>2. isRedisValue(entryOf(t)) /\ ~isExpired(entryOf(t), now)
  BY OwnFacts
<1>3. /\ w.list_value = l /\ w.type = entryOf(t).type
      /\ w.has_expiry = entryOf(t).has_expiry /\ w.expiry = entryOf(t).expiry
  BY <1>2 DEF isRedisValue, valuesOver
<1>4. seen(w) = w
  BY <1>2, <1>3 DEF seen, isExpired
<1> QED BY <1>1, <1>3, <1>4

LEMMA PushSimulates ==
  ASSUME PlainCommands, AtomicInv, TypeInv', Remember, NEW t \in Threads, Push(t)
  PROVE  simulates
<1> DEFINE v    == entryOf(t)
           list == <<task[t].arg>> \o v.list_value
           w    == [v EXCEPT !.list_value = list]
<1>1. busy(t) /\ place[t] = "push" /\ pointer[t] = "entry"
  BY DEF Push, at, busy
<1>2. writes(t, w) /\ answers(t, Integer(Len(list)))
  BY DEF Push
<1>3. task[t].op = "LPUSH" /\ task[t].op \notin Readers
  BY <1>1, OwnFacts DEF opsAt, Readers
<1>4. Changes(t) /\ database'[key(t)] = w /\ seen(w) = w
  BY <1>1, <1>2, <1>3, ListWritten
<1>5. History' /\ ends(key(t), w, Integer(Len(list)))
  BY <1>1, <1>2, <1>3, <1>4, AnswerIsStep
<1>6. /\ key(t) \in Keys /\ task[t].arg \in Values
      /\ v = IF shown[key(t)].type = "none" THEN NewValue("list") ELSE shown[key(t)]
      /\ v.type = "list"
      /\ shown[key(t)].type = "list" => Len(shown[key(t)].list_value) < MaxListLength
  BY <1>1, <1>3, OwnFacts DEF hasMade, inSteps, entryOf
<1>7. v.list_value \in Seq(Strings)
  BY <1>1, OwnFacts, PartsOfValue
<1> HIDE DEF v
<1>8. Eager!Lpush
  BY <1>5, <1>6, <1>7, PushAtOnce DEF AtomicInv
<1> QED BY <1>5, <1>8, CommandsAreSteps DEF simulates

LEMMA CheckPopSimulates ==
  ASSUME AtomicInv, TypeInv', Remember, NEW t \in Threads, CheckPop(t)
  PROVE  simulates
<1>1. place[t] = "check" /\ pointer[t] = "entry" /\ UNCHANGED database /\ task[t].op = "LPOP"
  BY DEF CheckPop, at, sees
<1>2. busy(t) /\ key(t) \in Keys /\ entryOf(t) = shown[key(t)]
  BY <1>1, Looked
<1>3. CASE shown[key(t)].type = "list" => shown[key(t)].list_value = <<>>
  <2>1. History' /\ ends(key(t), shown[key(t)], Null)
    BY <1>1, <1>2, <1>3, LookIsAnswer DEF CheckPop
  <2>2. Eager!Lpop
    BY <1>2, <1>3, <2>1, PopNothingAtOnce DEF AtomicInv
  <2> QED BY <2>1, <2>2, CommandsAreSteps DEF simulates
<1>4. CASE shown[key(t)].type = "list" /\ shown[key(t)].list_value # <<>>
  <2>1. goesOn(t, "pop", Blank)
    BY <1>2, <1>4 DEF CheckPop
  <2>2. ASSUME shown' = shown
        PROVE  ownWork(t)'
    BY <1>1, <1>2, <1>4, <2>1, <2>2, GoneOn
    DEF ownWork, hasFound, hasMade, inSteps, entryOf
  <2> QED BY <1>1, <1>2, <2>1, <2>2, LookGoesOn
<1> QED BY <1>3, <1>4

LEMMA PopStutters ==
  ASSUME AtomicInv, TypeInv', Remember, NEW t \in Threads, Pop(t)
  PROVE  History' /\ stutters
<1> DEFINE old == shown[key(t)]
           w   == [entryOf(t) EXCEPT !.list_value = Tail(entryOf(t).list_value)]
           l   == StringValue(Head(old.list_value))
<1>1. busy(t) /\ place[t] = "pop" /\ pointer[t] = "entry" /\ entryOf(t).list_value # <<>>
  BY DEF Pop, at, busy
<1>2. task[t].op = "LPOP" /\ task[t].op \notin Readers /\ inSteps(t)
  BY <1>1, OwnFacts DEF opsAt, Readers, inSteps
<1>3. entryOf(t) = old /\ old.type = "list"
  BY <1>1, <1>2, OwnFacts DEF hasMade, entryOf
<1>4. writes(t, w) /\ goesOn(t, "popped", l)
  BY <1>3 DEF Pop
<1>5. Changes(t) /\ database'[key(t)] = w /\ w.type = entryOf(t).type
  BY <1>1, <1>2, <1>4, ListWritten
<1>6. Quiet(t)
  BY <1>1, <1>2, <1>5, QuietSteps
<1>7. l.string_value = Head(old.list_value)
  BY DEF StringValue, NewValue
<1>8. present(database', key(t))
  BY <1>3, <1>5 DEF present
<1>9. ASSUME shown' = shown
      PROVE  ownWork(t)'
  <2>1. /\ place'[t] = "popped" /\ local'[t] = l /\ task'[t] = task[t] /\ key(t)' = key(t)
        /\ pointer'[t] = "entry"
    BY <1>1, <1>4, <1>8, GoneOn
  <2> HIDE DEF l
  <2>2. hasFound(t)'
    BY <2>1 DEF hasFound
  <2>3. hasMade(t, shown[key(t)], database[key(t)])'
    BY <1>1, <1>2, <1>3, <1>5, <1>7, <1>9, <2>1 DEF hasMade
  <2> QED BY <2>2, <2>3 DEF ownWork
<1> HIDE DEF l
<1> QED BY <1>1, <1>4, <1>5, <1>6, <1>9, GoesOnStutters

LEMMA PoppedSimulates ==
  ASSUME AtomicInv, TypeInv', Remember, NEW t \in Threads, Popped(t)
  PROVE  simulates
<1> DEFINE old == shown[key(t)]
           w   == [old EXCEPT !.list_value = Tail(old.list_value)]
<1>1. busy(t) /\ place[t] = "popped" /\ pointer[t] = "entry" /\ UNCHANGED database
  BY DEF Popped, at, sees, busy
<1>2. task[t].op = "LPOP" /\ inSteps(t)
  BY <1>1, OwnFacts DEF opsAt, inSteps
<1>3. /\ entryOf(t) = w /\ key(t) \in Keys
      /\ old.type = "list" /\ old.list_value # <<>>
      /\ local[t].string_value = Head(old.list_value)
  BY <1>1, <1>2, OwnFacts DEF hasMade, entryOf
<1>4. w.list_value = Tail(old.list_value)
  <2>1. isRedisValue(old)
    BY <1>3, EntryIsValue DEF AtomicInv, History, present
  <2> QED BY <2>1 DEF isRedisValue, valuesOver
<1>5. Changes(t) /\ seen(database'[key(t)]) = w
  BY <1>1, <1>3, SameDatabase, OwnFacts DEF entryOf
<1>6. CASE Tail(old.list_value) # <<>>
  <2>1. answers(t, Bulk(Head(old.list_value)))
    BY <1>3, <1>4, <1>6 DEF Popped
  <2>2. History' /\ ends(key(t), w, Bulk(Head(old.list_value)))
    BY <1>1, <1>2, <1>5, <2>1, AnswerIsStep
  <2>3. Eager!Lpop
    BY <1>3, <1>6, <2>2, PopAtOnce DEF AtomicInv
  <2> QED BY <2>2, <2>3, CommandsAreSteps DEF simulates
<1>7. CASE Tail(old.list_value) = <<>>
  <2>1. goesOn(t, "delete", local[t])
    BY <1>3, <1>4, <1>7 DEF Popped
  <2>2. /\ place'[t] = "delete" /\ local'[t] = local[t] /\ task'[t] = task[t]
        /\ key(t)' = key(t) /\ pointer'[t] = "entry"
    <3>1. present(database, key(t))
      BY <1>1, OwnFacts DEF present, entryOf
    <3> QED BY <1>1, <2>1, <3>1, GoneOn
  <2>3. ASSUME shown' = shown
        PROVE  ownWork(t)'
    <3>1. hasFound(t)'
      BY <1>2, <2>2 DEF hasFound
    <3>2. hasMade(t, shown[key(t)], database[key(t)])'
      BY <1>1, <1>2, <1>3, <1>7, <2>2, <2>3 DEF hasMade, entryOf
    <3> QED BY <3>1, <3>2 DEF ownWork
  <2> QED BY <1>1, <2>1, <2>3, LookGoesOn
<1> QED BY <1>6, <1>7

(* EXPIRE, TTL and PERSIST                                                 *)
LEMMA ExpireNowSimulates ==
  ASSUME AtomicInv, TypeInv', Remember, NEW t \in Threads, ExpireNow(t)
  PROVE  simulates
<1>1. /\ busy(t) /\ place[t] = "check" /\ task[t].op = "EXPIRE" /\ pointer[t] # "null"
      /\ seconds(t) <= 0 /\ UNCHANGED database /\ goesOn(t, "delete", Blank)
  BY DEF ExpireNow, at, busy
<1>2. pointer[t] = "entry" /\ present(database', key(t))
  BY <1>1, OwnFacts DEF pointsAtEntry, present, entryOf
<1>3. ownWork(t)'
  BY <1>1, <1>2, GoneOn DEF ownWork, hasFound, inSteps, seconds
<1> QED BY <1>1, <1>3, LookGoesOn

(* What is stored may have expired already: the time overflows the clock.  *)
LEMMA ExpireLaterSimulates ==
  ASSUME AtomicInv, TypeInv', Remember, NEW t \in Threads, ExpireLater(t)
  PROVE  simulates
<1> DEFINE w == setExpiry(entryOf(t), now, Wrap(parseInt(task[t].arg) * TicksPerSecond))
<1>1. /\ busy(t) /\ place[t] = "check" /\ task[t].op = "EXPIRE" /\ pointer[t] = "entry"
      /\ seconds(t) > 0 /\ database' = [database EXCEPT ![key(t)] = w]
      /\ answers(t, Integer(1))
  BY DEF ExpireLater, at, busy, writes, becomes, seconds
<1>2. /\ key(t) \in Keys /\ entryOf(t) = shown[key(t)] /\ shown[key(t)].type # "none"
      /\ task[t].arg \in Amounts /\ isInteger(task[t].arg)
  BY <1>1, Looked, OwnFacts
<1>3. Changes(t) /\ database'[key(t)] = w
  BY <1>1, StoreChanges DEF AtomicInv, Readers
<1>4. History' /\ ends(key(t), seen(w), Integer(1))
  BY <1>1, <1>3, AnswerIsStep
<1>5. w.type # "none"
  BY <1>1, <1>2, OwnFacts DEF setExpiry, isRedisValue, valuesOver
<1>6. w = setExpiry(shown[key(t)], now, Wrap(parseInt(task[t].arg) * TicksPerSecond))
  BY <1>2
<1> HIDE DEF w
<1>7. CASE isExpired(w, now)
  <2>1. ends(key(t), NoValue, Integer(1))
    BY <1>4, <1>5, <1>7 DEF seen
  <2>2. isExpired(setExpiry(shown[key(t)], now, Wrap(parseInt(task[t].arg) * TicksPerSecond)),
                  now)
    BY <1>6, <1>7
  <2>3. Eager!ExpireExpired
    BY <1>2, <2>1, <2>2, ExpireExpiredAtOnce DEF AtomicInv
  <2> QED BY <1>4, <2>3, CommandsAreSteps DEF simulates
<1>8. CASE ~isExpired(w, now)
  <2>1. ends(key(t), w, Integer(1))
    BY <1>4, <1>8 DEF seen
  <2>2. ~(parseInt(task[t].arg) <= 0)
    <3>1. parseInt(task[t].arg) \in Int
      BY StringsType, DataAssumption DEF LongLong
    <3> QED BY <1>1, <3>1 DEF seconds
  <2>3. Eager!Expire
    BY <1>2, <1>6, <2>1, <2>2, ExpireAtOnce DEF AtomicInv
  <2> QED BY <1>4, <2>3, CommandsAreSteps DEF simulates
<1> QED BY <1>7, <1>8

(* An entry that would have expired by the second look at the clock is no  *)
(* case: the client's commands are Apart from its deadline.                *)
LEMMA TtlSimulates ==
  ASSUME AtomicInv, TypeInv', Remember, NEW t \in Threads, Ttl(t)
  PROVE  simulates
<1>1. busy(t) /\ place[t] = "check" /\ pointer[t] = "entry" /\ UNCHANGED database
  BY DEF Ttl, at, sees, busy
<1>2. /\ key(t) \in Keys /\ entryOf(t) = shown[key(t)] /\ shown[key(t)].type # "none"
      /\ ~isExpired(entryOf(t), now)
  BY <1>1, Looked, OwnFacts
<1>3. PICK n : /\ answers(t, Integer(n))
               /\ \/ ~entryOf(t).has_expiry /\ n = -1
                  \/ /\ entryOf(t).has_expiry
                     /\ n = (entryOf(t).expiry - now) \div TicksPerSecond
  BY <1>2 DEF Ttl, isExpired
<1>4. History' /\ ends(key(t), shown[key(t)], Integer(n))
  BY <1>1, <1>3, LookIsAnswer
<1>5. /\ ends(key(t), shown[key(t)], Integer(n))
      /\ \/ shown[key(t)].type # "none" /\ ~shown[key(t)].has_expiry /\ n = -1
         \/ /\ shown[key(t)].type # "none" /\ shown[key(t)].has_expiry
            /\ n = (shown[key(t)].expiry - now) \div TicksPerSecond
  BY <1>2, <1>3, <1>4
<1>6. Eager!Ttl
  BY <1>2, <1>5, TtlAtOnce DEF AtomicInv
<1> QED BY <1>4, <1>6, CommandsAreSteps DEF simulates

LEMMA PersistSimulates ==
  ASSUME AtomicInv, TypeInv', Remember, NEW t \in Threads, Persist(t)
  PROVE  simulates
<1>1. busy(t) /\ place[t] = "check" /\ pointer[t] = "entry" /\ task[t].op = "PERSIST"
  BY DEF Persist, at, busy
<1>2. key(t) \in Keys /\ entryOf(t) = shown[key(t)] /\ shown[key(t)].type # "none"
  BY <1>1, Looked, OwnFacts
<1>3. CASE ~entryOf(t).has_expiry
  <2>1. UNCHANGED database /\ answers(t, Integer(0))
    BY <1>3 DEF Persist, sees
  <2>2. History' /\ ends(key(t), shown[key(t)], Integer(0))
    BY <1>1, <2>1, LookIsAnswer
  <2>3. Eager!Persist
    BY <1>2, <1>3, <2>2, PersistAtOnce DEF AtomicInv
  <2> QED BY <2>2, <2>3, CommandsAreSteps DEF simulates
<1>4. CASE entryOf(t).has_expiry
  <2> DEFINE w == clearExpiry(entryOf(t))
  <2>1. database' = [database EXCEPT ![key(t)] = w] /\ answers(t, Integer(1))
    BY <1>4 DEF Persist, writes, becomes
  <2>2. Changes(t) /\ database'[key(t)] = w
    BY <1>1, <2>1, StoreChanges DEF AtomicInv, Readers
  <2>3. seen(w) = w
    BY <1>1, OwnFacts DEF seen, clearExpiry, isExpired, isRedisValue, valuesOver
  <2>4. History' /\ ends(key(t), w, Integer(1))
    BY <1>1, <2>1, <2>2, <2>3, AnswerIsStep
  <2>5. w = clearExpiry(shown[key(t)]) /\ shown[key(t)].has_expiry
    BY <1>2, <1>4
  <2> HIDE DEF w
  <2>6. Eager!Persist
    BY <1>2, <2>4, <2>5, PersistAtOnce DEF AtomicInv
  <2> QED BY <2>4, <2>6, CommandsAreSteps DEF simulates
<1> QED BY <1>3, <1>4

-----------------------------------------------------------------------------
(* A command arrives: nobody is changing its key, so what is remembered of *)
(* it is what is there.                                                    *)
LEMMA ReceiveStutters ==
  ASSUME AtomicInv, TypeInv', Apart', Remember, NEW t \in Threads, Receive(t)
  PROVE  History' /\ stutters
<1>1. PICK r \in requests(t) : roomFor(r) /\ task' = [task EXCEPT ![t] = r]
  BY DEF Receive
<1>2. r.key \in Keys
  BY SharedAssumption DEF requests
<1>3. /\ ~busy(t) /\ place'[t] = "count" /\ task'[t] = r /\ busy(t)'
      /\ UNCHANGED <<database, now, reply, pointer, local>>
      /\ \A u \in Threads \ {t} :
           place'[u] = place[u] /\ task'[u] = task[u] /\ (busy(u)' <=> busy(u))
  BY <1>1 DEF Receive, goesTo, AtomicInv, SafeInv, TypeInv, Functional, busy
<1>4. ASSUME NEW u \in Threads, busy(u), inSteps(u) \/ r.op \in {"LPUSH", "LPOP"}
      PROVE  key(u) # r.key
  <2>1. u # t /\ busy(u)' /\ task'[u] = task[u]
    BY <1>3, <1>4
  <2>2. ~agree(t, u)'
    BY <1>3, <1>4, <2>1 DEF agree, inSteps, Locked, Readers
  <2>3. ~meet(t, u)'
    BY <2>1, <2>2 DEF Apart
  <2> QED BY <1>3, <2>1, <2>3 DEF meet, key
<1>5. ~inUse(r.key)
  BY <1>4 DEF inUse, inSteps
<1>6. shown[r.key] = seen(database[r.key])
  BY <1>2, <1>5 DEF AtomicInv, History
<1>7. shown' = shown
  <2>1. ASSUME NEW k \in Keys
        PROVE  shown'[k] = shown[k]
    <3>1. inUse(k) => inUse(k)'
      BY <1>3 DEF inUse, key
    <3>2. inUse(k) \/ shown[k] = seen(database[k])
      BY DEF AtomicInv, History
    <3> QED BY <1>3, <3>1, <3>2, Remembered DEF AtomicInv
  <2> QED BY <1>3, <2>1, ShownIsMap DEF AtomicInv, History, isDatabase
<1>8. r.op = "LPUSH" /\ database[r.key].type = "list" =>
        Len(database[r.key].list_value) < MaxListLength
  <2> SUFFICES ASSUME r.op = "LPUSH", database[r.key].type = "list"
               PROVE  Len(database[r.key].list_value) < MaxListLength
    OBVIOUS
  <2>1. {u \in Threads : task[u].op = r.op /\ key(u) = r.key} = {}
    <3>1. ASSUME NEW u \in Threads, task[u].op = r.op
          PROVE  key(u) # r.key
      <4>1. busy(u)
        BY <3>1 DEF AtomicInv, SafeInv, TypeInv, TypeOK, NoTask, busy
      <4> QED BY <1>4, <4>1
    <3> QED BY <3>1
  <2>2. Cardinality({u \in Threads : task[u].op = r.op /\ key(u) = r.key}) = 0
    BY <2>1, FS_EmptySet
  <2>3. Len(database[r.key].list_value) \in Nat
    <3>1. isRedisValue(database[r.key])
      BY <1>2, EntryIsValue DEF AtomicInv, SafeInv, TypeInv, TypeOK, present
    <3> QED BY <3>1, PartsOfValue
  <2>4. Len(database[r.key].list_value) + 0 < MaxListLength
    BY <1>1, <2>2 DEF roomFor, isType
  <2> QED BY <2>3, <2>4
<1>9. ASSUME NEW u \in Threads, busy(u)'
      PROVE  ownWork(u)'
  <2>1. CASE u = t
    <3>1. hasFound(t)'
      BY <1>3 DEF hasFound
    <3>2. r.op = "LPUSH" /\ shown[r.key].type = "list" => Len(shown[r.key].list_value) < MaxListLength
      BY <1>6, <1>8 DEF seen, NoValue
    <3>3. shown'[r.key] = seen(database[r.key])'
      BY <1>3, <1>6, <1>7 DEF seen
    <3>4. hasMade(t, shown[key(t)], database[key(t)])'
      BY <1>3, <1>7, <3>2, <3>3 DEF hasMade, key
    <3> QED BY <2>1, <3>1, <3>4 DEF ownWork
  <2>2. CASE u # t
    <3>1. /\ ownWork(u) /\ key(u)' = key(u) /\ place'[u] = place[u] /\ task'[u] = task[u]
          /\ pointer'[u] = pointer[u] /\ local'[u] = local[u]
      BY <1>3, <1>9, <2>2 DEF AtomicInv, History, key
    <3>2. hasFound(u)'
      BY <1>3, <3>1 DEF ownWork, hasFound, entryOf, seconds
    <3>3. ASSUME inSteps(u)
          PROVE  hasMade(u, shown[key(u)], database[key(u)])'
      BY <1>3, <1>7, <3>1, <3>3 DEF ownWork, hasMade, seen
    <3> QED BY <3>1, <3>2, <3>3 DEF ownWork, inSteps
  <2> QED BY <2>1, <2>2
<1>10. /\ isDatabase(shown)'
       /\ \A k \in Keys : ~expiredIn(shown', k, now)
       /\ \A k \in Keys : ~inUse(k)' => shown'[k] = seen(database'[k])
  BY <1>3, ShownIsMap DEF AtomicInv
<1> QED BY <1>3, <1>7, <1>9, <1>10 DEF History, stutters, seen

(* Time passes, and keys go.  What a handler holds a pointer to does not   *)
(* go: its client keeps Apart from that.                                   *)
LEMMA TickSimulates ==
  ASSUME AtomicInv, TypeInv', Apart', Remember, Tick
  PROVE  simulates
<1>1. /\ now < MaxNow /\ now' = now + 1 /\ now \in Int
      /\ UNCHANGED <<database, reply, place, task, local, pointer>>
  BY SharedAssumption DEF Tick, threadVars, AtomicInv, SafeInv, TypeInv, TypeOK
<1>2. \A k \in Keys : inUse(k)' <=> inUse(k)
  BY <1>1 DEF inUse, key, busy
<1>3. ASSUME NEW v, v = NoValue \/ isRedisValue(v), v.type # "none", isExpired(v, now)
      PROVE  isExpired(v, now')
  <2>1. v.expiry \in Int
    BY <1>3, DataAssumption DEF NoValue, isRedisValue, valuesOver, LongLong
  <2>2. now >= v.expiry => now' >= v.expiry
    BY <1>1, <2>1
  <2> QED BY <1>3, <2>2 DEF isExpired
<1>4. ASSUME NEW k \in Keys
      PROVE  /\ shown'[k] = IF expiredIn(shown, k, now') THEN NoValue ELSE shown[k]
             /\ ~inUse(k)' => shown'[k] = seen(database[k])'
  <2>1. inUse(k) \/ shown[k] = seen(database[k])
    BY DEF AtomicInv, History
  <2>2. database[k] = NoValue \/ isRedisValue(database[k])
    BY DEF AtomicInv, SafeInv, TypeInv, TypeOK, isDatabase
  <2>3. CASE inUse(k)
    BY <1>2, <2>3 DEF Remember, cleanupExpiredKeys, expiredIn, present
  <2>4. CASE ~inUse(k)
    <3>1. shown'[k] = IF expiredIn(database, k, now') THEN NoValue ELSE database[k]
      BY <1>1, <1>2, <2>4 DEF Remember, cleanupExpiredKeys, expiredIn, present
    <3>2. CASE shown[k] = database[k]
      BY <1>1, <3>1, <3>2 DEF expiredIn, present, seen
    <3>3. CASE shown[k] # database[k]
      <4>1. shown[k] = NoValue /\ expiredIn(database, k, now)
        BY <2>1, <2>4, <3>3 DEF seen, expiredIn, present
      <4>2. expiredIn(database, k, now')
        BY <1>3, <2>2, <4>1 DEF expiredIn, present
      <4>3. ~expiredIn(shown, k, now')
        BY <4>1 DEF expiredIn, present, NoValue
      <4> QED BY <1>1, <3>1, <4>1, <4>2, <4>3 DEF seen, expiredIn, present
    <3> QED BY <3>2, <3>3
  <2> QED BY <2>3, <2>4
<1>5. shown' = cleanupExpiredKeys(shown, now')
  <2>1. shown' = [k \in Keys |-> shown'[k]]
    BY DEF Remember, cleanupExpiredKeys
  <2> QED BY <1>4, <2>1 DEF cleanupExpiredKeys
<1>6. isDatabase(shown)' /\ \A k \in Keys : ~expiredIn(shown', k, now')
  <2>1. isDatabase(shown')
    BY <1>5, DatabaseCalls DEF AtomicInv, History, isDatabase, cleanupExpiredKeys
  <2>2. \A k \in Keys : ~expiredIn(shown', k, now')
    BY <1>4 DEF expiredIn, present, NoValue
  <2> QED BY <2>1, <2>2 DEF isDatabase
<1>7. ASSUME NEW t \in Threads, busy(t)
      PROVE  ownWork(t)'
  <2>1. hasFound(t)'
    <3>1. hasFound(t)
      BY <1>7, OwnFacts
    <3> QED BY <1>1, <3>1 DEF hasFound, entryOf, seconds, key
  <2>2. ASSUME inSteps(t)
        PROVE  hasMade(t, shown[key(t)], database[key(t)])'
    <3> DEFINE old == shown[key(t)]
               v   == database[key(t)]
               new == shown'[key(t)]
    <3>1. /\ key(t) \in Keys /\ hasMade(t, old, v) /\ pointsAtEntry(t)
          /\ isDatabase(shown) /\ isDatabase(database)
      BY <1>7, <2>2, OwnFacts DEF AtomicInv, SafeInv, TypeInv, TypeOK, History
    <3>2. new = old \/ new = NoValue
      BY <1>4, <3>1
    <3>3. ASSUME old = seen(v)
          PROVE  new = IF v.type # "none" /\ isExpired(v, now') THEN NoValue ELSE v
      <4>1. new = IF old.type # "none" /\ isExpired(old, now') THEN NoValue ELSE old
        BY <1>4, <3>1 DEF expiredIn, present
      <4>2. CASE v.type # "none" /\ isExpired(v, now)
        <5>1. isExpired(v, now')
          BY <1>3, <3>1, <4>2 DEF isDatabase
        <5>2. old = NoValue /\ new = NoValue
          BY <3>2, <3>3, <4>2 DEF seen
        <5> QED BY <4>2, <5>1, <5>2
      <4>3. CASE ~(v.type # "none" /\ isExpired(v, now))
        <5>1. old = v
          BY <3>3, <4>3 DEF seen
        <5> QED BY <4>1, <5>1
      <4> QED BY <4>2, <4>3
    <3>4. pointer[t] = "entry" => ~isExpired(v, now') \/ v.type = "none"
      BY <1>1, <1>7 DEF Apart, key, expiredIn, present
    <3>5. place[t] \in {"push", "pop", "popped", "delete"} => new = old
      <4>1. CASE place[t] \in {"push", "pop"}
        <5>1. pointer[t] = "entry"
          BY <3>1, <4>1 DEF pointsAtEntry
        <5>2. old.type = "none" \/ (v = old /\ ~isExpired(old, now'))
          BY <3>1, <3>4, <4>1, <5>1 DEF hasMade, NewValue
        <5> QED BY <1>4, <3>1, <5>2 DEF expiredIn, present
      <4>2. CASE place[t] \in {"popped", "delete"}
        <5>1. /\ pointer[t] = "entry" /\ old.type = "list"
              /\ v = [old EXCEPT !.list_value = Tail(old.list_value)]
          BY <3>1, <4>2 DEF hasMade
        <5>2. isRedisValue(old)
          BY <3>1, <5>1, EntryIsValue DEF present
        <5>3. v.type = old.type /\ v.has_expiry = old.has_expiry /\ v.expiry = old.expiry
          BY <5>1, <5>2 DEF isRedisValue, valuesOver
        <5>4. ~isExpired(old, now')
          BY <3>4, <5>1, <5>3 DEF isExpired
        <5> QED BY <1>4, <3>1, <5>4 DEF expiredIn
      <4> QED BY <4>1, <4>2
    <3>6. key(t)' = key(t) /\ UNCHANGED <<database, place, task, local, pointer>>
      BY <1>1 DEF key
    <3>7. place[t] \in {"count", "test", "sweep", "lookup", "check", "create"}
            => shown'[key(t)'] = seen(database[key(t)])'
      BY <3>1, <3>3, <3>6 DEF hasMade, seen
    <3>8. \/ shown'[key(t)'] = shown[key(t)]
          \/ shown'[key(t)'] = NoValue /\ place[t] \notin {"push", "pop", "popped", "delete"}
      BY <3>2, <3>5, <3>6
    <3>9. database'[key(t)'] = database[key(t)]
      BY <3>6
    <3> HIDE DEF old, v, new
    <3>10. hasMade(t, shown[key(t)], database[key(t)])
      BY <3>1 DEF old, v
    <3>11. CASE shown'[key(t)'] = shown[key(t)]
      BY <3>6, <3>7, <3>9, <3>10, <3>11 DEF hasMade
    <3>12. CASE shown'[key(t)'] = NoValue /\ place[t] \notin {"push", "pop", "popped", "delete"}
      <4>1. NoValue.type # "list"
        BY DEF NoValue
      <4> QED BY <3>6, <3>7, <3>9, <3>10, <3>12, <4>1 DEF hasMade
    <3> QED BY <3>8, <3>11, <3>12
  <2> QED BY <1>1, <2>1, <2>2 DEF ownWork, inSteps
<1>8. History'
  BY <1>1, <1>4, <1>6, <1>7 DEF History, busy
<1>9. Eager!cleanupExpiredKeys(shown, now') = cleanupExpiredKeys(shown, now')
  BY DEF Eager!cleanupExpiredKeys, cleanupExpiredKeys, Eager!expiredIn, expiredIn,
         Eager!present, present, Eager!isExpired, isExpired, Eager!NoValue, NoValue
<1>10. Eager!TickAndExpire
  BY <1>1, <1>5, <1>9 DEF Eager!TickAndExpire
<1> QED BY <1>8, <1>10, CommandsAreSteps DEF simulates

LEMMA NothingSimulates == ASSUME AtomicInv, UNCHANGED <<vars, shown>> PROVE History' /\ stutters
<1>1. UNCHANGED <<database, reply, now, place, task, local, pointer, shown>>
  BY DEF vars, threadVars
<1>2. \A k \in Keys : inUse(k)' <=> inUse(k)
  BY <1>1 DEF inUse, key, busy
<1>3. \A t \in Threads : ownWork(t)' <=> ownWork(t)
  BY <1>1 DEF ownWork, hasFound, hasMade, inSteps, entryOf, seconds, seen, key
<1> QED BY <1>1, <1>2, <1>3 DEF AtomicInv, History, stutters, seen, busy

LEMMA HandlerSimulates ==
  ASSUME "SETNX" \notin Offered, PlainCommands, AtomicInv, TypeInv', Remember,
         NEW t \in Threads, Handler(t)
  PROVE  simulates
<1>1. ~ExistsAlready(t) /\ ~ExistsNot(t) /\ ~StoreTextForASecond(t)
  <2>1. CASE ~busy(t)
    BY <2>1 DEF ExistsAlready, ExistsNot, StoreTextForASecond, at, busy
  <2>2. CASE busy(t)
    BY <2>2, OwnFacts DEF ExistsAlready, ExistsNot, StoreTextForASecond, at, opsAt
  <2> QED BY <2>1, <2>2
<1>2. CASE Lookup(t) \/ LookupAgain(t) \/ Create(t) \/ Pop(t)
  BY <1>2, LookupStutters, CreateStutters, PopStutters DEF simulates
<1>3. CASE StoreText(t) \/ StoreNumber(t) \/ Delete(t) \/ Clear(t)
  BY <1>3, StoreTextIsSet, StoreNumberIsIncr, DeleteEnds, ClearIsFlushall
<1>4. CASE Missing(t) \/ Get(t) \/ ReadNumber(t) \/ CheckPush(t) \/ Push(t)
  BY <1>4, MissingSimulates, GetSimulates, ReadNumberSimulates, CheckPushSimulates,
     PushSimulates
<1>5. CASE \/ CheckPop(t) \/ Popped(t) \/ ExpireNow(t) \/ ExpireLater(t) \/ Ttl(t)
           \/ Persist(t)
  BY <1>5, CheckPopSimulates, PoppedSimulates, ExpireNowSimulates, ExpireLaterSimulates,
     TtlSimulates, PersistSimulates
<1> QED BY <1>1, <1>2, <1>3, <1>4, <1>5 DEF Handler

LEMMA AtomicInit == Init /\ shown = database => AtomicInv /\ Eager!Init
<1> SUFFICES ASSUME Init, shown = database PROVE AtomicInv /\ Eager!Init
  OBVIOUS
<1>1. SafeInv /\ Apart
  BY InitSafe
<1>2. History
  <2>1. isDatabase(shown) /\ \A k \in Keys : database[k] = NoValue
    BY <1>1 DEF SafeInv, TypeInv, TypeOK, Init, clearDatabase
  <2>2. \A t \in Threads : ~busy(t)
    BY DEF Init, busy
  <2> QED BY <2>1, <2>2, SeenValue DEF History, expiredIn, present, NoValue
<1>3. Eager!Init
  BY SameCalls, SameReplies DEF Init, Eager!Init
<1> QED BY <1>1, <1>2, <1>3 DEF AtomicInv

LEMMA AtomicStep ==
  ASSUME "SETNX" \notin Offered, PlainCommands, AtomicInv,
         [Next /\ Apart' /\ Remember]_<<vars, shown>>
  PROVE  AtomicInv' /\ [Eager!EagerNext]_(Eager!vars)
<1>1. [Next]_vars
  OBVIOUS
<1>2. SafeInv'
  BY <1>1, NextKeepsSafe DEF AtomicInv
<1>3. TypeInv'
  BY <1>2 DEF SafeInv
<1>4. Apart'
  <2>1. UNCHANGED vars => Apart'
    BY DEF vars, threadVars, AtomicInv, Apart, meet, agree, busy, key, movesDeadline
  <2> QED BY <2>1
<1>5. simulates
  <2>1. CASE UNCHANGED <<vars, shown>>
    BY <2>1, NothingSimulates DEF simulates
  <2>2. CASE Tick /\ Remember
    BY <1>3, <1>4, <2>2, TickSimulates
  <2>3. ASSUME NEW t \in Threads, Receive(t) \/ Working(t), Remember
        PROVE  simulates
    <3>1. ~Misuse(t) /\ ~Race(t)
      BY NoMisuse, NoRace DEF AtomicInv
    <3>2. CASE Receive(t) \/ Count(t) \/ Test(t) \/ Sweep(t)
      BY <1>3, <1>4, <2>3, <3>2, ReceiveStutters, CountStutters, TestStutters, SweepStutters
      DEF simulates
    <3>3. CASE Handler(t)
      BY <1>3, <2>3, <3>3, HandlerSimulates
    <3> QED BY <2>3, <3>1, <3>2, <3>3 DEF Working
  <2> QED BY <2>1, <2>2, <2>3 DEF Next
<1> QED BY <1>2, <1>4, <1>5 DEF AtomicInv, simulates, stutters, Eager!vars

(* While clients keep Apart, sharing keys, with deadlines and sweeps, the  *)
(* handlers of all the threads together do what one thread would that ran  *)
(* their commands one after the other, each at the moment it is answered,  *)
(* on a map from which keys go when their time comes.  SETNX is not one of *)
(* the commands: it tests and stores in two calls of the database.         *)
THEOREM OneAtATime ==
  ASSUME "SETNX" \notin Offered, PlainCommands
  PROVE  HistorySpec => CommandsAreAtomic
<1>1. Init /\ shown = database => AtomicInv /\ Eager!Init
  BY AtomicInit
<1>2. AtomicInv /\ [Next /\ Apart' /\ Remember]_<<vars, shown>>
        => AtomicInv' /\ [Eager!EagerNext]_(Eager!vars)
  BY AtomicStep
<1> QED BY <1>1, <1>2, PTL DEF HistorySpec, CommandsAreAtomic, Eager!EagerSpec
===============================================================================

# A TLA+ development of CppRedis

CppRedis (`src/`) is a small Redis-compatible server in C++: one thread accepts
TCP connections, one thread per connection reads RESP commands and answers them,
and all of them work on one in-memory map of keys to values with expiry times.
These modules model the server from its source, TLC checks them on small
instances, and TLAPS proves for every instance all that is not liveness.

Source paths below are relative to `src/src/`.

## 1. The system

| Component | State | Operations | Interacts with |
|---|---|---|---|
| `RedisValue` (`redis/database/redis_value.h`) | type, one container per type, expiry | constructors, `isExpired`, `setExpiry`, `clearExpiry` | reads the system clock |
| `RedisDatabase` (`redis/database/`) | the map, `db_mutex` | `keyExists`, `getValue`, `setValue`, `deleteKey`, `clearDatabase`, `getDatabaseSize`, `cleanupExpiredKeys`, `getMatchingKeys` | locked per call; `getValue` hands out a pointer into the map |
| command families (`redis/commands/`): string, list, set, hash, TTL, server | none | one handler per command (46 in all) | `RedisDatabase`, `RESPFormatter`, `UtilityFunctions` |
| `CommandHandler` (`redis/command_handler.cpp`) | command table, `total_commands_processed` | `processCommand`: count, sweep every 100th command, look up, run the handler, turn an exception into an error | owned by the server, called by every handler thread |
| `UtilityFunctions` | none | `isInteger`, `parseInt`, `toUpper`; `matchPattern` and `isValidKey` are used by nothing | |
| `RESPFormatter`, `RESPParser`, `RESPValue` (`resp/`) | none | bytes to arguments, answers to bytes | `handleClient`, the command handlers |
| `ConnectionManager` (`server/connection_manager.cpp`) | vector of threads, `threads_mutex`, `active_connections` | `canAcceptNewConnection`, `addConnection`, `stopAllConnections`, `cleanupFinishedThreads` | runs the server's handlers |
| `TCPServer` (`server/tcp_server.cpp`) | `server_fd`, `running` | `start`, `acceptConnections`, `handleClient`, `stop`, destructor | kernel, clients, `ConnectionManager`, `CommandHandler` |
| logger, `main` | none | console output; build a server and start it | |

What is hard about it:

* **Lazy expiry.** An expired entry stays in the map until a lookup of that key
  or a sweep. Every handler has to find its entry through a lookup that erases
  it; DEL, KEYS, INFO and DBSIZE each have their own way round that.
* **Values overwritten and changed in place.** A value carries the containers of
  all types and one deadline; what survives a sequence of commands of several
  types depends on which of them store a fresh value.
* **Integers.** Numerals of any length are "integers"; values, ttls and the
  clock are 64-bit counts that overflow.
* **Threads.** The acceptor, the handlers and whoever calls `stop()` meet in
  `ConnectionManager`; the limit is checked once without and once with the
  mutex, the counter is reset while threads decrement it, and `stop()` waits for
  threads with the mutex held.
* **The shared map.** Each call of `RedisDatabase` holds `db_mutex`, a handler
  makes several, and `getValue` hands out a pointer into the map that is used
  after the mutex is released. Other handlers, and the sweep any of them may run,
  erase and overwrite the entry meanwhile. The count of commands is not guarded.
* **Options.** SET works through its words two at a time, steps back after some of
  them, and may end at any.
* **The byte stream.** A read returns any number of bytes; commands come in
  pieces or in bursts, malformed or never finished; a client may not read its
  answers, or leave with some on their way.
* **The end.** Threads that `stop()` has missed and the thread in `start()` are
  still about while the server is destroyed, member by member.

What makes each component correct:

* `RedisDatabase`, commands: a client cannot tell lazy expiry from expiry on
  time; errors have no effect; types and deadlines change only by the commands
  meant to change them; no empty collection is stored.
* `ConnectionManager`: the counter is exact, the limit holds, no thread is lost.
* several handlers on one map: each command happens as if at once; none uses an
  entry that is gone; what has been answered stays done.
* parser and session: the commands taken are the messages sent, whatever the
  reads; answers come in the order of the commands, each one message.
* `TCPServer`: every open socket has exactly one owner; `stop()` ends everything
  and returns; nothing outlives the object.

`PROJECT.json` lists every component with what is modelled of it, and the
hazards, each at its line.

## 2. Modules

```
RedisValue  <-  RedisDatabase  <-  Commands  <-  StringCommands, ListCommands,
                                                 SetCommands, HashCommands,
                                                 TTLCommands, ServerCommands
StringCommands, ...  <-  CommandHandler  <-  EagerExpiry
                         CommandHandler  <-  LazyExpiry       - - >  EagerExpiry
Commands  <-  SharedKeyspace             <-  AtomicKeyspace   - - >  EagerExpiry

ConnectionManager  <-  TCPServer  <-  ServerLifetime

RESPParser  <-  RESPGrammar  <-  RESPStream
RESPParser  <-  RESPFormatter
RESPParser  <-  ClientSession

GlobMatch
```

An arrow points to the module extended, a broken one to a module instantiated by a
refinement mapping. The `MC...` modules hold the instances TLC checks, the
`...Proofs` modules the theorems of the module they extend.

* **`RedisValue`** - data. A string is either the numeral of an integer of any
  size or some other text; that is all `isInteger`, `parseInt` and the commands
  tell apart. `Wrap` is two's-complement overflow at the width `LLMax`. The
  clock counts ticks (nanoseconds in the build); seconds and milliseconds become
  ticks through two constants. `clearExpiry` also resets the expiry, which
  nothing reads once `has_expiry` is false.
* **`RedisDatabase`** - each member function as an operator on the map: what it
  leaves in it, and, by another name, what it returns. `NoValue` is "no entry"
  and the null pointer.
* **`Commands`** - what handlers share. A handler `cmdX(db, ...)` is an action
  with one disjunct per path to a `return`; `Respond` says what the path leaves
  in the map and answers.
* **`StringCommands` ... `ServerCommands`** - one action per handler, by the
  source's name. The loop of SET over its words is `positions`: which words it looks
  at as options, the one it begins with and, from each, the one it comes to next.
* **`CommandHandler`** - one action per command; each is the whole of
  `processCommand`: the count, the sweep if this is the `CleanupPeriod`-th
  command (`entry` is the map after it), and the handler. The paths that reach no
  handler (empty, unknown, wrong arity) are actions too, and so is the clock. The
  count is kept modulo `CleanupPeriod`, all that the code uses it for but the
  text of INFO.
* **`EagerExpiry`** - the abstract specification: a keyspace in which a key
  disappears in the tick its time comes and no command ever meets an expired one.
  DEL and INFO count entries of the map without a lookup, expired ones too: here
  their count is that of some set of keys with all the live ones in it.
* **`LazyExpiry`** - the refinement mapping: what a sweep of `CommandHandler`'s map
  would leave of it is `EagerExpiry`'s map.
* **`SharedKeyspace`** - `processCommand` in several threads at once. A member
  function of the database is one step, for it holds `db_mutex` throughout; each
  use of a pointer is one more. `pointer` says what a thread's pointer is: null,
  the entry of its key, or dangling once that entry has been erased (an assignment
  to the key leaves the entry where it is). The increment of the count is a load
  and a store, and the test that follows may see either. `Misuse` (a dangling or
  an unexpected null pointer is followed, an element is taken from an empty list)
  and `Race` (two threads are about to use one part of an entry, at least one
  without the lock, at least one writing) set `undefined` and stop the model:
  what a C++ program does from there is anything. There is a command of every
  shape the handlers have; the module's head says which stand for which.
  `Race` is about entries; the counter is raced for by any two threads, which
  nothing could be said after, so for it the model has the outcomes instead.
  `Apart` says when clients keep out of the way of one another: commands overlap on
  a key, or with FLUSHALL, only if all of them do everything under the lock (SET,
  SETNX, DEL, FLUSHALL) or none of them changes anything (GET, TTL); no key expires
  while a handler has a pointer to its entry; no sweep meets an EXPIRE or a PERSIST
  about to write. It is a condition on timing, and *nothing in the code sees to it*:
  it is what "thread-safe" leaves to the clients.
* **`AtomicKeyspace`** - adds a history variable, `shown`, which no other action
  reads: the map `EagerExpiry` has. It is what a sweep would leave of the map, and
  for a key that a push or a pop is changing in several steps, what it was when that
  command arrived. Under `Apart` it maps the threads' steps to `EagerExpiry`:
  commands happen at once, though keys are shared, expire and are swept.
  `PlainCommands` says that the argument lists `EagerExpiry` is given include the
  ones sent here.
* **`RESPParser`** - `parse` and `toStringVector` as one function from bytes to
  words. A byte is a character, or the digits of a number taken together.
  `parseValue` is a recursive function of the depth: at each depth `parseByMarker`
  gives the value at every position, from the values one deeper; `elementsFrom` is
  the loop over the elements of an array, recursive in their number.
* **`RESPGrammar`** - what a part of the bytes means, from its first to its last, told
  without looking for where it ends: the definition the parser is measured
  against. A part has a set of meanings, and nothing in the definition says that
  there is one at most.
* **`RESPStream`** - the bytes of a connection as they arrive, one more at a time,
  and what the parser makes of them.
* **`RESPFormatter`** - the bytes of each kind of answer, and a stream of answers,
  which a client reads with the parser. The name of an unknown command is any bytes,
  line breaks too.
* **`ClientSession`** - `handleClient` for one connection: `Loop`, `Read`,
  `Take`/`Break`, `Process`, `Send`, with its buffer; the kernel delivers bytes in
  pieces and has room for so many answers; the client reads, stops reading,
  leaves. The messages are those of `RESPParser`, whose module it extends.
* **`ServerLifetime`** - `TCPServer` with its destructor: `stop()`, `close`, the
  command handler goes, the connection manager stops all connections and goes. The
  owner may or may not wait for `start()` first; `waited` remembers.
* **`GlobMatch`** - `matchPattern`, a step for each turn of its loops, and the
  regex of `getMatchingKeys`, against what a glob means.
* **`ConnectionManager`** - `addConnection` as its three outcomes (added, full,
  no thread can be created); the body of a client thread as `threadStarts`
  (`++`), `handlerReturns`, `threadEnds` (`--`); `stopAllConnections` as taking
  the mutex, joining one thread at a time, and clearing.
* **`TCPServer`** - extends `ConnectionManager` and runs its actions from the
  acceptor's loop, from `handleClient` and from `stop()`, with the places the
  three kinds of thread can be in. A handler may throw (`HandlerThrows`: no memory
  for its buffer, a command or an answer); the exception is caught around it, and its
  socket stays open for good. Clients connect, send, hang up or stay silent.

Operators headed "Mutant:" are not part of the model: each is a definition the
way a plausible bug would have it, and `PROJECT.json` says which property fails
when it takes the original's place.

## 3. Runs

| Run | Checks | Instance |
|---|---|---|
| `eager_expiry` | `SetMeansItsOptions`, `RefusalChangesNothing`, `ExpiredStaysDead`, `ImplementsEagerExpiry` | 1 key, all commands, `long long` = -4..3, numerals -4..5, 2 ticks per second, clock 0..2, 13 ways to write SET, sweep every 3rd command |
| `collection_commands` | `PayloadMatchesType`, `LrangeAgreesWithLindex`, `TypeIsSticky`, `DeadlineIsSticky` | 2 keys, all commands, 2 elements, lists up to 2, clock 0..1, sweep every 2nd command |
| `server_lifetime` | `TypeOK`, `CounterIsExact`, `NeverTooMany`, `NoThreadIsLost`, `SocketHasOneOwner`, `NoCommandAfterHandler`, `NothingOutlivesServer` | 3 connections, `MAX_CLIENTS` 2, `stop()` and the destructor at any time, handlers that throw; about 250 000 states |
| `tcp_server_live` | `StopCompletes`, `HungUpIsClosed` | 3 connections, `MAX_CLIENTS` 1, no client stays for ever, handlers that throw; about 140 000 states |
| `shared_keyspace` | `HandlersReturn` | 2 threads on 1 key, commands of every shape, clock 0..1, sweep with every command |
| `atomic_keyspace` | `EntriesAreSafe`, `CommandsAreAtomic` | 2 threads on 2 keys, kept `Apart`; SET, FLUSHALL, GET, INCR, LPUSH, LPOP, EXPIRE; lists up to 2, clock 0..1, sweep with every command; about 300 000 states |
| `resp` | `ParsesTheGrammar`, `MoreBytesChangeNothing`, `AnswersReadBack` | every way of going on by 4 bytes of 9 from 18 beginnings, and 2 answers with 5 payloads and 5 names of unknown commands; strings and arrays up to 2, depth 2, `int` up to 3, `long long` up to 4 |
| `client_session` | `TypeOK`, `FramingIgnoresSplits`, `AnswersInOrder`, `GoneClientIsClosed`, `EveryCommandIsAnswered` | 4 streams, reads of up to 4 bytes, room for 1 answer |
| `glob_match` | `TypeOK`, `AcceptsOnlyMatches`, `AcceptsEveryMatch`, `KeysListsMatches`, `Terminates` | every pattern of up to 3 characters of 4, every string of up to 4 characters of 4 |
| `finished_threads` | violation of `FinishedThreadsMakeRoom` | 3 connections, `MAX_CLIENTS` 2 |
| `stop_idle_client` | violation of `StopCompletes` | 2 connections, `MAX_CLIENTS` 2, clients do as they please |
| `thread_safe` | violation of `EntriesAreSafe` | 2 threads with a key each that send SET NX EX 1 and GET, clock 0..1, sweep every 2nd command |

Why the bounds are enough: commands act on the keys they name, and expiry on each
key alone, so two keys show every interplay there is (a command with two keys,
and an expired key beside a live one) and one is enough for the refinement. A
`long long` of eight values and numerals two beyond it make counters wrap, ttls
overflow and numbers fail to fit within three commands. Two clock ticks let a
deadline be ahead, be reached and be passed. Lists of two elements have a first
and a last one, and `LrangeAgreesWithLindex` tries every pair of indices from
beyond one end to beyond the other on each. More connections than `MAX_CLIENTS`
are needed for the limit to matter, and one to spare for a connection that comes
after. In the liveness run one client is served, which is enough for the acceptor to
hold the socket of another while `stop()` waits for the first, and for clients to
be refused at the limit and for a full vector; two handlers at once are in
`server_lifetime`.

Two threads are enough for the concurrent runs: every race and every lost update
is between two, and a third only adds more of the same. One shared key lets every
two commands meet. Two keys that both threads use let them overlap on different keys and
follow one another on the same, and let one thread's sweep take the other's expired
key. A message of the session's streams takes from three to eleven bytes and a
read at most four, so messages span reads and reads span messages; the streams
hold a burst, a payload that looks like the end of a line, a message never
finished and a byte no message begins with. Patterns of three characters hold a
star before, between and after others and two stars with one between them;
strings of four are longer than any of them needs, and hold an ordinary
character, a dot, a star and a line break.

The bounds built into the modules are `MaxNow`, `MaxListLength`, `MaxItems`,
`MaxAnswers` and `MaxMessages`, and `MaxGrowth` in `MCRESP`.

`CHECK_DEADLOCK FALSE` everywhere: without clients the server waits, after
`stop()` it is done, and the clock stops at `MaxNow` (the commands never do); a
session that is closed, a server that is gone, a model whose behaviour has become
undefined, and an input, a list of answers or a match that is complete are at
their end.

The runs of commands leave the reply out of the fingerprint (`VIEW`): no later
step reads it, and the properties that look at it are action properties, checked
on every step, or map it to the reply of the specification refined. Symmetry is
used only where connections are interchangeable and only for safety.

### Where the code and what is said of it differ

| Run | What TLC finds |
|---|---|
| `finished_threads` | `cleanupFinishedThreads` cleans up nothing: finished threads stay joinable. After `MAX_CLIENTS` connections in the server's lifetime every later one is refused. |
| `stop_idle_client` | `stop()` does not return while a client is connected that neither sends nor leaves. |
| `thread_safe` | Two clients that share no key still race: the sweep in one thread frees an expired entry the other is reading. |

What is left of `thread_safe`'s property is that it holds while clients keep
`Apart`: `atomic_keyspace` checks it and `SharedKeyspaceProofs` proves it.

Other places where the code does not do what one might expect of it are in the
models as the code has them, without a run of their own; properties that come
near are stated for what is left:

* Commands that overlap on a key are not atomic. Two INCR may read one number, of two
  LPUSH that create a list the second stores its empty list over the element of
  the first, LPOP and TTL delete by name what another client has stored since,
  and SET with NX overwrites what came after its test. `CommandsAreAtomic` is
  about commands that keep `Apart`, and leaves SET with NX out.
* `total_commands_processed++` is a data race between any two threads. By the letter
  of C++ that is undefined behaviour; `EntriesAreSafe` does not count it, and the
  model has what a load and a store can do. Lost increments of `total_commands_processed` can put the sweep off for ever.
* A connection accepted before `stop()` and added after it has a thread nobody
  has joined when `stop()` returns; it finds `running` FALSE before it reads
  (`NoCommandAfterHandler`), and the destructor joins it. A handler that throws
  leaves its socket open (`SocketHasOneOwner`, `HungUpIsClosed`). The thread in `start()`
  may outlive the server unless the owner joins it (`NothingOutlivesServer`).
* A malformed message is waited on as if it were incomplete: it stays at the head
  of the buffer, nothing after it is answered, and nothing bounds the buffer
  (`MAX_BUFFER_SIZE` is not used). `EveryCommandIsAnswered` is about the messages
  before it.
* A client that leaves with answers on their way can end the process by SIGPIPE
  (`SendKills`; the alternative in `GoneClientIsClosed`).
* The name of an unknown command goes into its error as it is; with CRLF in it the
  error ends early and the client loses its place. `AnswersReadBack` says so: that
  answer is read as a shorter error and its rest stands before the next answer; what
  came before is read as it was meant.
* `SET key value NX` with NX as the last word is a syntax error; LRANGE with start
  after end, both beyond the list, answers one element (`LrangeAgreesWithLindex`
  allows one at the most where the range misses the list); EXPIRE takes a
  number that does not fit a `long long` for 0 and deletes the key.
* `matchPattern` takes a star in the string for an ordinary character, and `KEYS *`
  does not list a key with a line terminator in it: the two exceptions in
  `AcceptsEveryMatch` and `KeysListsMatches`.

### Fairness

`FairSpec` asks for weak fairness of the acceptor, of the thread in `stop()` and
of each handler: the operating system runs every thread that can run. A blocked
call is a disabled action, so nothing is asked of a thread in `accept`, `read`,
`join` or on the mutex until what it waits for is there. `accept` failing for a
reason of its own, a handler that throws, calling `stop()`, and everything clients do
is not fair. The
run `tcp_server_live` adds that every client hangs up some day
(`FairSpecClientsLeave`); `stop_idle_client` shows that it is needed.

`SharedKeyspace` asks that no thread stays in the middle of a command for ever,
and not that clients send more. `ClientSession` asks that the handler runs when it
can; `EveryCommandIsAnswered` needs in addition a client that reads and a network
that delivers, for `send` blocks without. `GlobMatch` asks that the function goes
on.

## 4. Proofs

Every theorem is proved for all values of the constants: any sets of keys,
strings, threads and connections, any width of `long long`, any clock, any
argument lists, any `CleanupPeriod`, `MAX_CLIENTS` and buffer sizes, any bytes and
any limits of the parser. Assumptions are those on the constants only
(`DataAssumption`, `ArgumentAssumption`, `HandlerAssumption`,
`ManagerAssumption`, `ServerAssumption`, `ParserAssumption`, `StreamAssumption`,
`FormatterAssumption`, `SessionAssumption`, `SharedAssumption`,
`GlobAssumption`), which TLC evaluates in the runs, and, where they are named,
`Apart`, `PlainCommands` and that `SETNX` is not offered, which say which clients a
theorem is about. Most assumptions say what kind of thing a constant is. Those that
say more: lengths and counts the parser allows fit an `int`; the payloads, arrays
and nesting of answers are within the limits of the one who reads them, and the fixed
texts of errors and simple strings have no line break in them (`FormatterAssumption`).

| Module | Theorem | States |
|---|---|---|
| `CommandHandlerProofs` | `TypeCorrect`, `PayloadCorrect`; `RefusalsChangeNothing`, `TypesAreSticky`, `DeadlinesAreSticky`, `ExpiredKeysStayDead`, `RangesAgree` | `TypeOK`, `PayloadMatchesType`; `RefusalChangesNothing`, `TypeIsSticky`, `DeadlineIsSticky`, `ExpiredStaysDead`, `LrangeAgreesWithLindex` |
| `EagerExpiryProofs` | `LazyIsEager` | `ImplementsEagerExpiry` |
| `TCPServerProofs` | `CounterCorrect`, `NoThreadLost`, `LimitHolds` (any callers of the manager); `TypeCorrect`, `SocketsCorrect` (the server); `LifetimeTypeCorrect`, `LifetimeSocketsCorrect`, `LifetimeCounterCorrect`, `LifetimeNoThreadLost`, `LifetimeLimitHolds`, `HandlerOutlivesCommands`, `ServerOutlivesThreads` (with its destructor) | `CounterIsExact`, `NoThreadIsLost`, `NeverTooMany`; `TypeOK`, `SocketHasOneOwner`; all of these, `NoCommandAfterHandler`, `NothingOutlivesServer` |
| `RESPProofs`, with the lemmas of `RESPParserProofs` | `Grammar`, `MessageIsFinal`, `Answers` | `ParsesTheGrammar`, `MoreBytesChangeNothing`, `AnswersReadBack` |
| `ClientSessionProofs` | `TypeCorrect`, `FramingCorrect`, `AnswersCorrect` | `TypeOK`, `FramingIgnoresSplits`, `AnswersInOrder` |
| `SharedKeyspaceProofs` | `SharedTypesCorrect`, `SafeWhileApart`, `OneAtATime` | `TypeOK`, `EntriesAreSafe` under `[]Apart`, `CommandsAreAtomic` |
| `GlobMatchProofs` | `PositionsInBounds`, `AcceptedMatch`, `MatchesAreAccepted`, `RegexesAgree` | `TypeOK`, `AcceptsOnlyMatches`, `AcceptsEveryMatch`, `KeysListsMatches` |

**`CommandHandlerProofs`.** Neither `TypeOK` nor `PayloadMatchesType` is inductive
alone: a handler keeps payload and type in step only in a well-formed value, and
whether a list is empty matters to its type. The inductive invariant is their
conjunction, said of each value as `goodValue`. The argument: each database
operation maps a good map to a good map; each handler, given one, responds with one
(`Outcome`), a lemma per handler; the sweep in front of it gives it one; so each
action of `Next` keeps the invariant.

The four action properties speak of what a client can
see, so they are proved of the *view*: what a sweep at this moment would leave of
the map. A sweep and a lookup leave the view as it is. So it is enough to say of
each handler, in a lemma of its own, what it does to the view: nothing when it
refuses, otherwise a change to the entries of its own keys, of a kind the
property allows. `LrangeAgreesWithLindex` is a lemma about `lrange`, by the cases of
both clamps: the range that meets the list is the segment between them, whose
length is the number of its indices, and one that misses it leaves one index at the
most between them.

**`EagerExpiryProofs`.** A simulation: the view of `CommandHandler` is the map of
`EagerExpiry`. A handler that looks a key up finds there what the view holds, so
both take the same path; each way a path ends (answer, delete, store) does to the
view what it does to the map, unless the stored value is already too late, which
`EagerExpiry` drops as well; a tick takes from the view what it takes from the map.
DEL and INFO do not look up, and only their counts differ.

**`TCPServerProofs`**, first of the manager with any callers. The strengthening is
`JoinedHaveFinished` and `VectorIsBounded`: a thread that has not finished has
not been joined, so it is in the vector (`NoThreadIsLost`), and the vector is
bounded by the check in `addConnection`; that gives the limit. When
`stopAllConnections` clears, all in the vector are joined, so all have finished,
so nobody is between `++` and `--` and 0 is the exact count.

Then of the server. Each of its steps is a step of the manager or leaves it
alone, so the manager's invariant is the server's, and that with its destructor too.
For the sockets the strengthening says who
owns each by the places of the three kinds of thread (`Place`): it is open exactly
when the acceptor holds it, its thread has yet to close it, or its handler has
thrown, never two of these, and a handler is in `handleClient` exactly while its thread runs. With the destructor
(`ServerLifetime`) the invariant gains `DestroyerInv`, which says what is
already true at each of the destructor's steps: once it has come past `stop()`,
`running` is FALSE, and the places a thread may then be in are those from which it
leaves without another read, which is why the command handler may go first; once
`~ConnectionManager` has joined the threads, none is left and the vector is empty;
and the acceptor is gone if `start()` was waited for.

**`RESPParserProofs`** and **`RESPProofs`.** The parser is recursive twice, in depth
and in the number of elements. Two lemmas carry all the inductions: `Induction`, over
a *set* of naturals, of which each but the empty one has a least member
(`LeastNatural`); and `Recursion`, that a function with a given first value and
given steps exists, without which nothing could be said of what a recursive
definition defines. With these, for every input:

* `ValuesByDepth`, `MessageWithin`: whatever is parsed ends within the input.
* `SameMessage`: the same message is found in any longer input. It is so of a line,
  of a bulk string, of the elements of an array one by one, and depth by depth from
  the deepest. `MessageIsFinal` is that of the next byte.
* `Grammar`: at each depth the meanings of a part are what the parser finds at its
  first byte if that ends at its last, and otherwise none (`matched`). For a line,
  this is because the *first* CRLF ends it; for a bulk string, because its header is
  one line and gives its length; for an array, because n values in a row beginning
  at a position can only be the n elements the loop finds (`RowMatches`), as each
  of them ends in one place. So the grammar is unambiguous, which its definition
  does not say, and the parser reads it.
* `Answers`: each kind of answer is one message to its last byte (`LineReadsBack`,
  `BulkStringReadsBack`, `ArrayReadsBack`, ...), whatever its payloads. The
  strengthened invariant `Inv` adds only types. One more answer leaves the
  ones before it as they were read, by `SameMessage`, and is then read from
  where they end. A name with a line break in it ends the error at the first break,
  and the rest, which ends in CRLF, is not nothing.

**`ClientSessionProofs`.** The strengthening: the buffer is what has been received and
not yet taken, `stream[end + 1 .. received]`, where `end` is where the last command
taken ends; so what `parse` finds in it is what it would find in the stream from
there: that is `SameMessage` again. Nothing is assumed of the parser.

**`SharedKeyspaceProofs`**, in three parts.

* `SharedTypesCorrect`: types, under no condition. The strengthening is that a
  pointer to an entry is one to an entry that is there, so that what a handler
  reads through it, without the lock, is a value.
* `SafeWhileApart`: `EntriesAreSafe`, as long as clients keep `Apart`. The inductive
  invariant is `SafeInv`: a thread's pointer is null or the entry of its key, and is
  the entry in every place that follows it unasked; the key of a list just created
  still holds the empty list, and a list about to be popped is not empty. A step
  changes only entries of its own key, all of them if it is FLUSHALL, or erases
  expired ones (`Changes`); by `Apart` no other thread is then at work on such an
  entry with a pointer (`NoneMeets`), and no entry pointed at has expired. A race
  needs two threads at one entry, at least one outside the lock and one writing, and
  `Apart` leaves none.
* `OneAtATime`: on `HistorySpec`, where every state is `Apart`, the interleaved steps
  of all threads implement `EagerExpiry`. The invariant is
  `AtomicInv == SafeInv /\ Apart /\ History`. `History` says that `shown` is the map
  without its expired entries, but for keys a push or a pop is at work on, and relates,
  for each place a handler can be in, the entry `shown` still has, the entry as the
  handler has left it so far, and what it holds in its hands: LPUSH between the store
  of the empty list and the push, LPOP between the pop and the deletion, INCR between
  the read and the store. Every step before the answer, and every sweep, leaves `shown`
  alone; a tick takes from it what `EagerExpiry`'s tick takes; the step that answers is
  the command, with its answer.

**`GlobMatchProofs`.** A match is a *cut* of the string into the pieces the pattern's
characters stand for. The invariant says that what has been matched so far is cut
(`MatchedSoFar`), and that so is what came before the last star (`StarBehind`),
which is all the loop goes back to; so what it accepts has a cut. The converse
needs that going back to the *last* star loses nothing: every whole cut gives the
last star at least the characters tried so far, and the characters after it go on
as the loop does (`CutsFollowed`). With a star in the string this fails, as the
code takes that star for an ordinary character, and the property leaves such
strings out. `RegexesAgree` compares the pieces of the regex with those of the glob.

## 5. Only model-checked

* Liveness (`StopCompletes`, `HungUpIsClosed`, `HandlersReturn`,
  `GoneClientIsClosed`, `EveryCommandIsAnswered`, `Terminates`): fairness and
  ENABLED are beyond the prover.

* `SetMeansItsOptions`, which is about the words of a SET, given as a sequence of any
  length.

Every other property of a passing run is a theorem. `SharedKeyspace` has no
theorem that commands are atomic, or entries safe, without `Apart`: neither is
true, as `thread_safe` and section 3 show.

## 6. Not modelled

* Sends cut short by a signal, reads interrupted by one, `close` that fails: the
  program installs no signal handlers. `TCPServer` does not look at the bytes:
  there `Serve` never waits for a client that does not read, which is
  `ClientSession`'s subject.
* A handler that throws is in `TCPServer`, not in `ClientSession`, which is about a
  session that has memory.
* A second `start()`, `bind` or `listen` that fail, the destruction of a server
  that was never started.
* In `SharedKeyspace`, commands on several keys (DEL and MSET of more than one take
  their steps key by key) and those that list the map under the lock, whose single
  step is that of `CommandHandler`; what a compiler makes of a race, beyond the
  outcomes of the unguarded count.
* Bytes of a numeral one by one, and a minus sign apart from its number.
* Patterns with a backslash, which KEYS hands on to `std::regex` and about which
  the repository says nothing.
* In `CommandHandler`, the translation of KEYS patterns to regular expressions
  (any set of keys may be what a pattern matches); the order in which unordered
  containers are listed, the wording of errors, INFO's text but for the
  number of keys, the logger, `main`, `printValue`, `parsePlainText`
  and `isValidKey`, which the server does not use.
* `QUIT`, which the repository's README lists and no table entry implements, is
  an unknown command.

## 7. Plan

Every component with state is modelled, and every safety property the passing runs
check is proved. What could be added:

1. more commands in the steps of several threads: DEL and MSET of several keys,
   key by key;
2. numerals digit by digit in `RESPParser`, with their signs and leading zeros;
3. `CommandsAreAtomic` without `Apart`, if the code comes to hold the lock for a whole
   command.
4. a proof of `SetMeansItsOptions`, by induction over the words.

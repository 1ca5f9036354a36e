---------------------------- MODULE AtomicKeyspace ----------------------------
(***************************************************************************)
(* What concurrent clients may expect of SharedKeyspace while they keep    *)
(* Apart: that each command happens at once, and on a keyspace from which  *)
(* keys go when their time comes, as EagerExpiry has it for a single       *)
(* client.  A history variable, which no other action reads, is the map    *)
(* EagerExpiry has.                                                        *)
(***************************************************************************)
EXTENDS SharedKeyspace

VARIABLE
  shown             \* the map EagerExpiry has: each key's entry until its
                    \* time comes, or, while a handler changes it in several
                    \* steps, what it was when that command arrived

inUse(k) == \E t \in Threads : busy(t) /\ key(t) = k /\ task[t].op \in {"LPUSH", "LPOP"}

Remember ==
  shown' = cleanupExpiredKeys([k \in Keys |-> IF inUse(k)' THEN shown[k] ELSE database'[k]],
                              now')

HistorySpec == (Init /\ shown = database) /\ [][Next /\ Apart' /\ Remember]_<<vars, shown>>

Eager ==
  INSTANCE EagerExpiry WITH database <- shown, processed <- 0, CleanupPeriod <- 1

(* While clients keep Apart, what they see is what one thread running      *)
(* their commands one after the other would do: a command takes effect     *)
(* when it is answered, and its answer is the one CommandHandler gives.    *)
(* Keys may be shared, expire and be swept by any thread's command.  SETNX *)
(* is left out: it tests and stores under the lock, but not under one      *)
(* lock, and two of them may both be answered with OK.                     *)
CommandsAreAtomic == Eager!EagerSpec

(* EagerExpiry's client may name one key in DEL, push one value, and give  *)
(* SET no options.                                                         *)
PlainCommands ==
  /\ \A k \in Keys : <<k>> \in KeyLists
  /\ \A s \in Values : <<s>> \in ValueLists
  /\ <<>> \in SetWordLists
===============================================================================

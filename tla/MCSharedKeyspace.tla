--------------------------- MODULE MCSharedKeyspace ---------------------------
(***************************************************************************)
(* Small instances of SharedKeyspace for TLC: two clients, a long long     *)
(* that is -2 .. 1, a second that is one tick of the clock.                *)
(***************************************************************************)
EXTENDS SharedKeyspace

CONSTANTS t1, t2, k1, k2

MCThreads == {t1, t2}
MCTexts   == {""}
MCNumbers == -2 .. 1
MCConcat(s, t) == s
MCLength(s)    == IF s = EmptyString THEN 0 ELSE 1

NoLists == {}

(* Each client has a key of its own, or both use one key or two            *)
TwoKeys    == {k1, k2}
OneKey     == {k1}
OwnKeys    == [t \in MCThreads |-> IF t = t1 THEN {k1} ELSE {k2}]
CommonKeys == [t \in MCThreads |-> {k1}]

BothKeys   == [t \in MCThreads |-> TwoKeys]

One        == {<<"num", 1>>}
ZeroAndOne == {<<"num", 0>>, <<"num", 1>>}

(* What the clients send                                                   *)
LateCommands    == {"SETNX", "FLUSHALL", "LPUSH", "LPOP", "EXPIRE", "TTL", "PERSIST", "SET", "GET", "INCR"}
AtomicCommands  == {"SET", "FLUSHALL", "GET", "INCR", "LPUSH", "LPOP", "EXPIRE"}
SetNXAndGet     == {"SETNX", "GET"}

(* The reply is left out of the fingerprint: it never decides what happens *)
(* next.                                                                   *)
withoutReply == <<database, now, total, threadVars, undefined>>
===============================================================================

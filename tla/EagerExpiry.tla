------------------------------ MODULE EagerExpiry ------------------------------
(***************************************************************************)
(* What the keyspace promises its clients, with no lazy expiry in it: a    *)
(* key disappears in the very tick its time comes, a value whose deadline  *)
(* is already past is not stored, and so no command ever finds an expired  *)
(* key and there is nothing to sweep.                                      *)
(*                                                                         *)
(* The server does otherwise: expired keys stay in the map until a command *)
(* or the sweep of every CleanupPeriod-th command happens on them.         *)
(* CommandHandler implements this specification all the same, under the    *)
(* mapping database <- cleanupExpiredKeys(database, now), but for two      *)
(* replies: DEL and INFO count entries of the map, expired ones included,  *)
(* so all that is promised of their counts is that they miss no live key.  *)
(***************************************************************************)
EXTENDS CommandHandler

(* Time passes, and the keys whose time has come are gone                  *)
TickAndExpire ==
  /\ now < MaxNow
  /\ now' = now + 1
  /\ database' = cleanupExpiredKeys(database, now')
  /\ UNCHANGED <<reply, processed>>

(* A deadline already past: EX or PX with 0 or less, or with a time that   *)
(* overflows the clock                                                     *)
SetExpired ==
  /\ count
  /\ \E k \in Keys, s \in Values, words \in SetWordLists :
       /\ isExpired(valueToSet(s, words), now)
       /\ ~dangling(words)
       /\ \A i \in options(words) : ~optionRefuses(database, k, words, i)
       /\ Respond(deleteKey(database, k), Simple("OK"))

ExpireExpired ==
  /\ count
  /\ \E k \in Keys, a \in Amounts :
       /\ present(database, k)
       /\ isExpired(setExpiry(database[k], now, secondsToTicks(parseInt(a))), now)
       /\ Respond(deleteKey(database, k), Integer(1))

(* The set counted: every live key, and maybe others                       *)
DelCountsAtLeast ==
  /\ count
  /\ \E l \in KeyLists :
       \E K \in SUBSET ToSet(l) :
         /\ {k \in ToSet(l) : present(database, k)} \subseteq K
         /\ Respond([k \in Keys |-> IF k \in ToSet(l) THEN NoValue ELSE database[k]],
                    Integer(Cardinality(K)))

InfoCountsAtLeast ==
  /\ count
  /\ \E K \in SUBSET Keys :
       /\ {k \in Keys : present(database, k)} \subseteq K
       /\ Respond(database, InfoText(Cardinality(K)))

EagerNext ==
  \/ StringCommand \/ ListCommand \/ SetCommand \/ HashCommand \/ TTLCommand
  \/ ServerCommand \/ NoCommand
  \/ SetExpired \/ ExpireExpired \/ DelCountsAtLeast \/ InfoCountsAtLeast
  \/ TickAndExpire

EagerSpec == Init /\ [][EagerNext]_vars
===============================================================================

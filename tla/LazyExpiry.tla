------------------------------ MODULE LazyExpiry ------------------------------
(***************************************************************************)
(* CommandHandler, in which expired keys stay in the map until something   *)
(* happens on them, against EagerExpiry, in which they go on time.  What a *)
(* sweep would leave of the map is the map EagerExpiry has.                *)
(***************************************************************************)
EXTENDS CommandHandler

Eager == INSTANCE EagerExpiry WITH database <- cleanupExpiredKeys(database, now)

(* Lazy expiry cannot be told from expiry on time, but for the counts of   *)
(* DEL and INFO: a handler that worked on an entry it has not looked up,   *)
(* or a sweep that took a live key, would show.                            *)
ImplementsEagerExpiry == Eager!EagerSpec
===============================================================================

------------------------------ MODULE TTLCommands ------------------------------
(***************************************************************************)
(* class TTLCommands (redis/commands/ttl_commands.cpp).                    *)
(***************************************************************************)
EXTENDS Commands

secondsToTicks(s) == Wrap(s * TicksPerSecond)

cmdExpire(db, key, seconds) ==
  LET d == lookup(db, key, now)
      s == parseInt(seconds)
  IN  \/ ~isInteger(seconds) /\ Respond(db, Error("not an integer"))
      \/ isInteger(seconds) /\ ~present(d, key) /\ Respond(d, Integer(0))
      \/ /\ isInteger(seconds) /\ present(d, key)
         /\ Respond(IF s <= 0
                    THEN deleteKey(d, key)
                    ELSE setValue(d, key, setExpiry(d[key], now, secondsToTicks(s))),
                    Integer(1))

cmdExpireat(db, key, timestamp) ==
  LET d == lookup(db, key, now)
      t == secondsToTicks(parseInt(timestamp))      \* from_time_t
  IN  \/ ~isInteger(timestamp) /\ Respond(db, Error("not an integer"))
      \/ isInteger(timestamp) /\ ~present(d, key) /\ Respond(d, Integer(0))
      \/ /\ isInteger(timestamp) /\ present(d, key)
         /\ Respond(IF t <= now
                    THEN deleteKey(d, key)
                    ELSE setValue(d, key, [d[key] EXCEPT !.expiry = t, !.has_expiry = TRUE]),
                    Integer(1))

(* Whole seconds left, rounded down.  The handler reads the clock again    *)
(* after getValue and answers -2 if the key has expired in between; with   *)
(* the clock standing still during a handler that path is not taken.       *)
cmdTtl(db, key) ==
  LET d == lookup(db, key, now)
  IN  \/ ~present(d, key) /\ Respond(d, Integer(-2))
      \/ present(d, key) /\ ~d[key].has_expiry /\ Respond(d, Integer(-1))
      \/ /\ present(d, key) /\ d[key].has_expiry
         /\ Respond(d, Integer((d[key].expiry - now) \div TicksPerSecond))

(* Mutant: the entry is found without the expiry check                     *)
cmdPersistStale(db, key) ==
  \/ ~present(db, key) /\ Respond(db, Integer(0))
  \/ present(db, key) /\ Respond(setValue(db, key, clearExpiry(db[key])), Integer(1))

cmdPersist(db, key) ==
  LET d == lookup(db, key, now)
  IN  \/ ~present(d, key) /\ Respond(d, Integer(0))
      \/ present(d, key) /\ ~d[key].has_expiry /\ Respond(d, Integer(0))
      \/ /\ present(d, key) /\ d[key].has_expiry
         /\ Respond(setValue(d, key, clearExpiry(d[key])), Integer(1))
===============================================================================

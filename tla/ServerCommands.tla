---------------------------- MODULE ServerCommands ----------------------------
(***************************************************************************)
(* class ServerCommands (redis/commands/server_commands.cpp).              *)
(***************************************************************************)
EXTENDS Commands

(* PING, ECHO and TIME: the reply comes from the arguments or the clock    *)
cmdPing(db) ==
  \/ Respond(db, Simple("PONG"))
  \/ \E message \in Values : Respond(db, Bulk(message))

cmdEcho(db, message) == Respond(db, Bulk(message))

cmdTime(db) == Respond(db, TimePair(now \div TicksPerSecond, now % TicksPerSecond))

(* Of INFO's text only db0:keys is kept.  Nothing is swept first, so keys  *)
(* that have expired are counted.                                          *)
cmdInfo(db) == Respond(db, InfoText(getDatabaseSize(db)))

cmdFlushall(db) == Respond(clearDatabase, Simple("OK"))

(* KEYS skips the expired keys and leaves them in the map                  *)
cmdKeys(db, matched) == Respond(db, Elements(getMatchingKeys(db, matched, now)))

(* A pattern that std::regex refuses (one ending in a backslash) throws    *)
(* out of the handler; processCommand turns that into an error reply.      *)
cmdKeysBadPattern(db) == Respond(db, Error("bad pattern"))

cmdDbsize(db) ==
  LET d == cleanupExpiredKeys(db, now) IN Respond(d, Integer(getDatabaseSize(d)))
===============================================================================

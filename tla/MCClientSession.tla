--------------------------- MODULE MCClientSession ---------------------------
(***************************************************************************)
(* Sessions of clients that send a few short messages, well formed, cut    *)
(* short and malformed.                                                    *)
(***************************************************************************)
EXTENDS ClientSession

line(marker, text) == <<char(marker)>> \o text \o <<CR, LF>>
bulk(payload) == line("$", <<num(Len(payload))>>) \o payload \o <<CR, LF>>
command(word) == line("*", <<num(1)>>) \o bulk(word)

Ping   == command(<<char("a")>>)
Simple == line("+", <<>>)
Null   == line("*", <<num(-1)>>)

(* A command of several lines and what may follow it; a payload that looks *)
(* like the end of a line; a burst; a message that is never finished; and  *)
(* a byte no message begins with in the midst of others                    *)
MCStreams ==
  {Ping \o Simple,
   bulk(<<CR, LF>>) \o Null \o Simple,
   Simple \o Simple \o Simple \o <<char("*")>>,
   Simple \o <<LF>> \o Ping}
===============================================================================

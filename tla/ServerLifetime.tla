---------------------------- MODULE ServerLifetime ----------------------------
(***************************************************************************)
(* TCPServer to its end: ~TCPServer (server/tcp_server.cpp) calls stop(),  *)
(* closes server_fd, and then the members are destroyed in the reverse of  *)
(* their order in tcp_server.h, the command handler before the connection  *)
(* manager, whose destructor stops all connections once more.              *)
(*                                                                         *)
(* One thread, the owner's, stops the server, if it does so beforehand,    *)
(* and destroys it; another is in start().  The owner may wait for start() *)
(* to return before it destroys the server, and may not.                   *)
(***************************************************************************)
EXTENDS TCPServer

VARIABLES
  destroyer,        \* where the owner's thread is in ~TCPServer: "away",
                    \* "stop", "close", "handler", "manager", "joining", and
                    \* "gone" when there is no server any more
  waited            \* start() had returned when the destructor was called

lifetimeVars == <<vars, destroyer, waited>>

LifetimeInit == Init /\ destroyer = "away" /\ waited = FALSE

destroyerGoes(from, to) == destroyer = from /\ destroyer' = to /\ UNCHANGED waited

(* server.reset() or the end of main, of a server that has been started    *)
Destroy ==
  /\ destroyer = "away" /\ destroyer' = "stop"
  /\ stopper \in {"idle", "stopped"} /\ acceptor # "start"
  /\ waited' = (acceptor = "returned")
  /\ UNCHANGED vars

(* stop() in the destructor; it returns at once if nothing runs            *)
DestroyStops == destroyer = "stop" /\ Stop /\ UNCHANGED <<destroyer, waited>>

Stopped ==
  /\ destroyerGoes("stop", "close")
  /\ ~running /\ stopper \in {"idle", "stopped"}
  /\ UNCHANGED vars

(* close(server_fd)                                                        *)
CloseServer ==
  /\ destroyerGoes("close", "handler")
  /\ listening' = FALSE
  /\ sock' = [c \in Connections |-> IF sock[c] = "backlog" THEN "closed" ELSE sock[c]]
  /\ UNCHANGED <<managerVars, serverVars, client, inbox>>

DestroyHandler == destroyerGoes("handler", "manager") /\ UNCHANGED vars

(* ~ConnectionManager                                                      *)
ManagerLocks ==
  destroyerGoes("manager", "joining") /\ stopLocks /\ UNCHANGED <<serverVars, networkVars>>

ManagerJoins ==
  /\ destroyer = "joining" /\ stopJoins
  /\ UNCHANGED <<destroyer, waited, serverVars, networkVars>>

(* Mutant: the connection manager has no destructor of its own             *)
ManagerJustGoes ==
  destroyerGoes("joining", "gone") /\ stopClearsAtOnce /\ UNCHANGED <<serverVars, networkVars>>

ManagerGoes ==
  destroyerGoes("joining", "gone") /\ stopClears /\ UNCHANGED <<serverVars, networkVars>>

-----------------------------------------------------------------------------
(* The owner's thread takes the steps of stop() as well, and calls it only *)
(* before it destroys the server.                                          *)
Owner ==
  \/ destroyer = "away" /\ Stop /\ UNCHANGED <<destroyer, waited>>
  \/ Stopper /\ UNCHANGED <<destroyer, waited>>
  \/ Destroy \/ DestroyStops \/ Stopped \/ CloseServer \/ DestroyHandler
  \/ ManagerLocks \/ ManagerJoins \/ ManagerGoes

Others ==
  \/ Acceptor \/ AcceptError
  \/ \E c \in Connections : Handler(c) \/ HandlerThrows(c) \/ Client(c)

(* What happens in the memory of a server that is gone is undefined        *)
LifetimeNext ==
  destroyer # "gone" /\ (Owner \/ (Others /\ UNCHANGED <<destroyer, waited>>))

LifetimeSpec == LifetimeInit /\ [][LifetimeNext]_lifetimeVars

-----------------------------------------------------------------------------
(* A command is processed only while there is a command handler: threads   *)
(* that stop() has missed may be about when the destructor goes on, even   *)
(* if the owner has not waited for start(), but they find the server       *)
(* stopped before they read anything.                                      *)
NoCommandAfterHandler ==
  destroyer \in {"manager", "joining", "gone"} =>
    \A c \in Connections : handler[c] \notin {"read", "serve"}

(* test_tcp_server.cpp:266, "Destroy the server - destructor should clean  *)
(* up properly": when the server is gone, no thread is left in one of its  *)
(* member functions, provided that start() had returned before the         *)
(* destructor was called.  Nothing in ~TCPServer waits for start(), so     *)
(* without that the thread in it may be left.                              *)
NothingOutlivesServer ==
  destroyer = "gone" /\ waited =>
    /\ acceptor = "returned"
    /\ \A c \in Connections : thread[c] \in {"none", "finished"}
===============================================================================

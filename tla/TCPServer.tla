------------------------------- MODULE TCPServer -------------------------------
(***************************************************************************)
(* class TCPServer (server/tcp_server.cpp) over its ConnectionManager:     *)
(* the thread that runs start() and accepts connections, the threads that  *)
(* handle one client each, and the thread that calls stop().               *)
(*                                                                         *)
(* The kernel's side of the sockets and the clients are external: a client *)
(* connects, sends, and may hang up or stay silent for ever.  What becomes *)
(* of the bytes between one read and the next is not looked at here.       *)
(***************************************************************************)
EXTENDS ConnectionManager

CONSTANT NoConnection

ASSUME ServerAssumption == NoConnection \notin Connections

VARIABLES
  running,          \* TCPServer::running
  acceptor,         \* where the thread in start() and acceptConnections() is
  accepted,         \* the client_socket acceptConnections() holds
  stopper,          \* where the thread in stop() is
  handler,          \* where the thread of each connection is in handleClient(),
                    \* "out" when it is not in it and "threw" once it has left
                    \* it by an exception
  listening,        \* server_fd accepts connections
  sock,             \* the server's end of each connection
  client,           \* the client's end
  inbox             \* bytes the client has sent wait to be read

serverVars == <<running, acceptor, accepted, stopper, handler>>
networkVars == <<listening, sock, client, inbox>>
vars == <<managerVars, serverVars, networkVars>>

Init ==
  /\ ManagerInit
  /\ running = FALSE
  /\ acceptor = "start"
  /\ accepted = NoConnection
  /\ stopper = "idle"
  /\ handler = [c \in Connections |-> "out"]
  /\ listening = FALSE
  /\ sock = [c \in Connections |-> "none"]
  /\ client = [c \in Connections |-> "away"]
  /\ inbox = [c \in Connections |-> FALSE]

close(c) == sock' = [sock EXCEPT ![c] = "closed"]

-----------------------------------------------------------------------------
(* Clients                                                                 *)

(* The handshake is the kernel's: a connection waits in the backlog        *)
Connect(c) ==
  /\ client[c] = "away" /\ listening
  /\ client' = [client EXCEPT ![c] = "here"]
  /\ sock' = [sock EXCEPT ![c] = "backlog"]
  /\ UNCHANGED <<managerVars, serverVars, listening, inbox>>

Send(c) ==
  /\ client[c] = "here" /\ ~inbox[c]
  /\ inbox' = [inbox EXCEPT ![c] = TRUE]
  /\ UNCHANGED <<managerVars, serverVars, listening, sock, client>>

HangUp(c) ==
  /\ client[c] = "here"
  /\ client' = [client EXCEPT ![c] = "gone"]
  /\ UNCHANGED <<managerVars, serverVars, listening, sock, inbox>>

-----------------------------------------------------------------------------
(* start() and acceptConnections()                                         *)

Start ==
  /\ acceptor = "start" /\ ~running
  /\ running' = TRUE
  /\ listening' = TRUE
  /\ acceptor' = "loop"
  /\ UNCHANGED <<managerVars, accepted, stopper, handler, sock, client, inbox>>

(* while (running)                                                         *)
Loop ==
  /\ acceptor = "loop"
  /\ acceptor' = IF running THEN "accept" ELSE "returned"
  /\ UNCHANGED <<managerVars, running, accepted, stopper, handler, networkVars>>

Accept(c) ==
  /\ acceptor = "accept"
  /\ sock[c] = "backlog"
  /\ sock' = [sock EXCEPT ![c] = "open"]
  /\ accepted' = c
  /\ acceptor' = "check"
  /\ UNCHANGED <<managerVars, running, stopper, handler, listening, client, inbox>>

(* accept fails once server_fd has been shut down, and may fail before for *)
(* a reason of its own (no descriptor left, a connection aborted).         *)
acceptFails ==
  /\ acceptor = "accept"
  /\ acceptor' = "loop"
  /\ UNCHANGED <<managerVars, running, accepted, stopper, handler, networkVars>>

AcceptInterrupted == ~listening /\ acceptFails
AcceptError       == listening /\ acceptFails

CheckLimit ==
  /\ acceptor = "check" /\ canAcceptNewConnection
  /\ acceptor' = "add"
  /\ UNCHANGED <<managerVars, running, accepted, stopper, handler, networkVars>>

(* The socket is closed when there are too many connections, and when      *)
(* addConnection throws.                                                   *)
(* Mutant: the socket is not closed                                        *)
dropAcceptedOpen ==
  /\ accepted' = NoConnection
  /\ acceptor' = "loop"
  /\ UNCHANGED <<running, stopper, handler, networkVars>>

dropAccepted ==
  /\ close(accepted)
  /\ accepted' = NoConnection
  /\ acceptor' = "loop"
  /\ UNCHANGED <<running, stopper, handler, listening, client, inbox>>

RejectAtLimit ==
  acceptor = "check" /\ ~canAcceptNewConnection /\ dropAccepted /\ UNCHANGED managerVars

Add ==
  /\ acceptor = "add"
  /\ addConnection(accepted)
  /\ accepted' = NoConnection
  /\ acceptor' = "loop"
  /\ UNCHANGED <<running, stopper, handler, networkVars>>

AddFull     == acceptor = "add" /\ addConnectionFull /\ dropAccepted
AddNoThread == acceptor = "add" /\ addConnectionNoThread /\ dropAccepted

-----------------------------------------------------------------------------
(* The thread of a connection: handleClient(c)                             *)

HandlerStarts(c) ==
  /\ threadStarts(c)
  /\ handler' = [handler EXCEPT ![c] = "loop"]
  /\ UNCHANGED <<running, acceptor, accepted, stopper, networkVars>>

goesTo(c, place) ==
  /\ handler' = [handler EXCEPT ![c] = place]
  /\ UNCHANGED <<managerVars, running, acceptor, accepted, stopper, listening, client>>

(* while (running)                                                         *)
(* Mutant: tested at the end of the loop, not before it                    *)
HandlerLoopUntested(c) ==
  /\ handler[c] = "loop"
  /\ goesTo(c, "read")
  /\ UNCHANGED <<sock, inbox>>

HandlerLoop(c) ==
  /\ handler[c] = "loop"
  /\ goesTo(c, IF running THEN "read" ELSE "close")
  /\ UNCHANGED <<sock, inbox>>

(* read() blocks until there are bytes or the client is gone; with both,   *)
(* the bytes may be lost in a connection reset.                            *)
ReadBytes(c) ==
  /\ handler[c] = "read" /\ inbox[c]
  /\ inbox' = [inbox EXCEPT ![c] = FALSE]
  /\ goesTo(c, "serve")
  /\ UNCHANGED sock

(* Mutant: the end of the connection does not end the loop                 *)
ReadEndsAndGoesOn(c) ==
  /\ handler[c] = "read" /\ client[c] = "gone"
  /\ goesTo(c, "loop")
  /\ UNCHANGED <<sock, inbox>>

ReadEnds(c) ==
  /\ handler[c] = "read" /\ client[c] = "gone"
  /\ goesTo(c, "close")
  /\ UNCHANGED <<sock, inbox>>

(* Whatever commands the buffer holds are processed and answered           *)
Serve(c) ==
  /\ handler[c] = "serve"
  /\ goesTo(c, "loop")
  /\ UNCHANGED <<sock, inbox>>

HandlerCloses(c) ==
  /\ handler[c] = "close"
  /\ close(c)
  /\ handlerReturns(c)
  /\ handler' = [handler EXCEPT ![c] = "out"]
  /\ UNCHANGED <<running, acceptor, accepted, stopper, listening, client, inbox>>

(* The buffer, a command or its answer may find no memory, at any time     *)
(* between two calls that block.  The exception is caught where the thread *)
(* was started, and nobody closes the socket.                              *)
HandlerThrows(c) ==
  /\ handler[c] \in {"loop", "serve"}
  /\ handlerReturns(c)
  /\ handler' = [handler EXCEPT ![c] = "threw"]
  /\ UNCHANGED <<running, acceptor, accepted, stopper, networkVars>>

ThreadEnds(c) == threadEnds(c) /\ UNCHANGED <<serverVars, networkVars>>

-----------------------------------------------------------------------------
(* stop().  Called when the server does not run it returns at once.        *)

Stop ==
  /\ stopper = "idle" /\ running
  /\ running' = FALSE
  /\ stopper' = "shutdown"
  /\ UNCHANGED <<managerVars, acceptor, accepted, handler, networkVars>>

(* The kernel resets the connections nobody has accepted                   *)
(* Mutant: server_fd is left open                                          *)
ShutdownNothing ==
  /\ stopper = "shutdown"
  /\ stopper' = "stopAll"
  /\ UNCHANGED <<managerVars, running, acceptor, accepted, handler, networkVars>>

Shutdown ==
  /\ stopper = "shutdown"
  /\ listening' = FALSE
  /\ sock' = [c \in Connections |-> IF sock[c] = "backlog" THEN "closed" ELSE sock[c]]
  /\ stopper' = "stopAll"
  /\ UNCHANGED <<managerVars, running, acceptor, accepted, handler, client, inbox>>

StopLocks ==
  /\ stopper = "stopAll" /\ stopLocks
  /\ stopper' = "joining"
  /\ UNCHANGED <<running, acceptor, accepted, handler, networkVars>>

StopJoins == stopper = "joining" /\ stopJoins /\ UNCHANGED <<serverVars, networkVars>>

StopReturns ==
  /\ stopper = "joining" /\ stopClears
  /\ stopper' = "stopped"
  /\ UNCHANGED <<running, acceptor, accepted, handler, networkVars>>

-----------------------------------------------------------------------------
Acceptor ==
  \/ Start \/ Loop \/ AcceptInterrupted \/ CheckLimit \/ RejectAtLimit
  \/ Add \/ AddFull \/ AddNoThread
  \/ \E c \in Connections : Accept(c)

Handler(c) ==
  \/ HandlerStarts(c) \/ HandlerLoop(c) \/ ReadBytes(c) \/ ReadEnds(c) \/ Serve(c)
  \/ HandlerCloses(c) \/ ThreadEnds(c)

Stopper == Shutdown \/ StopLocks \/ StopJoins \/ StopReturns

Client(c) == Connect(c) \/ Send(c) \/ HangUp(c)

Next ==
  \/ Acceptor \/ AcceptError \/ Stop \/ Stopper
  \/ \E c \in Connections : Handler(c) \/ HandlerThrows(c) \/ Client(c)

Spec == Init /\ [][Next]_vars

(* The operating system runs every thread that can run: the one in accept  *)
(* only when there is a connection or the socket is shut down, the one in  *)
(* read only when there are bytes or the client is gone, the one in join   *)
(* only when the thread it waits for has finished.  Nobody has to call     *)
(* stop(), accept need not fail, nor a handler throw, and clients do as    *)
(* they please.                                                            *)
Fairness ==
  /\ WF_vars(Acceptor)
  /\ WF_vars(Stopper)
  /\ \A c \in Connections : WF_vars(Handler(c))

FairSpec == Spec /\ Fairness

(* An environment in which no client stays for ever                        *)
ClientsLeave == \A c \in Connections : WF_vars(HangUp(c))

FairSpecClientsLeave == FairSpec /\ ClientsLeave

-----------------------------------------------------------------------------
HandlerPlaces == {"out", "loop", "read", "serve", "close", "threw"}

TypeOK ==
  /\ ManagerTypeOK
  /\ running \in BOOLEAN
  /\ acceptor \in {"start", "loop", "accept", "check", "add", "returned"}
  /\ accepted \in Connections \cup {NoConnection}
  /\ stopper \in {"idle", "shutdown", "stopAll", "joining", "stopped"}
  /\ handler \in [Connections -> HandlerPlaces]
  /\ listening \in BOOLEAN
  /\ sock \in [Connections -> {"none", "backlog", "open", "closed"}]
  /\ client \in [Connections -> {"away", "here", "gone"}]
  /\ inbox \in [Connections -> BOOLEAN]

(* An open socket has exactly one owner that is going to close it: the     *)
(* acceptor, a thread about to start, or a handler.  None leaks on the     *)
(* paths that refuse a connection, and a handler never works on a socket   *)
(* already closed, whose descriptor another connection may have by then.   *)
(* The one leak there is: the socket of a handler that has thrown, which   *)
(* has no owner and stays open.                                            *)
Owners == {"acceptor", "thread", "handler"}

owns(o, c) ==
  \/ o = "acceptor" /\ accepted = c
  \/ o = "thread" /\ thread[c] = "starting"
  \/ o = "handler" /\ handler[c] \notin {"out", "threw"}

SocketHasOneOwner ==
  \A c \in Connections :
    /\ sock[c] = "open" <=> handler[c] = "threw" \/ \E o \in Owners : owns(o, c)
    /\ \A o, p \in Owners : owns(o, c) /\ owns(p, c) => o = p
    /\ handler[c] = "threw" => \A o \in Owners : ~owns(o, c)

(* Once a client has hung up, the server closes its end, unless the        *)
(* handler has thrown, and provided the others leave some day too: the     *)
(* acceptor may hold the socket of one client while stop() holds the mutex *)
(* it needs and waits for another.                                         *)
HungUpIsClosed ==
  \A c \in Connections :
    client[c] = "gone" /\ sock[c] = "open" ~> sock[c] = "closed" \/ handler[c] = "threw"

(* stop() returns, and start() with it                                     *)
StopCompletes == stopper # "idle" ~> stopper = "stopped" /\ acceptor = "returned"
===============================================================================

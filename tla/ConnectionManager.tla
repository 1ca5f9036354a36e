--------------------------- MODULE ConnectionManager ---------------------------
(***************************************************************************)
(* class ConnectionManager (server/connection_manager.cpp): a vector of    *)
(* std::threads, one per connection ever accepted, guarded by              *)
(* threads_mutex, and an atomic count of the handlers now running.         *)
(*                                                                         *)
(* addConnection holds the mutex from its first line to its last and reads *)
(* nothing but the vector, so it is one step.  stopAllConnections holds it *)
(* while it waits for thread after thread; stopping says that it does.     *)
(* What a handler does is left to module TCPServer: here it just returns   *)
(* or throws some day, or never, and to the manager, which catches what it *)
(* throws, both are the same.                                              *)
(***************************************************************************)
EXTENDS Integers, FiniteSets

CONSTANTS
  Connections,      \* the connections ever passed to addConnection
  MAX_CLIENTS       \* 100 in the code

ASSUME ManagerAssumption ==
  /\ IsFiniteSet(Connections)
  /\ MAX_CLIENTS \in Nat

VARIABLES
  client_threads,       \* the vector, as the set of connections it has threads of
  joined,               \* the threads that have been joined
  active_connections,
  thread,               \* where the thread of each connection is
  stopping              \* stopAllConnections holds threads_mutex

managerVars == <<client_threads, joined, active_connections, thread, stopping>>

ThreadStates == {"none", "starting", "running", "leaving", "finished"}

ManagerInit ==
  /\ client_threads = {}
  /\ joined = {}
  /\ active_connections = 0
  /\ thread = [c \in Connections |-> "none"]
  /\ stopping = FALSE

(* A thread stays joinable until it is joined, whether it has finished or  *)
(* not, and only stopAllConnections joins.                                 *)
joinable(c) == c \notin joined

(* cleanupFinishedThreads: what addConnection leaves of the vector before  *)
(* it adds to it                                                           *)
(* Mutant: threads that have finished are erased, joined or not            *)
cleanedUpFinished == {c \in client_threads : thread[c] # "finished"}

cleanedUp == {c \in client_threads : joinable(c)}

canAcceptNewConnection == active_connections < MAX_CLIENTS

-----------------------------------------------------------------------------
(* addConnection: the vector gets the new thread, or it is full, or no     *)
(* thread can be created; the last two throw.                              *)

(* Mutant: room for one more than MAX_CLIENTS                              *)
addConnectionOneMore(c) ==
  /\ ~stopping
  /\ thread[c] = "none"
  /\ Cardinality(cleanedUp) <= MAX_CLIENTS
  /\ client_threads' = cleanedUp \cup {c}
  /\ thread' = [thread EXCEPT ![c] = "starting"]
  /\ UNCHANGED <<joined, active_connections, stopping>>

addConnection(c) ==
  /\ ~stopping
  /\ thread[c] = "none"
  /\ Cardinality(cleanedUp) < MAX_CLIENTS
  /\ client_threads' = cleanedUp \cup {c}
  /\ thread' = [thread EXCEPT ![c] = "starting"]
  /\ UNCHANGED <<joined, active_connections, stopping>>

addConnectionFull ==
  /\ ~stopping
  /\ Cardinality(cleanedUp) >= MAX_CLIENTS
  /\ client_threads' = cleanedUp
  /\ UNCHANGED <<joined, active_connections, thread, stopping>>

addConnectionNoThread ==
  /\ ~stopping
  /\ Cardinality(cleanedUp) < MAX_CLIENTS
  /\ client_threads' = cleanedUp
  /\ UNCHANGED <<joined, active_connections, thread, stopping>>

(* The body of a client thread, around handler()                           *)

(* Mutant: the thread does not count itself                                *)
threadStartsUncounted(c) ==
  /\ thread[c] = "starting"
  /\ thread' = [thread EXCEPT ![c] = "running"]
  /\ UNCHANGED <<client_threads, joined, active_connections, stopping>>

threadStarts(c) ==
  /\ thread[c] = "starting"
  /\ active_connections' = active_connections + 1
  /\ thread' = [thread EXCEPT ![c] = "running"]
  /\ UNCHANGED <<client_threads, joined, stopping>>

handlerReturns(c) ==
  /\ thread[c] = "running"
  /\ thread' = [thread EXCEPT ![c] = "leaving"]
  /\ UNCHANGED <<client_threads, joined, active_connections, stopping>>

threadEnds(c) ==
  /\ thread[c] = "leaving"
  /\ active_connections' = active_connections - 1
  /\ thread' = [thread EXCEPT ![c] = "finished"]
  /\ UNCHANGED <<client_threads, joined, stopping>>

(* stopAllConnections                                                      *)

stopLocks ==
  /\ ~stopping
  /\ stopping' = TRUE
  /\ UNCHANGED <<client_threads, joined, active_connections, thread>>

(* The threads are joined one after the other.  A join changes nothing but *)
(* the thread joined, so the order, the vector's in the code, is left open *)
stopJoins ==
  /\ stopping
  /\ \E c \in client_threads :
       joinable(c) /\ thread[c] = "finished" /\ joined' = joined \cup {c}
  /\ UNCHANGED <<client_threads, active_connections, thread, stopping>>

(* Mutant: the threads are not waited for                                  *)
stopClearsAtOnce ==
  /\ stopping
  /\ client_threads' = {}
  /\ active_connections' = 0
  /\ stopping' = FALSE
  /\ UNCHANGED <<joined, thread>>

stopClears ==
  /\ stopping
  /\ \A c \in client_threads : ~joinable(c)
  /\ client_threads' = {}
  /\ active_connections' = 0
  /\ stopping' = FALSE
  /\ UNCHANGED <<joined, thread>>

ManagerNext ==
  \/ \E c \in Connections :
       addConnection(c) \/ threadStarts(c) \/ handlerReturns(c) \/ threadEnds(c)
  \/ addConnectionFull \/ addConnectionNoThread
  \/ stopLocks \/ stopJoins \/ stopClears

ManagerSpec == ManagerInit /\ [][ManagerNext]_managerVars

-----------------------------------------------------------------------------
ManagerTypeOK ==
  /\ client_threads \in SUBSET Connections
  /\ joined \in SUBSET Connections
  /\ active_connections \in Nat
  /\ thread \in [Connections -> ThreadStates]
  /\ stopping \in BOOLEAN

(* The counter the acceptor compares with MAX_CLIENTS is the number of     *)
(* handlers that run: stopAllConnections sets it to 0 without looking, and *)
(* that is right because no thread is between its ++ and its -- then.      *)
handlersRunning == {c \in Connections : thread[c] \in {"running", "leaving"}}

CounterIsExact == active_connections = Cardinality(handlersRunning)

(* A thread that has not been joined is in the vector, so none is ever     *)
(* destroyed while joinable, which would end the process                   *)
(* (std::terminate), and stopAllConnections misses none that was added     *)
(* before it took the mutex.                                               *)
NoThreadIsLost ==
  \A c \in Connections : thread[c] # "none" /\ joinable(c) => c \in client_threads

(* Never more than MAX_CLIENTS threads that have yet to finish.            *)
unfinished == {c \in Connections : thread[c] \notin {"none", "finished"}}

NeverTooMany == Cardinality(unfinished) <= MAX_CLIENTS

(* connection_manager.cpp:14, "Clean up finished threads before adding new *)
(* one": addConnection throws for lack of room only when MAX_CLIENTS       *)
(* threads have not finished.                                              *)
FinishedThreadsMakeRoom ==
  Cardinality(cleanedUp) >= MAX_CLIENTS => Cardinality(unfinished) >= MAX_CLIENTS
===============================================================================

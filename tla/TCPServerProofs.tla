---------------------------- MODULE TCPServerProofs ----------------------------
(***************************************************************************)
(* Proofs about ConnectionManager, about TCPServer, which uses it, and     *)
(* about its end, ServerLifetime, for any finite set of connections and    *)
(* any MAX_CLIENTS.                                                        *)
(*                                                                         *)
(* Of the manager: its counter is exact, and a thread is never lost,       *)
(* because the vector has every thread until it is joined.                 *)
(*                                                                         *)
(* Of the server: every open socket has exactly one owner, or none because *)
(* its handler has thrown.                                                 *)
(*                                                                         *)
(* Of its lifetime: what holds of a server that serves holds while it is   *)
(* being destroyed, no command is processed after the command handler has  *)
(* gone, and nothing is left of a server whose start() had returned.  Two  *)
(* facts carry that proof.  A server that has been stopped never runs      *)
(* again, so that running says all there is to know about stop().  And     *)
(* stopAllConnections returns only when every thread there ever was has    *)
(* finished, the vector being complete (NoThreadIsLost), so that a thread  *)
(* found later has been added later, and finds running false.              *)
(***************************************************************************)
EXTENDS ServerLifetime, FiniteSetTheorems, TLAPS

(* What is added to the invariants the model checker sees: only finished   *)
(* threads are joined, and the vector has at most MAX_CLIENTS threads.     *)
JoinedHaveFinished == \A c \in joined : thread[c] = "finished"

VectorIsBounded == Cardinality(client_threads) <= MAX_CLIENTS

ManagerInv ==
  /\ ManagerTypeOK
  /\ CounterIsExact
  /\ NoThreadIsLost
  /\ JoinedHaveFinished
  /\ VectorIsBounded

-----------------------------------------------------------------------------
(* Facts about one state                                                   *)

LEMMA FiniteParts ==
  ASSUME ManagerTypeOK
  PROVE  /\ IsFiniteSet(client_threads)
         /\ IsFiniteSet(cleanedUp)
         /\ Cardinality(cleanedUp) \in Nat
         /\ Cardinality(client_threads) \in Nat
         /\ Cardinality(cleanedUp) <= Cardinality(client_threads)
<1>1. IsFiniteSet(client_threads)
  BY FS_Subset, ManagerAssumption DEF ManagerTypeOK
<1>2. cleanedUp \subseteq client_threads
  BY DEF cleanedUp
<1>3. QED
  BY <1>1, <1>2, FS_Subset, FS_CardinalityType

LEMMA FiniteRunning == IsFiniteSet(handlersRunning)
BY FS_Subset, ManagerAssumption DEF handlersRunning

(* A thread that has yet to finish is in the vector.                       *)
LEMMA UnfinishedInVector ==
  ASSUME ManagerInv
  PROVE  unfinished \subseteq client_threads
BY DEF ManagerInv, unfinished, NoThreadIsLost, JoinedHaveFinished, joinable

LEMMA InvImpliesNeverTooMany ==
  ASSUME ManagerInv
  PROVE  NeverTooMany
<1>1. IsFiniteSet(client_threads) /\ Cardinality(client_threads) \in Nat
  BY FiniteParts DEF ManagerInv
<1>2. /\ Cardinality(unfinished) \in Nat
      /\ Cardinality(unfinished) <= Cardinality(client_threads)
  BY <1>1, UnfinishedInVector, FS_Subset, FS_CardinalityType
<1>3. QED
  BY <1>1, <1>2, ManagerAssumption DEF ManagerInv, VectorIsBounded, NeverTooMany

-----------------------------------------------------------------------------
LEMMA InitialInv == ManagerInit => ManagerInv
<1> SUFFICES ASSUME ManagerInit PROVE ManagerInv
  OBVIOUS
<1> USE DEF ManagerInit
<1>1. ManagerTypeOK
  BY DEF ManagerTypeOK, ThreadStates
<1>2. CounterIsExact
  <2>1. handlersRunning = {}
    BY DEF handlersRunning
  <2>2. QED
    BY <2>1, FS_EmptySet DEF CounterIsExact
<1>3. NoThreadIsLost
  BY DEF NoThreadIsLost
<1>4. JoinedHaveFinished
  BY DEF JoinedHaveFinished
<1>5. VectorIsBounded
  BY FS_EmptySet, ManagerAssumption DEF VectorIsBounded
<1>6. QED
  BY <1>1, <1>2, <1>3, <1>4, <1>5 DEF ManagerInv

(* The steps that move no thread in or out of its handler leave the count  *)
(* alone.                                                                  *)
LEMMA CountKept ==
  ASSUME CounterIsExact, handlersRunning' = handlersRunning,
         active_connections' = active_connections
  PROVE  CounterIsExact'
BY DEF CounterIsExact

LEMMA AddKeepsInv ==
  ASSUME ManagerInv, NEW c \in Connections, addConnection(c)
  PROVE  ManagerInv'
<1> USE DEF ManagerInv, addConnection
<1>1. ManagerTypeOK'
  BY DEF ManagerTypeOK, ThreadStates, cleanedUp
<1>2. CounterIsExact'
  <2>1. handlersRunning' = handlersRunning
    BY DEF handlersRunning, ManagerTypeOK, ThreadStates
  <2>2. QED
    BY <2>1, CountKept
<1>3. NoThreadIsLost'
  BY DEF NoThreadIsLost, cleanedUp, joinable, ManagerTypeOK
<1>4. JoinedHaveFinished'
  BY DEF JoinedHaveFinished, ManagerTypeOK
<1>5. VectorIsBounded'
  <2>1. /\ Cardinality(cleanedUp \cup {c}) \in Nat
        /\ Cardinality(cleanedUp \cup {c}) <= Cardinality(cleanedUp) + 1
    <3>1. /\ IsFiniteSet(cleanedUp)
          /\ Cardinality(cleanedUp) \in Nat
      BY FiniteParts
    <3>2. Cardinality(cleanedUp \cup {c})
            = IF c \in cleanedUp THEN Cardinality(cleanedUp) ELSE Cardinality(cleanedUp) + 1
      BY <3>1, FS_AddElement
    <3>3. QED
      BY <3>1, <3>2
  <2>2. QED
    BY <2>1, FiniteParts, ManagerAssumption DEF VectorIsBounded
<1>6. QED
  BY <1>1, <1>2, <1>3, <1>4, <1>5

(* addConnectionFull and addConnectionNoThread: the cleanup alone          *)
LEMMA CleanupKeepsInv ==
  ASSUME ManagerInv, client_threads' = cleanedUp,
         UNCHANGED <<joined, active_connections, thread, stopping>>
  PROVE  ManagerInv'
<1> USE DEF ManagerInv
<1>1. ManagerTypeOK'
  BY DEF ManagerTypeOK, cleanedUp
<1>2. CounterIsExact'
  <2>1. handlersRunning' = handlersRunning
    BY DEF handlersRunning
  <2>2. QED
    BY <2>1, CountKept
<1>3. NoThreadIsLost'
  BY DEF NoThreadIsLost, cleanedUp, joinable
<1>4. JoinedHaveFinished'
  BY DEF JoinedHaveFinished
<1>5. VectorIsBounded'
  BY FiniteParts, ManagerAssumption DEF VectorIsBounded
<1>6. QED
  BY <1>1, <1>2, <1>3, <1>4, <1>5

LEMMA StartKeepsInv ==
  ASSUME ManagerInv, NEW c \in Connections, threadStarts(c)
  PROVE  ManagerInv'
<1> USE DEF ManagerInv, threadStarts
<1>1. ManagerTypeOK'
  BY DEF ManagerTypeOK, ThreadStates
<1>2. CounterIsExact'
  <2>1. /\ c \notin handlersRunning
        /\ handlersRunning' = handlersRunning \cup {c}
    BY DEF handlersRunning, ManagerTypeOK
  <2>2. Cardinality(handlersRunning') = Cardinality(handlersRunning) + 1
    BY <2>1, FiniteRunning, FS_AddElement
  <2>3. QED
    BY <2>2 DEF CounterIsExact
<1>3. NoThreadIsLost'
  BY DEF NoThreadIsLost, joinable, ManagerTypeOK
<1>4. JoinedHaveFinished'
  BY DEF JoinedHaveFinished, ManagerTypeOK
<1>5. VectorIsBounded'
  BY DEF VectorIsBounded
<1>6. QED
  BY <1>1, <1>2, <1>3, <1>4, <1>5

LEMMA ReturnKeepsInv ==
  ASSUME ManagerInv, NEW c \in Connections, handlerReturns(c)
  PROVE  ManagerInv'
<1> USE DEF ManagerInv, handlerReturns
<1>1. ManagerTypeOK'
  BY DEF ManagerTypeOK, ThreadStates
<1>2. CounterIsExact'
  <2>1. handlersRunning' = handlersRunning
    BY DEF handlersRunning, ManagerTypeOK
  <2>2. QED
    BY <2>1, CountKept
<1>3. NoThreadIsLost'
  BY DEF NoThreadIsLost, joinable, ManagerTypeOK
<1>4. JoinedHaveFinished'
  BY DEF JoinedHaveFinished, ManagerTypeOK
<1>5. VectorIsBounded'
  BY DEF VectorIsBounded
<1>6. QED
  BY <1>1, <1>2, <1>3, <1>4, <1>5

LEMMA EndKeepsInv ==
  ASSUME ManagerInv, NEW c \in Connections, threadEnds(c)
  PROVE  ManagerInv'
<1> USE DEF ManagerInv, threadEnds
<1>1. c \in handlersRunning
  BY DEF handlersRunning
<1>2. /\ Cardinality(handlersRunning \ {c}) = Cardinality(handlersRunning) - 1
      /\ Cardinality(handlersRunning \ {c}) \in Nat
  BY <1>1, FiniteRunning, FS_RemoveElement, FS_CardinalityType
<1>3. ManagerTypeOK'
  BY <1>2 DEF ManagerTypeOK, ThreadStates, CounterIsExact
<1>4. CounterIsExact'
  <2>1. handlersRunning' = handlersRunning \ {c}
    BY DEF handlersRunning, ManagerTypeOK
  <2>2. QED
    BY <2>1, <1>2 DEF CounterIsExact
<1>5. NoThreadIsLost'
  BY DEF NoThreadIsLost, joinable, ManagerTypeOK
<1>6. JoinedHaveFinished'
  BY DEF JoinedHaveFinished, ManagerTypeOK
<1>7. VectorIsBounded'
  BY DEF VectorIsBounded
<1>8. QED
  BY <1>3, <1>4, <1>5, <1>6, <1>7

LEMMA LockKeepsInv ==
  ASSUME ManagerInv, stopLocks
  PROVE  ManagerInv'
<1> USE DEF ManagerInv, stopLocks
<1>1. handlersRunning' = handlersRunning
  BY DEF handlersRunning
<1>2. CounterIsExact'
  BY <1>1, CountKept
<1>3. QED
  BY <1>2 DEF ManagerTypeOK, NoThreadIsLost, joinable, JoinedHaveFinished,
              VectorIsBounded

LEMMA JoinKeepsInv ==
  ASSUME ManagerInv, stopJoins
  PROVE  ManagerInv'
<1> USE DEF ManagerInv
<1>1. PICK c \in client_threads : thread[c] = "finished" /\ joined' = joined \cup {c}
  BY DEF stopJoins
<1>2. UNCHANGED <<client_threads, active_connections, thread, stopping>>
  BY DEF stopJoins
<1>3. ManagerTypeOK'
  BY <1>1, <1>2 DEF ManagerTypeOK
<1>4. CounterIsExact'
  <2>1. handlersRunning' = handlersRunning
    BY <1>2 DEF handlersRunning
  <2>2. QED
    BY <1>2, <2>1, CountKept
<1>5. NoThreadIsLost'
  BY <1>1, <1>2 DEF NoThreadIsLost, joinable
<1>6. JoinedHaveFinished'
  BY <1>1, <1>2 DEF JoinedHaveFinished
<1>7. VectorIsBounded'
  BY <1>2 DEF VectorIsBounded
<1>8. QED
  BY <1>3, <1>4, <1>5, <1>6, <1>7

(* Every thread in the vector has been joined, so every thread there is    *)
(* has finished, and 0 is the number of running handlers.                  *)
LEMMA ClearKeepsInv ==
  ASSUME ManagerInv, stopClears
  PROVE  ManagerInv'
<1> USE DEF ManagerInv, stopClears
<1>1. \A c \in Connections : thread[c] # "none" => c \in joined /\ thread[c] = "finished"
  BY DEF NoThreadIsLost, joinable, JoinedHaveFinished
<1>2. ManagerTypeOK'
  BY DEF ManagerTypeOK
<1>3. CounterIsExact'
  <2>1. handlersRunning' = {}
    BY <1>1 DEF handlersRunning
  <2>2. QED
    BY <2>1, FS_EmptySet DEF CounterIsExact
<1>4. NoThreadIsLost'
  BY <1>1 DEF NoThreadIsLost, joinable
<1>5. JoinedHaveFinished'
  BY DEF JoinedHaveFinished
<1>6. VectorIsBounded'
  BY FS_EmptySet, ManagerAssumption DEF VectorIsBounded
<1>7. QED
  BY <1>2, <1>3, <1>4, <1>5, <1>6

LEMMA NextKeepsInv == ManagerInv /\ [ManagerNext]_managerVars => ManagerInv'
<1> SUFFICES ASSUME ManagerInv, [ManagerNext]_managerVars PROVE ManagerInv'
  OBVIOUS
<1>1. ASSUME NEW c \in Connections, addConnection(c) PROVE ManagerInv'
  BY <1>1, AddKeepsInv
<1>2. ASSUME NEW c \in Connections, threadStarts(c) PROVE ManagerInv'
  BY <1>2, StartKeepsInv
<1>3. ASSUME NEW c \in Connections, handlerReturns(c) PROVE ManagerInv'
  BY <1>3, ReturnKeepsInv
<1>4. ASSUME NEW c \in Connections, threadEnds(c) PROVE ManagerInv'
  BY <1>4, EndKeepsInv
<1>5. CASE addConnectionFull
  BY <1>5, CleanupKeepsInv DEF addConnectionFull
<1>6. CASE addConnectionNoThread
  BY <1>6, CleanupKeepsInv DEF addConnectionNoThread
<1>7. CASE stopLocks
  BY <1>7, LockKeepsInv
<1>8. CASE stopJoins
  BY <1>8, JoinKeepsInv
<1>9. CASE stopClears
  BY <1>9, ClearKeepsInv
<1>10. CASE UNCHANGED managerVars
  <2>1. handlersRunning' = handlersRunning
    BY <1>10 DEF handlersRunning, managerVars
  <2>2. CounterIsExact'
    BY <1>10, <2>1, CountKept DEF ManagerInv, managerVars
  <2>3. QED
    BY <1>10, <2>2 DEF managerVars, ManagerInv, ManagerTypeOK, NoThreadIsLost,
                       joinable, JoinedHaveFinished, VectorIsBounded
<1>11. QED
  BY <1>1, <1>2, <1>3, <1>4, <1>5, <1>6, <1>7, <1>8, <1>9, <1>10 DEF ManagerNext

THEOREM ManagerInvariant == ManagerSpec => []ManagerInv
BY InitialInv, NextKeepsInv, PTL DEF ManagerSpec

-----------------------------------------------------------------------------
(* active_connections is the number of handlers that run, although         *)
(* stopAllConnections resets it without looking.                           *)
THEOREM CounterCorrect == ManagerSpec => []CounterIsExact
<1>1. ManagerInv => CounterIsExact
  BY DEF ManagerInv
<1>2. QED
  BY <1>1, ManagerInvariant, PTL

(* No std::thread is destroyed while joinable, and stopAllConnections      *)
(* joins every thread there is.                                            *)
THEOREM NoThreadLost == ManagerSpec => []NoThreadIsLost
<1>1. ManagerInv => NoThreadIsLost
  BY DEF ManagerInv
<1>2. QED
  BY <1>1, ManagerInvariant, PTL

(* The limit holds however many callers of addConnection there are and     *)
(* whatever they read in canAcceptNewConnection, which is not under the    *)
(* mutex: the vector's size is what enforces it.                           *)
THEOREM LimitHolds == ManagerSpec => []NeverTooMany
<1>1. ManagerInv => NeverTooMany
  BY InvImpliesNeverTooMany
<1>2. QED
  BY <1>1, ManagerInvariant, PTL

-----------------------------------------------------------------------------
(* The server                                                              *)

(* Who owns the socket of a connection, said of the places the acceptor,   *)
(* the thread and the handler are in; SocketHasOneOwner follows from it.   *)
Place(c) ==
  /\ sock[c] = "open" <=>
       accepted = c \/ thread[c] \in {"starting", "running"} \/ handler[c] = "threw"
  /\ accepted = c => thread[c] \notin {"starting", "running"} /\ handler[c] # "threw"
  /\ handler[c] \notin {"out", "threw"} <=> thread[c] = "running"
  /\ handler[c] = "threw" => thread[c] \in {"leaving", "finished"}
  /\ client[c] = "away" => sock[c] = "none"

AcceptedIsHeld == accepted # NoConnection <=> acceptor \in {"check", "add"}

ServerInv ==
  /\ TypeOK
  /\ AcceptedIsHeld
  /\ \A c \in Connections : Place(c)

LEMMA InvImpliesOneOwner == ServerInv => SocketHasOneOwner
<1> SUFFICES ASSUME ServerInv, NEW c \in Connections
             PROVE  /\ sock[c] = "open" <=>
                         handler[c] = "threw" \/ \E o \in Owners : owns(o, c)
                    /\ \A o, p \in Owners : owns(o, c) /\ owns(p, c) => o = p
                    /\ handler[c] = "threw" => \A o \in Owners : ~owns(o, c)
  BY DEF SocketHasOneOwner
<1>1. Place(c)
  BY DEF ServerInv
<1>2. (\E o \in Owners : owns(o, c))
        <=> accepted = c \/ thread[c] \in {"starting", "running"}
  BY <1>1 DEF Place, Owners, owns
<1>3. \A o, p \in Owners : owns(o, c) /\ owns(p, c) => o = p
  BY <1>1 DEF Place, Owners, owns
<1>4. handler[c] = "threw" => \A o \in Owners : ~owns(o, c)
  BY <1>1 DEF Place, Owners, owns
<1>5. QED
  BY <1>1, <1>2, <1>3, <1>4 DEF Place

LEMMA InvInit == Init => ServerInv
<1> SUFFICES ASSUME Init PROVE ServerInv
  OBVIOUS
<1>1. TypeOK
  <2>1. ManagerTypeOK
    BY InitialInv DEF Init, ManagerInv
  <2>2. QED
    BY <2>1 DEF Init, TypeOK, HandlerPlaces
<1>2. AcceptedIsHeld
  BY DEF Init, AcceptedIsHeld
<1>3. ASSUME NEW c \in Connections PROVE Place(c)
  BY ServerAssumption DEF Init, ManagerInit, Place
<1>4. QED
  BY <1>1, <1>2, <1>3 DEF ServerInv

-----------------------------------------------------------------------------
(* The manager: each step of the server is a step of the manager or leaves *)
(* it alone, and so the manager's invariant holds in the server.           *)

LEMMA AcceptorRefines ==
  ASSUME AcceptedIsHeld, accepted \in Connections \cup {NoConnection},
         Acceptor \/ AcceptError
  PROVE  [ManagerNext]_managerVars
<1>1. CASE Add
  <2>1. accepted \in Connections
    BY <1>1 DEF Add, AcceptedIsHeld
  <2>2. addConnection(accepted)
    BY <1>1 DEF Add
  <2>3. QED
    BY <2>1, <2>2 DEF ManagerNext
<1>2. CASE AddFull
  BY <1>2 DEF AddFull, ManagerNext
<1>3. CASE AddNoThread
  BY <1>3 DEF AddNoThread, ManagerNext
<1>4. CASE Start \/ Loop \/ AcceptInterrupted \/ AcceptError \/ CheckLimit \/ RejectAtLimit
  BY <1>4 DEF Start, Loop, AcceptInterrupted, AcceptError, acceptFails, CheckLimit,
              RejectAtLimit
<1>5. ASSUME NEW c \in Connections, Accept(c) PROVE UNCHANGED managerVars
  BY <1>5 DEF Accept
<1>6. QED
  BY <1>1, <1>2, <1>3, <1>4, <1>5 DEF Acceptor

LEMMA HandlerRefines ==
  ASSUME NEW c \in Connections, Handler(c)
  PROVE  [ManagerNext]_managerVars
<1>1. CASE HandlerStarts(c)
  BY <1>1 DEF HandlerStarts, ManagerNext
<1>2. CASE HandlerCloses(c)
  BY <1>2 DEF HandlerCloses, ManagerNext
<1>3. CASE ThreadEnds(c)
  BY <1>3 DEF ThreadEnds, ManagerNext
<1>4. CASE HandlerLoop(c) \/ ReadBytes(c) \/ ReadEnds(c) \/ Serve(c)
  BY <1>4 DEF HandlerLoop, ReadBytes, ReadEnds, Serve, goesTo
<1>5. QED
  BY <1>1, <1>2, <1>3, <1>4 DEF Handler

LEMMA ThrowRefines ==
  ASSUME NEW c \in Connections, HandlerThrows(c)
  PROVE  [ManagerNext]_managerVars
BY DEF HandlerThrows, ManagerNext

LEMMA StopperRefines ==
  ASSUME Stop \/ Stopper
  PROVE  [ManagerNext]_managerVars
<1>1. CASE StopLocks
  BY <1>1 DEF StopLocks, ManagerNext
<1>2. CASE StopJoins
  BY <1>2 DEF StopJoins, ManagerNext
<1>3. CASE StopReturns
  BY <1>3 DEF StopReturns, ManagerNext
<1>4. CASE Stop \/ Shutdown
  BY <1>4 DEF Stop, Shutdown
<1>5. QED
  BY <1>1, <1>2, <1>3, <1>4 DEF Stopper

LEMMA ClientRefines ==
  ASSUME NEW c \in Connections, Client(c)
  PROVE  UNCHANGED managerVars
BY DEF Client, Connect, Send, HangUp

LEMMA NextRefines ==
  ASSUME AcceptedIsHeld, accepted \in Connections \cup {NoConnection}, [Next]_vars
  PROVE  [ManagerNext]_managerVars
<1>1. CASE UNCHANGED vars
  BY <1>1 DEF vars
<1>2. CASE Acceptor \/ AcceptError
  BY <1>2, AcceptorRefines
<1>3. CASE Stop \/ Stopper
  BY <1>3, StopperRefines
<1>4. ASSUME NEW c \in Connections, Handler(c) \/ HandlerThrows(c) \/ Client(c)
      PROVE  [ManagerNext]_managerVars
  BY <1>4, HandlerRefines, ThrowRefines, ClientRefines
<1>5. QED
  BY <1>1, <1>2, <1>3, <1>4 DEF Next

-----------------------------------------------------------------------------
(* The server's own invariant, one lemma for each thread.  The manager's   *)
(* types in the next state come from ManagerInv.                           *)

LEMMA AcceptorKeepsInv ==
  ASSUME ServerInv, ManagerTypeOK', Acceptor \/ AcceptError
  PROVE  ServerInv'
<1> USE ServerAssumption DEF ServerInv
<1>1. CASE Start
  BY <1>1 DEF Start, TypeOK, AcceptedIsHeld, Place, managerVars
<1>2. CASE Loop
  BY <1>2 DEF Loop, TypeOK, AcceptedIsHeld, Place, managerVars, networkVars
<1>3. CASE AcceptInterrupted \/ AcceptError
  BY <1>3 DEF AcceptInterrupted, AcceptError, acceptFails, TypeOK, AcceptedIsHeld, Place,
              managerVars, networkVars
<1>4. CASE CheckLimit
  BY <1>4 DEF CheckLimit, TypeOK, AcceptedIsHeld, Place, managerVars, networkVars
<1>5. CASE RejectAtLimit
  BY <1>5 DEF RejectAtLimit, dropAccepted, close, TypeOK, ManagerTypeOK, AcceptedIsHeld,
              Place, managerVars
<1>6. CASE Add
  BY <1>6 DEF Add, addConnection, TypeOK, ManagerTypeOK, AcceptedIsHeld, Place, networkVars
<1>7. CASE AddFull \/ AddNoThread
  BY <1>7 DEF AddFull, AddNoThread, addConnectionFull, addConnectionNoThread, dropAccepted,
              close, TypeOK, ManagerTypeOK, AcceptedIsHeld, Place
<1>8. ASSUME NEW c \in Connections, Accept(c) PROVE ServerInv'
  BY <1>8 DEF Accept, TypeOK, ManagerTypeOK, AcceptedIsHeld, Place, managerVars
<1>9. QED
  BY <1>1, <1>2, <1>3, <1>4, <1>5, <1>6, <1>7, <1>8 DEF Acceptor

LEMMA HandlerKeepsInv ==
  ASSUME ServerInv, ManagerTypeOK', NEW c \in Connections, Handler(c)
  PROVE  ServerInv'
<1> USE DEF ServerInv, HandlerPlaces
<1>1. CASE HandlerStarts(c)
  BY <1>1 DEF HandlerStarts, threadStarts, TypeOK, ManagerTypeOK, AcceptedIsHeld, Place,
              networkVars
<1>2. CASE HandlerLoop(c)
  BY <1>2 DEF HandlerLoop, goesTo, TypeOK, AcceptedIsHeld, Place, managerVars
<1>3. CASE ReadBytes(c)
  BY <1>3 DEF ReadBytes, goesTo, TypeOK, AcceptedIsHeld, Place, managerVars
<1>4. CASE ReadEnds(c)
  BY <1>4 DEF ReadEnds, goesTo, TypeOK, AcceptedIsHeld, Place, managerVars
<1>5. CASE Serve(c)
  BY <1>5 DEF Serve, goesTo, TypeOK, AcceptedIsHeld, Place, managerVars
<1>6. CASE HandlerCloses(c)
  BY <1>6 DEF HandlerCloses, handlerReturns, close, TypeOK, ManagerTypeOK, AcceptedIsHeld,
              Place
<1>7. CASE ThreadEnds(c)
  BY <1>7 DEF ThreadEnds, threadEnds, TypeOK, ManagerTypeOK, AcceptedIsHeld, Place,
              serverVars, networkVars
<1>8. QED
  BY <1>1, <1>2, <1>3, <1>4, <1>5, <1>6, <1>7 DEF Handler

LEMMA ThrowKeepsInv ==
  ASSUME ServerInv, ManagerTypeOK', NEW c \in Connections, HandlerThrows(c)
  PROVE  ServerInv'
BY DEF HandlerThrows, handlerReturns, ServerInv, TypeOK, HandlerPlaces, ManagerTypeOK,
       AcceptedIsHeld, Place, networkVars

LEMMA StopperKeepsInv ==
  ASSUME ServerInv, ManagerTypeOK', Stop \/ Stopper
  PROVE  ServerInv'
<1> USE DEF ServerInv
<1>1. CASE Stop
  BY <1>1 DEF Stop, TypeOK, AcceptedIsHeld, Place, managerVars, networkVars
<1>2. CASE Shutdown
  BY <1>2 DEF Shutdown, TypeOK, AcceptedIsHeld, Place, managerVars
<1>3. CASE StopLocks
  BY <1>3 DEF StopLocks, stopLocks, TypeOK, AcceptedIsHeld, Place, networkVars
<1>4. CASE StopJoins
  BY <1>4 DEF StopJoins, stopJoins, TypeOK, AcceptedIsHeld, Place, serverVars, networkVars
<1>5. CASE StopReturns
  BY <1>5 DEF StopReturns, stopClears, TypeOK, AcceptedIsHeld, Place, networkVars
<1>6. QED
  BY <1>1, <1>2, <1>3, <1>4, <1>5 DEF Stopper

LEMMA ClientKeepsInv ==
  ASSUME ServerInv, ManagerTypeOK', NEW c \in Connections, Client(c)
  PROVE  ServerInv'
<1> USE DEF ServerInv
<1>1. CASE Connect(c)
  BY <1>1 DEF Connect, TypeOK, AcceptedIsHeld, Place, managerVars, serverVars
<1>2. CASE Send(c)
  BY <1>2 DEF Send, TypeOK, AcceptedIsHeld, Place, managerVars, serverVars
<1>3. CASE HangUp(c)
  BY <1>3 DEF HangUp, TypeOK, AcceptedIsHeld, Place, managerVars, serverVars
<1>4. QED
  BY <1>1, <1>2, <1>3 DEF Client

LEMMA ServerStep ==
  ServerInv /\ ManagerInv /\ [Next]_vars => ServerInv' /\ ManagerInv'
<1> SUFFICES ASSUME ServerInv, ManagerInv, [Next]_vars
             PROVE  ServerInv' /\ ManagerInv'
  OBVIOUS
<1>1. ManagerInv'
  <2>1. [ManagerNext]_managerVars
    BY NextRefines DEF ServerInv, TypeOK
  <2>2. QED
    BY <2>1, NextKeepsInv
<1>2. ManagerTypeOK'
  BY <1>1 DEF ManagerInv
<1>3. ServerInv'
  <2>1. CASE Acceptor \/ AcceptError
    BY <2>1, <1>2, AcceptorKeepsInv
  <2>2. CASE Stop \/ Stopper
    BY <2>2, <1>2, StopperKeepsInv
  <2>3. ASSUME NEW c \in Connections, Handler(c) \/ HandlerThrows(c) PROVE ServerInv'
    BY <2>3, <1>2, HandlerKeepsInv, ThrowKeepsInv
  <2>4. ASSUME NEW c \in Connections, Client(c) PROVE ServerInv'
    BY <2>4, <1>2, ClientKeepsInv
  <2>5. CASE UNCHANGED vars
    BY <2>5 DEF vars, managerVars, serverVars, networkVars, ServerInv, TypeOK,
                ManagerTypeOK, AcceptedIsHeld, Place
  <2>6. QED
    BY <2>1, <2>2, <2>3, <2>4, <2>5 DEF Next
<1>4. QED
  BY <1>1, <1>3

LEMMA ServerInvariant == Spec => [](ServerInv /\ ManagerInv)
<1>1. Init => ManagerInv
  BY InitialInv DEF Init
<1>2. QED
  BY <1>1, InvInit, ServerStep, PTL DEF Spec

-----------------------------------------------------------------------------
(* The variables of TCPServer keep their types.                            *)
THEOREM TypeCorrect == Spec => []TypeOK
<1>1. ServerInv => TypeOK
  BY DEF ServerInv
<1>2. QED
  BY <1>1, ServerInvariant, PTL

(* Whatever the order in which the acceptor, the handlers, stop() and the  *)
(* clients take their steps, no socket is used after it has been closed,   *)
(* and none leaks but that of a handler that throws.                       *)
THEOREM SocketsCorrect == Spec => []SocketHasOneOwner
<1>1. ServerInv => SocketHasOneOwner
  BY InvImpliesOneOwner
<1>2. QED
  BY <1>1, ServerInvariant, PTL

-----------------------------------------------------------------------------
(* The lifetime of the server                                              *)

DestroyerPlaces == {"away", "stop", "close", "handler", "manager", "joining", "gone"}

(* stop() is behind the server from ~TCPServer's second line on            *)
stopBehind == destroyer \notin {"away", "stop"}

LifetimeTypeOK == destroyer \in DestroyerPlaces /\ waited \in BOOLEAN

RunsUntilStopped ==
  /\ running <=> acceptor # "start" /\ stopper = "idle"
  /\ acceptor = "start" => stopper = "idle" /\ destroyer = "away"
  /\ stopBehind => stopper = "stopped"

NothingServedAfterStop ==
  stopper = "stopped" => \A c \in Connections : handler[c] \notin {"read", "serve"}

WaitedForStart == waited => acceptor = "returned"

AllThreadsEnded == \A c \in Connections : thread[c] \in {"none", "finished"}

EndedWhenGone == destroyer = "gone" => AllThreadsEnded

DestroyerInv ==
  /\ LifetimeTypeOK
  /\ RunsUntilStopped
  /\ NothingServedAfterStop
  /\ WaitedForStart
  /\ EndedWhenGone

LifetimeInv == ServerInv /\ ManagerInv /\ DestroyerInv

-----------------------------------------------------------------------------
(* Facts about one state                                                   *)

(* Only finished threads are joined, and no thread is lost, so that when   *)
(* stopAllConnections returns, every thread there ever was has finished.   *)
LEMMA ClearedHaveEnded ==
  ASSUME ManagerInv, stopClears
  PROVE  AllThreadsEnded /\ thread' = thread
BY DEF ManagerInv, stopClears, NoThreadIsLost, JoinedHaveFinished, joinable, AllThreadsEnded

(* A thread that has ended, or never was, is in no handler.                *)
LEMMA EndedServeNothing ==
  ASSUME ServerInv, AllThreadsEnded
  PROVE  \A c \in Connections : handler[c] \in {"out", "threw"}
BY DEF ServerInv, Place, AllThreadsEnded

-----------------------------------------------------------------------------
(* What is proved of TCPServer goes on holding: a step of the owner is one *)
(* the server takes by itself, or leaves alone what the server's invariant *)
(* speaks of, or shuts the socket down as stop() does.                     *)

(* The steps of TCPServer among those of the lifetime                      *)
LEMMA ServerStepOrDestroyerStep ==
  ASSUME [LifetimeNext]_lifetimeVars
  PROVE  \/ [Next]_vars
         \/ CloseServer \/ ManagerLocks \/ ManagerJoins \/ ManagerGoes
<1>1. CASE UNCHANGED lifetimeVars
  BY <1>1 DEF lifetimeVars
<1>2. CASE Owner
  BY <1>2 DEF Owner, Next, DestroyStops, Destroy, Stopped, DestroyHandler
<1>3. CASE Others
  BY <1>3 DEF Others, Next
<1>4. QED
  BY <1>1, <1>2, <1>3 DEF LifetimeNext

(* The destructor of the connection manager is stopAllConnections          *)
LEMMA DestroyerRefines ==
  ASSUME CloseServer \/ ManagerLocks \/ ManagerJoins \/ ManagerGoes
  PROVE  [ManagerNext]_managerVars
BY DEF CloseServer, ManagerLocks, ManagerJoins, ManagerGoes, ManagerNext

LEMMA LifetimeRefinesManager ==
  ASSUME ServerInv, [LifetimeNext]_lifetimeVars
  PROVE  [ManagerNext]_managerVars
BY ServerStepOrDestroyerStep, DestroyerRefines, NextRefines DEF ServerInv, TypeOK

LEMMA DestroyerKeepsServerInv ==
  ASSUME ServerInv, ManagerTypeOK',
         CloseServer \/ ManagerLocks \/ ManagerJoins \/ ManagerGoes
  PROVE  ServerInv'
<1> USE DEF ServerInv
<1>1. CASE CloseServer
  BY <1>1 DEF CloseServer, TypeOK, AcceptedIsHeld, Place, managerVars, serverVars
<1>2. CASE ManagerLocks
  BY <1>2 DEF ManagerLocks, stopLocks, TypeOK, AcceptedIsHeld, Place, serverVars, networkVars
<1>3. CASE ManagerJoins
  BY <1>3 DEF ManagerJoins, stopJoins, TypeOK, AcceptedIsHeld, Place, serverVars, networkVars
<1>4. CASE ManagerGoes
  BY <1>4 DEF ManagerGoes, stopClears, TypeOK, AcceptedIsHeld, Place, serverVars, networkVars
<1>5. QED
  BY <1>1, <1>2, <1>3, <1>4

LEMMA ServerInvKept ==
  ASSUME ServerInv, ManagerInv, [LifetimeNext]_lifetimeVars
  PROVE  ServerInv' /\ ManagerInv'
<1>1. ManagerInv'
  BY LifetimeRefinesManager, NextKeepsInv
<1>2. ManagerTypeOK'
  BY <1>1 DEF ManagerInv
<1>3. ServerInv'
  BY <1>2, ServerStepOrDestroyerStep, DestroyerKeepsServerInv, ServerStep
<1>4. QED
  BY <1>1, <1>3

-----------------------------------------------------------------------------
(* The destroyer's own invariant                                           *)

(* What the steps of the other threads do to the places the owner's thread *)
(* looks at                                                                *)
LEMMA OthersKeepDestroyerInv ==
  ASSUME LifetimeInv, destroyer # "gone", Others, UNCHANGED <<destroyer, waited>>
  PROVE  DestroyerInv'
<1> USE DEF LifetimeInv, DestroyerInv
<1>1. LifetimeTypeOK' /\ EndedWhenGone'
  BY DEF LifetimeTypeOK, EndedWhenGone
<1>2. RunsUntilStopped' /\ WaitedForStart'
  <2>1. CASE Start
    BY <2>1 DEF Start, RunsUntilStopped, WaitedForStart, stopBehind
  <2>2. CASE \/ Loop \/ AcceptInterrupted \/ AcceptError \/ CheckLimit \/ RejectAtLimit
             \/ Add \/ AddFull \/ AddNoThread \/ \E c \in Connections : Accept(c)
    <3>1. /\ UNCHANGED <<running, stopper>>
          /\ acceptor \notin {"start", "returned"} /\ acceptor' # "start"
      BY <2>2 DEF Loop, AcceptInterrupted, AcceptError, acceptFails, CheckLimit, RejectAtLimit,
                  Add, AddFull, AddNoThread, dropAccepted, Accept
    <3>2. QED
      BY <3>1 DEF RunsUntilStopped, WaitedForStart, stopBehind
  <2>3. ASSUME NEW c \in Connections, Handler(c) \/ HandlerThrows(c) \/ Client(c)
        PROVE  RunsUntilStopped' /\ WaitedForStart'
    <3>1. UNCHANGED <<running, acceptor, stopper>>
      BY <2>3 DEF Handler, HandlerStarts, HandlerLoop, ReadBytes, ReadEnds, Serve, goesTo,
                  HandlerCloses, HandlerThrows, ThreadEnds, serverVars, Client, Connect, Send,
                  HangUp
    <3>2. QED
      BY <3>1 DEF RunsUntilStopped, WaitedForStart, stopBehind
  <2>4. QED
    BY <2>1, <2>2, <2>3 DEF Others, Acceptor
<1>3. NothingServedAfterStop'
  <2>1. CASE Acceptor \/ AcceptError
    <3>1. UNCHANGED <<stopper, handler>>
      BY <2>1 DEF Acceptor, Start, Loop, AcceptInterrupted, AcceptError, acceptFails, CheckLimit,
                  RejectAtLimit, Add, AddFull, AddNoThread, dropAccepted, Accept
    <3>2. QED
      BY <3>1 DEF NothingServedAfterStop
  <2>2. ASSUME NEW c \in Connections, Handler(c) \/ HandlerThrows(c) \/ Client(c)
        PROVE  NothingServedAfterStop'
    <3>1. stopper' = stopper
      BY <2>2 DEF Handler, HandlerStarts, HandlerLoop, ReadBytes, ReadEnds, Serve, goesTo,
                  HandlerCloses, HandlerThrows, ThreadEnds, serverVars, Client, Connect, Send,
                  HangUp
    <3>2. ASSUME stopper = "stopped" PROVE ~running /\ handler[c] \notin {"read", "serve"}
      BY <3>2 DEF RunsUntilStopped, NothingServedAfterStop
    <3>3. handler \in [Connections -> HandlerPlaces]
      BY DEF ServerInv, TypeOK
    <3>4. CASE HandlerLoop(c)
      BY <3>1, <3>2, <3>3, <3>4 DEF HandlerLoop, goesTo, NothingServedAfterStop
    <3>5. CASE ReadBytes(c) \/ ReadEnds(c) \/ Serve(c)
      BY <3>1, <3>2, <3>5 DEF ReadBytes, ReadEnds, Serve, NothingServedAfterStop
    <3>6. CASE HandlerStarts(c) \/ HandlerCloses(c) \/ HandlerThrows(c)
      BY <3>1, <3>2, <3>3, <3>6 DEF HandlerStarts, HandlerCloses, HandlerThrows,
                                    NothingServedAfterStop
    <3>7. CASE ThreadEnds(c) \/ Client(c)
      BY <3>1, <3>7 DEF ThreadEnds, Client, Connect, Send, HangUp, serverVars,
                        NothingServedAfterStop
    <3>8. QED
      BY <2>2, <3>4, <3>5, <3>6, <3>7 DEF Handler
  <2>3. QED
    BY <2>1, <2>2 DEF Others
<1>4. QED
  BY <1>1, <1>2, <1>3

(* stop(), called by the owner or from the destructor                      *)
LEMMA StoppingKeepsDestroyerInv ==
  ASSUME LifetimeInv, destroyer # "gone", Stop \/ Stopper, UNCHANGED <<destroyer, waited>>
  PROVE  DestroyerInv'
<1> USE DEF LifetimeInv, DestroyerInv
<1>1. LifetimeTypeOK' /\ EndedWhenGone'
  BY DEF LifetimeTypeOK, EndedWhenGone
<1>2. UNCHANGED <<acceptor, handler>>
  BY DEF Stop, Stopper, Shutdown, StopLocks, StopJoins, StopReturns, serverVars
<1>3. RunsUntilStopped' /\ WaitedForStart'
  BY <1>2 DEF Stop, Stopper, Shutdown, StopLocks, StopJoins, StopReturns, serverVars,
              RunsUntilStopped, WaitedForStart, stopBehind
<1>4. NothingServedAfterStop'
  <2>1. CASE StopReturns
    <3>1. \A c \in Connections : handler[c] \in {"out", "threw"}
      BY <2>1, ClearedHaveEnded, EndedServeNothing DEF StopReturns
    <3>2. QED
      BY <1>2, <3>1 DEF NothingServedAfterStop
  <2>2. CASE Stop \/ Shutdown \/ StopLocks \/ StopJoins
    <3>1. stopper' # "stopped"
      BY <2>2 DEF Stop, Shutdown, StopLocks, StopJoins, serverVars
    <3>2. QED
      BY <3>1 DEF NothingServedAfterStop
  <2>3. QED
    BY <2>1, <2>2 DEF Stopper
<1>5. QED
  BY <1>1, <1>3, <1>4

(* The rest of ~TCPServer                                                  *)
LEMMA DestroyingKeepsDestroyerInv ==
  ASSUME LifetimeInv, destroyer # "gone",
         \/ Destroy \/ Stopped \/ CloseServer \/ DestroyHandler
         \/ ManagerLocks \/ ManagerJoins \/ ManagerGoes
  PROVE  DestroyerInv'
<1> USE DEF LifetimeInv, DestroyerInv
<1>1. UNCHANGED serverVars
  BY DEF Destroy, Stopped, CloseServer, DestroyHandler, ManagerLocks, ManagerJoins, ManagerGoes,
         vars
<1>2. NothingServedAfterStop'
  BY <1>1 DEF serverVars, NothingServedAfterStop
<1>3. LifetimeTypeOK'
  BY DEF Destroy, Stopped, CloseServer, DestroyHandler, ManagerLocks, ManagerJoins, ManagerGoes,
         destroyerGoes, LifetimeTypeOK, DestroyerPlaces
<1>4. RunsUntilStopped'
  BY <1>1 DEF Destroy, Stopped, CloseServer, DestroyHandler, ManagerLocks, ManagerJoins,
              ManagerGoes, destroyerGoes, serverVars, RunsUntilStopped, stopBehind
<1>5. WaitedForStart'
  BY <1>1 DEF Destroy, Stopped, CloseServer, DestroyHandler, ManagerLocks, ManagerJoins,
              ManagerGoes, destroyerGoes, serverVars, WaitedForStart
<1>6. EndedWhenGone'
  <2>1. CASE ManagerGoes
    <3>1. AllThreadsEnded /\ thread' = thread
      BY <2>1, ClearedHaveEnded DEF ManagerGoes
    <3>2. QED
      BY <3>1 DEF EndedWhenGone, AllThreadsEnded
  <2>2. CASE \/ Destroy \/ Stopped \/ CloseServer \/ DestroyHandler
             \/ ManagerLocks \/ ManagerJoins
    <3>1. destroyer' # "gone"
      BY <2>2 DEF Destroy, Stopped, CloseServer, DestroyHandler, ManagerLocks, ManagerJoins,
                  destroyerGoes
    <3>2. QED
      BY <3>1 DEF EndedWhenGone
  <2>3. QED
    BY <2>1, <2>2
<1>7. QED
  BY <1>2, <1>3, <1>4, <1>5, <1>6

-----------------------------------------------------------------------------
LEMMA LifetimeInitInv == LifetimeInit => LifetimeInv
<1> SUFFICES ASSUME LifetimeInit PROVE LifetimeInv
  OBVIOUS
<1>1. ServerInv /\ ManagerInv
  BY InvInit, InitialInv DEF LifetimeInit, Init
<1>2. DestroyerInv
  BY DEF LifetimeInit, Init, DestroyerInv, LifetimeTypeOK, DestroyerPlaces, RunsUntilStopped,
         stopBehind, NothingServedAfterStop, WaitedForStart, EndedWhenGone
<1>3. QED
  BY <1>1, <1>2 DEF LifetimeInv

LEMMA LifetimeStep == LifetimeInv /\ [LifetimeNext]_lifetimeVars => LifetimeInv'
<1> SUFFICES ASSUME LifetimeInv, [LifetimeNext]_lifetimeVars PROVE LifetimeInv'
  OBVIOUS
<1>1. ServerInv' /\ ManagerInv'
  BY ServerInvKept DEF LifetimeInv
<1>2. DestroyerInv'
  <2>1. CASE UNCHANGED lifetimeVars
    BY <2>1 DEF lifetimeVars, vars, managerVars, serverVars, LifetimeInv, DestroyerInv,
                LifetimeTypeOK, RunsUntilStopped, stopBehind, NothingServedAfterStop,
                WaitedForStart, EndedWhenGone, AllThreadsEnded
  <2>2. CASE destroyer # "gone" /\ Owner
    BY <2>2, StoppingKeepsDestroyerInv, DestroyingKeepsDestroyerInv DEF Owner, DestroyStops
  <2>3. CASE destroyer # "gone" /\ Others /\ UNCHANGED <<destroyer, waited>>
    BY <2>3, OthersKeepDestroyerInv
  <2>4. QED
    BY <2>1, <2>2, <2>3 DEF LifetimeNext
<1>3. QED
  BY <1>1, <1>2 DEF LifetimeInv

LEMMA LifetimeInvariant == LifetimeSpec => []LifetimeInv
BY LifetimeInitInv, LifetimeStep, PTL DEF LifetimeSpec

-----------------------------------------------------------------------------
(* The variables of TCPServer and of its manager keep their types while    *)
(* the server is destroyed.                                                *)
THEOREM LifetimeTypeCorrect == LifetimeSpec => []TypeOK
<1>1. LifetimeInv => TypeOK
  BY DEF LifetimeInv, ServerInv
<1>2. QED
  BY <1>1, LifetimeInvariant, PTL

(* The destructor of TCPServer, with threads still accepting and serving,  *)
(* leaks no socket and closes none twice.                                  *)
THEOREM LifetimeSocketsCorrect == LifetimeSpec => []SocketHasOneOwner
<1>1. LifetimeInv => SocketHasOneOwner
  BY InvImpliesOneOwner DEF LifetimeInv
<1>2. QED
  BY <1>1, LifetimeInvariant, PTL

(* Stopping all connections a second time, in ~ConnectionManager, and with *)
(* connections added after the first: the counter is still the number of   *)
(* handlers that run.                                                      *)
THEOREM LifetimeCounterCorrect == LifetimeSpec => []CounterIsExact
<1>1. LifetimeInv => CounterIsExact
  BY DEF LifetimeInv, ManagerInv
<1>2. QED
  BY <1>1, LifetimeInvariant, PTL

(* From the first connection to the end of the server no std::thread is    *)
(* destroyed while joinable.                                               *)
THEOREM LifetimeNoThreadLost == LifetimeSpec => []NoThreadIsLost
<1>1. LifetimeInv => NoThreadIsLost
  BY DEF LifetimeInv, ManagerInv
<1>2. QED
  BY <1>1, LifetimeInvariant, PTL

(* The limit holds for a server that is stopped and destroyed while        *)
(* connections are still being added.                                      *)
THEOREM LifetimeLimitHolds == LifetimeSpec => []NeverTooMany
<1>1. LifetimeInv => NeverTooMany
  BY InvImpliesNeverTooMany DEF LifetimeInv
<1>2. QED
  BY <1>1, LifetimeInvariant, PTL

(* No thread is in CommandHandler::processCommand once the members of the  *)
(* server are being destroyed, whether or not start() has returned and     *)
(* however late a connection was accepted.                                 *)
THEOREM HandlerOutlivesCommands == LifetimeSpec => []NoCommandAfterHandler
<1>1. LifetimeInv => NoCommandAfterHandler
  BY DEF LifetimeInv, DestroyerInv, RunsUntilStopped, stopBehind, NothingServedAfterStop,
         NoCommandAfterHandler
<1>2. QED
  BY <1>1, LifetimeInvariant, PTL

(* When a server whose start() had returned is gone, no thread of its is   *)
(* left, those included that the acceptor added after stop() had returned. *)
THEOREM ServerOutlivesThreads == LifetimeSpec => []NothingOutlivesServer
<1>1. LifetimeInv => NothingOutlivesServer
  BY DEF LifetimeInv, DestroyerInv, WaitedForStart, EndedWhenGone, AllThreadsEnded,
         NothingOutlivesServer
<1>2. QED
  BY <1>1, LifetimeInvariant, PTL
===============================================================================

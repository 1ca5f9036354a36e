---------------------------- MODULE ClientSession ----------------------------
(***************************************************************************)
(* TCPServer::handleClient (server/tcp_server.cpp) for one connection, its *)
(* bytes and its answers: read what has arrived, append it to the buffer,  *)
(* take the messages the buffer begins with one by one, process each and   *)
(* send the answer.                                                        *)
(*                                                                         *)
(* The kernel and the client are external.  The bytes of a connection      *)
(* arrive in order and in pieces of any size; a client may stop reading,   *)
(* and may close its end at any time, with answers still on their way.     *)
(* The answer to a command is told from others by the words of the         *)
(* command.                                                                *)
(***************************************************************************)
EXTENDS RESPParser

CONSTANTS
  Streams,          \* what a client may send in all
  BUFFER_SIZE,      \* bytes of one read
  SocketRoom,       \* answers the kernel keeps for a client that does not read
  MaxMessages       \* bound: no stream has more messages

Args == Seq(Seq(Bytes))

dropFirst(s, n) == SubSeq(s, n + 1, Len(s))

ASSUME SessionAssumption ==
  /\ BUFFER_SIZE \in Nat \ {0}
  /\ SocketRoom \in Nat \ {0}
  /\ Streams \subseteq Seq(Bytes)

VARIABLES
  stream,           \* all this client is going to send
  sent,             \* how many bytes of it the kernel has delivered
  received,         \* how many bytes read() has returned
  buffer,           \* handleClient's buffer
  place,            \* where handleClient is
  args,             \* the command in hand
  taken,            \* history: the commands taken, with the place they began at
  answers,          \* history: the commands whose answers have been sent
  unread,           \* how many answers the client has not read
  client,           \* the client's end of the connection
  reset,            \* the client's kernel has answered with RST
  running,          \* TCPServer::running
  process           \* "up", or "killed" by a signal

clientVars == <<stream, sent, unread, client, reset>>
handlerVars == <<received, buffer, place, args, taken, answers>>
vars == <<clientVars, handlerVars, running, process>>

NoArgs == <<>>

Init ==
  /\ stream \in Streams
  /\ sent = 0 /\ unread = 0 /\ client = "here" /\ reset = FALSE
  /\ received = 0 /\ buffer = <<>> /\ place = "loop" /\ args = NoArgs
  /\ taken = <<>> /\ answers = <<>>
  /\ running = TRUE
  /\ process = "up"

-----------------------------------------------------------------------------
(* The client and the network                                              *)

Deliver ==
  /\ client = "here" /\ sent < Len(stream)
  /\ \E n \in sent + 1 .. Len(stream) : sent' = n
  /\ UNCHANGED <<stream, unread, client, reset, handlerVars, running, process>>

ReadAnswer ==
  /\ client = "here" /\ unread > 0
  /\ unread' = unread - 1
  /\ UNCHANGED <<stream, sent, client, reset, handlerVars, running, process>>

(* A client that leaves with answers unread makes its kernel send RST.     *)
Leave ==
  /\ client = "here"
  /\ client' = "gone"
  /\ reset' = (unread > 0)
  /\ UNCHANGED <<stream, sent, unread, handlerVars, running, process>>

(* stop() in another thread                                                *)
StopServer ==
  /\ running
  /\ running' = FALSE
  /\ UNCHANGED <<clientVars, handlerVars, process>>

-----------------------------------------------------------------------------
(* handleClient                                                            *)

Loop ==
  /\ process = "up" /\ place = "loop"
  /\ place' = IF running THEN "read" ELSE "closed"
  /\ UNCHANGED <<clientVars, received, buffer, args, taken, answers, running, process>>

(* Mutant: what is left over from the last read is forgotten               *)
ReadAfresh ==
  /\ process = "up" /\ place = "read" /\ received < sent /\ ~reset
  /\ \E n \in received + 1 .. sent :
       /\ n - received <= BUFFER_SIZE
       /\ received' = n
       /\ buffer' = SubSeq(stream, received + 1, n)
  /\ place' = "parse"
  /\ UNCHANGED <<clientVars, args, taken, answers, running, process>>

(* Mutant: all of tmp is appended, whatever read has returned              *)
ReadWholeTmp ==
  /\ process = "up" /\ place = "read" /\ received < sent /\ ~reset
  /\ \E n \in received + 1 .. sent :
       /\ n - received <= BUFFER_SIZE
       /\ received' = n
       /\ buffer' = buffer \o [i \in 1 .. BUFFER_SIZE |->
                                IF received + i <= n THEN stream[received + i] ELSE stream[1]]
  /\ place' = "parse"
  /\ UNCHANGED <<clientVars, args, taken, answers, running, process>>

Read ==
  /\ process = "up" /\ place = "read" /\ received < sent /\ ~reset
  /\ \E n \in received + 1 .. sent :
       /\ n - received <= BUFFER_SIZE
       /\ received' = n
       /\ buffer' = buffer \o SubSeq(stream, received + 1, n)
  /\ place' = "parse"
  /\ UNCHANGED <<clientVars, args, taken, answers, running, process>>

(* Mutant: only an error of read ends the loop                             *)
ReadEndsOnError ==
  /\ process = "up" /\ place = "read"
  /\ reset \/ (client = "gone" /\ received = sent)
  /\ place' = IF reset THEN "closed" ELSE "loop"
  /\ UNCHANGED <<clientVars, received, buffer, args, taken, answers, running, process>>

(* read returns 0 behind the last byte, and an error after RST             *)
ReadEnds ==
  /\ process = "up" /\ place = "read"
  /\ reset \/ (client = "gone" /\ received = sent)
  /\ place' = "closed"
  /\ UNCHANGED <<clientVars, received, buffer, args, taken, answers, running, process>>

(* A message is found: its words are kept and its bytes erased             *)
Take ==
  /\ process = "up" /\ place = "parse"
  /\ \E found \in {parse(buffer)} :
       /\ found.ok
       /\ args' = found.args
       /\ taken' = Append(taken, [from |-> received - Len(buffer), args |-> found.args,
                                  consumed |-> found.consumed])
       /\ buffer' = dropFirst(buffer, found.consumed)
  /\ place' = "process"
  /\ UNCHANGED <<clientVars, received, answers, running, process>>

Break ==
  /\ process = "up" /\ place = "parse"
  /\ ~parse(buffer).ok
  /\ place' = "loop"
  /\ UNCHANGED <<clientVars, received, buffer, args, taken, answers, running, process>>

(* processCommand: no answer is empty                                      *)
Process ==
  /\ process = "up" /\ place = "process"
  /\ place' = "send"
  /\ UNCHANGED <<clientVars, received, buffer, args, taken, answers, running, process>>

(* Mutant: of the messages in the buffer one is taken for each read        *)
sendsAndReads ==
  /\ process = "up" /\ place = "send"
  /\ place' = "loop"
  /\ args' = NoArgs
  /\ UNCHANGED <<stream, sent, client, received, buffer, taken, running, process>>

sends ==
  /\ process = "up" /\ place = "send"
  /\ place' = "parse"
  /\ args' = NoArgs
  /\ UNCHANGED <<stream, sent, client, received, buffer, taken, running, process>>

(* Mutant: an answer for which there is no room is dropped                 *)
SendOrDrop ==
  /\ sends
  /\ client = "here" /\ UNCHANGED reset
  /\ IF unread < SocketRoom
     THEN unread' = unread + 1 /\ answers' = Append(answers, args)
     ELSE UNCHANGED <<unread, answers>>

(* send blocks as long as the kernel has no room for the answer            *)
Send ==
  /\ sends
  /\ client = "here" /\ unread < SocketRoom
  /\ unread' = unread + 1
  /\ answers' = Append(answers, args)
  /\ UNCHANGED reset

(* The kernel takes the answer to a client that has gone, and learns from  *)
(* its RST that it has                                                     *)
SendToGone ==
  /\ sends
  /\ client = "gone" /\ ~reset
  /\ reset' = TRUE
  /\ UNCHANGED <<unread, answers>>

(* What send does after RST depends on where the kernel was: it returns an *)
(* error nobody looks at, or raises SIGPIPE, which ends the process.       *)
SendFails ==
  /\ sends
  /\ reset
  /\ UNCHANGED <<unread, reset, answers>>

SendKills ==
  /\ process = "up" /\ place = "send" /\ reset
  /\ process' = "killed"
  /\ UNCHANGED <<clientVars, handlerVars, running>>

-----------------------------------------------------------------------------
Server ==
  \/ Loop \/ Read \/ ReadEnds \/ Take \/ Break \/ Process
  \/ Send \/ SendToGone \/ SendFails \/ SendKills

Client == Deliver \/ ReadAnswer \/ Leave

Next == Server \/ Client \/ StopServer

Spec == Init /\ [][Next]_vars

(* The thread of the connection runs when it can: it is blocked in read    *)
(* until bytes have arrived or the client has gone, and in send until      *)
(* there is room.                                                          *)
FairSpec == Spec /\ WF_vars(Server)

(* A client that reads its answers, and a network that delivers            *)
FairSpecClientReads == FairSpec /\ WF_vars(ReadAnswer) /\ WF_vars(Deliver)

-----------------------------------------------------------------------------
Places == {"loop", "read", "parse", "process", "send", "closed"}

Commands == [from : Nat, args : Args, consumed : Nat]

TypeOK ==
  /\ stream \in Streams
  /\ sent \in 0 .. Len(stream) /\ received \in 0 .. sent /\ Len(buffer) \in 0 .. received
  /\ buffer \in Seq(Bytes)
  /\ place \in Places
  /\ args \in Args
  /\ taken \in Seq(Commands)
  /\ answers \in Seq(Args)
  /\ unread \in 0 .. SocketRoom
  /\ client \in {"here", "gone"}
  /\ reset \in BOOLEAN /\ running \in BOOLEAN
  /\ process \in {"up", "killed"}

(* The commands the server takes are the messages of the stream, from its  *)
(* first byte on, each where the one before it ends, whatever the pieces   *)
(* the bytes arrive in: none is lost, cut, joined to another or taken      *)
(* twice, at the boundaries of reads or anywhere else.                     *)
endOf(i) == IF i = 0 THEN 0 ELSE taken[i].from + taken[i].consumed

FramingIgnoresSplits ==
  \A i \in 1 .. Len(taken) :
    LET there == parse(dropFirst(stream, taken[i].from))
    IN  /\ taken[i].from = endOf(i - 1)
        /\ there.ok
        /\ taken[i].args = there.args /\ taken[i].consumed = there.consumed

(* The n-th answer a client gets is that to its n-th command, though the   *)
(* kernel may run out of room for answers while more commands arrive; only *)
(* the command in hand waits for its answer.                               *)
AnswersInOrder ==
  /\ \A i \in 1 .. Len(answers) : i <= Len(taken) /\ answers[i] = taken[i].args
  /\ client = "here" =>
       Len(taken) - Len(answers) = (IF place \in {"process", "send"} THEN 1 ELSE 0)

(* Where the n-th message of a stream ends; beyond the stream's end if it  *)
(* has no n-th message                                                     *)
messageEnd ==
  [s \in Streams |->
    LET end[n \in 0 .. MaxMessages] ==
          IF n = 0 THEN 0
          ELSE LET start == end[n - 1]
                   next  == parse(dropFirst(s, start))
               IN  IF start <= Len(s) /\ next.ok THEN start + next.consumed ELSE Len(s) + 1
    IN  end]

has(n) == messageEnd[stream][n] <= Len(stream)

(* Every command a client sends is answered, provided it stays and reads   *)
(* and the server is not stopped: one that arrives in many pieces, one     *)
(* that arrives together with others, and the last of a burst, after which *)
(* nothing wakes the handler up again.                                     *)
EveryCommandIsAnswered ==
  \A n \in 1 .. MaxMessages :
    has(n) ~> Len(answers) >= n \/ client = "gone" \/ ~running

(* A handler whose client has gone ends, however many commands are left in *)
(* its buffer, or the whole process does.                                  *)
GoneClientIsClosed == client = "gone" ~> place = "closed" \/ process = "killed"
===============================================================================

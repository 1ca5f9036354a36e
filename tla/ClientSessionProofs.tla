------------------------- MODULE ClientSessionProofs -------------------------
(***************************************************************************)
(* Proofs about ClientSession, for any streams, any limits of the parser   *)
(* and any sizes of reads and of the kernel's room.  Of the parser they    *)
(* use that it stays within its input and that what follows a message      *)
(* changes nothing of it.                                                  *)
(***************************************************************************)
EXTENDS ClientSession, RESPParserProofs

(* The buffer is what has been received and not been taken.                *)
takenTo == endOf(Len(taken))

BufferIsRest ==
  /\ takenTo <= received
  /\ buffer = SubSeq(stream, takenTo + 1, received)

(* The command in hand is the one taken last.                              *)
HandHoldsLast ==
  place \in {"process", "send"} => taken # <<>> /\ args = taken[Len(taken)].args

OnlyGoneReset == reset => client = "gone"

Inv ==
  /\ TypeOK
  /\ BufferIsRest
  /\ FramingIgnoresSplits
  /\ AnswersInOrder
  /\ HandHoldsLast
  /\ OnlyGoneReset

-----------------------------------------------------------------------------
(* Facts about one state                                                   *)

LEMMA StreamType ==
  ASSUME TypeOK
  PROVE  /\ stream \in Seq(Bytes)
         /\ Len(stream) \in Nat /\ sent \in Nat /\ received \in Nat
         /\ received <= sent /\ sent <= Len(stream)
BY SessionAssumption DEF TypeOK

LEMMA EndType ==
  ASSUME TypeOK, NEW i \in 0 .. Len(taken)
  PROVE  endOf(i) \in Nat
<1>1. CASE i = 0
  BY <1>1 DEF endOf
<1>2. CASE i # 0
  <2>1. taken[i] \in Commands
    BY <1>2 DEF TypeOK
  <2>2. QED
    BY <1>2, <2>1 DEF endOf, Commands
<1>3. QED
  BY <1>1, <1>2

(* Received bytes join on to the rest of the stream in the buffer.         *)
LEMMA PiecesJoin ==
  ASSUME NEW s \in Seq(Bytes), NEW a \in Nat, NEW b \in Nat, NEW c \in Nat,
         a <= b, b <= c, c <= Len(s)
  PROVE  SubSeq(s, a + 1, b) \o SubSeq(s, b + 1, c) = SubSeq(s, a + 1, c)
BY ConcatAdjacentSubSeq

(* Erasing from the front leaves the rest.                                 *)
LEMMA RestAfterErase ==
  ASSUME NEW s \in Seq(Bytes), NEW a \in Nat, NEW c \in Nat, NEW n \in Nat,
         a + n <= c, c <= Len(s)
  PROVE  dropFirst(SubSeq(s, a + 1, c), n) = SubSeq(s, a + n + 1, c)
<1> DEFINE t == SubSeq(s, a + 1, c)
<1>1. t \in Seq(Bytes) /\ Len(t) = c - a
  BY SubSeqProperties
<1>2. dropFirst(t, n) = SubSeq(t, n + 1, c - a)
  BY <1>1 DEF dropFirst
<1>3. CASE n + 1 <= c - a
  BY <1>2, <1>3, SubSeqOfSubSeq
<1>4. CASE n = c - a
  <2>1. SubSeq(t, n + 1, c - a) = <<>>
    BY <1>1, <1>4, SubSeqEmpty
  <2>2. SubSeq(s, a + n + 1, c) = <<>>
    BY <1>4, SubSeqEmpty
  <2>3. QED
    BY <1>2, <2>1, <2>2
<1>5. QED
  BY <1>3, <1>4

-----------------------------------------------------------------------------
(* Steps                                                                   *)

LEMMA InitialInv == Init => Inv
<1> SUFFICES ASSUME Init PROVE Inv
  OBVIOUS
<1>1. stream \in Seq(Bytes) /\ Len(stream) \in Nat
  BY SessionAssumption DEF Init
<1>2. TypeOK
  <2>1. /\ buffer \in Seq(Bytes) /\ Len(buffer) = 0
        /\ taken \in Seq(Commands) /\ args \in Args /\ answers \in Seq(Args)
    BY DEF Init, NoArgs, Args
  <2>2. /\ sent \in 0 .. Len(stream) /\ received \in 0 .. sent /\ unread \in 0 .. SocketRoom
    BY <1>1, SessionAssumption DEF Init
  <2>3. QED
    BY <2>1, <2>2 DEF Init, TypeOK, Places
<1>3. BufferIsRest
  <2>1. SubSeq(stream, 1, 0) = <<>>
    BY SubSeqEmpty
  <2>2. takenTo = 0
    BY DEF Init, takenTo, endOf
  <2>3. QED
    BY <2>1, <2>2 DEF Init, BufferIsRest
<1>4. QED
  BY <1>2, <1>3 DEF Init, Inv, FramingIgnoresSplits, AnswersInOrder, HandHoldsLast, OnlyGoneReset

(* Read appends bytes of the stream to the buffer.                         *)
LEMMA ReadKeepsInv ==
  ASSUME Inv, Read
  PROVE  Inv'
<1> DEFINE end == takenTo
<1>1. PICK n \in received + 1 .. sent :
        received' = n /\ buffer' = buffer \o SubSeq(stream, received + 1, n)
  BY DEF Read
<1>2. /\ n \in Nat /\ received \in Nat /\ received < n /\ n <= Len(stream) /\ n <= sent
      /\ stream \in Seq(Bytes) /\ Len(stream) \in Nat /\ sent \in Nat
  BY StreamType DEF Inv
<1>3. end \in Nat /\ end <= received /\ buffer = SubSeq(stream, end + 1, received)
  BY EndType DEF Inv, BufferIsRest, TypeOK, takenTo
<1>4. buffer' = SubSeq(stream, end + 1, n)
  <2>1. SubSeq(stream, end + 1, received) \o SubSeq(stream, received + 1, n)
          = SubSeq(stream, end + 1, n)
    <3> HIDE DEF end
    <3> QED BY <1>2, <1>3, PiecesJoin
  <2>2. QED
    BY <1>1, <1>3, <2>1
<1>5. buffer' \in Seq(Bytes) /\ Len(buffer') \in 0 .. n
  BY <1>2, <1>3, <1>4, SubSeqProperties
<1>6. TypeOK'
  BY <1>1, <1>2, <1>5 DEF Inv, TypeOK, Read, clientVars, Places
<1>7. BufferIsRest'
  <2>1. takenTo' = takenTo
    BY DEF Read, takenTo, endOf
  <2>2. stream' = stream
    BY DEF Read, clientVars
  <2>3. takenTo' <= received'
    BY <1>1, <1>2, <1>3, <2>1
  <2>4. buffer' = SubSeq(stream', takenTo' + 1, received')
    BY <1>1, <1>4, <2>1, <2>2
  <2>5. QED
    BY <2>3, <2>4 DEF BufferIsRest
<1>8. /\ FramingIgnoresSplits' /\ AnswersInOrder'
      /\ HandHoldsLast' /\ OnlyGoneReset'
  BY DEF Inv, Read, clientVars, FramingIgnoresSplits, takenTo, endOf, AnswersInOrder, HandHoldsLast,
         OnlyGoneReset
<1>9. QED
  BY <1>6, <1>7, <1>8 DEF Inv

(* Take moves the first message from the buffer to taken.  That it is a    *)
(* message of the stream and not only of the buffer is the parser's doing. *)
LEMMA TakeKeepsInv ==
  ASSUME Inv, Take
  PROVE  Inv'
<1> DEFINE end == takenTo
           found == parse(buffer)
           new == [from |-> end, args |-> found.args, consumed |-> found.consumed]
<1>1. /\ received \in Nat /\ received <= Len(stream)
      /\ stream \in Seq(Bytes) /\ Len(stream) \in Nat /\ stream \in Streams
  BY StreamType DEF Inv, TypeOK
<1>2. end \in Nat /\ end <= received /\ buffer = SubSeq(stream, end + 1, received)
  BY EndType DEF Inv, BufferIsRest, TypeOK, takenTo
<1>3. received - Len(buffer) = end
  BY <1>1, <1>2, SubSeqProperties
<1>4. /\ found.ok
      /\ args' = found.args
      /\ taken' = Append(taken, new)
      /\ buffer' = dropFirst(buffer, found.consumed)
  BY <1>3 DEF Take
<1>5. /\ found.args \in Args
      /\ found.consumed \in 1 .. received - end
      /\ parse(dropFirst(stream, end)) = found
  <2> DEFINE rest == dropFirst(stream, end)
  <2>1. /\ buffer \in Seq(Bytes) /\ Len(buffer) = received - end
        /\ \A i \in 1 .. received - end : buffer[i] = stream[end + i]
    <3>1. \A i \in end + 1 .. received : stream[i] \in Bytes
      BY <1>1, <1>2
    <3> HIDE DEF end
    <3> QED BY <1>1, <1>2, <3>1, SubSeqProperties
  <2>2. /\ rest \in Seq(Bytes) /\ Len(rest) = Len(stream) - end
        /\ \A i \in 1 .. Len(stream) - end : rest[i] = stream[end + i]
    <3>1. \A i \in end + 1 .. Len(stream) : stream[i] \in Bytes
      BY <1>1, <1>2
    <3> HIDE DEF end
    <3> QED BY <1>1, <1>2, <3>1, SubSeqProperties DEF dropFirst
  <2>3. extends(rest, buffer)
    <3> HIDE DEF end, rest
    <3> QED BY <1>1, <1>2, <2>1, <2>2 DEF extends
  <2>4. parse(rest) = parse(buffer)
    <3> HIDE DEF rest
    <3> QED BY <1>4, <2>1, <2>2, <2>3, SameMessage
  <2> QED BY <1>4, <2>1, <2>4, MessageWithin DEF Args
<1>6. buffer' = SubSeq(stream, end + found.consumed + 1, received)
  <2> HIDE DEF end, found
  <2>1. found.consumed \in Nat /\ end + found.consumed <= received
    BY <1>1, <1>2, <1>5
  <2>2. dropFirst(SubSeq(stream, end + 1, received), found.consumed)
          = SubSeq(stream, end + found.consumed + 1, received)
    BY <1>1, <1>2, <2>1, RestAfterErase
  <2>3. QED
    BY <1>2, <1>4, <2>2
<1>7. buffer' \in Seq(Bytes) /\ Len(buffer') \in 0 .. received
  BY <1>1, <1>2, <1>5, <1>6, SubSeqProperties
<1>8. new \in Commands /\ taken \in Seq(Commands) /\ Len(taken) \in Nat
  BY <1>2, <1>5 DEF Commands, Inv, TypeOK
<1>9. /\ taken' \in Seq(Commands) /\ Len(taken') = Len(taken) + 1
      /\ taken'[Len(taken) + 1] = new
      /\ \A i \in 1 .. Len(taken) : taken'[i] = taken[i]
  BY <1>4, <1>8, AppendProperties
<1>10. /\ \A i \in 0 .. Len(taken) : (endOf(i))' = endOf(i)
       /\ takenTo' = end + found.consumed
  <2>1. \A i \in 0 .. Len(taken) : (endOf(i))' = endOf(i)
    BY <1>8, <1>9 DEF endOf
  <2>2. takenTo' = taken'[Len(taken')].from + taken'[Len(taken')].consumed
    BY <1>8, <1>9 DEF takenTo, endOf
  <2>3. QED
    BY <1>8, <1>9, <2>1, <2>2
<1>11. TypeOK'
  BY <1>4, <1>5, <1>7, <1>9 DEF Inv, TypeOK, Take, clientVars, Places
<1>12. BufferIsRest'
  BY <1>1, <1>2, <1>5, <1>6, <1>10 DEF BufferIsRest, Take, clientVars
<1>13. FramingIgnoresSplits'
  <2> SUFFICES ASSUME NEW i \in 1 .. Len(taken')
               PROVE  /\ taken'[i].from = (endOf(i - 1))'
                      /\ parse(dropFirst(stream, taken'[i].from)).ok
                      /\ taken'[i].args = parse(dropFirst(stream, taken'[i].from)).args
                      /\ taken'[i].consumed = parse(dropFirst(stream, taken'[i].from)).consumed
    BY DEF FramingIgnoresSplits, Take, clientVars
  <2>1. CASE i \in 1 .. Len(taken)
    BY <1>8, <1>9, <1>10, <2>1 DEF Inv, FramingIgnoresSplits
  <2>2. CASE i = Len(taken) + 1
    BY <1>4, <1>5, <1>8, <1>9, <1>10, <2>2 DEF takenTo
  <2>3. QED
    BY <1>8, <1>9, <2>1, <2>2
<1>14. AnswersInOrder'
  <2>1. Len(answers) \in Nat
    BY DEF Inv, TypeOK
  <2>2. QED
    BY <1>8, <1>9, <2>1 DEF Inv, AnswersInOrder, Take, clientVars
<1>15. HandHoldsLast' /\ OnlyGoneReset'
  BY <1>4, <1>8, <1>9 DEF Inv, HandHoldsLast, OnlyGoneReset, Take, clientVars
<1>16. QED
  BY <1>11, <1>12, <1>13, <1>14, <1>15 DEF Inv

(* Send adds the answer to the last command, the only one without.         *)
LEMMA SendKeepsInv ==
  ASSUME Inv, Send
  PROVE  Inv'
<1>1. /\ Len(answers) \in Nat /\ Len(taken) \in Nat
      /\ Len(taken) = Len(answers) + 1
      /\ answers \in Seq(Args) /\ args \in Args
  BY DEF Inv, TypeOK, AnswersInOrder, Send, sends
<1>2. /\ answers' \in Seq(Args) /\ Len(answers') = Len(answers) + 1
      /\ answers'[Len(answers) + 1] = args
      /\ \A i \in 1 .. Len(answers) : answers'[i] = answers[i]
  BY <1>1, AppendProperties DEF Send
<1>3. <<>> \in Args
  BY DEF Args
<1>4. TypeOK'
  BY <1>2, <1>3, SessionAssumption DEF Inv, TypeOK, Send, sends, Places, NoArgs
<1>5. AnswersInOrder'
  <2>1. \A i \in 1 .. Len(answers') : i <= Len(taken) /\ answers'[i] = taken[i].args
    BY <1>1, <1>2 DEF Inv, AnswersInOrder, HandHoldsLast, Send, sends
  <2>2. QED
    BY <1>1, <1>2, <2>1 DEF AnswersInOrder, Send, sends
<1>6. BufferIsRest' /\ FramingIgnoresSplits' /\ HandHoldsLast' /\ OnlyGoneReset'
  BY DEF Inv, Send, sends, BufferIsRest, FramingIgnoresSplits, takenTo, endOf, HandHoldsLast,
         OnlyGoneReset
<1>7. QED
  BY <1>4, <1>5, <1>6 DEF Inv

(* An answer that is lost is one to a client that has gone.                *)
LEMMA LostAnswerKeepsInv ==
  ASSUME Inv, SendToGone \/ SendFails
  PROVE  Inv'
<1>1. /\ place = "send" /\ place' = "parse" /\ args' = NoArgs /\ client = "gone"
      /\ reset' \in BOOLEAN
      /\ UNCHANGED <<stream, sent, client, received, buffer, taken, running, process,
                     unread, answers>>
  BY DEF Inv, OnlyGoneReset, SendToGone, SendFails, sends
<1>2. <<>> \in Args
  BY DEF Args
<1>3. TypeOK'
  BY <1>1, <1>2 DEF Inv, TypeOK, Places, NoArgs
<1>4. /\ BufferIsRest' /\ FramingIgnoresSplits' /\ AnswersInOrder'
      /\ HandHoldsLast' /\ OnlyGoneReset'
  BY <1>1 DEF Inv, BufferIsRest, FramingIgnoresSplits, takenTo, endOf, AnswersInOrder, HandHoldsLast,
              OnlyGoneReset
<1>5. QED
  BY <1>3, <1>4 DEF Inv

(* The other steps of the handler move it on and change nothing else.      *)
LEMMA MoveKeepsInv ==
  ASSUME Inv, Loop \/ ReadEnds \/ Break \/ Process \/ SendKills
  PROVE  Inv'
<1>1. /\ UNCHANGED <<clientVars, received, buffer, args, taken, answers, running>>
      /\ place' \in Places /\ process' \in {"up", "killed"}
      /\ place' \in {"process", "send"} <=> place \in {"process", "send"}
  BY DEF Inv, TypeOK, Loop, ReadEnds, Break, Process, SendKills, Places, handlerVars
<1>2. TypeOK'
  BY <1>1 DEF Inv, TypeOK, clientVars
<1>3. /\ BufferIsRest' /\ FramingIgnoresSplits' /\ AnswersInOrder'
      /\ HandHoldsLast' /\ OnlyGoneReset'
  BY <1>1 DEF Inv, BufferIsRest, FramingIgnoresSplits, takenTo, endOf, AnswersInOrder, HandHoldsLast,
              OnlyGoneReset, clientVars
<1>4. QED
  BY <1>2, <1>3 DEF Inv

(* The client's steps and stop() leave handleClient alone.                 *)
LEMMA OthersKeepInv ==
  ASSUME Inv, Client \/ StopServer
  PROVE  Inv'
<1>1. UNCHANGED <<stream, handlerVars, process>>
  BY DEF Client, StopServer, Deliver, ReadAnswer, Leave, clientVars
<1>2. /\ sent' \in 0 .. Len(stream) /\ received \in 0 .. sent'
      /\ unread' \in 0 .. SocketRoom /\ client' \in {"here", "gone"}
      /\ reset' \in BOOLEAN /\ running' \in BOOLEAN
      /\ client' = "here" => client = "here"
      /\ reset' => client' = "gone"
  <2>1. CASE Deliver
    BY <2>1, StreamType DEF Inv, TypeOK, OnlyGoneReset, Deliver
  <2>2. CASE ReadAnswer
    BY <2>2, SessionAssumption DEF Inv, TypeOK, OnlyGoneReset, ReadAnswer
  <2>3. CASE Leave
    BY <2>3 DEF Inv, TypeOK, Leave
  <2>4. CASE StopServer
    BY <2>4 DEF Inv, TypeOK, OnlyGoneReset, StopServer, clientVars
  <2>5. QED
    BY <2>1, <2>2, <2>3, <2>4 DEF Client
<1>3. TypeOK'
  BY <1>1, <1>2 DEF Inv, TypeOK, handlerVars
<1>4. /\ BufferIsRest' /\ FramingIgnoresSplits' /\ AnswersInOrder'
      /\ HandHoldsLast' /\ OnlyGoneReset'
  BY <1>1, <1>2 DEF Inv, BufferIsRest, FramingIgnoresSplits, takenTo, endOf, AnswersInOrder,
                   HandHoldsLast, OnlyGoneReset, handlerVars
<1>5. QED
  BY <1>3, <1>4 DEF Inv

LEMMA StepInv == Inv /\ [Next]_vars => Inv'
<1> SUFFICES ASSUME Inv, [Next]_vars PROVE Inv'
  OBVIOUS
<1>1. CASE Read
  BY <1>1, ReadKeepsInv
<1>2. CASE Take
  BY <1>2, TakeKeepsInv
<1>3. CASE Send
  BY <1>3, SendKeepsInv
<1>4. CASE SendToGone \/ SendFails
  BY <1>4, LostAnswerKeepsInv
<1>5. CASE Loop \/ ReadEnds \/ Break \/ Process \/ SendKills
  BY <1>5, MoveKeepsInv
<1>6. CASE Client \/ StopServer
  BY <1>6, OthersKeepInv
<1>7. CASE UNCHANGED vars
  BY <1>7 DEF vars, clientVars, handlerVars, Inv, TypeOK, BufferIsRest, FramingIgnoresSplits,
              takenTo, endOf, AnswersInOrder, HandHoldsLast, OnlyGoneReset
<1>8. QED
  BY <1>1, <1>2, <1>3, <1>4, <1>5, <1>6, <1>7 DEF Next, Server

(* Every behaviour keeps the invariant.                                    *)
THEOREM Invariance == Spec => []Inv
BY InitialInv, StepInv, PTL DEF Spec

(* The variables of a session keep their types: the buffer is never longer *)
(* than what has been received.                                            *)
THEOREM TypeCorrect == Spec => []TypeOK
<1>1. Inv => TypeOK
  BY DEF Inv
<1>2. QED
  BY <1>1, Invariance, PTL

(* However the stream is cut into reads, the commands taken are its        *)
(* messages.                                                               *)
THEOREM FramingCorrect == Spec => []FramingIgnoresSplits
<1>1. Inv => FramingIgnoresSplits
  BY DEF Inv
<1>2. QED
  BY <1>1, Invariance, PTL

(* The answers a client gets are those to its commands, in order.          *)
THEOREM AnswersCorrect == Spec => []AnswersInOrder
<1>1. Inv => AnswersInOrder
  BY DEF Inv
<1>2. QED
  BY <1>1, Invariance, PTL
===============================================================================

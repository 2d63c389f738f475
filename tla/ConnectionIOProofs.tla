------------------------- MODULE ConnectionIOProofs -------------------------
(***************************************************************************)
(* The edge-triggered channel of a connection loses no edge and asks for   *)
(* the writable event exactly when there is something to write; what goes  *)
(* through it is well typed, and every message has its reply, in order.    *)
(***************************************************************************)
EXTENDS ConnectionIO, FlattenProofs

\* A callback runs for an event that was asked for, and a closed connection
\* does not take part in another round.
LoopInv ==
    /\ armed \in BOOLEAN /\ nospace \in BOOLEAN
    /\ writing \in BOOLEAN /\ disc \in BOOLEAN
    /\ pc \in {"read", "handle", "write"} /\ "out" \in happened => writing
    /\ pc = "write" => "out" \in happened
    /\ pc \in {"new", "poll", "read"} => ~disc

\* Once a round has read, what arrives is an edge.
ReadInv ==
    pc \in {"poll", "handle", "write", "end"} /\ ~armed /\ ~disc => rcv = <<>>

\* Output is waited for, or else this round will send it.
SendInv ==
    pc \in {"new", "poll", "read", "handle", "end"} /\ ~disc /\ output # <<>> =>
        writing

\* Output that this round will not send waits for room, and epoll knows.
RoomInv ==
    /\ \/ pc \in {"poll", "end"}
       \/ pc \in {"read", "handle"} /\ "out" \notin happened
    /\ ~armed /\ ~disc /\ output # <<>>
    => nospace /\ ~Writable

EdgeInv == LoopInv /\ ReadInv /\ SendInv /\ RoomInv

\* Nothing is waited for before the socket is in epoll.
LEMMA EdgeInit == Init => EdgeInv
BY DEF Init, EdgeInv, LoopInv, ReadInv, SendInv, RoomInv

\* What the client does is an edge: it arms a socket that epoll watches.
LEMMA EdgeClient ==
    ASSUME EdgeInv, ClientStep \/ ClientReceives
    PROVE  EdgeInv'
<1> USE DEF EdgeInv, LoopInv, ReadInv, SendInv, RoomInv, conn, Event
<1>1. ASSUME NEW n \in 1 .. RcvCap, ClientSends(n)
      PROVE  EdgeInv'
  BY <1>1 DEF ClientSends
<1>2. CASE ClientShutsDown
  BY <1>2 DEF ClientShutsDown
<1>3. CASE ClientResets
  BY <1>3 DEF ClientResets
<1>4. CASE ClientReceives
  BY <1>4 DEF ClientReceives
<1>5. QED
  BY <1>1, <1>2, <1>3, <1>4 DEF ClientStep

\* Epoll looks at the socket again whenever the interest changes, and a round
\* that begins takes every event that is there.
LEMMA EdgePoll ==
    ASSUME EdgeInv, AddToEpoll \/ Poll
    PROVE  EdgeInv'
<1> USE DEF EdgeInv, LoopInv, ReadInv, SendInv, RoomInv, client
<1> USE DEF Readable, Writable, AskForSpace
<1>1. CASE AddToEpoll
  BY <1>1 DEF AddToEpoll, EnableReading, UpdateChannel
<1>2. CASE Poll
  BY <1>2 DEF Poll
<1>3. QED
  BY <1>1, <1>2

\* onmessage leaves with nothing to read, or closes.
LEMMA EdgeRead ==
    ASSUME EdgeInv,
           (\E n \in 1 .. RcvCap : ReadSome(n)) \/ ReadEnds \/ ReadCloses
    PROVE  EdgeInv'
<1> USE DEF EdgeInv, LoopInv, ReadInv, SendInv, RoomInv, client, kernel, conn
<1> USE DEF Writable
<1>1. ASSUME NEW n \in 1 .. RcvCap, ReadSome(n)
      PROVE  EdgeInv'
  BY <1>1 DEF ReadSome
<1>2. CASE ReadEnds
  BY <1>2 DEF ReadEnds
<1>3. CASE ReadCloses
  BY <1>3 DEF ReadCloses, CloseConnection, AfterRead
<1>4. QED
  BY <1>1, <1>2, <1>3

\* A reply that is written asks epoll for room.
LEMMA EdgeHandle ==
    ASSUME EdgeInv, HandleMessage \/ RefuseMessage \/ AwaitMore
    PROVE  EdgeInv'
<1> USE DEF EdgeInv, LoopInv, ReadInv, SendInv, RoomInv, client, kernel, conn
<1> USE DEF Writable
<1>1. CASE HandleMessage
  <2>1. CASE disc
    BY <1>1, <2>1 DEF HandleMessage
  <2>2. CASE ~disc
    BY <1>1, <2>2 DEF HandleMessage, WriteTo, EnableWriting, UpdateChannel,
                      AskForSpace
  <2>3. QED
    BY <2>1, <2>2
<1>2. CASE RefuseMessage
  BY <1>2 DEF RefuseMessage, CloseConnection
<1>3. CASE AwaitMore
  BY <1>3 DEF AwaitMore, AfterRead
<1>4. QED
  BY <1>1, <1>2, <1>3

\* sendto leaves with nothing to send, without room, or closes.
LEMMA EdgeSend ==
    ASSUME EdgeInv,
           \/ \E n \in 1 .. SndCap : SendSome(n)
           \/ SendBlocks \/ SendCloses \/ SendEnds \/ SendSkipped
           \/ EndRound
    PROVE  EdgeInv'
<1> USE DEF EdgeInv, LoopInv, ReadInv, SendInv, RoomInv, client, kernel, conn
<1> USE DEF Writable
<1>1. ASSUME NEW n \in 1 .. SndCap, SendSome(n)
      PROVE  EdgeInv'
  BY <1>1 DEF SendSome
<1>2. CASE SendBlocks
  BY <1>2 DEF SendBlocks
<1>3. CASE SendCloses
  BY <1>3 DEF SendCloses, CloseConnection
<1>4. CASE SendEnds
  BY <1>4 DEF SendEnds, DisableWriting, UpdateChannel, AskForSpace
<1>5. CASE SendSkipped
  BY <1>5 DEF SendSkipped
<1>6. CASE EndRound
  BY <1>6 DEF EndRound
<1>7. QED
  BY <1>1, <1>2, <1>3, <1>4, <1>5, <1>6

\* Every step of the specification keeps the invariant.
LEMMA EdgeStep ==
    ASSUME EdgeInv, [Next]_vars
    PROVE  EdgeInv'
<1>1. CASE ClientStep \/ ClientReceives
  BY <1>1, EdgeClient
<1>2. CASE LoopStep
  BY <1>2, EdgePoll, EdgeRead, EdgeHandle, EdgeSend DEF LoopStep
<1>3. CASE Finished \/ UNCHANGED vars
  BY <1>3 DEF Finished, vars, client, kernel, conn, EdgeInv, LoopInv,
              ReadInv, SendInv, RoomInv, Writable
<1>4. QED
  BY <1>1, <1>2, <1>3 DEF Next

\* The loop of a connection never waits for an event that has already been:
\* whatever is left to read or to send will be reported (Connection.cpp:
\* 83-128, 180-214, 226-230, Epoll.cpp:21-48, 73-103).
THEOREM NoEdgeIsLost == Spec => []NoLostEdge
<1>1. Init => EdgeInv
  BY EdgeInit
<1>2. EdgeInv /\ [Next]_vars => EdgeInv'
  BY EdgeStep
<1>3. EdgeInv => NoLostEdge
  BY DEF EdgeInv, LoopInv, ReadInv, SendInv, RoomInv, NoLostEdge
<1>4. QED
  BY <1>1, <1>2, <1>3, PTL DEF Spec

-----------------------------------------------------------------------------
\* What the output holds is of no concern here, but it is a sequence.
OutputInv == \E S : output \in Seq(S)

\* The writable event is not asked for without output, except by a round that
\* has begun to send.
WritingInv ==
    pc \in {"new", "poll", "read", "handle", "end"} /\ ~disc /\ writing =>
        output # <<>>

InterestInv == EdgeInv /\ OutputInv /\ WritingInv

\* A reply added to the output makes it a longer sequence.
LEMMA ReplyAdded ==
    ASSUME OutputInv, NEW n
    PROVE  /\ \E S : output \o Reply(n) \in Seq(S)
           /\ output \o Reply(n) # <<>>
<1>1. PICK S : output \in Seq(S)
  BY DEF OutputInv
<1>2. PICK T : T = S \cup {<<n, 0>>, <<n, 1>>}
  OBVIOUS
<1>3. output \in Seq(T)
  BY <1>1, <1>2
<1>4. Reply(n) \in Seq(T) /\ Len(Reply(n)) = 2
  BY <1>2 DEF Reply
<1> DEFINE r == Reply(n)
<1> HIDE DEF r
<1>5. output \o r \in Seq(T) /\ Len(output \o r) = Len(output) + Len(r)
  BY <1>3, <1>4, ConcatProperties, Zenon DEF r
<1>6. Len(output) \in Nat /\ Len(<<>>) = 0
  BY <1>3
<1>7. output \o r # <<>>
  BY <1>4, <1>5, <1>6 DEF r
<1>8. QED
  BY <1>5, <1>7 DEF r

\* What is left after a part was sent is a sequence.
LEMMA PartSent ==
    ASSUME OutputInv, NEW n \in 1 .. Len(output)
    PROVE  \E S : SubSeq(output, n + 1, Len(output)) \in Seq(S)
<1>1. PICK S : output \in Seq(S)
  BY DEF OutputInv
<1>2. SubSeq(output, n + 1, Len(output)) \in Seq(S)
  BY <1>1
<1>3. QED
  BY <1>2

\* The output is a sequence after every step.
LEMMA OutputStep ==
    ASSUME InterestInv, [Next]_vars
    PROVE  OutputInv'
<1> USE DEF InterestInv
<1>1. CASE UNCHANGED output
  BY <1>1 DEF OutputInv
<1>2. CASE HandleMessage /\ ~disc
  BY <1>2, ReplyAdded DEF HandleMessage, WriteTo, OutputInv
<1>3. ASSUME NEW n \in 1 .. SndCap, SendSome(n)
      PROVE  OutputInv'
  BY <1>3, PartSent DEF SendSome, OutputInv
<1>4. ~(HandleMessage /\ ~disc) /\ ~(\E n \in 1 .. SndCap : SendSome(n)) =>
          UNCHANGED output
  BY DEF Next, ClientStep, LoopStep, Finished, ClientSends, ClientShutsDown,
         ClientResets, ClientReceives, AddToEpoll, Poll, ReadSome, ReadEnds,
         ReadCloses, HandleMessage, RefuseMessage, AwaitMore, SendBlocks,
         SendCloses, SendEnds, SendSkipped, EndRound, vars, conn
<1>5. QED
  BY <1>1, <1>2, <1>3, <1>4

\* Between rounds, and until a round sends, there is output where the writable
\* event is asked for.
LEMMA WritingStep ==
    ASSUME InterestInv, [Next]_vars
    PROVE  WritingInv'
<1> USE DEF InterestInv, EdgeInv, LoopInv, WritingInv, vars, client, kernel, conn
<1>1. CASE ClientStep \/ ClientReceives \/ Finished \/ UNCHANGED vars
  BY <1>1 DEF ClientStep, ClientSends, ClientShutsDown, ClientResets,
              ClientReceives, Finished
<1>2. CASE AddToEpoll \/ Poll
  BY <1>2 DEF AddToEpoll, EnableReading, UpdateChannel, Poll
<1>3. CASE (\E n \in 1 .. RcvCap : ReadSome(n)) \/ ReadEnds \/ ReadCloses
  BY <1>3 DEF ReadSome, ReadEnds, ReadCloses, CloseConnection, AfterRead
<1>4. CASE HandleMessage
  BY <1>4, ReplyAdded DEF HandleMessage, WriteTo, EnableWriting, UpdateChannel
<1>5. CASE RefuseMessage \/ AwaitMore
  BY <1>5 DEF RefuseMessage, AwaitMore, CloseConnection, AfterRead
<1>6. CASE (\E n \in 1 .. SndCap : SendSome(n)) \/ SendBlocks \/ SendCloses
  BY <1>6 DEF SendSome, SendBlocks, SendCloses, CloseConnection
<1>7. CASE SendEnds \/ SendSkipped \/ EndRound
  BY <1>7 DEF SendEnds, DisableWriting, UpdateChannel, SendSkipped, EndRound
<1>8. QED
  BY <1>1, <1>2, <1>3, <1>4, <1>5, <1>6, <1>7 DEF Next, LoopStep

\* Between rounds the writable event is asked for exactly while there is
\* output (Connection.cpp:210-215, 226-230, Channel.cpp:94-105).
THEOREM InterestIsRight == Spec => []InterestMatchesOutput
<1>1. Init => InterestInv
  <2>1. ASSUME Init PROVE OutputInv
    <3>1. <<>> \in Seq({})
      OBVIOUS
    <3>2. QED
      BY <2>1, <3>1 DEF Init, OutputInv
  <2>2. QED
    BY <2>1, EdgeInit DEF Init, InterestInv, WritingInv
<1>2. InterestInv /\ [Next]_vars => InterestInv'
  BY EdgeStep, OutputStep, WritingStep DEF InterestInv
<1>3. InterestInv => InterestMatchesOutput
  BY DEF InterestInv, EdgeInv, LoopInv, SendInv, WritingInv,
         InterestMatchesOutput
<1>4. QED
  BY <1>1, <1>2, <1>3, PTL DEF Spec

-----------------------------------------------------------------------------
(* Messages, replies and their types.                                      *)

ClientOK ==
    /\ body \in [Messages -> Bodies]
    /\ sent \in Nat
    /\ peer \in {"open", "half", "reset"}
    /\ got \in Seq(Unit)

KernelOK ==
    /\ rcv \in Seq(Unit) /\ Len(rcv) <= RcvCap
    /\ snd \in Seq(Unit) /\ Len(snd) <= SndCap
    /\ armed \in BOOLEAN
    /\ nospace \in BOOLEAN

ConnOK ==
    /\ writing \in BOOLEAN
    /\ happened \in SUBSET {"in", "out"}
    /\ input \in Seq(Unit)
    /\ output \in Seq(Unit)
    /\ disc \in BOOLEAN

PlaceOK ==
    /\ pc \in {"new", "poll", "read", "handle", "write", "end", "closed"}
    /\ pc \in {"read", "handle"} => "in" \in happened
    /\ pc = "write" => "out" \in happened
    /\ disc => pc \in {"handle", "write", "end", "closed"}

\* The parts make up the type invariant of the model.
LEMMA TypeParts == TypeOK <=> ClientOK /\ KernelOK /\ ConnOK /\ PlaceOK
BY DEF TypeOK, ClientOK, KernelOK, ConnOK, PlaceOK

\* A message is a header and as many parts as its body has.
LEMMA MessageType ==
    ASSUME ClientOK, NEW n \in Messages
    PROVE  /\ body[n] \in Nat /\ body[n] \in Bodies
           /\ Message(n) \in Seq(Unit)
           /\ Len(Message(n)) = 1 + body[n]
           /\ Message(n)[1] = <<n, 0>>
<1>1. body[n] \in Bodies /\ body[n] \in Nat
  BY BodiesAssumption DEF ClientOK
<1>2. \A k \in 1 .. 1 + body[n] : <<n, k - 1>> \in Unit
  BY <1>1 DEF Unit
<1>3. Message(n) \in [1 .. 1 + body[n] -> Unit]
  BY <1>2 DEF Message
<1>4. Message(n) \in Seq(Unit) /\ Len(Message(n)) = 1 + body[n]
  BY <1>1, <1>3
<1>5. Message(n)[1] = <<n, 0>>
  BY <1>1 DEF Message
<1>. QED  BY <1>1, <1>4, <1>5

\* A reply is a header and one part.
LEMMA ReplyType ==
    ASSUME NEW n \in Messages
    PROVE  Reply(n) \in Seq(Unit)
BY DEF Reply, Unit

\* The lists of which Requests and Replies are the concatenation.
Asked(m, n) == [i \in 1 .. n |-> Message(m + i)]
Answers(n) == [i \in 1 .. n |-> Reply(i)]

\* They are lists of lists of parts.
LEMMA ListTypes ==
    ASSUME ClientOK, NEW m \in Nat, NEW n \in Nat, m + n <= NumMessages
    PROVE  /\ Asked(m, n) \in Seq(Seq(Unit)) /\ Len(Asked(m, n)) = n
           /\ Answers(n) \in Seq(Seq(Unit)) /\ Len(Answers(n)) = n
<1>1. \A i \in 1 .. n : m + i \in Messages /\ i \in Messages
  BY NumMessagesAssumption DEF Messages
<1>2. \A i \in 1 .. n : Message(m + i) \in Seq(Unit)
  BY <1>1, MessageType
<1>3. \A i \in 1 .. n : Reply(i) \in Seq(Unit)
  BY <1>1, ReplyType
<1>4. Asked(m, n) \in [1 .. n -> Seq(Unit)]
  BY <1>2 DEF Asked
<1>5. Answers(n) \in [1 .. n -> Seq(Unit)]
  BY <1>3 DEF Answers
<1>. QED  BY <1>4, <1>5

\* What the client sends and is sent are parts of messages.
LEMMA RequestsType ==
    ASSUME ClientOK, NEW n \in 0 .. NumMessages
    PROVE  Requests(n) \in Seq(Unit) /\ Replies(n) \in Seq(Unit)
<1>1. n \in Nat /\ 0 \in Nat /\ 0 + n <= NumMessages
  BY NumMessagesAssumption
<1>2. Asked(0, n) \in Seq(Seq(Unit)) /\ Answers(n) \in Seq(Seq(Unit))
  BY <1>1, ListTypes
<1>3. Asked(0, n) = [i \in 1 .. n |-> Message(i)]
  BY <1>1 DEF Asked
<1>4. Requests(n) = FlattenSeq(Asked(0, n))
  BY <1>3 DEF Requests
<1>5. Replies(n) = FlattenSeq(Answers(n))
  BY DEF Replies, Answers
<1>. QED  BY <1>2, <1>4, <1>5, FlattenType

\* No message is no part.
LEMMA NoRequests == Requests(0) = <<>> /\ Replies(0) = <<>>
<1>1. [i \in 1 .. 0 |-> Message(i)] = <<>> /\ [i \in 1 .. 0 |-> Reply(i)] = <<>>
  OBVIOUS
<1>. QED  BY <1>1, FlattenEmpty DEF Requests, Replies

\* One message more.
LEMMA NextRequest ==
    ASSUME ClientOK, NEW n \in 0 .. NumMessages, n < NumMessages
    PROVE  /\ Requests(n + 1) = Requests(n) \o Message(n + 1)
           /\ Replies(n + 1) = Replies(n) \o Reply(n + 1)
<1>1. n \in Nat /\ n + 1 \in Messages /\ 0 + n <= NumMessages
  BY NumMessagesAssumption DEF Messages
<1>2. Message(n + 1) \in Seq(Unit) /\ Reply(n + 1) \in Seq(Unit)
  BY <1>1, MessageType, ReplyType
<1>3. /\ Asked(0, n) \in Seq(Seq(Unit)) /\ Len(Asked(0, n)) = n
      /\ Answers(n) \in Seq(Seq(Unit)) /\ Len(Answers(n)) = n
  BY <1>1, ListTypes
<1>4. Asked(0, n + 1) = Append(Asked(0, n), Message(n + 1))
  BY <1>1, <1>3 DEF Asked
<1>5. Answers(n + 1) = Append(Answers(n), Reply(n + 1))
  BY <1>1, <1>3 DEF Answers
<1>6. /\ Requests(n) = FlattenSeq(Asked(0, n))
      /\ Requests(n + 1) = FlattenSeq(Asked(0, n + 1))
  BY <1>1 DEF Requests, Asked
<1>7. /\ Replies(n) = FlattenSeq(Answers(n))
      /\ Replies(n + 1) = FlattenSeq(Answers(n + 1))
  BY DEF Replies, Answers
<1>. QED  BY <1>2, <1>3, <1>4, <1>5, <1>6, <1>7, FlattenAppend

\* The first messages are the beginning of all.
LEMMA RequestsSplit ==
    ASSUME ClientOK, NEW n \in 0 .. NumMessages
    PROVE  \E rest \in Seq(Unit) : Requests(NumMessages) = Requests(n) \o rest
<1> DEFINE k == NumMessages - n
<1>1. n \in Nat /\ k \in Nat /\ 0 + n <= NumMessages /\ n + k = NumMessages
      /\ n + k <= NumMessages
  BY NumMessagesAssumption
<1> HIDE DEF k
<1>2. /\ Asked(0, n) \in Seq(Seq(Unit)) /\ Len(Asked(0, n)) = n
      /\ Asked(n, k) \in Seq(Seq(Unit)) /\ Len(Asked(n, k)) = k
  BY <1>1, ListTypes
<1>3. Asked(0, n + k) = Asked(0, n) \o Asked(n, k)
  BY <1>1, <1>2 DEF Asked
<1>4. /\ Requests(n) = FlattenSeq(Asked(0, n))
      /\ Requests(NumMessages) = FlattenSeq(Asked(0, n + k))
  BY <1>1 DEF Requests, Asked
<1>5. FlattenSeq(Asked(n, k)) \in Seq(Unit)
  BY <1>2, FlattenType
<1>. QED  BY <1>2, <1>3, <1>4, <1>5, FlattenConcat

-----------------------------------------------------------------------------
(* The type invariant.                                                     *)

\* A part of a sequence is one, and so is what is left (Buffer.h: retrieve).
LEMMA PartType ==
    ASSUME NEW s \in Seq(Unit), NEW m \in Int, NEW n \in Int,
           1 <= m, n <= Len(s)
    PROVE  /\ SubSeq(s, m, n) \in Seq(Unit)
           /\ Len(SubSeq(s, m, n)) = IF m <= n THEN n - m + 1 ELSE 0
<1>1. \A i \in m .. n : s[i] \in Unit
  BY ElementOfSeq
<1>. QED  BY <1>1, SubSeqProperties

\* Queues that are joined make one queue.
LEMMA JoinType ==
    ASSUME NEW s \in Seq(Unit), NEW t \in Seq(Unit)
    PROVE  s \o t \in Seq(Unit) /\ Len(s \o t) = Len(s) + Len(t)
BY ConcatProperties

\* The message at the front is one of the client's (EchoServer.cpp:42-62).
LEMMA FirstType ==
    ASSUME TypeOK, HasHeader
    PROVE  /\ First \in Messages
           /\ body[First] \in Nat /\ body[First] \in Bodies
           /\ Length(First) \in Int
<1>1. Len(input) \in Nat /\ Len(input) > 1 /\ input \in Seq(Unit)
  BY DEF HasHeader, TypeOK
<1>2. input[1] \in Unit
  BY <1>1, ElementOfSeq
<1>3. First \in Messages
  BY <1>2 DEF First, Unit
<1>4. body[First] \in Nat /\ body[First] \in Bodies
  BY <1>3, MessageType, TypeParts DEF ClientOK
<1>. QED  BY <1>3, <1>4, IntSizeAssumption DEF Length

\* An empty queue of the kernel is one within its bounds.
LEMMA EmptyQueue ==
    /\ <<>> \in Seq(Unit)
    /\ Len(<<>>) <= RcvCap /\ Len(<<>>) <= SndCap
<1>1. Len(<<>>) = 0 /\ <<>> \in Seq(Unit)
  BY EmptySeq
<1>2. 0 <= RcvCap /\ 0 <= SndCap
  BY CapsAssumption
<1>. QED  BY <1>1, <1>2

\* Nothing has been sent and nothing received at first.
LEMMA TypeInit == Init => TypeOK
<1> SUFFICES ASSUME Init  PROVE TypeOK
  OBVIOUS
<1>2. ClientOK /\ ConnOK /\ PlaceOK
  BY EmptyQueue DEF Init, ClientOK, ConnOK, PlaceOK
<1>3. KernelOK
  BY EmptyQueue DEF Init, KernelOK
<1>. QED  BY <1>2, <1>3, TypeParts

\* What the client does.
LEMMA TypeClient ==
    ASSUME TypeOK, ClientStep \/ ClientReceives
    PROVE  TypeOK'
<1> USE TypeParts DEF conn, Event
<1>0. /\ rcv \in Seq(Unit) /\ snd \in Seq(Unit) /\ got \in Seq(Unit)
      /\ sent \in Nat /\ RcvCap \in Nat /\ Len(rcv) \in Nat
  BY CapsAssumption DEF TypeOK
<1>1. ASSUME NEW n \in 1 .. RcvCap, ClientSends(n)
      PROVE  TypeOK'
  <2> DEFINE all == Requests(NumMessages)
             more == SubSeq(all, sent + 1, sent + n)
  <2>1. all \in Seq(Unit)
    BY NumMessagesAssumption, RequestsType
  <2>2. sent + n <= Len(all) /\ Len(rcv) + n <= RcvCap /\ n \in Nat
    BY <1>1 DEF ClientSends
  <2> HIDE DEF all
  <2>3. more \in Seq(Unit) /\ Len(more) = n
    BY <1>0, <2>1, <2>2, PartType
  <2>4. rcv' = rcv \o more
    BY <1>1 DEF ClientSends, all
  <2> HIDE DEF more
  <2>5. rcv' \in Seq(Unit) /\ Len(rcv') <= RcvCap
    BY <1>0, <2>2, <2>3, <2>4, JoinType
  <2>6. ClientOK' /\ ConnOK' /\ PlaceOK'
    BY <1>0, <1>1, <2>2 DEF ClientSends, ClientOK, ConnOK, PlaceOK
  <2>7. KernelOK'
    BY <1>1, <2>5 DEF ClientSends, KernelOK
  <2>. QED  BY <2>6, <2>7, PTL
<1>2. CASE ClientShutsDown
  BY <1>2 DEF ClientShutsDown, TypeOK
<1>3. CASE ClientResets
  BY <1>3, EmptyQueue DEF ClientResets, TypeOK
<1>4. CASE ClientReceives
  <2>1. snd # <<>> /\ got' = Append(got, Head(snd)) /\ snd' = Tail(snd)
    BY <1>4 DEF ClientReceives
  <2>2. /\ Head(snd) \in Unit /\ snd' \in Seq(Unit)
        /\ Len(snd') = Len(snd) - 1
    BY <1>0, <2>1, HeadTailProperties
  <2>3. got' \in Seq(Unit)
    BY <1>0, <2>1, <2>2, AppendProperties
  <2>4. Len(snd') <= SndCap
    BY <1>0, <2>2, CapsAssumption DEF TypeOK
  <2>5. ClientOK' /\ ConnOK' /\ PlaceOK'
    BY <1>4, <2>3 DEF ClientReceives, ClientOK, ConnOK, PlaceOK
  <2>6. KernelOK'
    BY <1>4, <2>2, <2>4 DEF ClientReceives, KernelOK
  <2>. QED  BY <2>5, <2>6, PTL
<1>. QED  BY <1>1, <1>2, <1>3, <1>4 DEF ClientStep

\* What the loop does before it writes.
LEMMA TypeRead ==
    ASSUME TypeOK,
           \/ AddToEpoll \/ Poll
           \/ \E n \in 1 .. RcvCap : ReadSome(n)
           \/ ReadEnds \/ ReadCloses
    PROVE  TypeOK'
<1> USE DEF client, kernel, conn
<1>1. CASE AddToEpoll
  BY <1>1 DEF AddToEpoll, EnableReading, UpdateChannel, AskForSpace, Readable,
              Writable, TypeOK
<1>2. CASE Poll
  <2>1. nospace' \in BOOLEAN
    BY <1>2 DEF Poll, AskForSpace, Writable, TypeOK
  <2>2. happened' \in SUBSET {"in", "out"}
    BY <1>2 DEF Poll
  <2>. QED  BY <1>2, <2>1, <2>2 DEF Poll, TypeOK
<1>3. ASSUME NEW n \in 1 .. RcvCap, ReadSome(n)
      PROVE  TypeOK'
  <2>1. /\ n \in 1 .. Len(rcv) /\ rcv \in Seq(Unit) /\ input \in Seq(Unit)
        /\ Len(rcv) \in Nat /\ Len(rcv) <= RcvCap /\ RcvCap \in Nat
    BY <1>3, CapsAssumption DEF ReadSome, TypeOK
  <2>2. SubSeq(rcv, 1, n) \in Seq(Unit)
    BY <2>1, PartType
  <2>3. /\ SubSeq(rcv, n + 1, Len(rcv)) \in Seq(Unit)
        /\ Len(SubSeq(rcv, n + 1, Len(rcv))) <= RcvCap
    BY <2>1, PartType
  <2>4. input \o SubSeq(rcv, 1, n) \in Seq(Unit)
    BY <2>1, <2>2, JoinType
  <2>. QED  BY <1>3, <2>3, <2>4 DEF ReadSome, TypeOK
<1>4. CASE ReadEnds
  BY <1>4 DEF ReadEnds, TypeOK
<1>5. CASE ReadCloses
  BY <1>5 DEF ReadCloses, CloseConnection, AfterRead, TypeOK
<1>. QED  BY <1>1, <1>2, <1>3, <1>4, <1>5

\* What the application does with the input.
LEMMA TypeHandle ==
    ASSUME TypeOK, HandleMessage \/ RefuseMessage \/ AwaitMore
    PROVE  TypeOK'
<1> USE DEF client, kernel, conn
<1>1. CASE HandleMessage
  <2>1. HasHeader /\ 1 + Length(First) >= 0 /\ pc = "handle"
    BY <1>1 DEF HandleMessage, IsComplete
  <2>2. First \in Messages /\ Length(First) \in Int
    BY <2>1, FirstType
  <2>3. input \in Seq(Unit) /\ output \in Seq(Unit) /\ Len(input) \in Nat
    BY DEF TypeOK
  <2>4. input' \in Seq(Unit)
    <3>1. SubSeq(input, 2 + Length(First), Len(input)) \in Seq(Unit)
      BY <2>1, <2>2, <2>3, PartType
    <3>. QED  BY <1>1, <3>1 DEF HandleMessage
  <2>5. output \o Reply(First) \in Seq(Unit)
    BY <2>2, <2>3, ReplyType, JoinType
  <2>6. UNCHANGED <<client, rcv, snd, happened, disc, pc>>
    BY <1>1 DEF HandleMessage
  <2>7. /\ output' \in Seq(Unit) /\ writing' \in BOOLEAN
        /\ armed' \in BOOLEAN /\ nospace' \in BOOLEAN
    <3>1. CASE disc
      BY <1>1, <3>1 DEF HandleMessage, TypeOK
    <3>2. CASE ~disc
      BY <1>1, <2>5, <3>2 DEF HandleMessage, WriteTo, EnableWriting,
                  UpdateChannel, AskForSpace, Readable, Writable, TypeOK
    <3>. QED  BY <3>1, <3>2
  <2>. QED  BY <2>4, <2>6, <2>7 DEF TypeOK
<1>2. CASE RefuseMessage
  BY <1>2 DEF RefuseMessage, CloseConnection, TypeOK
<1>3. CASE AwaitMore
  BY <1>3 DEF AwaitMore, AfterRead, TypeOK
<1>. QED  BY <1>1, <1>2, <1>3

\* What the loop does to send, and at the end of the round.
LEMMA TypeSend ==
    ASSUME TypeOK,
           \/ \E n \in 1 .. SndCap : SendSome(n)
           \/ SendBlocks \/ SendCloses \/ SendEnds \/ SendSkipped
           \/ EndRound
    PROVE  TypeOK'
<1> USE DEF client, kernel, conn
<1>1. ASSUME NEW n \in 1 .. SndCap, SendSome(n)
      PROVE  TypeOK'
  <2>1. /\ n \in 1 .. Len(output) /\ output \in Seq(Unit)
        /\ snd \in Seq(Unit) /\ Len(output) \in Nat /\ Len(snd) \in Nat
        /\ Len(snd) + n <= SndCap
    <3>1. n \in 1 .. Len(output) /\ Len(snd) + n <= SndCap
      BY <1>1 DEF SendSome
    <3>2. output \in Seq(Unit) /\ snd \in Seq(Unit)
      BY DEF TypeOK
    <3>. QED  BY <3>1, <3>2, LenProperties
  <2>2. /\ SubSeq(output, 1, n) \in Seq(Unit)
        /\ Len(SubSeq(output, 1, n)) = n
    BY <2>1, PartType
  <2>3. SubSeq(output, n + 1, Len(output)) \in Seq(Unit)
    BY <2>1, PartType
  <2>4. /\ snd \o SubSeq(output, 1, n) \in Seq(Unit)
        /\ Len(snd \o SubSeq(output, 1, n)) <= SndCap
    BY <2>1, <2>2, JoinType
  <2>. QED  BY <1>1, <2>3, <2>4 DEF SendSome, TypeOK
<1>2. CASE SendBlocks
  BY <1>2 DEF SendBlocks, TypeOK
<1>3. CASE SendCloses
  BY <1>3 DEF SendCloses, CloseConnection, TypeOK
<1>4. CASE SendEnds
  BY <1>4 DEF SendEnds, DisableWriting, UpdateChannel, AskForSpace, Readable,
              Writable, TypeOK
<1>5. CASE SendSkipped
  BY <1>5 DEF SendSkipped, TypeOK
<1>6. CASE EndRound
  <2>2. /\ rcv' \in Seq(Unit) /\ Len(rcv') <= RcvCap
        /\ snd' \in Seq(Unit) /\ Len(snd') <= SndCap
        /\ armed' \in BOOLEAN
    <3>1. CASE disc
      BY <1>6, <3>1, EmptyQueue DEF EndRound, TypeOK
    <3>2. CASE ~disc
      BY <1>6, <3>2 DEF EndRound, TypeOK
    <3>. QED  BY <3>1, <3>2
  <2>3. UNCHANGED <<client, nospace, conn>>
    BY <1>6 DEF EndRound
  <2>4. PlaceOK'
    BY <1>6 DEF EndRound, TypeOK, PlaceOK
  <2>5. ClientOK' /\ ConnOK' /\ KernelOK'
    BY <2>2, <2>3 DEF TypeOK, ClientOK, ConnOK, KernelOK
  <2>. QED  BY <2>4, <2>5, TypeParts, PTL
<1>. QED  BY <1>1, <1>2, <1>3, <1>4, <1>5, <1>6

\* Every step keeps the types.
LEMMA TypeStep == TypeOK /\ [Next]_vars => TypeOK'
<1>1. TypeOK /\ (Finished \/ UNCHANGED vars) => TypeOK'
  <2> SUFFICES ASSUME TypeOK, UNCHANGED vars  PROVE TypeOK'
    BY DEF Finished
  <2>1. ClientOK' /\ KernelOK'
    BY TypeParts DEF vars, client, kernel, ClientOK, KernelOK
  <2>2. ConnOK' /\ PlaceOK'
    BY TypeParts DEF vars, conn, ConnOK, PlaceOK
  <2>. QED  BY <2>1, <2>2, TypeParts, PTL
<1>. QED
  BY <1>1, TypeClient, TypeRead, TypeHandle, TypeSend DEF Next, LoopStep

\* A callback runs only for an event that epoll reported, a closed connection
\* is not polled again, and the kernel's queues keep their bounds
\* (Channel.cpp:122-146).
THEOREM TypeCorrect == Spec => []TypeOK
BY TypeInit, TypeStep, PTL DEF Spec

-----------------------------------------------------------------------------
(* Every message taken out of the input is answered, in order.             *)

\* what the client is to get, has been sent and is still to be read
OnTheWay == Cat(Cat(got, snd), output)
NotTaken(n) == Cat(Cat(Requests(n), input), rcv)

\* n messages were taken out of the input, and answered
EchoesAt(n) ==
    /\ OnTheWay = Replies(n)
    /\ NotTaken(n) = SubSeq(Requests(NumMessages), 1, sent)

\* Echoes, with the number of messages named.
LEMMA EchoesMeans ==
    Echoes <=> (pc # "closed" /\ peer # "reset" /\ ~disc =>
                    \E n \in 0 .. NumMessages : EchoesAt(n))
BY DEF Echoes, EchoesAt, OnTheWay, NotTaken, Cat

Up == pc # "closed" /\ peer # "reset" /\ ~disc

\* The same of a connection that is up.
LEMMA EchoesIfMatched ==
    (\E n \in 0 .. NumMessages : EchoesAt(n)) \/ ~Up => Echoes
BY EchoesMeans DEF Up

\* The rules by which queues are joined and cut.
LEMMA JoinRules ==
    /\ \A s, t \in Seq(Unit) : Cat(s, t) \in Seq(Unit)
    /\ \A s \in Seq(Unit) : Cat(s, <<>>) = s /\ Cat(<<>>, s) = s
    /\ \A a, b, c \in Seq(Unit) : Cat(Cat(a, b), c) = Cat(a, Cat(b, c))
    /\ \A s \in Seq(Unit) : \A n \in 1 .. Len(s) :
          s = Cat(SubSeq(s, 1, n), SubSeq(s, n + 1, Len(s)))
<1>1. \A s, t \in Seq(Unit) : Cat(s, t) \in Seq(Unit)
  BY ConcatProperties DEF Cat
<1>2. \A s \in Seq(Unit) : Cat(s, <<>>) = s /\ Cat(<<>>, s) = s
  BY ConcatEmptySeq DEF Cat
<1>3. \A a, b, c \in Seq(Unit) : Cat(Cat(a, b), c) = Cat(a, Cat(b, c))
  BY ConcatIsAssociative
<1>4. \A s \in Seq(Unit) : \A n \in 1 .. Len(s) :
          s = Cat(SubSeq(s, 1, n), SubSeq(s, n + 1, Len(s)))
  <2> TAKE s \in Seq(Unit)
  <2> TAKE n \in 1 .. Len(s)
  <2>1. /\ 1 \in 1 .. Len(s) + 1 /\ n \in 1 - 1 .. Len(s)
        /\ Len(s) \in n .. Len(s)
    OBVIOUS
  <2>2. SubSeq(s, 1, n) \o SubSeq(s, n + 1, Len(s)) = SubSeq(s, 1, Len(s))
    BY <2>1, ConcatAdjacentSubSeq
  <2>3. SubSeq(s, 1, Len(s)) = s
    BY SubSeqFull
  <2>. QED  BY <2>2, <2>3 DEF Cat
<1>. QED  BY <1>1, <1>2, <1>3, <1>4

\* What the client sends comes after what it has sent.
LEMMA EchoSends ==
    ASSUME TypeOK, NEW n \in 0 .. NumMessages, EchoesAt(n),
           NEW k \in 1 .. RcvCap, ClientSends(k)
    PROVE  EchoesAt(n)'
<1> DEFINE all  == Requests(NumMessages)
           more == SubSeq(all, sent + 1, sent + k)
           old  == Cat(Requests(n), input)
<1>1. all \in Seq(Unit) /\ Requests(n) \in Seq(Unit)
  BY NumMessagesAssumption, RequestsType, TypeParts
<1>2. /\ UNCHANGED <<got, snd, output, body, input>>
      /\ sent' = sent + k /\ rcv' = Cat(rcv, more)
      /\ sent + k <= Len(all) /\ sent \in Nat /\ k \in Nat
      /\ rcv \in Seq(Unit) /\ input \in Seq(Unit)
  BY CapsAssumption DEF ClientSends, conn, TypeOK, Cat
<1>3. UNCHANGED <<OnTheWay, Replies(n), Requests(n), Requests(NumMessages)>>
  BY <1>2 DEF OnTheWay, Replies, Requests, Message
<1>4. old \in Seq(Unit)
  BY <1>1, <1>2, JoinRules
<1>5. NotTaken(n)' = Cat(old, Cat(rcv, more))
  BY <1>2, <1>3 DEF NotTaken
<1> HIDE DEF all, old
<1>6. more \in Seq(Unit)
  BY <1>1, <1>2, PartType
<1>7. SubSeq(all, 1, sent) \o more = SubSeq(all, 1, sent + k)
  <2>1. /\ 1 \in 1 .. Len(all) + 1 /\ sent \in 1 - 1 .. Len(all)
        /\ sent + k \in sent .. Len(all)
    BY <1>1, <1>2
  <2>. QED  BY <1>1, <2>1, ConcatAdjacentSubSeq
<1> HIDE DEF more
<1>8. NotTaken(n)' = Cat(Cat(old, rcv), more)
  BY <1>2, <1>4, <1>5, <1>6, JoinRules
<1>9. Cat(old, rcv) = SubSeq(all, 1, sent)
  BY DEF EchoesAt, NotTaken, all, old
<1>10. NotTaken(n)' = SubSeq(all, 1, sent + k)
  BY <1>7, <1>8, <1>9 DEF Cat
<1>. QED  BY <1>2, <1>3, <1>10 DEF EchoesAt, all

\* What the client receives is no longer in the kernel's queue.
LEMMA EchoReceives ==
    ASSUME TypeOK, NEW n \in 0 .. NumMessages, EchoesAt(n), ClientReceives
    PROVE  EchoesAt(n)'
<1>1. /\ UNCHANGED <<output, body, input, rcv, sent>>
      /\ snd # <<>> /\ snd \in Seq(Unit) /\ got \in Seq(Unit)
      /\ got' = Append(got, Head(snd)) /\ snd' = Tail(snd)
  BY DEF ClientReceives, conn, TypeOK
<1>2. Cat(got', snd') = Cat(got, snd)
  <2>1. Head(snd) \in Unit /\ Tail(snd) \in Seq(Unit)
    BY <1>1, HeadTailProperties
  <2>2. <<Head(snd)>> \in Seq(Unit) /\ snd = Cat(<<Head(snd)>>, Tail(snd))
    BY <1>1, <2>1 DEF Cat
  <2>3. got' = Cat(got, <<Head(snd)>>)
    BY <1>1, <2>1, AppendIsConcat DEF Cat
  <2>4. Cat(Cat(got, <<Head(snd)>>), Tail(snd))
          = Cat(got, Cat(<<Head(snd)>>, Tail(snd)))
    <3>1. \A a, b, c \in Seq(Unit) : Cat(Cat(a, b), c) = Cat(a, Cat(b, c))
      BY JoinRules
    <3>. QED  BY <1>1, <2>1, <2>2, <3>1, Zenon
  <2>. QED  BY <1>1, <2>2, <2>3, <2>4
<1>3. UNCHANGED OnTheWay
  BY <1>1, <1>2 DEF OnTheWay
<1>4. UNCHANGED <<NotTaken(n), Replies(n), Requests(NumMessages)>>
  BY <1>1 DEF NotTaken, Replies, Requests, Message
<1>. QED  BY <1>1, <1>3, <1>4 DEF EchoesAt

\* readFd moves bytes from the socket to the end of the input.
LEMMA EchoReads ==
    ASSUME TypeOK, NEW n \in 0 .. NumMessages, EchoesAt(n),
           NEW k \in 1 .. RcvCap, ReadSome(k)
    PROVE  EchoesAt(n)'
<1> DEFINE a == SubSeq(rcv, 1, k)
           b == SubSeq(rcv, k + 1, Len(rcv))
           r == Requests(n)
<1>1. /\ UNCHANGED <<output, body, got, snd, sent>>
      /\ rcv \in Seq(Unit) /\ input \in Seq(Unit) /\ Len(rcv) \in Nat
      /\ k \in 1 .. Len(rcv)
      /\ input' = Cat(input, a) /\ rcv' = b
  BY DEF ReadSome, client, TypeOK, Cat
<1>2. r \in Seq(Unit)
  BY RequestsType, TypeParts
<1>3. a \in Seq(Unit) /\ b \in Seq(Unit) /\ rcv = Cat(a, b)
  <2>1. /\ k \in Int /\ 1 <= k /\ k <= Len(rcv) /\ k + 1 \in Int
        /\ 1 <= k + 1 /\ Len(rcv) \in Int
    BY <1>1
  <2>2. a \in Seq(Unit) /\ b \in Seq(Unit)
    BY <1>1, <2>1, PartType
  <2>3. rcv = Cat(a, b)
    BY <1>1, JoinRules, Zenon
  <2>. QED  BY <2>2, <2>3
<1>4. UNCHANGED <<OnTheWay, Replies(n), r, Requests(NumMessages)>>
  BY <1>1 DEF OnTheWay, Replies, Requests, Message
<1>5. NotTaken(n)' = Cat(Cat(r, Cat(input, a)), b)
  BY <1>1, <1>4 DEF NotTaken
<1> HIDE DEF a, b, r
<1>6. Cat(r, input) \in Seq(Unit)
  BY <1>1, <1>2, JoinRules
<1>7. Cat(r, Cat(input, a)) = Cat(Cat(r, input), a)
  BY <1>1, <1>2, <1>3, JoinRules
<1>8. Cat(Cat(Cat(r, input), a), b) = Cat(Cat(r, input), Cat(a, b))
  BY <1>3, <1>6, JoinRules
<1>9. NotTaken(n)' = NotTaken(n)
  BY <1>3, <1>5, <1>7, <1>8 DEF NotTaken, r
<1>. QED  BY <1>1, <1>4, <1>9 DEF EchoesAt

\* send moves bytes from the front of the output to the socket.
LEMMA EchoWrites ==
    ASSUME TypeOK, NEW n \in 0 .. NumMessages, EchoesAt(n),
           NEW k \in 1 .. SndCap, SendSome(k)
    PROVE  EchoesAt(n)'
<1> DEFINE a == SubSeq(output, 1, k)
           b == SubSeq(output, k + 1, Len(output))
<1>1. /\ UNCHANGED <<input, body, got, rcv, sent>>
      /\ output \in Seq(Unit) /\ snd \in Seq(Unit) /\ Len(output) \in Nat
      /\ got \in Seq(Unit)
      /\ k \in 1 .. Len(output)
      /\ snd' = Cat(snd, a) /\ output' = b
  BY DEF SendSome, client, TypeOK, Cat
<1>2. a \in Seq(Unit) /\ b \in Seq(Unit) /\ output = Cat(a, b)
  <2>1. /\ k \in Int /\ 1 <= k /\ k <= Len(output) /\ k + 1 \in Int
        /\ 1 <= k + 1 /\ Len(output) \in Int
    BY <1>1
  <2>2. a \in Seq(Unit) /\ b \in Seq(Unit)
    BY <1>1, <2>1, PartType
  <2>3. output = Cat(a, b)
    BY <1>1, JoinRules, Zenon
  <2>. QED  BY <2>2, <2>3
<1>3. UNCHANGED <<NotTaken(n), Replies(n), Requests(NumMessages)>>
  BY <1>1 DEF NotTaken, Replies, Requests, Message
<1>4. OnTheWay' = Cat(Cat(got, Cat(snd, a)), b)
  BY <1>1 DEF OnTheWay
<1> HIDE DEF a, b
<1>5. Cat(got, snd) \in Seq(Unit)
  BY <1>1, JoinRules
<1>6. Cat(got, Cat(snd, a)) = Cat(Cat(got, snd), a)
  BY <1>1, <1>2, JoinRules
<1>7. Cat(Cat(Cat(got, snd), a), b) = Cat(Cat(got, snd), Cat(a, b))
  BY <1>2, <1>5, JoinRules
<1>8. OnTheWay' = OnTheWay
  BY <1>2, <1>4, <1>6, <1>7 DEF OnTheWay
<1>. QED  BY <1>1, <1>3, <1>8 DEF EchoesAt

\* The client sends no more than its messages.
SentBound == sent <= Len(Requests(NumMessages))

\* What lies between two queues of three that are joined.
LEMMA MiddleOf ==
    ASSUME NEW a \in Seq(Unit), NEW b \in Seq(Unit), NEW c \in Seq(Unit)
    PROVE  /\ Len(Cat(Cat(a, b), c)) = Len(a) + Len(b) + Len(c)
           /\ \A i \in 1 .. Len(b) : Cat(Cat(a, b), c)[Len(a) + i] = b[i]
<1> DEFINE ab == a \o b
<1>1. /\ Len(a) \in Nat /\ Len(b) \in Nat /\ Len(c) \in Nat
      /\ ab \in Seq(Unit) /\ Len(ab) = Len(a) + Len(b)
  BY ConcatProperties, LenProperties
<1>2. \A i \in 1 .. Len(b) : ab[Len(a) + i] = b[i]
  BY <1>1
<1> HIDE DEF ab
<1>3. Len(ab \o c) = Len(ab) + Len(c)
  BY <1>1, ConcatProperties
<1>4. \A i \in 1 .. Len(ab) : (ab \o c)[i] = ab[i]
  BY <1>1
<1>5. \A i \in 1 .. Len(b) : Len(a) + i \in 1 .. Len(ab)
  BY <1>1
<1>6. ab \o c = Cat(Cat(a, b), c)
  BY DEF Cat, ab
<1>. QED  BY <1>1, <1>2, <1>3, <1>4, <1>5, <1>6

\* A length that is read as a negative number makes no message complete.
LEMMA LengthIsBody ==
    ASSUME NEW n \in Messages, body[n] \in Nat, body[n] \in Bodies,
           1 + Length(n) >= 0
    PROVE  Length(n) = body[n]
<1>1. 1 + body[n] < IntSize /\ IntSize \in Nat
  BY SumAssumption, IntSizeAssumption
<1>. QED  BY <1>1 DEF Length

\* The message that is complete is the next one of the client, whole
\* (EchoServer.cpp:42-80).
LEMMA NextAtFront ==
    ASSUME TypeOK, SentBound, NEW n \in 0 .. NumMessages,
           NotTaken(n) = SubSeq(Requests(NumMessages), 1, sent), IsComplete
    PROVE  /\ n < NumMessages
           /\ First = n + 1
           /\ input = Cat(Message(n + 1),
                          SubSeq(input, 2 + Length(First), Len(input)))
<1> DEFINE u == Requests(NumMessages)
           r == Requests(n)
           m == Message(n + 1)
<1>1. /\ u \in Seq(Unit) /\ r \in Seq(Unit)
      /\ input \in Seq(Unit) /\ rcv \in Seq(Unit) /\ sent \in Nat
      /\ Len(u) \in Nat /\ Len(r) \in Nat /\ Len(input) \in Nat
      /\ Len(rcv) \in Nat /\ sent <= Len(u) /\ Len(input) > 1
  BY NumMessagesAssumption, RequestsType, TypeParts
     DEF TypeOK, SentBound, IsComplete, HasHeader
<1>2. (r \o input) \o rcv = SubSeq(u, 1, sent)
  BY DEF NotTaken, Cat
<1> HIDE DEF u, r
<1>3. Len(r) + Len(input) + Len(rcv) = sent
  <2>1. Len(SubSeq(u, 1, sent)) = sent
    BY <1>1
  <2>2. Len(Cat(Cat(r, input), rcv)) = Len(r) + Len(input) + Len(rcv)
    BY <1>1, MiddleOf
  <2>. QED  BY <1>2, <2>1, <2>2 DEF Cat
<1>4. n < NumMessages
  <2>1. n # NumMessages
    <3> SUFFICES ASSUME n = NumMessages  PROVE FALSE
      OBVIOUS
    <3>1. u = r
      BY DEF u, r
    <3>. QED  BY <1>1, <1>3, <3>1
  <2>. QED  BY <2>1, NumMessagesAssumption
<1>5. n + 1 \in Messages /\ n + 1 \in 0 .. NumMessages /\ n + 1 \in Nat
  BY <1>4, NumMessagesAssumption DEF Messages
<1>6. /\ m \in Seq(Unit) /\ Len(m) = 1 + body[n + 1] /\ m[1] = <<n + 1, 0>>
      /\ body[n + 1] \in Nat /\ body[n + 1] \in Bodies
  BY <1>5, MessageType, TypeParts
<1>7. PICK z \in Seq(Unit) : u = (r \o m) \o z
  <2>1. PICK z \in Seq(Unit) : u = Requests(n + 1) \o z
    BY <1>5, RequestsSplit, TypeParts DEF u
  <2>2. Requests(n + 1) = r \o m
    BY <1>4, NextRequest, TypeParts DEF r
  <2>. QED  BY <2>1, <2>2
<1> HIDE DEF m
<1>8. \A i \in 1 .. Len(input) : i <= Len(m) => input[i] = m[i]
  <2> SUFFICES ASSUME NEW i \in 1 .. Len(input), i <= Len(m)
               PROVE  input[i] = m[i]
    OBVIOUS
  <2>1. i \in 1 .. Len(m) /\ Len(r) + i \in 1 .. sent
    <3>1. m \in Seq(Unit) /\ Len(m) \in Nat
      BY <1>6
    <3>2. i \in 1 .. Len(m)
      BY <3>1
    <3>3. Len(r) + i \in 1 .. sent
      BY <1>1, <1>3
    <3>. QED  BY <3>2, <3>3
  <2>2. Cat(Cat(r, input), rcv)[Len(r) + i] = input[i]
    <3>1. r \in Seq(Unit) /\ input \in Seq(Unit) /\ rcv \in Seq(Unit)
      BY <1>1
    <3>2. \A j \in 1 .. Len(input) :
              Cat(Cat(r, input), rcv)[Len(r) + j] = input[j]
      BY <3>1, MiddleOf
    <3>. QED  BY <3>2
  <2>3. Cat(Cat(r, m), z)[Len(r) + i] = m[i]
    <3>1. r \in Seq(Unit) /\ m \in Seq(Unit) /\ z \in Seq(Unit)
      BY <1>1, <1>6
    <3>2. \A j \in 1 .. Len(m) : Cat(Cat(r, m), z)[Len(r) + j] = m[j]
      BY <3>1, MiddleOf
    <3>. QED  BY <2>1, <3>2
  <2>4. SubSeq(u, 1, sent)[Len(r) + i] = u[Len(r) + i]
    BY <1>1, <2>1
  <2>. QED  BY <1>2, <1>7, <2>2, <2>3, <2>4 DEF Cat
<1>9. First = n + 1
  <2>1. input[1] = <<n + 1, 0>>
    <3>1. 1 <= Len(m)
      BY <1>6
    <3>2. 1 \in 1 .. Len(input)
      <4>1. Len(input) \in Nat /\ Len(input) >= 1
        BY <1>1
      <4>. QED  BY <4>1
    <3>. QED  BY <1>6, <1>8, <3>1, <3>2
  <2>. QED  BY <2>1 DEF First
<1>10. Length(First) = body[n + 1]
  BY <1>5, <1>6, <1>9, LengthIsBody DEF IsComplete
<1>11. Len(m) \in 1 .. Len(input)
  BY <1>1, <1>6, <1>10 DEF IsComplete
<1>12. SubSeq(input, 1, Len(m)) = m
  <2> DEFINE s == SubSeq(input, 1, Len(m))
  <2>1. /\ s \in Seq(Unit) /\ Len(s) = Len(m)
        /\ \A i \in 1 .. Len(m) : s[i] = input[i]
    BY <1>1, <1>11
  <2>2. \A i \in 1 .. Len(m) : s[i] = m[i]
    BY <1>1, <1>8, <1>11, <2>1
  <2> HIDE DEF s
  <2>3. s = m
    BY <1>6, <2>1, <2>2, SeqEqual
  <2>. QED  BY <2>3 DEF s
<1>13. input = Cat(m, SubSeq(input, Len(m) + 1, Len(input)))
  <2>1. input = Cat(SubSeq(input, 1, Len(m)),
                    SubSeq(input, Len(m) + 1, Len(input)))
    BY <1>1, <1>11, JoinRules, Zenon
  <2>. QED  BY <1>12, <2>1
<1>14. Len(m) + 1 = 2 + Length(First)
  BY <1>6, <1>10
<1>. QED  BY <1>4, <1>9, <1>13, <1>14 DEF m

\* A message is taken out of the input and its reply joins the output.
LEMMA EchoHandles ==
    ASSUME TypeOK, SentBound, NEW n \in 0 .. NumMessages, EchoesAt(n),
           HandleMessage, ~disc
    PROVE  n + 1 \in 0 .. NumMessages /\ EchoesAt(n + 1)'
<1> DEFINE m == Message(n + 1)
           left == SubSeq(input, 2 + Length(First), Len(input))
           r == Requests(n)
           answer == Reply(n + 1)
<1>1. /\ n < NumMessages /\ First = n + 1 /\ input = Cat(m, left)
      /\ IsComplete
  BY NextAtFront DEF EchoesAt, HandleMessage
<1>2. /\ UNCHANGED <<body, got, snd, rcv, sent>>
      /\ input' = left /\ output' = Cat(output, answer)
  BY <1>1 DEF HandleMessage, WriteTo, client, Cat
<1>3. /\ n + 1 \in Messages /\ n + 1 \in 0 .. NumMessages
      /\ n + 1 \in Nat
  BY <1>1, NumMessagesAssumption DEF Messages
<1>4. UNCHANGED <<Replies(n + 1), Requests(n + 1), Requests(NumMessages)>>
  BY <1>2 DEF Replies, Requests, Message
<1>5. Requests(n + 1) = Cat(r, m) /\ Replies(n + 1) = Cat(Replies(n), answer)
  BY <1>1, NextRequest, TypeParts DEF Cat
<1>6. /\ r \in Seq(Unit) /\ m \in Seq(Unit) /\ answer \in Seq(Unit)
      /\ got \in Seq(Unit) /\ snd \in Seq(Unit) /\ output \in Seq(Unit)
      /\ rcv \in Seq(Unit)
  BY <1>3, RequestsType, MessageType, ReplyType, TypeParts DEF TypeOK
<1>7. left \in Seq(Unit)
  <2>1. input \in Seq(Unit) /\ Len(input) \in Nat
    BY DEF TypeOK
  <2>2. Length(First) \in Int /\ 1 <= 2 + Length(First)
    BY <1>1, FirstType DEF IsComplete
  <2>. QED  BY <2>1, <2>2, PartType
<1> HIDE DEF m, left, r, answer
<1>8. OnTheWay' = Replies(n + 1)
  <2>1. OnTheWay' = Cat(Cat(got, snd), Cat(output, answer))
    BY <1>2 DEF OnTheWay
  <2>2. Cat(got, snd) \in Seq(Unit)
    BY <1>6, JoinRules
  <2>3. OnTheWay' = Cat(OnTheWay, answer)
    BY <1>6, <2>1, <2>2, JoinRules DEF OnTheWay
  <2>. QED  BY <1>5, <2>3 DEF EchoesAt
<1>9. NotTaken(n + 1)' = NotTaken(n)
  <2>1. NotTaken(n + 1)' = Cat(Cat(Cat(r, m), left), rcv)
    BY <1>2, <1>4, <1>5 DEF NotTaken
  <2>2. Cat(Cat(r, m), left) = Cat(r, Cat(m, left))
    BY <1>6, <1>7, JoinRules
  <2>. QED  BY <1>1, <2>1, <2>2 DEF NotTaken, r
<1>. QED  BY <1>2, <1>3, <1>4, <1>8, <1>9 DEF EchoesAt

-----------------------------------------------------------------------------
EchoInv == TypeOK /\ SentBound /\ Echoes

\* No message has been sent at first, and none answered.
LEMMA EchoInit == Init => EchoInv
<1> SUFFICES ASSUME Init  PROVE EchoInv
  OBVIOUS
<1>1. TypeOK
  BY TypeInit
<1> DEFINE u == Requests(NumMessages)
<1>2. u \in Seq(Unit) /\ Len(u) \in Nat
  BY <1>1, NumMessagesAssumption, RequestsType, TypeParts, LenProperties
<1>3. 0 \in 0 .. NumMessages
  BY NumMessagesAssumption
<1>4. SubSeq(u, 1, 0) = <<>>
  BY <1>2
<1>5. Cat(Cat(<<>>, <<>>), <<>>) = <<>>
  BY EmptySeq, JoinRules
<1>6. EchoesAt(0)
  BY <1>4, <1>5, NoRequests DEF Init, EchoesAt, OnTheWay, NotTaken
<1>. QED  BY <1>1, <1>2, <1>3, <1>6, EchoesMeans DEF Init, EchoInv, SentBound

\* The messages of the client are settled.
LEMMA SentStep ==
    ASSUME TypeOK, SentBound, [Next]_vars
    PROVE  SentBound'
<1>1. body' = body
  BY DEF Next, ClientStep, LoopStep, Finished, ClientSends, ClientShutsDown,
         ClientResets, ClientReceives, AddToEpoll, Poll, ReadSome, ReadEnds,
         ReadCloses, HandleMessage, RefuseMessage, AwaitMore, SendSome,
         SendBlocks, SendCloses, SendEnds, SendSkipped, EndRound, vars, client
<1>2. UNCHANGED Requests(NumMessages)
  BY <1>1 DEF Requests, Message
<1>3. sent' = sent \/ sent' <= Len(Requests(NumMessages))
  BY DEF Next, ClientStep, LoopStep, Finished, ClientSends, ClientShutsDown,
         ClientResets, ClientReceives, AddToEpoll, Poll, ReadSome, ReadEnds,
         ReadCloses, HandleMessage, RefuseMessage, AwaitMore, SendSome,
         SendBlocks, SendCloses, SendEnds, SendSkipped, EndRound, vars, client
<1>. QED  BY <1>2, <1>3 DEF SentBound

\* A connection that is up was up before.
LEMMA UpBefore ==
    ASSUME [Next]_vars, Up'
    PROVE  Up
BY DEF Up, Next, ClientStep, LoopStep, Finished, ClientSends,
       ClientShutsDown, ClientResets, ClientReceives, AddToEpoll, Poll,
       ReadSome, ReadEnds, ReadCloses, HandleMessage, RefuseMessage,
       AwaitMore, SendSome, SendBlocks, SendCloses, SendEnds, SendSkipped,
       EndRound, CloseConnection, AfterRead, vars, client, kernel, conn

\* A step that moves no part leaves the queues as they are.
LEMMA EchoRests ==
    ASSUME NEW n \in 0 .. NumMessages, EchoesAt(n),
           UNCHANGED <<body, sent, got, snd, output, input, rcv>>
    PROVE  EchoesAt(n)'
<1>1. UNCHANGED <<OnTheWay, NotTaken(n)>>
  BY DEF OnTheWay, NotTaken, Requests, Message
<1>2. UNCHANGED <<Replies(n), Requests(NumMessages)>>
  BY DEF Replies, Requests, Message
<1>. QED  BY <1>1, <1>2 DEF EchoesAt

\* Every step of a connection that stays up keeps the queues matched.
LEMMA EchoStep ==
    ASSUME EchoInv, [Next]_vars
    PROVE  Echoes'
<1> DEFINE moved == <<body, sent, got, snd, output, input, rcv>>
<1> SUFFICES ASSUME Up'  PROVE (\E n \in 0 .. NumMessages : EchoesAt(n))'
  <2>1. (\E n \in 0 .. NumMessages : EchoesAt(n))' \/ ~Up' => Echoes'
    BY EchoesIfMatched, PTL
  <2>. QED  BY <2>1
<1>1. Up
  BY UpBefore
<1>2. PICK n \in 0 .. NumMessages : EchoesAt(n)
  BY <1>1, EchoesMeans DEF EchoInv, Up
<1>3. CASE \E k \in 1 .. RcvCap : ClientSends(k)
  BY <1>2, <1>3, EchoSends DEF EchoInv
<1>4. CASE ClientReceives
  BY <1>2, <1>4, EchoReceives DEF EchoInv
<1>5. CASE \E k \in 1 .. RcvCap : ReadSome(k)
  BY <1>2, <1>5, EchoReads DEF EchoInv
<1>6. CASE HandleMessage
  BY <1>1, <1>2, <1>6, EchoHandles DEF EchoInv, Up
<1>7. CASE \E k \in 1 .. SndCap : SendSome(k)
  BY <1>2, <1>7, EchoWrites DEF EchoInv
<1>8. CASE UNCHANGED moved
  BY <1>2, <1>8, EchoRests
<1>9. CASE ClientResets
  BY <1>9 DEF ClientResets, Up
<1>10. \/ \E k \in 1 .. RcvCap : ClientSends(k)
       \/ ClientReceives
       \/ \E k \in 1 .. RcvCap : ReadSome(k)
       \/ HandleMessage
       \/ \E k \in 1 .. SndCap : SendSome(k)
       \/ ClientResets
       \/ UNCHANGED moved
  BY <1>1 DEF Up, Next, ClientStep, LoopStep, Finished, ClientShutsDown,
              AddToEpoll, Poll, ReadEnds, ReadCloses, RefuseMessage,
              AwaitMore, SendBlocks, SendCloses, SendEnds, SendSkipped,
              EndRound, vars, client, kernel, conn
<1>. QED  BY <1>3, <1>4, <1>5, <1>6, <1>7, <1>8, <1>9, <1>10

\* While a connection is up, no message and no reply is lost, repeated or
\* mixed between the socket, the buffers and the application, however the
\* bytes are cut (Connection.cpp:83-230, EchoServer.cpp:42-80).
THEOREM MessagesAreEchoed == Spec => []Echoes
<1>1. EchoInv /\ [Next]_vars => EchoInv'
  BY TypeStep, SentStep, EchoStep DEF EchoInv
<1>2. EchoInv => Echoes
  BY DEF EchoInv
<1>. QED  BY <1>1, <1>2, EchoInit, PTL DEF Spec
=============================================================================

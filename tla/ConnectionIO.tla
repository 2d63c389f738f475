---------------------------- MODULE ConnectionIO ----------------------------
(***************************************************************************)
(* Input and output of one served connection, in the thread of its loop:   *)
(* the edge-triggered channel (Channel, Epoll), the two buffers of         *)
(* Connection, and the messages that EchoServer finds in the input and     *)
(* answers at once, as it does without a worker pool.                      *)
(*                                                                         *)
(* A message is a header, which holds the length, and that many parts; the *)
(* header of message n is <<n, 0>>, its parts are <<n, 1>>, <<n, 2>>, ...  *)
(* A header that arrives in pieces is to the server one that has not       *)
(* arrived.  A reply has a header and one part.  The life of the object is *)
(* in Reactor: here it ends at "closed", and never by the idle timeout.    *)
(***************************************************************************)
EXTENDS Integers, SequencesExt

CONSTANTS
    NumMessages,    \* bound: messages the client may send
    Bodies,         \* numbers of parts a message may have
    Oversized,      \* a message with so many is refused (64 MB)
    IntSize,        \* the values of an int (2^32)
    RcvCap,         \* parts the kernel holds for the server to read
    SndCap          \* parts it holds for the client to read

ASSUME NumMessagesAssumption == NumMessages \in Nat
ASSUME BodiesAssumption == Bodies \subseteq Nat
ASSUME OversizedAssumption == Oversized \in Nat \ {0}
ASSUME IntSizeAssumption == IntSize \in Nat \ {0}
\* the header and the body together neither exceed an int nor are exactly all
\* of its values
ASSUME SumAssumption ==
    \A b \in Bodies : 2 * (1 + b) # IntSize /\ 1 + b < IntSize
ASSUME CapsAssumption == RcvCap \in Nat \ {0} /\ SndCap \in Nat \ {0}

VARIABLES
    body,       \* body[n]: parts of the n-th message of this client
    sent,       \* how much of its messages the client has sent
    peer,       \* the client's side: "open", "half" (FIN sent) or "reset"
    got,        \* what the client has received
    rcv, snd,   \* the kernel's receive and send queues of the socket
    armed,      \* the socket is in epoll's ready list
    nospace,    \* SOCK_NOSPACE: the kernel owes an event when snd has room
    writing,    \* EPOLLOUT is in m_events
    happened,   \* m_happenevents
    input,      \* m_inputbuf
    output,     \* m_outputbuf
    disc,       \* m_disconnect, and marked for deletion
    pc          \* where the loop is with this connection: "new", "poll",
                \* "read", "handle", "write", "end" or "closed"

client == <<body, sent, peer, got>>
kernel == <<rcv, snd, armed, nospace>>
conn   == <<writing, happened, input, output, disc>>
vars == <<client, kernel, conn, pc>>

Messages == 1 .. NumMessages
Message(n) == [k \in 1 .. 1 + body[n] |-> <<n, k - 1>>]
Reply(n) == <<<<n, 0>>, <<n, 1>>>>

\* the first n messages, and the replies to them
Requests(n) == FlattenSeq([i \in 1 .. n |-> Message(i)])
Replies(n)  == FlattenSeq([i \in 1 .. n |-> Reply(i)])

Unit == Messages \X Nat

\* The types, and where the loop can be with which events and with a closed
\* connection: a callback runs only for an event that epoll reported
\* (Channel.cpp:122-146).
TypeOK ==
    /\ body \in [Messages -> Bodies]
    /\ sent \in Nat
    /\ peer \in {"open", "half", "reset"}
    /\ got \in Seq(Unit)
    /\ rcv \in Seq(Unit) /\ Len(rcv) <= RcvCap
    /\ snd \in Seq(Unit) /\ Len(snd) <= SndCap
    /\ armed \in BOOLEAN
    /\ nospace \in BOOLEAN
    /\ writing \in BOOLEAN
    /\ happened \in SUBSET {"in", "out"}
    /\ input \in Seq(Unit)
    /\ output \in Seq(Unit)
    /\ disc \in BOOLEAN
    /\ pc \in {"new", "poll", "read", "handle", "write", "end", "closed"}
    /\ pc \in {"read", "handle"} => "in" \in happened
    /\ pc = "write" => "out" \in happened
    /\ disc => pc \in {"handle", "write", "end", "closed"}

Init ==
    /\ body \in [Messages -> Bodies]
    /\ sent = 0
    /\ peer = "open"
    /\ got = <<>>
    /\ rcv = <<>> /\ snd = <<>>
    /\ armed = FALSE
    /\ nospace = FALSE
    /\ writing = FALSE
    /\ happened = {}
    /\ input = <<>> /\ output = <<>>
    /\ disc = FALSE
    /\ pc = "new"

-----------------------------------------------------------------------------
(* The client, and the kernel of the server.                               *)

Open == pc # "closed"

\* what poll() on the socket reports; after a reset every call returns
Readable == rcv # <<>> \/ peer # "open"
Writable == Len(snd) < SndCap \/ peer = "reset"

\* a new event puts a registered socket in the ready list
Event == armed' = (pc # "new")

ClientSends(n) ==
    /\ Open
    /\ peer = "open"
    /\ sent + n <= Len(Requests(NumMessages))
    /\ Len(rcv) + n <= RcvCap
    /\ sent' = sent + n
    /\ rcv' = rcv \o SubSeq(Requests(NumMessages), sent + 1, sent + n)
    /\ Event
    /\ UNCHANGED <<body, peer, got, snd, nospace, conn, pc>>

ClientShutsDown ==
    /\ Open
    /\ peer = "open"
    /\ peer' = "half"
    /\ Event
    /\ UNCHANGED <<body, sent, got, rcv, snd, nospace, conn, pc>>

ClientResets ==
    /\ Open
    /\ peer # "reset"
    /\ peer' = "reset"
    /\ snd' = <<>>
    /\ Event
    /\ UNCHANGED <<body, sent, got, rcv, nospace, conn, pc>>

\* room in snd is an event only for a socket that was seen to have none
ClientReceives ==
    /\ snd # <<>>
    /\ got' = Append(got, Head(snd))
    /\ snd' = Tail(snd)
    /\ armed' = (armed \/ (nospace /\ writing))
    /\ nospace' = FALSE
    /\ UNCHANGED <<body, sent, peer, rcv, conn, pc>>

\* polling a socket without room asks for an event when there is some
AskForSpace == nospace' = (nospace \/ ~Writable)

-----------------------------------------------------------------------------
(* Channel and Epoll.                                                      *)

\* updatechannel, by epoll_ctl: a socket that is ready is reported anew
UpdateChannel(out) ==
    /\ writing' = out
    /\ armed' = (armed \/ Readable \/ (out /\ Writable))
    /\ AskForSpace

\* EPOLLIN is asked for from here on, and never given up
EnableReading  == UpdateChannel(writing)
EnableWriting  == UpdateChannel(TRUE)
DisableWriting == UpdateChannel(FALSE)

\* addToEpoll
AddToEpoll ==
    /\ pc = "new"
    /\ EnableReading
    /\ pc' = "poll"
    /\ UNCHANGED <<client, rcv, snd, happened, input, output, disc>>

\* epoll_wait and handleevents; a socket that is not ready after all is not
\* reported, and is not in the ready list any more in either case
Poll ==
    /\ pc = "poll"
    /\ armed
    /\ armed' = FALSE
    /\ AskForSpace
    /\ happened' = (IF Readable THEN {"in"} ELSE {}) \cup
                   (IF writing /\ Writable THEN {"out"} ELSE {})
    /\ pc' = IF "in" \in happened' THEN "read"
             ELSE IF "out" \in happened' THEN "write"
             ELSE "poll"
    /\ UNCHANGED <<client, rcv, snd, writing, input, output, disc>>

\* Operators named Bug... are plausible mistakes in the operation that follows
\* them: no action uses them, each breaks one property.

\* the writable callback is called whatever epoll reported
BugAfterRead == pc' = "write"

\* onmessage has returned: the writable flag is next
AfterRead == pc' = IF "out" \in happened THEN "write" ELSE "end"

\* closeconnection
CloseConnection == disc' = TRUE

-----------------------------------------------------------------------------
(* Connection::onmessage.                                                  *)

\* one read per event, as with a level-triggered socket
BugReadSome(n) ==
    /\ pc = "read"
    /\ n \in 1 .. Len(rcv)
    /\ input' = input \o SubSeq(rcv, 1, n)
    /\ rcv' = SubSeq(rcv, n + 1, Len(rcv))
    /\ pc' = "handle"
    /\ UNCHANGED <<client, snd, armed, nospace, writing, happened, output,
                   disc>>

\* readFd returns some bytes: as many as it had room for
ReadSome(n) ==
    /\ pc = "read"
    /\ n \in 1 .. Len(rcv)
    /\ input' = input \o SubSeq(rcv, 1, n)
    /\ rcv' = SubSeq(rcv, n + 1, Len(rcv))
    /\ UNCHANGED <<client, snd, armed, nospace, writing, happened, output,
                   disc, pc>>

\* EAGAIN; or end of file, with bytes in m_inputbuf
ReadEnds ==
    /\ pc = "read"
    /\ rcv = <<>>
    /\ \/ peer = "open"
       \/ peer = "half" /\ input # <<>>
    /\ pc' = "handle"
    /\ UNCHANGED <<client, kernel, conn>>

\* end of file is taken for EAGAIN
BugReadCloses ==
    /\ pc = "read"
    /\ rcv = <<>>
    /\ peer = "reset"
    /\ CloseConnection
    /\ AfterRead
    /\ UNCHANGED <<client, kernel, writing, happened, input, output>>

\* end of file with nothing left to do, or an error
ReadCloses ==
    /\ pc = "read"
    /\ rcv = <<>>
    /\ \/ peer = "reset"
       \/ peer = "half" /\ input = <<>>
    /\ CloseConnection
    /\ AfterRead
    /\ UNCHANGED <<client, kernel, writing, happened, input, output>>

-----------------------------------------------------------------------------
(* EchoServer::HandleOnMessage, the loop over m_inputbuf.                  *)

\* more than a header is there to be looked at
HasHeader == Len(input) > 1
First == input[1][1]

\* peekInt32: the client writes an unsigned length, the server reads an int
Length(n) == IF 2 * body[n] < IntSize THEN body[n] ELSE body[n] - IntSize

\* the sum becomes unsigned when it is compared with the size of the input: a
\* negative one is larger than that
IsComplete ==
    /\ HasHeader
    /\ 1 + Length(First) >= 0
    /\ Len(input) >= 1 + Length(First)

\* writeTo leaves the interest in EPOLLOUT as it is
BugWriteTo(msg) ==
    /\ output' = output \o msg
    /\ UNCHANGED <<writing, armed, nospace>>

\* Connection::writeTo
WriteTo(msg) ==
    /\ output' = output \o msg
    /\ EnableWriting

\* the message is taken out and OnMessage sends the reply
HandleMessage ==
    /\ pc = "handle"
    /\ IsComplete
    /\ input' = SubSeq(input, 2 + Length(First), Len(input))
    /\ IF disc THEN UNCHANGED <<output, writing, armed, nospace>>
               ELSE WriteTo(Reply(First))
    /\ UNCHANGED <<client, rcv, snd, happened, disc, pc>>

\* too long: the connection is closed, and the loop looks at it again
RefuseMessage ==
    /\ pc = "handle"
    /\ HasHeader /\ ~IsComplete
    /\ Length(First) >= Oversized
    /\ CloseConnection
    /\ UNCHANGED <<client, kernel, writing, happened, input, output, pc>>

\* the rest of the message, or of its header, has yet to come, as it seems
\* also when the length is negative
AwaitMore ==
    /\ pc = "handle"
    /\ ~IsComplete
    /\ HasHeader => Length(First) < Oversized
    /\ AfterRead
    /\ UNCHANGED <<client, kernel, conn>>

-----------------------------------------------------------------------------
(* Connection::sendto.                                                     *)

\* what was sent is dropped from m_outputbuf only when it was all of it
BugSendSome(n) ==
    /\ pc = "write"
    /\ ~disc
    /\ peer # "reset"
    /\ n \in 1 .. Len(output)
    /\ Len(snd) + n <= SndCap
    /\ snd' = snd \o SubSeq(output, 1, n)
    /\ output' = IF n = Len(output) THEN <<>> ELSE output
    /\ UNCHANGED <<client, rcv, armed, nospace, writing, happened, input,
                   disc, pc>>

\* send takes as much as the kernel has room for, and retrieve drops it
SendSome(n) ==
    /\ pc = "write"
    /\ ~disc
    /\ peer # "reset"
    /\ n \in 1 .. Len(output)
    /\ Len(snd) + n <= SndCap
    /\ snd' = snd \o SubSeq(output, 1, n)
    /\ output' = SubSeq(output, n + 1, Len(output))
    /\ UNCHANGED <<client, rcv, armed, nospace, writing, happened, input,
                   disc, pc>>

\* EAGAIN
SendBlocks ==
    /\ pc = "write"
    /\ ~disc
    /\ output # <<>>
    /\ ~Writable
    /\ nospace' = TRUE
    /\ pc' = "end"
    /\ UNCHANGED <<client, rcv, snd, armed, conn>>

\* an error
SendCloses ==
    /\ pc = "write"
    /\ ~disc
    /\ output # <<>>
    /\ peer = "reset"
    /\ CloseConnection
    /\ pc' = "end"
    /\ UNCHANGED <<client, kernel, writing, happened, input, output>>

\* the writable event is no longer asked for after one call of send
BugSendEnds ==
    /\ pc = "write"
    /\ ~disc
    /\ UpdateChannel(FALSE)
    /\ pc' = "end"
    /\ UNCHANGED <<client, rcv, snd, happened, input, output, disc>>

\* nothing is left: EPOLLOUT is no longer asked for
SendEnds ==
    /\ pc = "write"
    /\ ~disc
    /\ output = <<>>
    /\ DisableWriting
    /\ pc' = "end"
    /\ UNCHANGED <<client, rcv, snd, happened, input, output, disc>>

SendSkipped ==
    /\ pc = "write"
    /\ disc
    /\ pc' = "end"
    /\ UNCHANGED <<client, kernel, conn>>

\* the round is over; deleteConnection destroys a closed connection, whose
\* socket the kernel resets if something is left to read
EndRound ==
    /\ pc = "end"
    /\ pc' = IF disc THEN "closed" ELSE "poll"
    /\ IF disc
       THEN /\ armed' = FALSE
            /\ rcv' = <<>>
            /\ snd' = IF rcv = <<>> THEN snd ELSE <<>>
       ELSE UNCHANGED <<armed, rcv, snd>>
    /\ UNCHANGED <<client, nospace, conn>>

-----------------------------------------------------------------------------
ClientStep ==
    \/ \E n \in 1 .. RcvCap : ClientSends(n)
    \/ ClientShutsDown
    \/ ClientResets

LoopStep ==
    \/ AddToEpoll
    \/ Poll
    \/ \E n \in 1 .. RcvCap : ReadSome(n)
    \/ ReadEnds \/ ReadCloses
    \/ HandleMessage \/ RefuseMessage \/ AwaitMore
    \/ \E n \in 1 .. SndCap : SendSome(n)
    \/ SendBlocks \/ SendCloses \/ SendEnds \/ SendSkipped
    \/ EndRound

\* the connection is gone, and the client has read what was left for it
Finished == ~Open /\ snd = <<>> /\ UNCHANGED vars

Next == ClientStep \/ ClientReceives \/ LoopStep \/ Finished

\* the loop runs and the client reads; it owes the server no message
Spec == /\ Init /\ [][Next]_vars
        /\ WF_vars(LoopStep) /\ WF_vars(ClientReceives)
-----------------------------------------------------------------------------
(* Properties.                                                             *)

\* The loop never waits while there is something to read, or while there is
\* something to send and room for it, unless epoll will report the socket: no
\* edge is lost (Connection.cpp:83-128, 180-214, Epoll.cpp:21-48).
NoLostEdge ==
    pc = "poll" /\ ~armed =>
        /\ rcv = <<>>
        /\ output # <<>> => writing /\ nospace /\ ~Writable

\* Between rounds EPOLLOUT is asked for exactly while there is output: never
\* forgotten, and no round is spent on a socket that has nothing to send
\* (Connection.cpp:210-215, 226-230).
InterestMatchesOutput == pc = "poll" => (writing <=> output # <<>>)

\* While the connection is up the replies on their way to the client, in the
\* application's and the kernel's buffers, are those to the messages taken
\* out of the input, and what was not taken out is still there, in order:
\* nothing is lost, repeated or mixed (Connection.cpp:83-230, EchoServer.cpp:
\* 42-80).
Echoes ==
    pc # "closed" /\ peer # "reset" /\ ~disc =>
        \E n \in 0 .. NumMessages :
            /\ got \o snd \o output = Replies(n)
            /\ Requests(n) \o input \o rcv =
                   SubSeq(Requests(NumMessages), 1, sent)

\* what the client has sent includes all of message n and, if that is only a
\* header, something after it
Arrived(n) == sent >= Len(Requests(n)) + (IF body[n] = 0 THEN 1 ELSE 0)

\* no message of this client is too long to be accepted
Acceptable == \A n \in Messages : body[n] < Oversized

\* A message that has arrived is answered, as long as the client leaves its
\* own side of the connection open and reads, and sends none that is too long
\* (EchoServer.cpp:42-80, 107-119).
RequestAnswered ==
    \A n \in Messages :
        Arrived(n) /\ Acceptable ~>
            Len(got) >= Len(Replies(n)) \/ peer # "open"

\* A client that has ended after a whole message, or before any, is closed
\* and does not wait for the idle timeout (Connection.cpp:92-103).  It sends no
\* message that is too long, and its last one is not empty: such a message,
\* with nothing behind it, stays in the input buffer (EchoServer.cpp:44), so
\* that onmessage does not see the end of file alone.
EofCloses ==
    peer = "half" /\ (\E n \in 0 .. NumMessages :
        sent = Len(Requests(n)) /\ Acceptable /\ (n > 0 => body[n] > 0)) ~>
    pc = "closed"

\* A message that is too long to be accepted has its connection closed
\* (EchoServer.cpp:64-67).
OversizedCloses ==
    pc = "handle" /\ HasHeader /\ ~IsComplete /\ body[First] >= Oversized ~>
    pc = "closed"
=============================================================================

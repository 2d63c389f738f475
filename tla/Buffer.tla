------------------------------- MODULE Buffer -------------------------------
(***************************************************************************)
(* The input and output buffer of a connection: a vector with a reader and *)
(* a writer index, that moves its content to the front or grows when room  *)
(* is short, and reads from a descriptor into its free tail and a second   *)
(* area on the stack.                                                      *)
(***************************************************************************)
EXTENDS Integers, Sequences

CONSTANTS
    Byte, Zero,     \* the bytes, and the one vector::resize adds
    Prepend,        \* kCheapPrepend
    InitialSize,    \* kInitialSize
    Extra,          \* sizeof(extrabuf)
    Inputs,         \* the strings a caller appends or a socket delivers
    MaxReadable     \* bound: bytes the buffer is let hold

ASSUME ByteAssumption == Zero \in Byte
ASSUME SizesAssumption ==
    /\ Prepend \in Nat /\ Extra \in Nat
    /\ InitialSize \in Nat \ {0}
    /\ MaxReadable \in Nat
ASSUME InputsAssumption == Inputs \subseteq Seq(Byte)

VARIABLES
    buf,    \* the object: m_buffer as mem and size, and the two indices
    last    \* history: the last string stored, or returned as a string

vars == <<buf, last>>

\* m_buffer and its size, m_readerIndex, m_writerIndex
Buf(mem, size, reader, writer) ==
    [mem |-> mem, size |-> size, reader |-> reader, writer |-> writer]

\* Buffer::Buffer
NewBuffer == Buf([i \in 0 .. InitialSize + Prepend - 1 |-> Zero],
                 InitialSize + Prepend, Prepend, Prepend)

Readable(b) == b.writer - b.reader
Writable(b) == b.size - b.writer
Content(b) == [i \in 1 .. Readable(b) |-> b.mem[b.reader + i - 1]]

\* s stored in mem from index at on
Store(b, at, s) ==
    [i \in DOMAIN b.mem |-> IF i \in at .. at + Len(s) - 1
                            THEN s[i - at + 1] ELSE b.mem[i]]

-----------------------------------------------------------------------------
\* Operators named Bug... are plausible mistakes in the operation that follows
\* them: no action uses them, each breaks one property.

\* the reserve is not counted: the content may be moved when too little is free
BugMakeSpace(b, len) ==
    IF Writable(b) + b.reader < len
    THEN Buf([i \in 0 .. len + b.writer - 1 |->
                 IF i < b.size THEN b.mem[i] ELSE Zero],
             len + b.writer, b.reader, b.writer)
    ELSE Buf(Store(b, Prepend, Content(b)),
             b.size, Prepend, Prepend + Readable(b))

MakeSpace(b, len) ==
    IF Writable(b) + b.reader < len + Prepend
    THEN Buf([i \in 0 .. len + b.writer - 1 |->
                 IF i < b.size THEN b.mem[i] ELSE Zero],
             len + b.writer, b.reader, b.writer)
    ELSE Buf(Store(b, Prepend, Content(b)),
             b.size, Prepend, Prepend + Readable(b))

EnsureWriteable(b, len) == IF Writable(b) < len THEN MakeSpace(b, len) ELSE b

\* data fits in the free tail
Fill(b, data) ==
    Buf(Store(b, b.writer, data), b.size, b.reader, b.writer + Len(data))

AppendTo(b, data) == Fill(EnsureWriteable(b, Len(data)), data)

\* what readv may return at once: the second area is offered only when the
\* first is the smaller
ReadLimit(b) == IF Writable(b) < Extra THEN Writable(b) + Extra
                                       ELSE Writable(b)

\* the writer index is not moved over the first area
BugReadInto(b, data) ==
    IF Len(data) < Writable(b)
    THEN Fill(b, data)
    ELSE AppendTo(b, SubSeq(data, Writable(b) + 1, Len(data)))

\* readv delivered data
ReadInto(b, data) ==
    IF Len(data) < Writable(b)
    THEN Fill(b, data)
    ELSE AppendTo(Fill(b, SubSeq(data, 1, Writable(b))),
                  SubSeq(data, Writable(b) + 1, Len(data)))

RetrieveAll(b) == Buf(b.mem, b.size, Prepend, Prepend)

Retrieve(b, len) ==
    IF len < Readable(b) THEN Buf(b.mem, b.size, b.reader + len, b.writer)
                         ELSE RetrieveAll(b)

\* the length retrieveAsString settles for
Available(b, len) == IF len <= Readable(b) THEN len ELSE Readable(b)

-----------------------------------------------------------------------------
Init ==
    /\ buf = NewBuffer
    /\ last = <<>>

append(data) ==
    /\ Readable(buf) + Len(data) <= MaxReadable
    /\ buf' = AppendTo(buf, data)
    /\ last' = data

\* readFd; an error of readv changes nothing
readFd(data) ==
    /\ Readable(buf) + Len(data) <= MaxReadable
    /\ Len(data) <= ReadLimit(buf)
    /\ buf' = ReadInto(buf, data)
    /\ last' = data

\* retrieve, and retrieveAll for any len beyond the content
retrieve(len) ==
    /\ buf' = Retrieve(buf, len)
    /\ UNCHANGED last

\* retrieveAsString, and retrieveAllAsString when len is the content's
retrieveAsString(len) ==
    LET n == Available(buf, len)
    IN  /\ last' = SubSeq(Content(buf), 1, n)
        /\ buf' = Retrieve(buf, n)

Next ==
    \/ \E data \in Inputs : append(data) \/ readFd(data)
    \/ \E len \in 0 .. MaxReadable + 1 : retrieve(len) \/ retrieveAsString(len)

Spec == Init /\ [][Next]_vars
-----------------------------------------------------------------------------
\* The indices are ordered as the picture in Buffer.h says and delimit cells
\* of the vector (Buffer.h:8-14).
WellFormed(b) ==
    /\ b.size \in Nat
    /\ b.mem \in [0 .. b.size - 1 -> Byte]
    /\ b.reader \in Nat /\ b.writer \in Nat
    /\ Prepend <= b.reader /\ b.reader <= b.writer /\ b.writer <= b.size

\* The buffer is well formed after any sequence of operations: no index is
\* ever beyond the vector (Buffer.cpp:104-187).
TypeOK == WellFormed(buf) /\ last \in Seq(Byte)

Queue == INSTANCE ByteQueue WITH queue <- Content(buf)

\* The buffer is a queue of bytes: whatever moves or grows, no byte is lost,
\* repeated or reordered, and the reserve of Prepend cells holds none
\* (Buffer.cpp:62-187).
ImplementsQueue == Queue!Spec
=============================================================================

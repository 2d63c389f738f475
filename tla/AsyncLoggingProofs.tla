------------------------- MODULE AsyncLoggingProofs -------------------------
(***************************************************************************)
(* The asynchronous log is a log: no line is lost or reordered, stop()     *)
(* flushes, and the log thread can always take its two buffers back,       *)
(* however the lines come and wherever the back end drops some.            *)
(***************************************************************************)
EXTENDS AsyncLogging, FlattenProofs

-----------------------------------------------------------------------------
(* Buffers and their types.                                                *)

FrontOK ==
    /\ count \in Nat
    /\ current \in Seq(Nat) \cup {NoBuffer}
    /\ next \in BOOLEAN
    /\ buffers \in Seq(Seq(Nat))
    /\ appending \in {"no", "next", "line"}
    /\ appending = "next" <=> current = NoBuffer
    /\ appending = "line" => current = <<>>

LifeOK ==
    /\ running \in BOOLEAN
    /\ atStop \in Nat
    /\ owner \in {"built", "started", "stopping", "stopped"}

BackOK ==
    /\ toWrite \in Seq(Seq(Nat))
    /\ spare \in Nat
    /\ new1 \in BOOLEAN /\ new2 \in BOOLEAN
    /\ written \in Seq(Nat)
    /\ dropped \in SUBSET Nat

DaemonOK ==
    /\ daemon \in {"test", "lock", "wait", "write", "exited", "crashed"}
    /\ missed \in BOOLEAN

\* m_nextBuffer is null only while a full buffer waits in the queue, so the
\* swap that moves newBuffer2 takes two buffers at least
NextIsRestored == ~next => buffers # <<>>

\* the log thread has as many buffers, written or not, as it must take back
EnoughBuffers ==
    IF daemon = "write" THEN Missing <= Len(toWrite) + spare
                        ELSE new1 /\ new2 /\ spare = 0 /\ toWrite = <<>>

\* the line for which a buffer was queued is in the current one, or is about
\* to be put there
QueueHasCurrent == buffers # <<>> => current # <<>> \/ appending = "line"

IInv ==
    /\ FrontOK /\ LifeOK /\ BackOK /\ DaemonOK
    /\ NextIsRestored
    /\ EnoughBuffers
    /\ QueueHasCurrent
    /\ appending # "no" => buffers # <<>>

\* The parts of the invariant make up the type invariant of the model.
LEMMA TypesSuffice == IInv => TypeOK
BY DEF IInv, FrontOK, LifeOK, BackOK, DaemonOK, TypeOK

\* The log thread never misses more than two buffers (AsyncLogging.cpp:147-160).
LEMMA MissingType == Missing \in 0 .. 2
BY DEF Missing

\* An empty LogBuffer is a buffer, and not a null pointer.
LEMMA EmptyType ==
    /\ <<>> \in Seq(Nat)
    /\ <<>> \in Seq(Seq(Nat))
    /\ <<>> # NoBuffer
<1>1. \A S : <<>> \in Seq(S)
  OBVIOUS
<1>. QED  BY <1>1, NoBufferAssumption

\* The lines of buffers are lines (AsyncLogging.cpp:132-139).
LEMMA LinesType ==
    ASSUME NEW bs \in Seq(Seq(Nat))
    PROVE  Lines(bs) \in Seq(Nat)
BY FlattenType DEF Lines

\* What erasing buffers leaves, and what it erases (AsyncLogging.cpp:117-130).
LEMMA DropParts ==
    ASSUME BackOK, Drop
    PROVE  /\ toWrite' \in Seq(Seq(Nat))
           /\ Len(toWrite') = 2
           /\ SubSeq(toWrite, 3, Len(toWrite)) \in Seq(Seq(Nat))
           /\ toWrite = toWrite' \o SubSeq(toWrite, 3, Len(toWrite))
<1>1. /\ toWrite \in Seq(Seq(Nat))
      /\ Len(toWrite) \in Nat
      /\ Len(toWrite) > 2
      /\ toWrite' = SubSeq(toWrite, 1, 2)
  BY DropAtAssumption DEF Drop, BackOK
<1>2. \A i \in 1 .. Len(toWrite) : toWrite[i] \in Seq(Nat)
  BY <1>1, ElementOfSeq
<1>3. /\ SubSeq(toWrite, 1, 2) \in Seq(Seq(Nat))
      /\ Len(SubSeq(toWrite, 1, 2)) = 2
  BY <1>1, <1>2, SubSeqProperties
<1>4. SubSeq(toWrite, 3, Len(toWrite)) \in Seq(Seq(Nat))
  BY <1>1, <1>2, SubSeqProperties
<1>5. SubSeq(toWrite, 1, 2) \o SubSeq(toWrite, 2 + 1, Len(toWrite))
        = SubSeq(toWrite, 1, Len(toWrite))
  BY <1>1, ConcatAdjacentSubSeq
<1>6. SubSeq(toWrite, 1, Len(toWrite)) = toWrite
  BY <1>1, SubSeqFull
<1>. QED  BY <1>1, <1>3, <1>4, <1>5, <1>6

-----------------------------------------------------------------------------
(* The invariant holds.                                                    *)

\* The invariant holds once the constructor has run (AsyncLogging.cpp:7-19).
LEMMA InitCorrect == Init => IInv
<1> SUFFICES ASSUME Init  PROVE IInv
  OBVIOUS
<1>1. FrontOK /\ LifeOK /\ DaemonOK
  BY EmptyType DEF Init, FrontOK, LifeOK, DaemonOK
<1>2. BackOK
  BY EmptyType DEF Init, BackOK
<1>3. NextIsRestored /\ EnoughBuffers /\ QueueHasCurrent /\ appending = "no"
  BY DEF Init, NextIsRestored, EnoughBuffers, QueueHasCurrent
<1>. QED  BY <1>1, <1>2, <1>3 DEF IInv

\* What a thread leaves alone keeps its type.
LEMMA PartsKept ==
    /\ FrontOK /\ UNCHANGED front => FrontOK'
    /\ LifeOK /\ UNCHANGED life => LifeOK'
    /\ BackOK /\ UNCHANGED back => BackOK' /\ Missing' = Missing
BY DEF FrontOK, LifeOK, BackOK, Missing, front, life, back

\* A thread that only appends leaves the log thread its buffers.
LEMMA BuffersKept ==
    EnoughBuffers /\ UNCHANGED <<daemon, missed, back>> => EnoughBuffers'
BY DEF EnoughBuffers, Missing, back

\* A step that leaves the buffers in front alone keeps what is said of them.
LEMMA FrontKept ==
    NextIsRestored /\ QueueHasCurrent /\ UNCHANGED front =>
        NextIsRestored' /\ QueueHasCurrent'
BY DEF NextIsRestored, QueueHasCurrent, front

\* Swapping the queues keeps the invariant: when m_nextBuffer takes newBuffer2,
\* a full buffer was queued too (AsyncLogging.cpp:104-113).
LEMMA SwapCorrect ==
    ASSUME IInv, Swap, appending = "no", daemon # "write",
           buffers # <<>> \/ current # <<>>
    PROVE  IInv'
<1>1. current \in Seq(Nat) /\ buffers \in Seq(Seq(Nat))
  BY NoBufferAssumption DEF IInv, FrontOK
<1>2. /\ toWrite' = Append(buffers, current)
      /\ toWrite' \in Seq(Seq(Nat))
      /\ Len(toWrite') = Len(buffers) + 1
  <2>1. toWrite' = Append(buffers, current)
    BY DEF Swap
  <2>. QED  BY <1>1, <2>1, AppendProperties, Zenon
<1>3. FrontOK' /\ appending' = "no"
  BY EmptyType DEF Swap, IInv, FrontOK
<1>4. BackOK'
  BY <1>2 DEF Swap, IInv, BackOK
<1>5. LifeOK' /\ DaemonOK'
  BY PartsKept DEF Swap, IInv, DaemonOK
<1>6. NextIsRestored' /\ QueueHasCurrent'
  BY DEF Swap, NextIsRestored, QueueHasCurrent
<1>7. EnoughBuffers'
  <2>1. new2 /\ spare = 0
    BY DEF IInv, EnoughBuffers
  <2>2. CASE next
    <3>1. Missing' = 1
      BY <2>1, <2>2 DEF Swap, Missing
    <3>. QED  BY <1>1, <1>2, <2>1, <3>1 DEF Swap, EnoughBuffers
  <2>3. CASE ~next
    <3>1. Len(buffers) >= 1
      BY <1>1, <2>3 DEF IInv, NextIsRestored
    <3>2. Missing' = 2
      BY <2>1, <2>3 DEF Swap, Missing
    <3>. QED  BY <1>1, <1>2, <2>1, <3>1, <3>2 DEF Swap, EnoughBuffers
  <2>. QED  BY <2>2, <2>3
<1>. QED  BY <1>3, <1>4, <1>5, <1>6, <1>7 DEF IInv

\* Appending keeps the invariant (AsyncLogging.cpp:48-74).
LEMMA AppendCorrect == IInv /\ AppendStep => IInv'
<1> SUFFICES ASSUME IInv, AppendStep  PROVE IInv'
  OBVIOUS
<1>1. UNCHANGED <<life, daemon, missed, back>>
  BY DEF AppendStep, AppendLine, BeginSwap, TakeNext, EndSwap
<1>2. LifeOK' /\ BackOK' /\ DaemonOK' /\ EnoughBuffers'
  BY <1>1, PartsKept, BuffersKept DEF IInv, DaemonOK
<1>3. CASE AppendLine
  <2>1. current \in Seq(Nat) /\ count' \in Nat
    BY <1>3, NoBufferAssumption DEF AppendLine, IInv, FrontOK
  <2>2. current' = Append(current, count')
    BY <1>3 DEF AppendLine
  <2>3. current' \in Seq(Nat) /\ current' # <<>>
    <3>1. \A s \in Seq(Nat), n \in Nat :
              Append(s, n) \in Seq(Nat) /\ Append(s, n) # <<>>
      BY AppendProperties
    <3>. QED  BY <2>1, <2>2, <3>1, Zenon
  <2>4. current' # NoBuffer
    BY <2>3, NoBufferAssumption
  <2>5. FrontOK'
    BY <1>3, <2>1, <2>3, <2>4 DEF AppendLine, IInv, FrontOK
  <2>. QED
    BY <1>2, <1>3, <2>3, <2>5
    DEF AppendLine, IInv, NextIsRestored, QueueHasCurrent
<1>4. CASE BeginSwap
  <2>1. current \in Seq(Nat) /\ buffers \in Seq(Seq(Nat))
    BY <1>4, NoBufferAssumption DEF BeginSwap, IInv, FrontOK
  <2>2. buffers' = Append(buffers, current)
    BY <1>4 DEF BeginSwap
  <2>3. buffers' \in Seq(Seq(Nat)) /\ buffers' # <<>>
    BY <2>1, <2>2, AppendProperties
  <2>4. FrontOK'
    BY <1>4, <2>3 DEF BeginSwap, IInv, FrontOK
  <2>. QED
    BY <1>2, <1>4, <2>3, <2>4, EmptyType
    DEF BeginSwap, IInv, NextIsRestored, QueueHasCurrent
<1>5. CASE TakeNext
  <2>1. FrontOK'
    BY <1>5, EmptyType DEF TakeNext, IInv, FrontOK
  <2>. QED
    BY <1>2, <1>5, <2>1
    DEF TakeNext, IInv, NextIsRestored, QueueHasCurrent
<1>6. CASE EndSwap
  <2>1. count' \in Nat /\ current' = <<count'>>
    <3>1. Append(<<>>, count') = <<count'>>
      OBVIOUS
    <3>. QED  BY <1>6, <3>1 DEF EndSwap, IInv, FrontOK
  <2>2. current' \in Seq(Nat) /\ current' # <<>>
    BY <2>1
  <2>3. current' # NoBuffer
    BY <2>2, NoBufferAssumption
  <2>4. FrontOK'
    BY <1>6, <2>1, <2>2, <2>3 DEF EndSwap, IInv, FrontOK
  <2>. QED
    BY <1>2, <1>6, <2>2, <2>4
    DEF EndSwap, IInv, NextIsRestored, QueueHasCurrent
<1>. QED  BY <1>3, <1>4, <1>5, <1>6 DEF AppendStep

\* The log thread keeps the invariant (AsyncLogging.cpp:76-164).
LEMMA DaemonCorrect == IInv /\ DaemonStep => IInv'
<1> SUFFICES ASSUME IInv, DaemonStep  PROVE IInv'
  OBVIOUS
<1>1. ASSUME UNCHANGED <<front, life, back>>, DaemonOK',
             daemon # "write", daemon' # "write"
      PROVE  IInv'
  BY <1>1, PartsKept, FrontKept DEF IInv, EnoughBuffers, front, back
<1>2. CASE Test
  BY <1>1, <1>2 DEF Test, Leaves, IInv, DaemonOK
<1>3. CASE Lock
  <2>1. CASE buffers = <<>>
    BY <1>1, <1>3, <2>1 DEF Lock, IInv, DaemonOK
  <2>2. CASE buffers # <<>>
    BY <1>3, <2>2, SwapCorrect DEF Lock
  <2>. QED  BY <2>1, <2>2
<1>4. CASE Wake
  <2>1. CASE buffers = <<>> /\ current = <<>>
    BY <1>1, <1>4, <2>1 DEF Wake, IInv, DaemonOK
  <2>2. CASE ~(buffers = <<>> /\ current = <<>>)
    BY <1>4, <2>2, SwapCorrect DEF Wake
  <2>. QED  BY <2>1, <2>2
<1>5. ASSUME UNCHANGED <<front, life>>  PROVE
        /\ FrontOK' /\ LifeOK' /\ NextIsRestored' /\ QueueHasCurrent'
        /\ appending' # "no" => buffers' # <<>>
  BY <1>5, PartsKept, FrontKept DEF IInv, front
<1>6. CASE Drop
  <2>1. UNCHANGED <<front, life, daemon, missed, spare, new1, new2, written>>
    BY <1>6 DEF Drop
  <2>2. /\ toWrite' \in Seq(Seq(Nat))
        /\ Len(toWrite') = 2
        /\ SubSeq(toWrite, 3, Len(toWrite)) \in Seq(Seq(Nat))
    BY <1>6, DropParts DEF IInv
  <2>3. dropped' \in SUBSET Nat
    <3>1. Lines(SubSeq(toWrite, 3, Len(toWrite))) \in Seq(Nat)
      BY <2>2, LinesType
    <3>2. Range(Lines(SubSeq(toWrite, 3, Len(toWrite)))) \in SUBSET Nat
      BY <3>1, RangeOfSeq
    <3>. QED  BY <1>6, <3>2 DEF Drop, IInv, BackOK
  <2>4. BackOK' /\ DaemonOK'
    BY <2>1, <2>2, <2>3 DEF IInv, BackOK, DaemonOK
  <2>5. Missing' = Missing
    BY <2>1 DEF Missing
  <2>6. EnoughBuffers'
    BY <1>6, <2>1, <2>2, <2>5, MissingType
    DEF Drop, IInv, BackOK, EnoughBuffers
  <2>. QED  BY <1>5, <2>1, <2>4, <2>6 DEF IInv
<1>7. CASE WriteBuffer
  <2>1. UNCHANGED <<front, life, daemon, missed, new1, new2, dropped>>
    BY <1>7 DEF WriteBuffer
  <2>2. /\ toWrite \in Seq(Seq(Nat))
        /\ toWrite # <<>>
        /\ Head(toWrite) \in Seq(Nat)
        /\ toWrite' \in Seq(Seq(Nat))
        /\ Len(toWrite') = Len(toWrite) - 1
        /\ Len(toWrite) \in Nat
    BY <1>7, HeadTailProperties, LenProperties DEF WriteBuffer, IInv, BackOK
  <2>3. written' \in Seq(Nat) /\ spare' = spare + 1 /\ spare' \in Nat
    BY <1>7, <2>2, ConcatProperties DEF WriteBuffer, IInv, BackOK
  <2>4. BackOK' /\ DaemonOK'
    BY <2>1, <2>2, <2>3 DEF IInv, BackOK, DaemonOK
  <2>5. Missing' = Missing
    BY <2>1 DEF Missing
  <2>6. EnoughBuffers'
    BY <1>7, <2>1, <2>2, <2>3, <2>5, MissingType
    DEF WriteBuffer, IInv, BackOK, EnoughBuffers
  <2>. QED  BY <1>5, <2>1, <2>4, <2>6 DEF IInv
<1>8. CASE Refill
  <2>1. UNCHANGED <<front, life, missed, toWrite, written, dropped>>
    BY <1>8 DEF Refill
  <2>2. BackOK' /\ DaemonOK' /\ EnoughBuffers'
    BY <1>8, <2>1 DEF Refill, IInv, BackOK, DaemonOK, EnoughBuffers
  <2>. QED  BY <1>5, <2>1, <2>2 DEF IInv
<1>. QED
  BY <1>2, <1>3, <1>4, <1>6, <1>7, <1>8 DEF DaemonStep

\* The owner keeps the invariant (AsyncLogging.cpp:36-46).
LEMMA OwnerCorrect == IInv /\ OwnerStep => IInv'
<1> SUFFICES ASSUME IInv, OwnerStep  PROVE IInv'
  OBVIOUS
<1>1. UNCHANGED <<front, daemon, missed, back>>
  BY DEF OwnerStep, Start, Stop, Join
<1>2. LifeOK'
  BY DEF OwnerStep, Start, Stop, Join, IInv, LifeOK, FrontOK
<1>. QED
  BY <1>1, <1>2, PartsKept, FrontKept, BuffersKept DEF IInv, DaemonOK, front

\* Every step of every thread keeps the invariant.
LEMMA StepCorrect == IInv /\ [Next]_vars => IInv'
<1>1. IInv /\ UNCHANGED vars => IInv'
  BY PartsKept, FrontKept, BuffersKept DEF IInv, DaemonOK, vars, front
<1>. QED  BY <1>1, AppendCorrect, DaemonCorrect, OwnerCorrect DEF Next

\* The invariant holds in every reachable state.
THEOREM InvHolds == Spec => []IInv
BY InitCorrect, StepCorrect, PTL DEF Spec

\* Every variable of the log has its type: what is dropped and written are
\* lines, and m_currentBuffer is null exactly inside an Append
\* (AsyncLogging.cpp:48-74).
THEOREM TypeCorrect == Spec => []TypeOK
BY InvHolds, TypesSuffice, PTL

\* back() is never called on an empty buffersToWrite (AsyncLogging.cpp:
\* 141-160).
THEOREM RefillIsPossible == Spec => []RefillPossible
<1>1. IInv => RefillPossible
  <2>1. ASSUME IInv, daemon = "write", toWrite = <<>>  PROVE Missing <= spare
    BY <2>1, MissingType DEF IInv, BackOK, EnoughBuffers
  <2>. QED  BY <2>1 DEF RefillPossible
<1>. QED  BY <1>1, InvHolds, PTL

-----------------------------------------------------------------------------
(* What a step does to the lines that wait.                                *)

\* the lines of the current buffer
Now == IF current = NoBuffer THEN <<>> ELSE current

\* a line joins those that wait
Logs ==
    /\ count' = count + 1
    /\ Waiting' = Append(Waiting, count')
    /\ UNCHANGED <<written, dropped>>

\* the first of them are written
Writes ==
    \E h \in Seq(Nat) :
        /\ Waiting = h \o Waiting'
        /\ written' = written \o h
        /\ UNCHANGED <<count, dropped>>

\* some in the middle are given up
GivesUp ==
    \E a, b, c \in Seq(Nat) :
        /\ Waiting = (a \o b) \o c
        /\ Waiting' = a \o c
        /\ dropped' = dropped \cup Range(b)
        /\ UNCHANGED <<count, written>>

Rests == UNCHANGED <<count, Waiting, written, dropped>>

\* The lines that wait are lines.
LEMMA WaitingType ==
    ASSUME FrontOK, BackOK
    PROVE  /\ Lines(toWrite) \in Seq(Nat)
           /\ Lines(buffers) \in Seq(Nat)
           /\ Now \in Seq(Nat)
           /\ Waiting = Cat(Cat(Lines(toWrite), Lines(buffers)), Now)
           /\ Waiting \in Seq(Nat)
<1>1. Lines(toWrite) \in Seq(Nat) /\ Lines(buffers) \in Seq(Nat)
  BY LinesType DEF FrontOK, BackOK
<1>2. Now \in Seq(Nat)
  BY EmptyType DEF FrontOK, Now
<1>3. Waiting = Cat(Cat(Lines(toWrite), Lines(buffers)), Now)
  BY DEF Waiting, Now, Cat
<1>. QED  BY <1>1, <1>2, <1>3, ConcatProperties DEF Cat

\* They still are after a step.
LEMMA WaitingTypeNext == IInv' => (Waiting \in Seq(Nat))'
<1>1. IInv => Waiting \in Seq(Nat)
  BY WaitingType DEF IInv
<1>. QED  BY <1>1, PTL

\* The rules by which the sequences of lines are computed.
LEMMA CatRules ==
    /\ \A s, t \in Seq(Nat) : Cat(s, t) \in Seq(Nat)
    /\ \A s \in Seq(Nat) : Cat(s, <<>>) = s /\ Cat(<<>>, s) = s
    /\ \A a, b, c \in Seq(Nat) : Cat(Cat(a, b), c) = Cat(a, Cat(b, c))
    /\ \A s, t \in Seq(Nat), n \in Nat :
          Cat(s, Append(t, n)) = Append(Cat(s, t), n)
<1>1. \A s, t \in Seq(Nat) : Cat(s, t) \in Seq(Nat)
  BY ConcatProperties DEF Cat
<1>2. \A s \in Seq(Nat) : Cat(s, <<>>) = s /\ Cat(<<>>, s) = s
  BY ConcatEmptySeq DEF Cat
<1>3. \A a, b, c \in Seq(Nat) : Cat(Cat(a, b), c) = Cat(a, Cat(b, c))
  BY ConcatIsAssociative
<1>4. \A s, t \in Seq(Nat), n \in Nat :
          Cat(s, Append(t, n)) = Append(Cat(s, t), n)
  BY DEF Cat
<1>. QED  BY <1>1, <1>2, <1>3, <1>4

\* The rules for the lines of buffers.
LEMMA LinesRules ==
    /\ Lines(<<>>) = <<>>
    /\ \A bs \in Seq(Seq(Nat)), b \in Seq(Nat) :
          Lines(Append(bs, b)) = Cat(Lines(bs), b)
    /\ \A bs, cs \in Seq(Seq(Nat)) :
          Lines(bs \o cs) = Cat(Lines(bs), Lines(cs))
    /\ \A bs \in Seq(Seq(Nat)) :
          bs # <<>> => Lines(bs) = Cat(Head(bs), Lines(Tail(bs)))
BY FlattenEmpty, FlattenAppend, FlattenConcat, FlattenHeadTail DEF Lines, Cat

\* Append adds its line behind all others, whether the buffer is full or not
\* (AsyncLogging.cpp:48-74).
LEMMA AppendLogs ==
    ASSUME IInv, AppendStep
    PROVE  Logs \/ Rests
<1> USE DEF IInv
<1>1. /\ Waiting' = Cat(Cat(Lines(toWrite), Lines(buffers')), Now')
      /\ Waiting = Cat(Cat(Lines(toWrite), Lines(buffers)), Now)
      /\ toWrite' = toWrite /\ UNCHANGED <<written, dropped>>
      /\ Lines(toWrite) \in Seq(Nat) /\ Lines(buffers) \in Seq(Nat)
  <2>1. UNCHANGED back
    BY DEF AppendStep, AppendLine, BeginSwap, TakeNext, EndSwap
  <2>2. Waiting' = Cat(Cat(Lines(toWrite'), Lines(buffers')), Now')
    BY DEF Waiting, Now, Cat
  <2>. QED  BY <2>1, <2>2, WaitingType DEF back
<1> DEFINE X == Cat(Lines(toWrite), Lines(buffers))
<1>2. X \in Seq(Nat)
  BY <1>1, CatRules
<1>3. CASE AppendLine
  <2>1. /\ current \in Seq(Nat) /\ current # NoBuffer
        /\ count' = count + 1 /\ count' \in Nat
        /\ current' = Append(current, count')
        /\ buffers' = buffers
    BY <1>3, NoBufferAssumption DEF AppendLine, FrontOK
  <2>2. current' \in Seq(Nat)
    BY <2>1, AppendProperties
  <2>3. Now = current /\ Now' = Append(current, count')
    BY <2>1, <2>2, NoBufferAssumption DEF Now
  <2>4. Cat(X, Append(current, count')) = Append(Cat(X, current), count')
    <3>1. \A s, t \in Seq(Nat), n \in Nat :
              Cat(s, Append(t, n)) = Append(Cat(s, t), n)
      BY CatRules
    <3> HIDE DEF X
    <3>. QED  BY <1>2, <2>1, <3>1, Zenon
  <2>. QED  BY <1>1, <2>1, <2>3, <2>4 DEF Logs
<1>4. CASE BeginSwap
  <2>1. /\ current \in Seq(Nat) /\ current # NoBuffer
        /\ current' = NoBuffer /\ count' = count
        /\ buffers \in Seq(Seq(Nat))
        /\ buffers' = Append(buffers, current)
    BY <1>4, NoBufferAssumption DEF BeginSwap, FrontOK
  <2>2. Now = current /\ Now' = <<>>
    BY <2>1 DEF Now
  <2>3. Lines(buffers') = Cat(Lines(buffers), current)
    BY <2>1, LinesRules
  <2>4. Waiting' = Cat(Lines(toWrite), Cat(Lines(buffers), current))
    BY <1>1, <2>1, <2>2, <2>3, CatRules
  <2>5. Waiting' = Waiting
    BY <1>1, <2>1, <2>2, <2>4, CatRules
  <2>. QED  BY <1>1, <2>1, <2>5 DEF Rests
<1>5. CASE TakeNext
  <2>1. Now = <<>> /\ Now' = <<>> /\ buffers' = buffers /\ count' = count
    BY <1>5, EmptyType DEF TakeNext, FrontOK, Now
  <2>. QED  BY <1>1, <2>1 DEF Rests
<1>6. CASE EndSwap
  <2>1. /\ current = <<>>
        /\ count' = count + 1 /\ count' \in Nat
        /\ current' = <<count'>> /\ current' \in Seq(Nat)
        /\ buffers' = buffers
    <3>1. Append(<<>>, count') = <<count'>>
      OBVIOUS
    <3>. QED  BY <1>6, <3>1 DEF EndSwap, FrontOK
  <2>2. Now = <<>> /\ Now' = <<count'>>
    BY <2>1, NoBufferAssumption DEF Now
  <2>3. <<count'>> = Append(<<>>, count')
    OBVIOUS
  <2>4. Cat(X, Append(<<>>, count')) = Append(Cat(X, <<>>), count')
    <3>1. \A t \in Seq(Nat) : Cat(X, Append(t, count'))
                               = Append(Cat(X, t), count')
      <4>1. \A s, t \in Seq(Nat), n \in Nat :
                Cat(s, Append(t, n)) = Append(Cat(s, t), n)
        BY CatRules
      <4> HIDE DEF X
      <4>. QED  BY <1>2, <2>1, <4>1, Zenon
    <3> HIDE DEF X
    <3>. QED  BY <3>1, EmptyType, Zenon
  <2>. QED  BY <1>1, <2>1, <2>2, <2>3, <2>4 DEF Logs
<1>. QED  BY <1>3, <1>4, <1>5, <1>6 DEF AppendStep

\* The log thread moves lines without a change of their order, writes the
\* first, or gives up some (AsyncLogging.cpp:76-164).
LEMMA DaemonWrites ==
    ASSUME IInv, DaemonStep
    PROVE  Writes \/ GivesUp \/ Rests
<1> USE DEF IInv
<1>1. /\ Waiting' = Cat(Cat(Lines(toWrite'), Lines(buffers')), Now')
      /\ Waiting = Cat(Cat(Lines(toWrite), Lines(buffers)), Now)
      /\ Lines(toWrite) \in Seq(Nat) /\ Lines(buffers) \in Seq(Nat)
      /\ Now \in Seq(Nat)
  <2>1. Waiting' = Cat(Cat(Lines(toWrite'), Lines(buffers')), Now')
    BY DEF Waiting, Now, Cat
  <2>. QED  BY <2>1, WaitingType
<1>2. ASSUME UNCHANGED <<front, toWrite, written, dropped>>  PROVE Rests
  BY <1>1, <1>2 DEF Rests, front, Now
<1>3. ASSUME Swap, appending = "no", daemon # "write"  PROVE Rests
  <2>1. /\ toWrite = <<>> /\ toWrite' = Append(buffers, current)
        /\ buffers' = <<>> /\ current' = <<>> /\ current # NoBuffer
        /\ current \in Seq(Nat) /\ buffers \in Seq(Seq(Nat))
        /\ UNCHANGED <<count, written, dropped>>
    BY <1>3, NoBufferAssumption DEF Swap, EnoughBuffers, FrontOK
  <2>2. Now = current /\ Now' = <<>>
    BY <2>1, EmptyType DEF Now
  <2>3. Lines(toWrite') = Cat(Lines(buffers), current)
    BY <2>1, LinesRules
  <2>4. Lines(buffers') = <<>> /\ Lines(toWrite) = <<>>
    BY <2>1, LinesRules
  <2>5. Cat(Lines(buffers), current) \in Seq(Nat)
    BY <1>1, <2>1, CatRules
  <2>6. Waiting' = Cat(Lines(buffers), current)
    BY <1>1, <2>2, <2>3, <2>4, <2>5, CatRules
  <2>7. Waiting = Cat(Lines(buffers), current)
    BY <1>1, <2>2, <2>4, CatRules
  <2>. QED  BY <2>1, <2>6, <2>7 DEF Rests
<1>4. CASE Test
  BY <1>2, <1>4 DEF Test, back
<1>5. CASE Lock
  BY <1>2, <1>3, <1>5 DEF Lock, back
<1>6. CASE Wake
  BY <1>2, <1>3, <1>6 DEF Wake, back
<1>7. CASE Drop
  <2> DEFINE rest == SubSeq(toWrite, 3, Len(toWrite))
             kept == Lines(toWrite')
             lost == Lines(rest)
             end  == Cat(Lines(buffers), Now)
  <2>1. /\ toWrite' \in Seq(Seq(Nat)) /\ rest \in Seq(Seq(Nat))
        /\ toWrite = toWrite' \o rest
    BY <1>7, DropParts
  <2>2. /\ dropped' = dropped \cup Range(lost)
        /\ UNCHANGED <<front, count, written>>
    BY <1>7 DEF Drop, front
  <2>3. kept \in Seq(Nat) /\ lost \in Seq(Nat) /\ end \in Seq(Nat)
    BY <1>1, <2>1, LinesType, CatRules
  <2>4. Lines(toWrite) = Cat(kept, lost)
    <3> HIDE DEF rest
    <3>. QED  BY <2>1, LinesRules
  <2>5. buffers' = buffers /\ Now' = Now
    BY <2>2 DEF front, Now
  <2> HIDE DEF rest, kept, lost
  <2>6. Waiting = Cat(Cat(kept, lost), end)
    BY <1>1, <2>3, <2>4, CatRules
  <2>7. Waiting' = Cat(kept, end)
    <3>1. Waiting' = Cat(Cat(kept, Lines(buffers)), Now)
      BY <1>1, <2>5 DEF kept
    <3>. QED  BY <1>1, <2>3, <3>1, CatRules
  <2> HIDE DEF end
  <2>. QED  BY <2>2, <2>3, <2>6, <2>7 DEF GivesUp, Cat
<1>8. CASE WriteBuffer
  <2>1. /\ toWrite \in Seq(Seq(Nat)) /\ toWrite # <<>>
        /\ written' = written \o Head(toWrite)
        /\ toWrite' = Tail(toWrite)
        /\ UNCHANGED <<front, count, dropped>>
    BY <1>8 DEF WriteBuffer, BackOK, front
  <2>2. Head(toWrite) \in Seq(Nat) /\ toWrite' \in Seq(Seq(Nat))
    BY <2>1, HeadTailProperties
  <2>3. Lines(toWrite) = Cat(Head(toWrite), Lines(toWrite'))
    BY <2>1, LinesRules
  <2>4. Lines(toWrite') \in Seq(Nat)
    BY <2>2, LinesType
  <2>5. buffers' = buffers /\ Now' = Now
    BY <2>1 DEF front, Now
  <2>6. Waiting' = Cat(Cat(Lines(toWrite'), Lines(buffers)), Now)
    BY <1>1, <2>5
  <2> DEFINE h == Head(toWrite)
             t == Lines(toWrite')
             b == Lines(buffers)
  <2> HIDE DEF h, t, b
  <2>7. h \in Seq(Nat) /\ t \in Seq(Nat) /\ b \in Seq(Nat) /\ Now \in Seq(Nat)
    BY <1>1, <2>2, <2>4 DEF h, t, b
  <2>8. Cat(t, b) \in Seq(Nat)
    BY <2>7, CatRules
  <2>9. Cat(Cat(Cat(h, t), b), Now) = Cat(Cat(h, Cat(t, b)), Now)
    BY <2>7, CatRules
  <2>10. Cat(Cat(h, Cat(t, b)), Now) = Cat(h, Cat(Cat(t, b), Now))
    BY <2>7, <2>8, CatRules
  <2>11. Waiting = Cat(h, Waiting')
    BY <1>1, <2>3, <2>6, <2>9, <2>10 DEF h, t, b
  <2>. QED  BY <2>1, <2>7, <2>11 DEF Writes, Cat, h
<1>9. CASE Refill
  BY <1>2, <1>9 DEF Refill
<1>. QED
  BY <1>4, <1>5, <1>6, <1>7, <1>8, <1>9 DEF DaemonStep

\* Every step logs, writes, gives up or leaves the lines as they are.
LEMMA StepOfLog ==
    ASSUME IInv, [Next]_vars
    PROVE  Logs \/ Writes \/ GivesUp \/ Rests
<1>1. CASE OwnerStep \/ UNCHANGED vars
  BY <1>1
  DEF OwnerStep, Start, Stop, Join, Rests, vars, front, back, Waiting
<1>. QED  BY <1>1, AppendLogs, DaemonWrites DEF Next

-----------------------------------------------------------------------------
(* No line is lost.                                                        *)

\* Appending a line adds it to the range.
LEMMA RangeAppend ==
    ASSUME NEW s \in Seq(Nat), NEW n \in Nat
    PROVE  Range(Append(s, n)) = Range(s) \cup {n}
<1>1. Append(s, n) = s \o <<n>> /\ <<n>> \in Seq(Nat)
  BY AppendIsConcat
<1>2. Range(<<n>>) = {n}
  BY DEF Range
<1>3. \A t \in Seq(Nat) : Range(s \o t) = Range(s) \cup Range(t)
  BY RangeConcatenation
<1>. QED  BY <1>1, <1>2, <1>3, Zenon

\* Nothing is lost at first.
LEMMA InitLosesNothing == Init => NothingLost
<1> SUFFICES ASSUME Init  PROVE NothingLost
  OBVIOUS
<1>1. count = 0 /\ dropped = {} /\ Range(written) = {}
  BY DEF Init, Range
<1>2. Waiting = <<>>
  BY EmptyType, LinesRules DEF Init, Waiting
<1>3. Range(Waiting) = {}
  BY <1>2 DEF Range
<1>. QED  BY <1>1, <1>3 DEF NothingLost

\* A line stays among those written, waiting or given up.
LEMMA StepLosesNothing ==
    ASSUME IInv, NothingLost, [Next]_vars
    PROVE  NothingLost'
<1>1. /\ IInv' /\ count \in Nat
      /\ Waiting \in Seq(Nat) /\ Waiting' \in Seq(Nat)
      /\ written \in Seq(Nat)
  <2>1. IInv'
    BY StepCorrect
  <2>. QED  BY <2>1, WaitingType, WaitingTypeNext DEF IInv, FrontOK, BackOK
<1>2. CASE Logs
  <2>1. Range(Waiting') = Range(Waiting) \cup {count + 1}
    BY <1>1, <1>2, RangeAppend DEF Logs
  <2>2. 1 .. count + 1 = (1 .. count) \cup {count + 1}
    BY <1>1
  <2>. QED  BY <1>2, <2>1, <2>2 DEF Logs, NothingLost
<1>3. CASE Writes
  <2>1. PICK h \in Seq(Nat) : /\ Waiting = h \o Waiting'
                              /\ written' = written \o h
                              /\ UNCHANGED <<count, dropped>>
    BY <1>3 DEF Writes
  <2>2. Range(Waiting) = Range(h) \cup Range(Waiting')
    BY <1>1, <2>1, RangeConcatenation
  <2>3. Range(written') = Range(written) \cup Range(h)
    BY <1>1, <2>1, RangeConcatenation
  <2>. QED  BY <2>1, <2>2, <2>3 DEF NothingLost
<1>4. CASE GivesUp
  <2>1. PICK a \in Seq(Nat), b \in Seq(Nat), c \in Seq(Nat) :
            /\ Waiting = (a \o b) \o c
            /\ Waiting' = a \o c
            /\ dropped' = dropped \cup Range(b)
            /\ UNCHANGED <<count, written>>
    BY <1>4 DEF GivesUp
  <2>2. Range(Waiting) = (Range(a) \cup Range(b)) \cup Range(c)
    <3> DEFINE ab == a \o b
    <3>1. ab \in Seq(Nat)
      BY ConcatProperties
    <3> HIDE DEF ab
    <3>2. Range(ab \o c) = Range(ab) \cup Range(c)
      BY <3>1, RangeConcatenation
    <3> USE DEF ab
    <3>3. Range(a \o b) = Range(a) \cup Range(b)
      BY RangeConcatenation
    <3>. QED  BY <2>1, <3>2, <3>3
  <2>3. Range(Waiting') = Range(a) \cup Range(c)
    BY <2>1, RangeConcatenation
  <2>. QED  BY <2>1, <2>2, <2>3 DEF NothingLost
<1>5. CASE Rests
  BY <1>5 DEF Rests, NothingLost
<1>. QED  BY <1>2, <1>3, <1>4, <1>5, StepOfLog

\* Every line is written, waiting in some buffer, or in the part that the
\* back end reported as dropped (AsyncLogging.cpp:117-130).
THEOREM NoLineIsLost == Spec => []NothingLost
BY InvHolds, InitLosesNothing, StepLosesNothing, PTL DEF Spec

-----------------------------------------------------------------------------
(* stop() flushes.                                                         *)

\* What has been logged before stop() is among the lines.
StopOK ==
    /\ running <=> owner = "started"
    /\ owner \in {"stopping", "stopped"} => atStop <= count
    /\ daemon = "exited" =>
          /\ owner \in {"stopping", "stopped"}
          /\ missed \/ 1 .. atStop \subseteq Range(written) \cup dropped

\* A log thread that has not run yet has not exited (AsyncLogging.cpp:7-19).
LEMMA InitStopOK == Init => StopOK
BY DEF Init, StopOK

\* The log thread leaves only when nothing is waiting or in the middle of an
\* Append, and what is written or given up stays so (AsyncLogging.cpp:41-46,
\* 64-71, 87).
LEMMA StepStopOK ==
    ASSUME ~EarlyTest, IInv, NothingLost, StopOK, [Next]_vars
    PROVE  StopOK'
<1>1. /\ count \in Nat /\ atStop \in Nat
      /\ written \in Seq(Nat) /\ count' \in Nat
  BY StepCorrect DEF IInv, FrontOK, LifeOK, BackOK
<1>2. /\ Range(written) \subseteq Range(written')
      /\ dropped \subseteq dropped'
      /\ count <= count'
  <2>1. CASE Writes
    <3>1. PICK h \in Seq(Nat) : /\ written' = written \o h
                                /\ UNCHANGED <<count, dropped>>
      BY <2>1 DEF Writes
    <3>2. Range(written') = Range(written) \cup Range(h)
      BY <1>1, <3>1, RangeConcatenation
    <3>. QED  BY <1>1, <3>1, <3>2
  <2>. QED  BY <1>1, <2>1, StepOfLog DEF Logs, GivesUp, Rests
<1>3. CASE Test
  <2>1. UNCHANGED <<front, life, back>> /\ owner # "built" /\ daemon = "test"
    BY <1>3 DEF Test
  <2>2. ASSUME daemon' = "exited"
        PROVE  /\ owner \in {"stopping", "stopped"}
               /\ missed' \/ 1 .. atStop \subseteq Range(written) \cup dropped
    <3>1. ~running /\ current = <<>> /\ current # NoBuffer
      BY <1>3, <2>2, EmptyType DEF Test, Leaves
    <3>2. owner \in {"stopping", "stopped"} /\ atStop <= count
      BY <2>1, <3>1 DEF StopOK, IInv, LifeOK
    <3>3. CASE appending = "line"
      BY <1>3, <2>2, <3>2, <3>3 DEF Test, Leaves
    <3>4. CASE appending # "line"
      <4>1. toWrite = <<>> /\ buffers = <<>>
        BY <2>1, <3>1, <3>4 DEF IInv, EnoughBuffers, QueueHasCurrent
      <4>2. Waiting = <<>>
        BY <3>1, <4>1, EmptyType, LinesRules DEF Waiting
      <4>3. Range(Waiting) = {}
        BY <4>2 DEF Range
      <4>4. 1 .. atStop \subseteq 1 .. count
        BY <1>1, <3>2
      <4>. QED  BY <3>2, <4>3, <4>4 DEF NothingLost
    <3>. QED  BY <3>3, <3>4
  <2>. QED  BY <2>1, <2>2 DEF StopOK, life, front, back
<1>4. CASE Start
  BY <1>4, EmptyType DEF Start, StopOK, front, back
<1>5. CASE Stop
  <2>1. daemon # "exited" /\ daemon' = daemon
    BY <1>5 DEF Stop, StopOK
  <2>. QED  BY <1>1, <1>5, <2>1 DEF Stop, StopOK, front, back
<1>6. CASE Join
  BY <1>6 DEF Join, StopOK, front, back
<1>7. ASSUME UNCHANGED <<life, missed>>, daemon' = "exited" => daemon = "exited"
      PROVE  StopOK'
  BY <1>1, <1>2, <1>7 DEF StopOK, life
<1>8. CASE AppendStep \/ UNCHANGED vars
  BY <1>7, <1>8 DEF AppendStep, AppendLine, BeginSwap, TakeNext, EndSwap, vars
<1>9. CASE Lock \/ Wake \/ Drop \/ WriteBuffer \/ Refill
  BY <1>7, <1>9 DEF Lock, Wake, Swap, Drop, WriteBuffer, Refill
<1>. QED
  BY <1>3, <1>4, <1>5, <1>6, <1>8, <1>9 DEF Next, DaemonStep, OwnerStep

\* If the log thread first asks whether the log runs after start(), then once
\* it has exited whatever was appended before stop() has been written or
\* reported as dropped, unless its last test fell between the two moves and
\* the line of a thread that was still logging (AsyncLogging.cpp:41-46,
\* 64-71, 87).
THEOREM StopLosesNothing ==
    ASSUME ~EarlyTest
    PROVE  Spec => []StopFlushes
<1>1. IInv /\ NothingLost /\ StopOK /\ [Next]_vars => StopOK'
  BY StepStopOK
<1>2. StopOK => StopFlushes
  BY DEF StopOK, StopFlushes
<1>. QED  BY <1>1, <1>2, InitStopOK, InvHolds, NoLineIsLost, PTL DEF Spec

-----------------------------------------------------------------------------
(* The log thread does not read a null pointer while the log is started.   *)

\* m_running is true between start() and stop(), and nobody logs before.
OwnerOK ==
    /\ running <=> owner = "started"
    /\ appending # "no" => owner # "built"
    /\ NullOnlyAtStop

\* Nobody logs at first (AsyncLogging.cpp:7-19).
LEMMA InitOwnerOK == Init => OwnerOK
BY DEF Init, OwnerOK, NullOnlyAtStop

\* The pointer is read only when m_running is false, and is null only inside
\* an Append (AsyncLogging.cpp:36-46, 60-64, 87).
LEMMA StepOwnerOK == IInv /\ OwnerOK /\ [Next]_vars => OwnerOK'
<1> SUFFICES ASSUME IInv, OwnerOK, [Next]_vars  PROVE OwnerOK'
  OBVIOUS
<1>1. CASE AppendStep
  BY <1>1
  DEF AppendStep, AppendLine, BeginSwap, TakeNext, EndSwap, MayLog,
      OwnerOK, NullOnlyAtStop, life
<1>2. CASE Test
  <2>1. UNCHANGED <<running, owner, appending>>
    BY <1>2 DEF Test, life, front
  <2>2. daemon' = "crashed" => ~running /\ appending = "next"
    BY <1>2 DEF Test, Leaves, IInv, FrontOK
  <2>3. ~running /\ appending # "no" => owner \in {"stopping", "stopped"}
    BY DEF OwnerOK, IInv, LifeOK
  <2>. QED  BY <2>1, <2>2, <2>3 DEF OwnerOK, NullOnlyAtStop
<1>3. CASE Lock \/ Wake \/ Drop \/ WriteBuffer \/ Refill
  <2>1. UNCHANGED <<running, owner, appending>>
    BY <1>3 DEF Lock, Wake, Swap, Drop, WriteBuffer, Refill, life, front
  <2>2. daemon' # "crashed"
    BY <1>3 DEF Lock, Wake, Swap, Drop, WriteBuffer, Refill
  <2>. QED  BY <2>1, <2>2 DEF OwnerOK, NullOnlyAtStop
<1>4. CASE OwnerStep
  BY <1>4
  DEF OwnerStep, Start, Stop, Join, OwnerOK, NullOnlyAtStop, front
<1>5. CASE UNCHANGED vars
  BY <1>5 DEF OwnerOK, NullOnlyAtStop, vars, life, front
<1>. QED  BY <1>1, <1>2, <1>3, <1>4, <1>5 DEF Next, DaemonStep

\* Until stop() the log thread, which reads m_currentBuffer without the mutex,
\* never dereferences the null that an Append leaves there (AsyncLogging.cpp:
\* 60, 87).
THEOREM NullIsNotRead == Spec => []NullOnlyAtStop
<1>1. OwnerOK => NullOnlyAtStop
  BY DEF OwnerOK
<1>. QED  BY <1>1, InitOwnerOK, StepOwnerOK, InvHolds, PTL DEF Spec

-----------------------------------------------------------------------------
(* The log implements a queue of lines.                                    *)

\* The parts of a concatenation are found again by their lengths.
LEMMA ConcatParts ==
    ASSUME NEW s \in Seq(Nat), NEW t \in Seq(Nat)
    PROVE  /\ Len(s \o t) = Len(s) + Len(t)
           /\ s \o t \in Seq(Nat)
           /\ SubSeq(s \o t, 1, Len(s)) = s
           /\ SubSeq(s \o t, Len(s) + 1, Len(s \o t)) = t
<1> DEFINE st == s \o t
           m  == Len(s)
           n  == Len(t)
<1>1. m \in Nat /\ n \in Nat
  OBVIOUS
<1>2. /\ st \in Seq(Nat)
      /\ Len(st) = m + n
      /\ \A i \in 1 .. m + n : st[i] = IF i <= m THEN s[i] ELSE t[i - m]
  BY ConcatProperties
<1> HIDE DEF st
<1>3. \A i \in 1 .. m + n : st[i] \in Nat
  BY <1>1, <1>2, ElementOfSeq
<1>4. SubSeq(st, 1, m) = s
  <2>1. /\ SubSeq(st, 1, m) \in Seq(Nat)
        /\ Len(SubSeq(st, 1, m)) = m
        /\ \A i \in 1 .. m : SubSeq(st, 1, m)[i] = st[i]
    BY <1>1, <1>3, SubSeqProperties
  <2>2. \A i \in 1 .. m : SubSeq(st, 1, m)[i] = s[i]
    BY <1>1, <1>2, <2>1
  <2>. QED  BY <2>1, <2>2, SeqEqual
<1>5. SubSeq(st, m + 1, m + n) = t
  <2>1. /\ SubSeq(st, m + 1, m + n) \in Seq(Nat)
        /\ Len(SubSeq(st, m + 1, m + n)) = n
        /\ \A i \in 1 .. n : SubSeq(st, m + 1, m + n)[i] = st[m + i]
    <3>1. m + 1 \in Int /\ m + n \in Int
          /\ \A i \in m + 1 .. m + n : st[i] \in Nat
      BY <1>1, <1>3
    <3>2. /\ SubSeq(st, m + 1, m + n) \in Seq(Nat)
          /\ Len(SubSeq(st, m + 1, m + n))
                = IF m + 1 <= m + n THEN (m + n) - (m + 1) + 1 ELSE 0
          /\ \A i \in 1 .. (m + n) - (m + 1) + 1 :
                SubSeq(st, m + 1, m + n)[i] = st[(m + 1) + i - 1]
      BY <3>1, SubSeqProperties
    <3>3. (m + n) - (m + 1) + 1 = n /\ \A i \in 1 .. n : (m + 1) + i - 1 = m + i
      BY <1>1
    <3>. QED  BY <1>1, <3>2, <3>3
  <2>2. \A i \in 1 .. n : st[m + i] = t[i]
    <3> TAKE i \in 1 .. n
    <3>1. m + i \in 1 .. m + n /\ ~(m + i <= m) /\ (m + i) - m = i
      BY <1>1
    <3>. QED  BY <1>2, <3>1
  <2>3. \A i \in 1 .. n : SubSeq(st, m + 1, m + n)[i] = t[i]
    BY <2>1, <2>2
  <2>. QED  BY <2>1, <2>3, SeqEqual
<1>. QED  BY <1>2, <1>4, <1>5 DEF st

\* Logging is a submission.
LEMMA LogsSubmits == Logs => Queue!Submit
BY DEF Logs, Queue!Submit

\* Writing the lines of a buffer writes the first lines that wait, unless the
\* buffer has none (AsyncLogging.cpp:132-139).
LEMMA WritesRefines ==
    ASSUME Waiting' \in Seq(Nat), written \in Seq(Nat), Writes
    PROVE  [Queue!Next]_Queue!vars
<1>1. PICK h \in Seq(Nat) : /\ Waiting = h \o Waiting'
                            /\ written' = written \o h
                            /\ UNCHANGED <<count, dropped>>
  BY DEF Writes
<1>2. CASE h = <<>>
  <2>1. Waiting' = Waiting /\ written' = written
    BY <1>1, <1>2, ConcatEmptySeq
  <2>. QED  BY <1>1, <2>1 DEF Queue!vars
<1>3. CASE h # <<>>
  <2>1. /\ Len(Waiting) = Len(h) + Len(Waiting')
        /\ SubSeq(Waiting, 1, Len(h)) = h
        /\ SubSeq(Waiting, Len(h) + 1, Len(Waiting)) = Waiting'
    BY <1>1, ConcatParts
  <2>2. Len(h) \in 1 .. Len(Waiting)
    BY <1>3, <2>1
  <2>3. Queue!Write(Len(h))
    BY <1>1, <2>1 DEF Queue!Write
  <2>. QED  BY <2>2, <2>3 DEF Queue!Next
<1>. QED  BY <1>2, <1>3

\* What the back end gives up are adjacent lines (AsyncLogging.cpp:117-130).
LEMMA GivesUpDiscards ==
    ASSUME GivesUp
    PROVE  [Queue!Next]_Queue!vars
<1>1. PICK a \in Seq(Nat), b \in Seq(Nat), c \in Seq(Nat) :
          /\ Waiting = (a \o b) \o c
          /\ Waiting' = a \o c
          /\ UNCHANGED <<count, written>>
  BY DEF GivesUp
<1> DEFINE ab == a \o b
           m  == Len(a)
           n  == Len(ab) + 1
<1>2. /\ ab \in Seq(Nat) /\ Len(ab) = m + Len(b)
      /\ m \in Nat /\ Len(b) \in Nat /\ Len(c) \in Nat
  BY ConcatParts
<1>3. SubSeq(Waiting, n, Len(Waiting)) = c /\ Len(Waiting) = Len(ab) + Len(c)
  <2> HIDE DEF ab
  <2>. QED  BY <1>1, <1>2, ConcatParts DEF ab
<1>4. SubSeq(Waiting, 1, m) = a
  <2>1. b \o c \in Seq(Nat)
    BY ConcatParts
  <2>2. Cat(Cat(a, b), c) = Cat(a, Cat(b, c))
    BY CatRules
  <2>3. Waiting = a \o (b \o c)
    BY <1>1, <2>2 DEF Cat
  <2> DEFINE bc == b \o c
  <2> HIDE DEF bc
  <2>4. SubSeq(a \o bc, 1, m) = a
    BY <2>1, ConcatParts DEF bc
  <2>. QED  BY <2>3, <2>4 DEF bc
<1>5. Queue!Discard(m, n)
  <2> HIDE DEF m, n
  <2>. QED  BY <1>1, <1>3, <1>4 DEF Queue!Discard
<1>6. m \in 0 .. Len(Waiting) /\ n \in 1 .. Len(Waiting) + 1 /\ m < n
  <2> HIDE DEF ab
  <2>. QED  BY <1>2, <1>3
<1>. QED  BY <1>5, <1>6 DEF Queue!Next

\* The empty log is an empty queue.
LEMMA InitRefines == Init => Queue!Init
<1> SUFFICES ASSUME Init  PROVE Queue!Init
  OBVIOUS
<1>1. Waiting = <<>>
  BY EmptyType, LinesRules DEF Init, Waiting
<1>. QED  BY <1>1 DEF Init, Queue!Init

\* Each step of the log is one of the queue, or none.
LEMMA StepRefines == IInv /\ [Next]_vars => [Queue!Next]_Queue!vars
<1> SUFFICES ASSUME IInv, [Next]_vars  PROVE [Queue!Next]_Queue!vars
  OBVIOUS
<1>1. Waiting' \in Seq(Nat) /\ written \in Seq(Nat)
  BY StepCorrect, WaitingTypeNext DEF IInv, BackOK
<1>2. Rests => UNCHANGED Queue!vars
  BY DEF Rests, Queue!vars
<1>3. Logs => Queue!Next
  BY LogsSubmits DEF Queue!Next
<1>. QED  BY <1>1, <1>2, <1>3, WritesRefines, GivesUpDiscards, StepOfLog

\* The log is a queue: threads' lines come out in the order of their Append,
\* once (AsyncLogging.cpp:48-164).
THEOREM LogIsQueue == Spec => ImplementsLogQueue
<1>1. Spec => Queue!Init /\ [][Queue!Next]_Queue!vars
  BY InvHolds, InitRefines, StepRefines, PTL DEF Spec
<1>. QED  BY <1>1 DEF ImplementsLogQueue, Queue!Spec
=============================================================================

---------------------------- MODULE AsyncLogging ----------------------------
(***************************************************************************)
(* The asynchronous log: threads append lines to the current buffer under  *)
(* a mutex, and queue it when it is full; one log thread swaps the queue   *)
(* for its own and writes it out.  Four buffers circulate (current, next,  *)
(* newBuffer1, newBuffer2); more are made when logging is too fast.        *)
(*                                                                         *)
(* A line is its number, in the order of the mutex.  How much room a line  *)
(* takes is left open: any buffer that holds a line may be too full for    *)
(* the next one.  A null unique_ptr is NoBuffer; dereferencing one ends    *)
(* the program: the log thread is "crashed" and nothing follows.           *)
(***************************************************************************)
EXTENDS Naturals, SequencesExt

CONSTANTS
    NoBuffer,
    DropAt,     \* the back end gives lines up beyond this many buffers (25)
    MaxFit,     \* most lines a buffer can hold
    MaxLines,   \* bound: lines logged
    EarlyTest   \* TRUE if the log thread may reach its loop before start()

ASSUME NoBufferAssumption == NoBuffer \notin Seq(Nat)
ASSUME DropAtAssumption == DropAt \in Nat /\ DropAt >= 2
ASSUME MaxFitAssumption == MaxFit \in Nat \ {0}
ASSUME MaxLinesAssumption == MaxLines \in Nat
ASSUME EarlyTestAssumption == EarlyTest \in BOOLEAN

VARIABLES
    count,      \* lines appended so far
    current,    \* m_currentBuffer
    next,       \* m_nextBuffer # nullptr; it is always empty
    buffers,    \* m_buffers
    appending,  \* "no", or an Append that swaps holds m_mtx and is at its
                \* move of the next buffer ("next") or at the line ("line")
    running,    \* m_running
    owner,      \* the thread that owns the log: "built", "started",
                \* "stopping" (in stop(), joining) or "stopped"
    atStop,     \* history: lines appended before stop()
    daemon,     \* the log thread: "test", "lock", "wait", "write",
                \* "exited" or "crashed"
    missed,     \* history: it exited on a test in the middle of an Append
    toWrite,    \* buffersToWrite, less the buffers already written
    spare,      \* how many of it are written and kept
    new1, new2, \* newBuffer1 # nullptr, newBuffer2 # nullptr
    written,    \* lines in the output
    dropped     \* lines given up

front  == <<count, current, next, buffers, appending>>
back   == <<toWrite, spare, new1, new2, written, dropped>>
life   == <<running, owner, atStop>>
vars   == <<front, life, daemon, missed, back>>

Lines(bs) == FlattenSeq(bs)

TypeOK ==
    /\ count \in Nat
    /\ current \in Seq(Nat) \cup {NoBuffer}
    /\ next \in BOOLEAN
    /\ buffers \in Seq(Seq(Nat))
    /\ appending \in {"no", "next", "line"}
    /\ appending = "next" <=> current = NoBuffer
    /\ appending = "line" => current = <<>>
    /\ running \in BOOLEAN
    /\ atStop \in Nat
    /\ owner \in {"built", "started", "stopping", "stopped"}
    /\ daemon \in {"test", "lock", "wait", "write", "exited", "crashed"}
    /\ missed \in BOOLEAN
    /\ toWrite \in Seq(Seq(Nat))
    /\ spare \in Nat
    /\ new1 \in BOOLEAN /\ new2 \in BOOLEAN
    /\ written \in Seq(Nat)
    /\ dropped \in SUBSET Nat

\* the constructor has run; it has started the log thread
Init ==
    /\ count = 0
    /\ current = <<>>
    /\ next = TRUE
    /\ buffers = <<>>
    /\ appending = "no"
    /\ running = FALSE
    /\ owner = "built"
    /\ atStop = 0
    /\ daemon = "test"
    /\ missed = FALSE
    /\ toWrite = <<>>
    /\ spare = 0
    /\ new1 = TRUE /\ new2 = TRUE
    /\ written = <<>>
    /\ dropped = {}

-----------------------------------------------------------------------------
(* The owner: getInstance(), start(), and stop() from the destructor.      *)

\* the program has not crashed
Alive == daemon # "crashed"

Start ==
    /\ owner = "built"
    /\ Alive
    /\ owner' = "started"
    /\ running' = TRUE
    /\ UNCHANGED <<front, atStop, daemon, missed, back>>

Stop ==
    /\ owner = "started"
    /\ Alive
    /\ owner' = "stopping"
    /\ running' = FALSE
    /\ atStop' = count
    /\ UNCHANGED <<front, daemon, missed, back>>

Join ==
    /\ owner = "stopping"
    /\ daemon = "exited"
    /\ owner' = "stopped"
    /\ UNCHANGED <<front, running, atStop, daemon, missed, back>>

-----------------------------------------------------------------------------
(* Append, in any thread: also in one that logs after stop().              *)

MayLog ==
    /\ Alive
    /\ count < MaxLines
    /\ owner # "built"

\* the line fits
AppendLine ==
    /\ MayLog
    /\ appending = "no"
    /\ Len(current) < MaxFit
    /\ count' = count + 1
    /\ current' = Append(current, count')
    /\ UNCHANGED <<next, buffers, appending, life, daemon, missed, back>>

\* it does not: the current buffer is moved to the queue ...
BeginSwap ==
    /\ MayLog
    /\ appending = "no"
    /\ current # <<>>
    /\ buffers' = Append(buffers, current)
    /\ current' = NoBuffer
    /\ appending' = "next"
    /\ UNCHANGED <<count, next, life, daemon, missed, back>>

\* ... the next one, or one more, takes its place ...
TakeNext ==
    /\ Alive
    /\ appending = "next"
    /\ current' = <<>>
    /\ next' = FALSE
    /\ appending' = "line"
    /\ UNCHANGED <<count, buffers, life, daemon, missed, back>>

\* ... and the line
EndSwap ==
    /\ Alive
    /\ appending = "line"
    /\ count' = count + 1
    /\ current' = Append(current, count')
    /\ appending' = "no"
    /\ UNCHANGED <<next, buffers, life, daemon, missed, back>>

-----------------------------------------------------------------------------
(* ThreadFunc, in the log thread.                                          *)

\* Operators named Bug... are plausible mistakes in the operation that follows
\* them: no action uses them, each breaks one property.

\* what the log thread does with the outcome of its loop's condition
Leaves(more) ==
    /\ daemon' = IF more THEN "lock" ELSE "exited"
    /\ missed' = (~more /\ appending = "line")

\* the loop only asks whether the log is still running
BugTest ==
    /\ daemon = "test"
    /\ EarlyTest \/ owner # "built"
    /\ Leaves(running)
    /\ UNCHANGED <<front, life, back>>

\* the two operands the other way round
BugTestOrder ==
    /\ daemon = "test"
    /\ EarlyTest \/ owner # "built"
    /\ IF current = NoBuffer
       THEN daemon' = "crashed" /\ UNCHANGED missed
       ELSE Leaves(current # <<>> \/ running)
    /\ UNCHANGED <<front, life, back>>

\* the loop's condition, read without the mutex: null in the middle of an
\* Append, empty a moment later
Test ==
    /\ daemon = "test"
    /\ EarlyTest \/ owner # "built"
    /\ IF ~running /\ current = NoBuffer
       THEN daemon' = "crashed" /\ UNCHANGED missed
       ELSE Leaves(running \/ current # <<>>)
    /\ UNCHANGED <<front, life, back>>

\* newBuffer1 does not take the place of the current buffer
BugSwapNull ==
    /\ toWrite' = Append(buffers, current)
    /\ buffers' = <<>>
    /\ current' = NoBuffer
    /\ new1' = FALSE
    /\ next' = TRUE
    /\ new2' = IF next THEN new2 ELSE FALSE
    /\ daemon' = "write"
    /\ UNCHANGED <<count, appending, life, missed, spare, written, dropped>>

\* newBuffer2 is moved whether m_nextBuffer is null or not
BugSwapGreedy ==
    /\ toWrite' = Append(buffers, current)
    /\ buffers' = <<>>
    /\ current' = <<>>
    /\ new1' = FALSE
    /\ next' = TRUE
    /\ new2' = FALSE
    /\ daemon' = "write"
    /\ UNCHANGED <<count, appending, life, missed, spare, written, dropped>>

\* the current buffer is put before the full ones
BugSwapOrder ==
    /\ toWrite' = <<current>> \o buffers
    /\ buffers' = <<>>
    /\ current' = <<>>
    /\ new1' = FALSE
    /\ next' = TRUE
    /\ new2' = IF next THEN new2 ELSE FALSE
    /\ daemon' = "write"
    /\ UNCHANGED <<count, appending, life, missed, spare, written, dropped>>

\* the two queues are swapped, with the mutex; m_nextBuffer is restored
Swap ==
    /\ toWrite' = Append(buffers, current)
    /\ buffers' = <<>>
    /\ current' = <<>>
    /\ new1' = FALSE
    /\ next' = TRUE
    /\ new2' = IF next THEN new2 ELSE FALSE
    /\ daemon' = "write"
    /\ UNCHANGED <<count, appending, life, missed, spare, written, dropped>>

Lock ==
    /\ daemon = "lock"
    /\ appending = "no"
    /\ IF buffers = <<>>
       THEN /\ daemon' = "wait"
            /\ UNCHANGED <<front, life, missed, back>>
       ELSE Swap

\* a wait for a full buffer, without a time limit
BugWake ==
    /\ daemon = "wait"
    /\ appending = "no"
    /\ IF buffers = <<>>
       THEN ~running /\ daemon' = "test" /\ UNCHANGED <<front, life, missed, back>>
       ELSE Swap

\* wait_for returns: notified, spuriously, or after m_flushInterval
Wake ==
    /\ daemon = "wait"
    /\ appending = "no"
    /\ IF buffers = <<>> /\ current = <<>>
       THEN /\ daemon' = "test"
            /\ UNCHANGED <<front, life, missed, back>>
       ELSE Swap

\* the buffers beyond DropAt are erased without a word
BugDrop ==
    /\ daemon = "write"
    /\ spare = 0
    /\ Len(toWrite) > DropAt
    /\ toWrite' = SubSeq(toWrite, 1, 2)
    /\ UNCHANGED <<front, life, daemon, missed, spare, new1, new2, written, dropped>>

\* more than DropAt buffers: all but the first two are erased
Drop ==
    /\ daemon = "write"
    /\ spare = 0
    /\ Len(toWrite) > DropAt
    /\ dropped' = dropped \cup Range(Lines(SubSeq(toWrite, 3, Len(toWrite))))
    /\ toWrite' = SubSeq(toWrite, 1, 2)
    /\ UNCHANGED <<front, life, daemon, missed, spare, new1, new2, written>>

WriteBuffer ==
    /\ daemon = "write"
    /\ spare = 0 => Len(toWrite) <= DropAt
    /\ toWrite # <<>>
    /\ written' = written \o Head(toWrite)
    /\ toWrite' = Tail(toWrite)
    /\ spare' = spare + 1
    /\ UNCHANGED <<front, life, daemon, missed, new1, new2, dropped>>

\* buffers the log thread has to take back
Missing == (IF new1 THEN 0 ELSE 1) + (IF new2 THEN 0 ELSE 1)

\* newBuffer1 and newBuffer2 are filled again from the back of
\* buffersToWrite, which is then cleared
Refill ==
    /\ daemon = "write"
    /\ toWrite = <<>>
    /\ Missing <= spare
    /\ new1' = TRUE
    /\ new2' = TRUE
    /\ spare' = 0
    /\ daemon' = "test"
    /\ UNCHANGED <<front, life, missed, toWrite, written, dropped>>

-----------------------------------------------------------------------------
AppendStep == AppendLine \/ BeginSwap \/ TakeNext \/ EndSwap
DaemonStep == Test \/ Lock \/ Wake \/ Drop \/ WriteBuffer \/ Refill
OwnerStep  == Start \/ Stop \/ Join

Next == AppendStep \/ DaemonStep \/ OwnerStep

\* threads get to run, and a wait times out
Fairness ==
    /\ WF_vars(DaemonStep)
    /\ WF_vars(TakeNext)
    /\ WF_vars(EndSwap)
    /\ WF_vars(Start)
    /\ WF_vars(Join)

Spec == Init /\ [][Next]_vars /\ Fairness
-----------------------------------------------------------------------------
\* When the log thread takes newBuffer1 and newBuffer2 back, there is a
\* buffer for each in buffersToWrite: back() is never called on an empty
\* vector (AsyncLogging.cpp:110-113, 141-160).
RefillPossible == daemon = "write" /\ toWrite = <<>> => Missing <= spare

\* lines that were appended and are neither written nor given up
Waiting == Lines(toWrite) \o Lines(buffers) \o
           (IF current = NoBuffer THEN <<>> ELSE current)

\* Every line is written, waiting in some buffer, or in the part that the
\* back end reported as dropped (AsyncLogging.cpp:117-130).
NothingLost == 1 .. count = Range(written) \cup Range(Waiting) \cup dropped

\* Once the log thread has exited, whatever was appended before stop() has
\* been written (or dropped), in the current buffer or in the queue, unless
\* its last test fell between the two moves and the line of a thread that
\* was still logging (AsyncLogging.cpp:41-46, 64-71, 87): such a test sees
\* an empty buffer while m_buffers is full.
StopFlushes ==
    daemon = "exited" /\ ~missed /\ owner \in {"stopping", "stopped"} =>
        1 .. atStop \subseteq Range(written) \cup dropped

\* While the log is started the log thread does not dereference the pointer
\* that an Append has moved from, although it reads it without the mutex:
\* m_running is tested first.  It can from stop() on (AsyncLogging.cpp:60,
\* 87).
NullOnlyAtStop == daemon = "crashed" => owner \in {"stopping", "stopped"}

\* The log is a queue: threads' lines come out in the order of their Append,
\* once (AsyncLogging.cpp:48-164).
Queue == INSTANCE LogQueue WITH waiting <- Waiting
ImplementsLogQueue == Queue!Spec

\* A line appended while the log is started is eventually written or
\* dropped, without any further line being logged (AsyncLogging.cpp:93-108),
\* unless stop() comes and the log thread's last test falls into the Append
\* of a thread that is still logging.
LineIsWritten ==
    \A n \in 1 .. MaxLines :
        owner = "started" /\ count >= n ~>
            \/ n \in Range(written) \cup dropped
            \/ missed \/ daemon = "crashed"
=============================================================================

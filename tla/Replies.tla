------------------------------ MODULE Replies ------------------------------
(***************************************************************************)
(* The way of a message through the threads when the application has a     *)
(* worker pool: an I/O loop cuts it from the input and gives it to the     *)
(* pool (EchoServer::HandleOnMessage, ThreadPool::AddTask), a worker       *)
(* answers it (Connection::send), queues the reply to the loop of the      *)
(* connection and wakes it (EventLoop::addTask, EventFd), and the loop     *)
(* writes the reply to the connection's output buffer.                     *)
(*                                                                         *)
(* A connection is its descriptor and a message its number in the order    *)
(* the loops queued them.  Reactor says when a queued task outlives its    *)
(* connection; here a connection that is closed stays to be written to.    *)
(***************************************************************************)
EXTENDS Naturals, FiniteSets, SequencesExt

CONSTANTS
    Fds,         \* the connections
    NumLoops,    \* I/O threads
    Workers,     \* worker threads (m_workthreads)
    MaxMessages  \* bound: messages the clients send

ASSUME FdsAssumption == Fds \subseteq Nat
ASSUME NumLoopsAssumption == NumLoops \in Nat \ {0}
ASSUME WorkersAssumption == IsFiniteSet(Workers) /\ Workers # {}
ASSUME MaxMessagesAssumption == MaxMessages \in Nat

Loops == 0 .. NumLoops - 1
LoopOf(f) == f % NumLoops   \* m_psubloop[fd % m_threadsnums]

VARIABLES
    received,   \* received[n]: the connection of message n
    disc,       \* disc[f]: m_disconnect
    poolq,      \* ThreadPool::m_tasksqueue
    worker,     \* worker[w]: a worker's place in send and its message
    taskq,      \* taskq[l]: EventLoop::m_taskqueue
    efd,        \* efd[l]: the eventfd of loop l is readable
    loopPc,     \* loopPc[l]: "dispatch", or "drain" inside handleWakeUp
    out,        \* out[l]: the writeTo calls of loop l, in order
    silent      \* silent[l]: a wake-up since the last drain wrote a zero
                \* (history: read by the properties only)

vars == <<received, disc, poolq, worker, taskq, efd, loopPc, out, silent>>

Messages == DOMAIN received
Idle == [pc |-> "idle", msg |-> 0]

TypeOK ==
    /\ received \in Seq(Fds)
    /\ disc \in [Fds -> BOOLEAN]
    /\ poolq \in Seq(Messages)
    /\ worker \in [Workers -> {Idle} \cup [pc : {"send", "push", "wakeup"},
                                           msg : Messages]]
    /\ taskq \in [Loops -> Seq(Messages)]
    /\ efd \in [Loops -> BOOLEAN]
    /\ loopPc \in [Loops -> {"dispatch", "drain"}]
    /\ out \in [Loops -> Seq(Messages)]
    /\ silent \in [Loops -> BOOLEAN]

Init ==
    /\ received = <<>>
    /\ disc = [f \in Fds |-> FALSE]
    /\ poolq = <<>>
    /\ worker = [w \in Workers |-> Idle]
    /\ taskq = [l \in Loops |-> <<>>]
    /\ efd = [l \in Loops |-> FALSE]
    /\ loopPc = [l \in Loops |-> "dispatch"]
    /\ out = [l \in Loops |-> <<>>]
    /\ silent = [l \in Loops |-> FALSE]

-----------------------------------------------------------------------------
(* An I/O loop.  Operators named Bug... are plausible mistakes in the      *)
(* operation after them: no action uses them, each breaks a property.      *)

\* the task refers to the buffer, and answers the message that comes next
BugHandleOnMessage(f) ==
    /\ loopPc[LoopOf(f)] = "dispatch"
    /\ ~disc[f]
    /\ Len(received) < MaxMessages
    /\ received' = Append(received, f)
    /\ poolq' = Append(poolq, Len(received) + 2)
    /\ UNCHANGED <<disc, worker, taskq, efd, loopPc, out, silent>>

\* a whole message of f: AddTask, under the mutex of the pool.  A closed
\* connection is past its end of file or broken, and gives none
HandleOnMessage(f) ==
    /\ loopPc[LoopOf(f)] = "dispatch"
    /\ ~disc[f]
    /\ Len(received) < MaxMessages
    /\ received' = Append(received, f)
    /\ poolq' = Append(poolq, Len(received) + 1)
    /\ UNCHANGED <<disc, worker, taskq, efd, loopPc, out, silent>>

\* onmessage or sendto closes the connection
CloseConnection(f) ==
    /\ loopPc[LoopOf(f)] = "dispatch"
    /\ ~disc[f]
    /\ disc' = [disc EXCEPT ![f] = TRUE]
    /\ UNCHANGED <<received, poolq, worker, taskq, efd, loopPc, out, silent>>

\* handleWakeUp reads the eventfd, before it looks at the queue
HandleWakeUp(l) ==
    /\ loopPc[l] = "dispatch"
    /\ efd[l]
    /\ efd' = [efd EXCEPT ![l] = FALSE]
    /\ loopPc' = [loopPc EXCEPT ![l] = "drain"]
    /\ UNCHANGED <<received, disc, poolq, worker, taskq, out, silent>>

\* one task is run for one wake-up
BugRunTasks(l) ==
    /\ loopPc[l] = "drain"
    /\ out' = [out EXCEPT ![l] = @ \o SubSeq(taskq[l], 1, 1)]
    /\ taskq' = [taskq EXCEPT ![l] = SubSeq(@, 2, Len(@))]
    /\ loopPc' = [loopPc EXCEPT ![l] = "dispatch"]
    /\ silent' = [silent EXCEPT ![l] = FALSE]
    /\ UNCHANGED <<received, disc, poolq, worker, efd>>

\* the tasks are run but stay in the queue
BugRunTasksAgain(l) ==
    /\ loopPc[l] = "drain"
    /\ out' = [out EXCEPT ![l] = @ \o taskq[l]]
    /\ loopPc' = [loopPc EXCEPT ![l] = "dispatch"]
    /\ silent' = [silent EXCEPT ![l] = FALSE]
    /\ UNCHANGED <<received, disc, poolq, worker, taskq, efd>>

\* then runs every task, each a writeTo, with the mutex held
RunTasks(l) ==
    /\ loopPc[l] = "drain"
    /\ out' = [out EXCEPT ![l] = @ \o taskq[l]]
    /\ taskq' = [taskq EXCEPT ![l] = <<>>]
    /\ loopPc' = [loopPc EXCEPT ![l] = "dispatch"]
    /\ silent' = [silent EXCEPT ![l] = FALSE]
    /\ UNCHANGED <<received, disc, poolq, worker, efd>>

-----------------------------------------------------------------------------
(* A worker thread.                                                        *)

\* the pool is a stack
BugTake(w) ==
    /\ worker[w].pc = "idle"
    /\ poolq # <<>>
    /\ worker' = [worker EXCEPT ![w] = [pc |-> "send", msg |-> Last(poolq)]]
    /\ poolq' = Front(poolq)
    /\ UNCHANGED <<received, disc, taskq, efd, loopPc, out, silent>>

Take(w) ==
    /\ worker[w].pc = "idle"
    /\ poolq # <<>>
    /\ worker' = [worker EXCEPT ![w] = [pc |-> "send", msg |-> Head(poolq)]]
    /\ poolq' = Tail(poolq)
    /\ UNCHANGED <<received, disc, taskq, efd, loopPc, out, silent>>

\* OnMessage calls send, which looks at m_disconnect once
Send(w) ==
    /\ worker[w].pc = "send"
    /\ worker' = IF disc[received[worker[w].msg]]
                 THEN [worker EXCEPT ![w] = Idle]
                 ELSE [worker EXCEPT ![w].pc = "push"]
    /\ UNCHANGED <<received, disc, poolq, taskq, efd, loopPc, out, silent>>

Home(n) == LoopOf(received[n])

\* addTask, under the mutex of the loop
Push(w) ==
    LET n == worker[w].msg
    IN  /\ worker[w].pc = "push"
        /\ taskq' = [taskq EXCEPT ![Home(n)] = Append(@, n)]
        /\ worker' = [worker EXCEPT ![w].pc = "wakeup"]
        /\ UNCHANGED <<received, disc, poolq, efd, loopPc, out, silent>>

\* the loop is woken when a task is its first, which it no longer is
BugWakeup(w) ==
    LET l == Home(worker[w].msg)
    IN  /\ worker[w].pc = "wakeup"
        /\ worker' = [worker EXCEPT ![w] = Idle]
        /\ efd' = [efd EXCEPT ![l] = @ \/ Len(taskq[l]) = 0]
        /\ UNCHANGED <<received, disc, poolq, taskq, loopPc, out, silent>>

\* then EventFd::wakeup, which writes an uninitialised integer: a zero
\* leaves the eventfd as it is
Wakeup(w) ==
    LET l == Home(worker[w].msg)
    IN  /\ worker[w].pc = "wakeup"
        /\ worker' = [worker EXCEPT ![w] = Idle]
        /\ \/ /\ efd' = [efd EXCEPT ![l] = TRUE]
              /\ UNCHANGED silent
           \/ /\ silent' = [silent EXCEPT ![l] = TRUE]
              /\ UNCHANGED efd
        /\ UNCHANGED <<received, disc, poolq, taskq, loopPc, out>>

-----------------------------------------------------------------------------
LoopStep(l) == HandleWakeUp(l) \/ RunTasks(l)
WorkerStep(w) == Take(w) \/ Send(w) \/ Push(w) \/ Wakeup(w)

Next ==
    \/ \E f \in Fds : HandleOnMessage(f) \/ CloseConnection(f)
    \/ \E l \in Loops : LoopStep(l)
    \/ \E w \in Workers : WorkerStep(w)

\* the threads run, and a level-triggered eventfd that stays readable is
\* reported; clients owe the server nothing
Fairness ==
    /\ \A l \in Loops : WF_vars(LoopStep(l))
    /\ \A w \in Workers : WF_vars(WorkerStep(w))

Spec == Init /\ [][Next]_vars /\ Fairness
-----------------------------------------------------------------------------
(* Properties.                                                             *)

\* what loop l has written or will write, in the order of writeTo
Stream(l) == out[l] \o taskq[l]

\* messages with the pool or with a worker that has not queued its reply
Unsent ==
    {poolq[i] : i \in DOMAIN poolq} \cup
    {worker[w].msg : w \in {v \in Workers : worker[v].pc \in {"send", "push"}}}

\* the messages of n's connection before n that the first k of s skip, r
\* being the record of messages
Skipped(r, n, s, k) ==
    {m \in 1 .. n - 1 : r[m] = r[n] /\ \A j \in 1 .. k : s[j] # m}

\* A reply goes before the replies to fewer earlier messages of its
\* connection than there are workers; with one worker replies keep the
\* order of the messages (EchoServer.cpp:55-58, ThreadPool.cpp:40-41).
BoundedOvertaking ==
    \A l \in Loops : \A i \in DOMAIN Stream(l) :
        Cardinality(Skipped(received, Stream(l)[i], Stream(l), i - 1))
            < Cardinality(Workers)

\* A message is answered at most once and by the loop of its connection,
\* and while that is open none is lost between the pool, the workers and
\* the loop (EchoServer.cpp:55, Connection.cpp:170, EventLoop.cpp:125-130).
AnsweredOnce ==
    /\ \A l \in Loops : \A i \in DOMAIN Stream(l) :
          /\ Home(Stream(l)[i]) = l
          /\ Stream(l)[i] \notin Unsent
          /\ \A j \in DOMAIN Stream(l) : Stream(l)[i] = Stream(l)[j] => i = j
    /\ \A n \in Messages : \/ disc[received[n]]
                           \/ n \in Unsent
                           \/ \E i \in DOMAIN Stream(Home(n)) :
                                 Stream(Home(n))[i] = n

\* A loop does not sleep on a reply: while its queue has one, the eventfd
\* is readable, or the loop is about to run the queue, or a worker is about
\* to wake it, or a wake-up since it last ran the queue wrote a zero
\* (EventLoop.cpp:105-131, EventFd.cpp:18-22).
NoLostWakeup ==
    \A l \in Loops : taskq[l] # <<>> =>
        \/ efd[l]
        \/ loopPc[l] = "drain"
        \/ silent[l]
        \/ \E w \in Workers :
              worker[w].pc = "wakeup" /\ Home(worker[w].msg) = l

Answered(n) ==
    n \in Messages /\ \E i \in DOMAIN out[Home(n)] : out[Home(n)][i] = n

Excused(n) == n \in Messages /\ (disc[received[n]] \/ silent[Home(n)])

\* Every message given to the pool is answered, unless its connection is
\* closed first or a zero was written to the eventfd of its loop
\* (EchoServer.cpp:52-58, EventLoop.cpp:105-131).  No client of that loop hangs
\* it with an oversized message (EchoServer.cpp:64-67): Replies has none, and
\* run bomb shows what one does.
ReplyArrives ==
    \A n \in 1 .. MaxMessages :
        n \in Messages ~> Answered(n) \/ Excused(n)
=============================================================================

------------------------------ MODULE Shutdown ------------------------------
(***************************************************************************)
(* Start and stop of the echo server: the two thread pools, the I/O loops  *)
(* that run as tasks of one of them, the workers that are the other, and   *)
(* EchoServer::Stop, which the program calls from its signal handler.  The *)
(* handler runs on the main thread, in the place of the main loop.         *)
(*                                                                         *)
(* The life of connections is in Reactor, the eventfd and the order of     *)
(* replies in Replies.  Here a connection is the locks that its creation   *)
(* and its end take, those of the map, the loop and the log; a message is  *)
(* a task for the workers, then a task in the queue of its loop.           *)
(***************************************************************************)
EXTENDS Naturals, FiniteSets, SequencesExt

CONSTANTS
    NumLoops,       \* m_threadsnums
    IoThreads,      \* the threads of m_threadpool, as many
    Workers,        \* the threads of m_workthreads
    Messages,       \* bound: the messages that clients send
    MaxClients,     \* bound: the clients that connect
    SignalInLock,   \* the signal may come while the main thread has a lock
    NoTask          \* what a thread runs that runs nothing

Loops == 1 .. NumLoops
MainLoop == 0
NoLoop == 0

ASSUME NumLoopsAssumption == NumLoops \in Nat \ {0}
ASSUME ThreadsAssumption ==
    /\ IsFiniteSet(IoThreads) /\ Cardinality(IoThreads) = NumLoops
    /\ Workers \cap IoThreads = {}
ASSUME MaxClientsAssumption == MaxClients \in Nat
ASSUME SignalInLockAssumption == SignalInLock \in BOOLEAN
ASSUME NoTaskAssumption == NoTask \notin Messages \cup Nat

Threads == IoThreads \cup Workers

VARIABLES
    main,       \* the main thread: "build", "test", "poll", "map", "list",
                \* "log" (with the mutex of the server, of a loop, of the
                \* log) or "returned"
    target,     \* the loop to which the client being set up is given
    accepted,   \* how many clients have been accepted
    built,      \* how many loops have been constructed
    io, work,   \* the queues of the two pools
    ioStop, workStop,   \* their m_stop
    thread,     \* thread[t]: "start", "idle" in the wait for a task, "run",
                \* for a worker also "give" and "drop", or "exited"
    running,    \* running[t]: the task it runs, a loop or a message
    loopPc,     \* loopPc[l]: "new", "queued", "test", "poll", "evict", "sweep",
                \* "delete", "erase", "spin" or "ended"
    loopStop,   \* the loops whose m_stop is set
    noEpoll,    \* the loops whose epoll_create failed
    clients,    \* clients[l]: the connections that the loop has
    reader,     \* reader[m]: the loop that has read message m, or NoLoop
    closed,     \* the messages whose connection has m_disconnect set
    queued,     \* the messages whose reply is in m_taskqueue of their loop
    ran,        \* the messages whose reply the loop has written
    stopPc,     \* Stop(): "idle", "work", "loops", "io" or "done"
    promised    \* history: the messages in the hands of the workers when they
                \* were told to stop

mainVars  == <<main, target, accepted, built>>
poolVars  == <<io, work, thread, running>>
loopVars  == <<loopPc, clients, noEpoll>>
replyVars == <<reader, closed, queued, ran>>
stopVars  == <<ioStop, workStop, loopStop, stopPc, promised>>
vars == <<mainVars, poolVars, loopVars, replyVars, stopVars>>

\* The types: in particular the I/O pool is only given loops that are there
\* (TcpServer.cpp:15-31, ThreadPool.cpp:17-52).
TypeOK ==
    /\ main \in {"build", "test", "poll", "map", "list", "log", "returned"}
    /\ target \in Loops
    /\ accepted \in 0 .. MaxClients
    /\ built \in 0 .. NumLoops
    /\ io \in Seq(1 .. built)
    /\ work \in Seq(Messages)
    /\ ioStop \in BOOLEAN /\ workStop \in BOOLEAN
    /\ thread \in [Threads -> {"start", "idle", "run", "give", "drop",
                               "exited"}]
    /\ running \in [Threads -> Loops \cup Messages \cup {NoTask}]
    /\ loopPc \in [Loops -> {"new", "queued", "test", "poll", "evict", "sweep",
                             "delete", "erase", "spin", "ended"}]
    /\ loopStop \subseteq {MainLoop} \cup Loops
    /\ noEpoll \subseteq {MainLoop} \cup Loops
    /\ clients \in [Loops -> 0 .. MaxClients]
    /\ reader \in [Messages -> Loops \cup {NoLoop}]
    /\ closed \subseteq Messages
    /\ queued \subseteq Messages
    /\ ran \subseteq Messages
    /\ stopPc \in {"idle", "work", "loops", "io", "done"}
    /\ promised \subseteq Messages

\* The threads of the pools have been created.  A loop whose epoll_create fails
\* only logs it.
Init ==
    /\ main = "build"
    /\ target = 1
    /\ accepted = 0
    /\ built = 0
    /\ io = <<>> /\ work = <<>>
    /\ ioStop = FALSE /\ workStop = FALSE
    /\ thread = [t \in Threads |-> "start"]
    /\ running = [t \in Threads |-> NoTask]
    /\ loopPc = [l \in Loops |-> "new"]
    /\ loopStop = {}
    /\ noEpoll \in SUBSET ({MainLoop} \cup Loops)
    /\ clients = [l \in Loops |-> 0]
    /\ reader = [m \in Messages |-> NoLoop]
    /\ closed = {} /\ queued = {} /\ ran = {}
    /\ stopPc = "idle"
    /\ promised = {}

\* the mutexes that the main thread takes: of the server, of a loop, of the log
ServerUnlocked == main # "map"
LoopUnlocked(l) == ~(main = "list" /\ target = l)
LogUnlocked == main # "log"

Runs(t, x) == thread[t] = "run" /\ running[t] = x

\* Operators named Bug... are plausible mistakes in the operation that follows
\* them: no action uses them, each breaks one property.

-----------------------------------------------------------------------------
(* The main thread.  It is suspended while the handler runs.               *)

MainRuns == stopPc \in {"idle", "done"}

\* the task captures i by reference, and reads it in the next iteration
BugBuildLoop ==
    /\ main = "build" /\ built < NumLoops
    /\ built' = built + 1
    /\ io' = Append(io, built + 2)
    /\ loopPc' = [loopPc EXCEPT ![built + 1] = "queued"]
    /\ UNCHANGED <<main, target, accepted, work, thread, running, clients,
                   noEpoll, replyVars, stopVars>>

\* a turn of the loop in the constructor of TcpServer
BuildLoop ==
    /\ main = "build" /\ built < NumLoops
    /\ built' = built + 1
    /\ io' = Append(io, built + 1)
    /\ loopPc' = [loopPc EXCEPT ![built + 1] = "queued"]
    /\ UNCHANGED <<main, target, accepted, work, thread, running, clients,
                   noEpoll, replyVars, stopVars>>

MainGoto(pc) ==
    /\ main' = pc
    /\ UNCHANGED <<target, accepted, built, poolVars, loopVars, replyVars,
                   stopVars>>

\* start: the main loop begins
Start == main = "build" /\ built = NumLoops /\ MainGoto("test")

\* while (!m_stop)
MainTests ==
    /\ main = "test" /\ MainRuns
    /\ MainGoto(IF MainLoop \in loopStop THEN "returned" ELSE "poll")

\* epoll_wait fails, and loop() returns although nobody has stopped it
MainFails ==
    /\ main = "poll" /\ MainRuns
    /\ MainLoop \in noEpoll
    /\ MainGoto("returned")

\* onconnect and createconnection: the map, then the loop, then the log, then
\* the next client
Accept(l) ==
    /\ main = "poll" /\ MainRuns
    /\ MainLoop \notin noEpoll
    /\ accepted < MaxClients
    /\ accepted' = accepted + 1
    /\ target' = l
    /\ main' = "map"
    /\ UNCHANGED <<built, poolVars, loopVars, replyVars, stopVars>>

GiveToLoop == main = "map" /\ MainRuns /\ MainGoto("list")

Activate ==
    /\ main = "list" /\ MainRuns
    /\ main' = "log"
    /\ clients' = [clients EXCEPT ![target] = @ + 1]
    /\ UNCHANGED <<target, accepted, built, poolVars, loopPc, noEpoll,
                   replyVars, stopVars>>

\* the line of the new client has been appended
Logged == main = "log" /\ MainRuns /\ MainGoto("poll")

\* the round is over, after EAGAIN, or epoll_wait returns without an event
MainRoundEnds ==
    /\ main = "poll" /\ MainRuns
    /\ MainLoop \notin noEpoll
    /\ MainGoto("test")

-----------------------------------------------------------------------------
(* The threads of a pool.                                                  *)

\* a new thread logs its number
Begin(t) ==
    /\ thread[t] = "start"
    /\ LogUnlocked
    /\ thread' = [thread EXCEPT ![t] = "idle"]
    /\ UNCHANGED <<mainVars, io, work, running, loopVars, replyVars, stopVars>>

\* the task stays in the queue
BugTakeLoop(t) ==
    /\ thread[t] = "idle"
    /\ io # <<>>
    /\ thread' = [thread EXCEPT ![t] = "run"]
    /\ running' = [running EXCEPT ![t] = Head(io)]
    /\ loopPc' = [loopPc EXCEPT ![Head(io)] = "test"]
    /\ UNCHANGED <<mainVars, io, work, clients, noEpoll, replyVars, stopVars>>

\* an I/O thread takes a loop and enters loop()
TakeLoop(t) ==
    /\ thread[t] = "idle"
    /\ io # <<>>
    /\ thread' = [thread EXCEPT ![t] = "run"]
    /\ running' = [running EXCEPT ![t] = Head(io)]
    /\ io' = Tail(io)
    /\ loopPc' = [loopPc EXCEPT ![Head(io)] = "test"]
    /\ UNCHANGED <<mainVars, work, clients, noEpoll, replyVars, stopVars>>

TakeMessage(w) ==
    /\ thread[w] = "idle"
    /\ work # <<>>
    /\ thread' = [thread EXCEPT ![w] = "run"]
    /\ running' = [running EXCEPT ![w] = Head(work)]
    /\ work' = Tail(work)
    /\ UNCHANGED <<mainVars, io, loopVars, replyVars, stopVars>>

\* the worker has computed the reply; send does nothing for a connection that
\* has been closed
Reply(w) ==
    /\ thread[w] = "run"
    /\ thread' = [thread EXCEPT ![w] =
                      IF running[w] \in closed THEN "drop" ELSE "give"]
    /\ UNCHANGED <<mainVars, io, work, running, loopVars, replyVars, stopVars>>

\* addTask, with the mutex of the loop
GiveReply(w) ==
    /\ thread[w] = "give"
    /\ LoopUnlocked(reader[running[w]])
    /\ queued' = queued \cup {running[w]}
    /\ thread' = [thread EXCEPT ![w] = "drop"]
    /\ UNCHANGED <<mainVars, io, work, running, loopVars, reader, closed, ran,
                   stopVars>>

\* the task is destroyed; if it has the last reference to the connection, the
\* connection is too, and logs it
DropTask(w) ==
    /\ thread[w] = "drop"
    /\ LogUnlocked
    /\ thread' = [thread EXCEPT ![w] = "idle"]
    /\ running' = [running EXCEPT ![w] = NoTask]
    /\ UNCHANGED <<mainVars, io, work, loopVars, replyVars, stopVars>>

Exit(t) ==
    /\ thread[t] = "idle"
    /\ thread' = [thread EXCEPT ![t] = "exited"]
    /\ UNCHANGED <<mainVars, io, work, running, loopVars, replyVars, stopVars>>

\* a thread that is told to stop leaves the queue as it is
BugExitWorker(w) == workStop /\ Exit(w)

\* m_stop is set and the queue is empty
ExitWorker(w) == workStop /\ work = <<>> /\ Exit(w)

ExitIo(t) == ioStop /\ io = <<>> /\ Exit(t)

-----------------------------------------------------------------------------
(* EventLoop::loop, run by thread t.                                       *)

In(t, l, pc) == Runs(t, l) /\ loopPc[l] = pc

\* epoll_wait gives the loop an event
Polls(t, l) == In(t, l, "poll") /\ l \notin noEpoll

Goto(l, pc) == loopPc' = [loopPc EXCEPT ![l] = pc]

TestsStop(t, l) ==
    /\ In(t, l, "test")
    /\ l \notin loopStop
    /\ Goto(l, "poll")
    /\ UNCHANGED <<mainVars, poolVars, clients, noEpoll, replyVars, stopVars>>

\* loop() returns, with it the task of the thread: it was told to stop, or
\* epoll_wait fails, and logs it
Returns(t, l) ==
    /\ \/ In(t, l, "test") /\ l \in loopStop
       \/ In(t, l, "poll") /\ l \in noEpoll /\ LogUnlocked
    /\ Goto(l, "ended")
    /\ thread' = [thread EXCEPT ![t] = "idle"]
    /\ running' = [running EXCEPT ![t] = NoTask]
    /\ UNCHANGED <<mainVars, io, work, clients, noEpoll, replyVars, stopVars>>

\* epoll_wait times out after 10 ms
TimesOut(t, l) ==
    /\ Polls(t, l)
    /\ Goto(l, "test")
    /\ UNCHANGED <<mainVars, poolVars, clients, noEpoll, replyVars, stopVars>>

\* onmessage, with the mutex of the loop for updateConnection, then
\* HandleOnMessage: a task for the workers, or an answer at once.  AddTask does
\* not look at m_stop.
ReadMessage(t, l, m) ==
    /\ Polls(t, l)
    /\ clients[l] > 0
    /\ LoopUnlocked(l)
    /\ reader[m] = NoLoop
    /\ reader' = [reader EXCEPT ![m] = l]
    /\ IF Workers # {} THEN work' = Append(work, m) /\ UNCHANGED ran
                       ELSE ran' = ran \cup {m} /\ UNCHANGED work
    /\ Goto(l, "sweep")
    /\ UNCHANGED <<mainVars, io, thread, running, clients, noEpoll, closed,
                   queued, stopVars>>

\* the length of a message is 64 MB or more: HandleOnMessage does not end
ReadOversized(t, l) ==
    /\ Polls(t, l)
    /\ clients[l] > 0
    /\ LoopUnlocked(l)
    /\ Goto(l, "spin")
    /\ UNCHANGED <<mainVars, poolVars, clients, noEpoll, replyVars, stopVars>>

Spin(t, l) == In(t, l, "spin") /\ UNCHANGED vars

\* onmessage or sendto (which takes no mutex) closes a connection, from which
\* some messages were read
CloseClient(t, l) ==
    /\ Polls(t, l)
    /\ clients[l] > 0
    /\ \E ms \in SUBSET {m \in Messages : reader[m] = l} :
           closed' = closed \cup ms
    /\ Goto(l, "delete")
    /\ UNCHANGED <<mainVars, poolVars, clients, noEpoll, reader, queued, ran,
                   stopVars>>

\* handleWakeUp, with the mutex of the loop: the replies are written
HandleWakeUp(t, l) ==
    /\ Polls(t, l)
    /\ LoopUnlocked(l)
    /\ ran' = ran \cup {m \in queued : reader[m] = l}
    /\ queued' = {m \in queued : reader[m] # l}
    /\ Goto(l, "sweep")
    /\ UNCHANGED <<mainVars, poolVars, clients, noEpoll, reader, closed,
                   stopVars>>

\* handleTimer, with the mutex of the loop; a connection may be too old
HandleTimer(t, l) ==
    /\ Polls(t, l)
    /\ LoopUnlocked(l)
    /\ \/ Goto(l, "sweep")
       \/ clients[l] > 0 /\ Goto(l, "evict")
    /\ UNCHANGED <<mainVars, poolVars, clients, noEpoll, replyVars, stopVars>>

\* the first part of deleteConnection, with the mutex of the loop
Sweep(t, l) ==
    /\ LoopUnlocked(l)
    /\ \/ In(t, l, "sweep") /\ Goto(l, "test")
       \/ In(t, l, "delete") /\ Goto(l, "erase")
    /\ UNCHANGED <<mainVars, poolVars, clients, noEpoll, replyVars, stopVars>>

\* A connection leaves the map, with the mutex of the server, and logs it:
\* deleteconnection at the end of a round, removeTimeOutConnection in the
\* middle.
Erase(t, l) ==
    /\ ServerUnlocked
    /\ LogUnlocked
    /\ \/ In(t, l, "erase") /\ Goto(l, "test")
       \/ In(t, l, "evict") /\ Goto(l, "sweep")
    /\ clients' = [clients EXCEPT ![l] = @ - 1]
    /\ UNCHANGED <<mainVars, poolVars, noEpoll, replyVars, stopVars>>

-----------------------------------------------------------------------------
(* EchoServer::Stop, in the handler of the signal.                         *)

\* messages that are in the hands of the workers
InHand ==
    ToSet(work) \cup
    {running[w] : w \in {v \in Workers : thread[v] \in {"run", "give"}}}

\* the workers are notified, but m_stop is not set
BugSignal ==
    /\ stopPc = "idle"
    /\ main \in {"test", "poll"}
    /\ stopPc' = "work"
    /\ promised' = InHand
    /\ UNCHANGED <<mainVars, poolVars, loopVars, replyVars, ioStop, workStop,
                   loopStop>>

\* The signal comes, and stop() of the workers sets m_stop.  The handler goes
\* through the pointer to the server, which is not set before start.
Signal ==
    /\ stopPc = "idle"
    /\ \/ main \in {"test", "poll"}
       \/ SignalInLock /\ main \in {"map", "list", "log"}
    /\ stopPc' = "work"
    /\ workStop' = TRUE
    /\ promised' = InHand
    /\ UNCHANGED <<mainVars, poolVars, loopVars, replyVars, ioStop, loopStop>>

StopGoto(pc) ==
    /\ stopPc' = pc
    /\ UNCHANGED <<mainVars, poolVars, loopVars, replyVars, workStop, loopStop,
                   promised>>

\* the loops are stopped before the workers
BugJoinWorkers == stopPc = "work" /\ StopGoto("loops") /\ UNCHANGED ioStop

\* the workers are joined
JoinWorkers ==
    /\ stopPc = "work"
    /\ \A w \in Workers : thread[w] = "exited"
    /\ StopGoto("loops") /\ UNCHANGED ioStop

\* the main loop, then each of the others, is told to stop and woken
StopLoop(l) ==
    /\ stopPc = "loops"
    /\ l \notin loopStop /\ 0 .. l - 1 \subseteq loopStop
    /\ loopStop' = loopStop \cup {l}
    /\ UNCHANGED <<mainVars, poolVars, loopVars, replyVars, ioStop, workStop,
                   stopPc, promised>>

\* stop() of the I/O threads sets m_stop
StopIo ==
    /\ stopPc = "loops"
    /\ loopStop = {MainLoop} \cup Loops
    /\ StopGoto("io") /\ ioStop' = TRUE

\* the threads are told to stop, but not waited for
BugJoinIo == stopPc = "io" /\ StopGoto("done") /\ UNCHANGED ioStop

\* they are joined, and the handler returns to the main loop
JoinIo ==
    /\ stopPc = "io"
    /\ \A t \in IoThreads : thread[t] = "exited"
    /\ StopGoto("done") /\ UNCHANGED ioStop

-----------------------------------------------------------------------------
MainStep == BuildLoop \/ Start \/ MainTests \/ MainFails \/ GiveToLoop
                \/ Activate \/ Logged \/ MainRoundEnds

StopStep == JoinWorkers \/ (\E l \in 0 .. NumLoops : StopLoop(l)) \/ StopIo
                \/ JoinIo

WorkerStep(w) == Begin(w) \/ TakeMessage(w) \/ Reply(w) \/ GiveReply(w)
                     \/ DropTask(w) \/ ExitWorker(w)

LoopStep(t, l) == TestsStop(t, l) \/ Returns(t, l) \/ TimesOut(t, l)
                      \/ HandleWakeUp(t, l) \/ HandleTimer(t, l)
                      \/ Sweep(t, l) \/ Erase(t, l) \/ Spin(t, l)

IoStep(t) == Begin(t) \/ TakeLoop(t) \/ ExitIo(t)
                 \/ \E l \in Loops : LoopStep(t, l)

\* what a client does to the loop that has its connection
ClientStep(t, l) ==
    \/ \E m \in Messages : ReadMessage(t, l, m)
    \/ ReadOversized(t, l)
    \/ CloseClient(t, l)

\* what a client or the user does
Event ==
    \/ \E l \in Loops : Accept(l)
    \/ \E t \in IoThreads, l \in Loops : ClientStep(t, l)
    \/ Signal

\* the program has ended
Finished == main = "returned" /\ UNCHANGED vars

Next ==
    \/ MainStep \/ StopStep \/ Event \/ Finished
    \/ \E w \in Workers : WorkerStep(w)
    \/ \E t \in IoThreads : IoStep(t)

\* every thread gets to run; nobody has to send, to connect or to stop it
Spec ==
    /\ Init /\ [][Next]_vars
    /\ WF_vars(MainStep) /\ WF_vars(StopStep)
    /\ \A w \in Workers : WF_vars(WorkerStep(w))
    /\ \A t \in IoThreads : WF_vars(IoStep(t))
-----------------------------------------------------------------------------
(* Properties.                                                             *)

Active(l) == loopPc[l] \notin {"new", "queued", "ended"}

\* A loop that has begun and not ended is run by one thread of the I/O pool, and
\* by no more than one: no loop's data is touched by two threads
\* (TcpServer.cpp:7, 29-30, ThreadPool.cpp:39-51).
LoopRunsOnce ==
    /\ \A l \in Loops : Active(l) <=> \E t \in IoThreads : Runs(t, l)
    /\ \A l \in Loops : \A t, u \in IoThreads :
           Runs(t, l) /\ Runs(u, l) => t = u

\* The reply to what the workers had in hand when they were told to stop has
\* reached the task queue of its loop, or its connection was closed, before
\* Stop() goes on to the loops (ThreadPool.cpp:25-37, 63-73).  That the loop
\* writes it is not promised: one that is told to stop leaves its queue
\* (EventLoop.cpp:38).
PromisedReachesLoop ==
    stopPc \in {"loops", "io", "done"} =>
        promised \subseteq queued \cup ran \cup closed

\* A reply is never given to a loop that has ended (EchoServer.cpp:32-39).
RepliesFindLoop ==
    \A w \in Workers :
        thread[w] \in {"run", "give"} => loopPc[reader[running[w]]] # "ended"

\* When the main loop returns, and the server is about to be destroyed, every
\* thread has been joined: none is left to use it (ThreadPool.cpp:63-82,
\* TcpServer.cpp:44-57).  A main loop without an epoll returns at once
\* (EventLoop.cpp:55-58) and has joined nobody.
ThreadsAreJoined ==
    main = "returned" /\ MainLoop \notin noEpoll =>
        \A t \in Threads : thread[t] = "exited"

\* A server that is told to stop does stop (EchoServer.cpp:32-39), unless an
\* oversized message keeps a loop in HandleOnMessage (EchoServer.cpp:64-67).
StopReturns ==
    stopPc = "work" ~> main = "returned" \/ \E l \in Loops : loopPc[l] = "spin"
=============================================================================

------------------------------ MODULE Reactor ------------------------------
(***************************************************************************)
(* Life cycle of a client connection in the multi-reactor TCP server: the  *)
(* main loop accepts it (Acceptor, TcpServer), one of NumLoops I/O loops   *)
(* serves and destroys it (EventLoop, Channel, Connection), a pool of      *)
(* worker threads replies through it (ThreadPool, Connection::send).       *)
(*                                                                         *)
(* A connection object is a member of Conns; each is accepted at most once *)
(* and is named by its descriptor in every table of the server, so a       *)
(* descriptor is reused by a later object.  Bytes and buffers are left     *)
(* out.  C++ gives no meaning to an access through a pointer to a freed    *)
(* object or through an erased list iterator: the guards of the actions    *)
(* that make such an access require it to be good, so a behaviour ends     *)
(* where the program first has undefined behaviour in that thread, and the *)
(* properties say whether that can happen.                                 *)
(***************************************************************************)
EXTENDS Naturals, SequencesExt

CONSTANTS
    Conns,      \* connection objects the clients may cause to exist
    Fds,        \* descriptors the kernel may give to client sockets
    NumLoops,   \* I/O threads, each running one EventLoop (m_threadsnums)
    Workers,    \* threads of the application's worker pool; {}: none
    Timeout,    \* idle age at which a connection is timed out (m_timeout)
    MaxAge,     \* bound: ages saturate here; MaxAge < Timeout: clients so
                \* busy that nothing ever times out
    MaxTasks,   \* bound: tasks in the worker queue and in a loop's queue
    NoConn, NoFd

ASSUME ConnsAssumption == NoConn \notin Conns
ASSUME FdsAssumption == Fds \subseteq Nat /\ NoFd \notin Fds
ASSUME NumLoopsAssumption == NumLoops \in Nat \ {0}
ASSUME AgesAssumption == Timeout \in Nat \ {0} /\ MaxAge \in Nat
ASSUME MaxTasksAssumption == MaxTasks \in Nat

Loops == 0 .. NumLoops - 1
LoopOf(f) == f % NumLoops   \* m_psubloop[fd % m_threadsnums]

VARIABLES
    obj,        \* obj[c]: "unborn", "accepted" (only its Socket exists),
                \* "created" (Connection built), "active" (also in epoll)
                \* or "freed" (Connection destroyed, descriptor closed)
    fdOf,       \* fdOf[c]: descriptor of c's Socket
    disc,       \* disc[c]: m_disconnect
    age,        \* age[c]: time since m_lasttime
    clientMap,  \* clientMap[f]: TcpServer::m_clientConnectionMap
    lru,        \* lru[l]: EventLoop::m_lruconnection, front first
    connMap,    \* connMap[f]: m_connectionmap of loop LoopOf(f): the
                \* connection whose list node the iterator points to
    delayDel,   \* delayDel[l]: m_delayDeleteConnectionfd
    pc,         \* pc[l]: where loop l is; "hung": for ever inside a callback
    pend,       \* pend[l]: connections of the batch still to be handled
    cur,        \* cur[l]: the one between its read and write callbacks
    todo,       \* todo[l]: descriptors still to be visited by a sweep
    timer,      \* timer[l]: "armed", "expired" or "batched"
    efd,        \* efd[l]: "clear", "signalled" or "batched"
    taskq,      \* taskq[l]: m_taskqueue, the raw `this` of each task
    mainPc,     \* where the main loop is in onconnect
    mainConn,   \* the connection it is setting up
    poolq,      \* queue of the worker pool, connections kept alive
    worker      \* worker[w]: what worker w is doing

objects    == <<obj, fdOf, disc, age>>
registries == <<clientMap, lru, connMap, delayDel>>
round      == <<pc, pend, cur, todo>>
sources    == <<timer, efd, taskq>>
mainVars   == <<mainPc, mainConn>>
pool       == <<poolq, worker>>
vars == <<objects, registries, round, sources, mainVars, pool>>

Idle == [pc |-> "idle", conn |-> NoConn]

TypeOK ==
    /\ obj \in [Conns -> {"unborn", "accepted", "created", "active", "freed"}]
    /\ fdOf \in [Conns -> Fds \cup {NoFd}]
    /\ \A c \in Conns : obj[c] \in {"accepted", "created", "active"} =>
          fdOf[c] \in Fds
    /\ disc \in [Conns -> BOOLEAN]
    /\ age \in [Conns -> Nat]
    /\ clientMap \in [Fds -> Conns \cup {NoConn}]
    /\ lru \in [Loops -> Seq(Conns)]
    /\ connMap \in [Fds -> Conns \cup {NoConn}]
    /\ delayDel \in [Loops -> SUBSET Fds]
    /\ pc \in [Loops ->
                  {"poll", "dispatch", "hung", "evict", "unlist", "erase"}]
    /\ pend \in [Loops -> SUBSET Conns]
    /\ cur \in [Loops -> Conns \cup {NoConn}]
    /\ todo \in [Loops -> SUBSET Fds]
    /\ timer \in [Loops -> {"armed", "expired", "batched"}]
    /\ efd \in [Loops -> {"clear", "signalled", "batched"}]
    /\ taskq \in [Loops -> Seq(Conns)]
    /\ mainPc \in {"accept", "create", "list", "activate"}
    /\ mainConn \in Conns \cup {NoConn}
    /\ IF mainPc = "accept" THEN mainConn = NoConn
       ELSE mainConn \in Conns /\ fdOf[mainConn] \in Fds
    /\ poolq \in Seq(Conns)
    /\ worker \in [Workers -> {Idle} \cup [pc : {"send", "drop"},
                                           conn : Conns]]

Init ==
    /\ obj = [c \in Conns |-> "unborn"]
    /\ fdOf = [c \in Conns |-> NoFd]
    /\ disc = [c \in Conns |-> FALSE]
    /\ age = [c \in Conns |-> 0]
    /\ clientMap = [f \in Fds |-> NoConn]
    /\ lru = [l \in Loops |-> <<>>]
    /\ connMap = [f \in Fds |-> NoConn]
    /\ delayDel = [l \in Loops |-> {}]
    /\ pc = [l \in Loops |-> "poll"]
    /\ pend = [l \in Loops |-> {}]
    /\ cur = [l \in Loops |-> NoConn]
    /\ todo = [l \in Loops |-> {}]
    /\ timer = [l \in Loops |-> "armed"]
    /\ efd = [l \in Loops |-> "clear"]
    /\ taskq = [l \in Loops |-> <<>>]
    /\ mainPc = "accept"
    /\ mainConn = NoConn
    /\ poolq = <<>>
    /\ worker = [w \in Workers |-> Idle]

-----------------------------------------------------------------------------
(* Objects, references and the loop's mutex.                               *)

Alive(c) == obj[c] \in {"created", "active"}
Registered(c) == fdOf[c] \in Fds /\ clientMap[fdOf[c]] = c

\* Operators named Bug... are plausible mistakes in the operation that follows
\* them: no action uses them, each breaks one property.

\* the descriptor is closed by closeconnection, not by the destructor
BugFdFree(f) ==
    \A c \in Conns : fdOf[c] = f => obj[c] \in {"unborn", "freed"} \/ disc[c]

\* the Socket, hence the descriptor, lives from accept4 until c is freed
FdFree(f) ==
    \A c \in Conns : fdOf[c] = f => obj[c] \in {"unborn", "freed"}

\* shared_ptrs to c captured by tasks of the worker pool
HeldByPool(c) ==
    \/ \E i \in DOMAIN poolq : poolq[i] = c
    \/ \E w \in Workers : worker[w].conn = c

\* clientMap.erase(f): the map's shared_ptr goes, and with the last one c
EraseFromMap(f) ==
    /\ clientMap' = [clientMap EXCEPT ![f] = NoConn]
    /\ obj' = [c \in Conns |-> IF clientMap[f] = c /\ ~HeldByPool(c)
                               THEN "freed" ELSE obj[c]]

\* the mutex is held while the loop waits in epoll_wait
BugUnlocked(l) == pc[l] \notin {"unlist", "poll"}

\* EventLoop::m_mtx is held through the first loop of deleteConnection
Unlocked(l) == pc[l] # "unlist"

\* list::erase and list::splice of the node of c
NodeOf(s, c) == CHOOSE i \in DOMAIN s : s[i] = c
InList(s, c) == \E i \in DOMAIN s : s[i] = c
Without(s, c) == RemoveAt(s, NodeOf(s, c))

-----------------------------------------------------------------------------
(* The main loop: Acceptor::onconnect and TcpServer::createconnection.     *)

\* the -1 of a failed accept4 is taken for a descriptor
BugAccept(c, f) ==
    /\ mainPc = "accept"
    /\ obj[c] = "unborn"
    /\ FdFree(f)
    /\ obj' = [obj EXCEPT ![c] = "accepted"]
    /\ fdOf' = [fdOf EXCEPT ![c] = NoFd]
    /\ mainPc' = "create"
    /\ mainConn' = c
    /\ UNCHANGED <<disc, age, registries, round, sources, pool>>

\* accept4 succeeds
Accept(c, f) ==
    /\ mainPc = "accept"
    /\ obj[c] = "unborn"
    /\ FdFree(f)
    /\ obj' = [obj EXCEPT ![c] = "accepted"]
    /\ fdOf' = [fdOf EXCEPT ![c] = f]
    /\ mainPc' = "create"
    /\ mainConn' = c
    /\ UNCHANGED <<disc, age, registries, round, sources, pool>>

\* setnodelayopt fails: the only shared_ptr to the Socket goes
DropSocket ==
    /\ mainPc = "create"
    /\ obj' = [obj EXCEPT ![mainConn] = "freed"]
    /\ mainPc' = "accept"
    /\ mainConn' = NoConn
    /\ UNCHANGED <<fdOf, disc, age, registries, round, sources, pool>>

\* the Connection is built and put in the map, under TcpServer::m_mtx
CreateConnection ==
    /\ mainPc = "create"
    /\ obj' = [obj EXCEPT ![mainConn] = "created"]
    /\ age' = [age EXCEPT ![mainConn] = 0]
    /\ clientMap' = [clientMap EXCEPT ![fdOf[mainConn]] = mainConn]
    /\ mainPc' = "list"
    /\ UNCHANGED <<fdOf, disc, lru, connMap, delayDel, round, sources,
                   mainConn, pool>>

\* push_front is forgotten: the iterator is that of the node in front
BugNewConnection ==
    LET f == fdOf[mainConn]
        l == LoopOf(f)
    IN  /\ mainPc = "list"
        /\ clientMap[f] = mainConn
        /\ Unlocked(l)
        /\ connMap' = [connMap EXCEPT ![f] = IF lru[l] = <<>> THEN NoConn
                                             ELSE Head(lru[l])]
        /\ mainPc' = "activate"
        /\ UNCHANGED <<objects, clientMap, lru, delayDel, round, sources,
                       mainConn, pool>>

\* the callbacks are set, then EventLoop::newConnection, under its mutex;
\* every use of the map here is m_clientConnectionMap[fd]->...
NewConnection ==
    LET f == fdOf[mainConn]
        l == LoopOf(f)
    IN  /\ mainPc = "list"
        /\ clientMap[f] = mainConn
        /\ Unlocked(l)
        /\ lru' = [lru EXCEPT ![l] = <<mainConn>> \o @]
        /\ connMap' = [connMap EXCEPT ![f] = mainConn]
        /\ mainPc' = "activate"
        /\ UNCHANGED <<objects, clientMap, delayDel, round, sources,
                       mainConn, pool>>

\* Connection::addToEpoll
AddToEpoll ==
    /\ mainPc = "activate"
    /\ clientMap[fdOf[mainConn]] = mainConn
    /\ obj' = [obj EXCEPT ![mainConn] = "active"]
    /\ mainPc' = "accept"
    /\ mainConn' = NoConn
    /\ UNCHANGED <<fdOf, disc, age, registries, round, sources, pool>>

-----------------------------------------------------------------------------
(* Time.                                                                   *)

\* one unit is a Timeout-th of m_timeout, 300 seconds: createconnection
\* takes less than that, so only served connections grow old
Tick ==
    /\ age' = [c \in Conns |-> IF obj[c] = "active" /\ age[c] < MaxAge
                               THEN age[c] + 1 ELSE age[c]]
    /\ UNCHANGED <<obj, fdOf, disc, registries, round, sources, mainVars,
                   pool>>

\* the loop's timerfd, read by handleTimer
TimerExpire(l) ==
    /\ timer[l] = "armed"
    /\ timer' = [timer EXCEPT ![l] = "expired"]
    /\ UNCHANGED <<objects, registries, round, efd, taskq, mainVars, pool>>

-----------------------------------------------------------------------------
(* An I/O loop: EventLoop::loop and its handlers.                          *)

\* epoll_wait returns: an edge-triggered connection may or may not have an
\* event, the level-triggered timerfd and eventfd are reported if readable
Poll(l, batch) ==
    /\ pc[l] = "poll"
    /\ \A c \in batch : obj[c] = "active" /\ LoopOf(fdOf[c]) = l
    /\ batch # {} \/ timer[l] = "expired" \/ efd[l] = "signalled"
    /\ pc' = [pc EXCEPT ![l] = "dispatch"]
    /\ pend' = [pend EXCEPT ![l] = batch]
    /\ timer' = [timer EXCEPT ![l] = IF @ = "expired" THEN "batched" ELSE @]
    /\ efd' = [efd EXCEPT ![l] = IF @ = "signalled" THEN "batched" ELSE @]
    /\ UNCHANGED <<objects, registries, cur, todo, taskq, mainVars, pool>>

\* the descriptor is not put in m_delayDeleteConnectionfd
BugCloseConnection(l, c) ==
    /\ disc' = [disc EXCEPT ![c] = TRUE]
    /\ UNCHANGED delayDel

\* Connection::closeconnection, run by loop l
CloseConnection(l, c) ==
    /\ disc' = [disc EXCEPT ![c] = TRUE]
    /\ delayDel' = [delayDel EXCEPT ![l] = @ \cup {fdOf[c]}]

\* channels[i]->handleevents() of a connection may start: its pointer,
\* taken when epoll_wait returned, is used only now
Dispatches(l, c) ==
    /\ pc[l] = "dispatch"
    /\ cur[l] = NoConn
    /\ c \in pend[l]
    /\ Alive(c)

\* the node is not moved to the front
BugTouch(l, c) ==
    /\ age' = [age EXCEPT ![c] = 0]
    /\ UNCHANGED lru

\* the head of onmessage: m_lasttime and updateConnection(fd())
Touch(l, c) ==
    LET node == connMap[fdOf[c]]
    IN  /\ age' = [age EXCEPT ![c] = 0]
        /\ \/ /\ node = NoConn
              /\ UNCHANGED lru
           \/ /\ node # NoConn
              /\ InList(lru[l], node)
              /\ lru' = [lru EXCEPT ![l] = <<node>> \o Without(@, node)]

\* the application passes at most one request to the worker pool, and is
\* done with the buffer
HandleOnMessage(c) ==
    \/ UNCHANGED poolq
    \/ /\ Workers # {}
       /\ Len(poolq) < MaxTasks
       /\ poolq' = Append(poolq, c)

\* onmessage reads to EAGAIN and gives what it has to the application
OnMessage(l, c) ==
    /\ Dispatches(l, c)
    /\ Touch(l, c)
    /\ HandleOnMessage(c)
    /\ pend' = [pend EXCEPT ![l] = @ \ {c}]
    /\ cur' = [cur EXCEPT ![l] = c]
    /\ UNCHANGED <<obj, fdOf, disc, clientMap, connMap, delayDel, pc, todo,
                   sources, mainVars, worker>>

\* onmessage meets end of file or an error
OnMessageCloses(l, c) ==
    /\ Dispatches(l, c)
    /\ Touch(l, c)
    /\ CloseConnection(l, c)
    /\ pend' = [pend EXCEPT ![l] = @ \ {c}]
    /\ cur' = [cur EXCEPT ![l] = c]
    /\ UNCHANGED <<obj, fdOf, clientMap, connMap, pc, todo, sources,
                   mainVars, pool>>

\* the application meets a length of 64 MiB or more: it closes the connection
\* but stays in its loop over the buffer, closing it again for ever
OnMessageHangs(l, c) ==
    /\ Dispatches(l, c)
    /\ Touch(l, c)
    /\ HandleOnMessage(c)
    /\ CloseConnection(l, c)
    /\ pc' = [pc EXCEPT ![l] = "hung"]
    /\ pend' = [pend EXCEPT ![l] = {}]
    /\ UNCHANGED <<obj, fdOf, clientMap, connMap, cur, todo, sources,
                   mainVars, worker>>

\* the event had no readable flag: straight to the writable one
SkipRead(l, c) ==
    /\ Dispatches(l, c)
    /\ pend' = [pend EXCEPT ![l] = @ \ {c}]
    /\ cur' = [cur EXCEPT ![l] = c]
    /\ UNCHANGED <<objects, registries, pc, todo, sources, mainVars, pool>>

\* the rest of handleevents: no writable flag, or sendto ends without error
FinishEvent(l) ==
    /\ cur[l] # NoConn
    /\ Alive(cur[l])
    /\ cur' = [cur EXCEPT ![l] = NoConn]
    /\ UNCHANGED <<objects, registries, pc, pend, todo, sources, mainVars,
                   pool>>

\* sendto fails (EPIPE, ECONNRESET, ...)
SendtoCloses(l) ==
    /\ cur[l] # NoConn
    /\ Alive(cur[l])
    /\ ~disc[cur[l]]
    /\ CloseConnection(l, cur[l])
    /\ cur' = [cur EXCEPT ![l] = NoConn]
    /\ UNCHANGED <<obj, fdOf, age, clientMap, lru, connMap, pc, pend, todo,
                   sources, mainVars, pool>>

\* handleWakeUp drains the task queue under the mutex: each task is
\* writeTo on the raw pointer it captured
HandleWakeUp(l) ==
    /\ pc[l] = "dispatch"
    /\ cur[l] = NoConn
    /\ efd[l] = "batched"
    /\ \A i \in DOMAIN taskq[l] : Alive(taskq[l][i])
    /\ taskq' = [taskq EXCEPT ![l] = <<>>]
    /\ efd' = [efd EXCEPT ![l] = "clear"]
    /\ UNCHANGED <<objects, registries, round, timer, mainVars, pool>>

\* a tick too early
BugIsTimeOut(c) == age[c] + 1 >= Timeout

\* isTimeOut
IsTimeOut(c) == age[c] >= Timeout

\* handleTimer: the locked part of removeTimeOutConnection pops the list
\* from its tail down to the first live connection not timed out, at kept
HandleTimer(l, kept) ==
    LET popped == {i \in DOMAIN lru[l] : i > kept}
        gone   == {fdOf[lru[l][i]] : i \in {j \in popped : Alive(lru[l][j])}}
    IN  /\ pc[l] = "dispatch"
        /\ cur[l] = NoConn
        /\ timer[l] = "batched"
        /\ kept # 0 => Alive(lru[l][kept]) /\ ~IsTimeOut(lru[l][kept])
        /\ \A i \in popped : Alive(lru[l][i]) => IsTimeOut(lru[l][i])
        /\ timer' = [timer EXCEPT ![l] = "armed"]
        /\ lru' = [lru EXCEPT ![l] = SubSeq(@, 1, kept)]
        /\ connMap' = [f \in Fds |-> IF f \in gone THEN NoConn
                                     ELSE connMap[f]]
        /\ todo' = [todo EXCEPT ![l] = gone]
        /\ pc' = [pc EXCEPT ![l] = IF gone = {} THEN "dispatch" ELSE "evict"]
        /\ UNCHANGED <<objects, clientMap, delayDel, pend, cur, efd, taskq,
                       mainVars, pool>>

\* m_timerCallback(f): TcpServer::removeTimeOutConnection
EvictTimedOut(l, f) ==
    /\ pc[l] = "evict"
    /\ f \in todo[l]
    /\ EraseFromMap(f)
    /\ todo' = [todo EXCEPT ![l] = @ \ {f}]
    /\ pc' = [pc EXCEPT ![l] = IF todo[l] = {f} THEN "dispatch" ELSE @]
    /\ UNCHANGED <<fdOf, disc, age, lru, connMap, delayDel, pend, cur,
                   sources, mainVars, pool>>

\* the round ends inside the handler that closed a connection
BugEndRoundEarly(l) ==
    /\ pc[l] = "dispatch"
    /\ delayDel[l] # {} \/ pend[l] = {}
    /\ timer[l] # "batched"
    /\ efd[l] # "batched"
    /\ pc' = [pc EXCEPT ![l] = IF delayDel[l] = {} THEN "poll" ELSE "unlist"]
    /\ todo' = [todo EXCEPT ![l] = delayDel[l]]
    /\ UNCHANGED <<objects, registries, pend, cur, sources, mainVars, pool>>

\* the loop goes back to epoll_wait without deleteConnection
BugEndRoundSkips(l) ==
    /\ pc[l] = "dispatch"
    /\ cur[l] = NoConn
    /\ pend[l] = {}
    /\ timer[l] # "batched"
    /\ efd[l] # "batched"
    /\ pc' = [pc EXCEPT ![l] = "poll"]
    /\ UNCHANGED <<objects, registries, pend, cur, todo, sources, mainVars,
                   pool>>

\* the batch is done: deleteConnection
EndRound(l) ==
    /\ pc[l] = "dispatch"
    /\ cur[l] = NoConn
    /\ pend[l] = {}
    /\ timer[l] # "batched"
    /\ efd[l] # "batched"
    /\ pc' = [pc EXCEPT ![l] = IF delayDel[l] = {} THEN "poll" ELSE "unlist"]
    /\ todo' = [todo EXCEPT ![l] = delayDel[l]]
    /\ UNCHANGED <<objects, registries, pend, cur, sources, mainVars, pool>>

\* m_connectionmap.erase(it) is forgotten
BugUnlistClosed(l, f) ==
    /\ pc[l] = "unlist"
    /\ f \in todo[l]
    /\ IF connMap[f] # NoConn /\ InList(lru[l], connMap[f])
       THEN lru' = [lru EXCEPT ![l] = Without(@, connMap[f])]
       ELSE UNCHANGED lru
    /\ todo' = [todo EXCEPT ![l] = IF @ = {f} THEN delayDel[l] ELSE @ \ {f}]
    /\ pc' = [pc EXCEPT ![l] = IF todo[l] = {f} THEN "erase" ELSE @]
    /\ UNCHANGED <<objects, clientMap, connMap, delayDel, pend, cur, sources,
                   mainVars, pool>>

\* first loop of deleteConnection, under the mutex
UnlistClosed(l, f) ==
    /\ pc[l] = "unlist"
    /\ f \in todo[l]
    /\ \/ /\ connMap[f] = NoConn
          /\ UNCHANGED <<lru, connMap>>
       \/ /\ connMap[f] # NoConn
          /\ InList(lru[l], connMap[f])
          /\ lru' = [lru EXCEPT ![l] = Without(@, connMap[f])]
          /\ connMap' = [connMap EXCEPT ![f] = NoConn]
    /\ todo' = [todo EXCEPT ![l] = IF @ = {f} THEN delayDel[l] ELSE @ \ {f}]
    /\ pc' = [pc EXCEPT ![l] = IF todo[l] = {f} THEN "erase" ELSE @]
    /\ UNCHANGED <<objects, clientMap, delayDel, pend, cur, sources,
                   mainVars, pool>>

\* m_delayDeleteConnectionfd.clear() is forgotten
BugEraseClosed(l, f) ==
    /\ pc[l] = "erase"
    /\ f \in todo[l]
    /\ EraseFromMap(f)
    /\ todo' = [todo EXCEPT ![l] = @ \ {f}]
    /\ pc' = [pc EXCEPT ![l] = IF todo[l] = {f} THEN "poll" ELSE @]
    /\ UNCHANGED <<fdOf, disc, age, lru, connMap, delayDel, pend, cur,
                   sources, mainVars, pool>>

\* second loop: TcpServer::deleteconnection(f); then the set is cleared
EraseClosed(l, f) ==
    /\ pc[l] = "erase"
    /\ f \in todo[l]
    /\ EraseFromMap(f)
    /\ todo' = [todo EXCEPT ![l] = @ \ {f}]
    /\ IF todo[l] = {f}
       THEN /\ pc' = [pc EXCEPT ![l] = "poll"]
            /\ delayDel' = [delayDel EXCEPT ![l] = {}]
       ELSE UNCHANGED <<pc, delayDel>>
    /\ UNCHANGED <<fdOf, disc, age, lru, connMap, pend, cur, sources,
                   mainVars, pool>>

-----------------------------------------------------------------------------
(* A worker thread: ThreadPool's loop running EchoServer::OnMessage.       *)

WorkerTake(w) ==
    /\ worker[w].pc = "idle"
    /\ poolq # <<>>
    /\ worker' = [worker EXCEPT ![w] = [pc |-> "send", conn |-> Head(poolq)]]
    /\ poolq' = Tail(poolq)
    /\ UNCHANGED <<objects, registries, round, sources, mainVars>>

\* EventFd::wakeup writes an uninitialised integer: a 0 wakes nobody
Wakeup(l) ==
    \/ UNCHANGED efd
    \/ efd' = [efd EXCEPT ![l] = IF @ = "clear" THEN "signalled" ELSE @]

\* the write and a drain of the queue may overlap, which only costs the
\* loop an empty round: the two steps are one here
AddTask(l, c) ==
    /\ Unlocked(l)
    /\ Len(taskq[l]) < MaxTasks
    /\ taskq' = [taskq EXCEPT ![l] = Append(@, c)]
    /\ Wakeup(l)

\* Connection::send: the task captures `this`, not the shared_ptr
WorkerSend(w) ==
    LET c == worker[w].conn
        l == LoopOf(fdOf[c])
    IN  /\ worker[w].pc = "send"
        /\ worker' = [worker EXCEPT ![w] = [pc |-> "drop", conn |-> c]]
        /\ \/ /\ disc[c]
              /\ UNCHANGED <<taskq, efd>>
           \/ /\ ~disc[c]
              /\ AddTask(l, c)
        /\ UNCHANGED <<objects, registries, round, timer, mainVars, poolq>>

\* the task is destroyed: its shared_ptr may be the last one
WorkerDrop(w) ==
    LET c == worker[w].conn
        held == \/ \E i \in DOMAIN poolq : poolq[i] = c
                \/ \E v \in Workers \ {w} : worker[v].conn = c
    IN  /\ worker[w].pc = "drop"
        /\ worker' = [worker EXCEPT ![w] = Idle]
        /\ obj' = [obj EXCEPT ![c] = IF held \/ Registered(c) THEN @
                                     ELSE "freed"]
        /\ UNCHANGED <<fdOf, disc, age, registries, round, sources,
                       mainVars, poolq>>

-----------------------------------------------------------------------------
MainStep == DropSocket \/ CreateConnection \/ NewConnection \/ AddToEpoll

DispatchStep(l) ==
    \/ \E c \in Conns : \/ OnMessage(l, c)
                        \/ OnMessageCloses(l, c)
                        \/ OnMessageHangs(l, c)
                        \/ SkipRead(l, c)
    \/ FinishEvent(l)
    \/ SendtoCloses(l)
    \/ HandleWakeUp(l)
    \/ \E kept \in 0 .. Len(lru[l]) : HandleTimer(l, kept)

RoundStep(l) ==
    \/ DispatchStep(l)
    \/ EndRound(l)
    \/ \E f \in Fds : \/ EvictTimedOut(l, f)
                      \/ UnlistClosed(l, f)
                      \/ EraseClosed(l, f)

PollStep(l) == \E batch \in SUBSET Conns : Poll(l, batch)

WorkerStep(w) == WorkerTake(w) \/ WorkerSend(w) \/ WorkerDrop(w)

Next ==
    \/ \E c \in Conns, f \in Fds : Accept(c, f)
    \/ MainStep
    \/ Tick
    \/ \E l \in Loops : TimerExpire(l) \/ PollStep(l) \/ RoundStep(l)
    \/ \E w \in Workers : WorkerStep(w)

\* a poll returns when a level-triggered source is readable; clients owe
\* the server nothing
PollReady(l) ==
    /\ timer[l] = "expired" \/ efd[l] = "signalled"
    /\ PollStep(l)

Fairness ==
    /\ WF_vars(MainStep)
    /\ WF_vars(Tick)
    /\ \A l \in Loops : /\ WF_vars(TimerExpire(l))
                        /\ WF_vars(PollReady(l))
                        /\ WF_vars(RoundStep(l))
    /\ \A w \in Workers : WF_vars(WorkerStep(w))

Spec == Init /\ [][Next]_vars /\ Fairness
-----------------------------------------------------------------------------
(* Properties.                                                             *)

\* The loop never calls handleevents through the pointer of a destroyed
\* connection (EventLoop.cpp:62-68: what a batch refers to is only deleted
\* once the whole batch is handled).
NoDanglingChannel ==
    \A l \in Loops : /\ \A c \in pend[l] : Alive(c)
                     /\ cur[l] # NoConn => Alive(cur[l])

\* A reply task queued to a loop by a worker never outlives the connection
\* whose raw `this` it captured (Connection.cpp:166-171).
NoDanglingTask ==
    \A l \in Loops : \A i \in DOMAIN taskq[l] : Alive(taskq[l][i])

\* createconnection, which looks the connection up again by descriptor
\* after it has released the mutex, finds the object it has just built
\* (TcpServer.cpp:70-79).
MainFindsConnection ==
    mainPc \in {"list", "activate"} => clientMap[fdOf[mainConn]] = mainConn

\* Every iterator kept in m_connectionmap designates the one node of a live
\* connection of that descriptor, and every node is designated by one: a
\* splice or an erase through it touches the right node (EventLoop.cpp:163,
\* 233).
IteratorsValid ==
    /\ \A f \in Fds : connMap[f] # NoConn =>
          LET s == lru[LoopOf(f)]
          IN  /\ Alive(connMap[f])
              /\ fdOf[connMap[f]] = f
              /\ \E i \in DOMAIN s : \A j \in DOMAIN s :
                    (s[j] = connMap[f]) <=> (i = j)
    /\ \A l \in Loops : \A i \in DOMAIN lru[l] :
          connMap[fdOf[lru[l][i]]] = lru[l][i]

\* A descriptor given to a new client has no entry left in the server's map
\* from the connection that used it before (TcpServer.cpp:67, 86-92).
NoStaleEntry ==
    mainPc = "create" => clientMap[fdOf[mainConn]] = NoConn

\* A connection that is marked disconnected and still in the map is marked
\* for deletion too, and the loop does not wait for events again before it
\* has deleted it (EventLoop.cpp:67-68, Connection.cpp:58-62).
RoundLeavesNoneClosed ==
    \A c \in Conns : disc[c] /\ Registered(c) =>
        LET l == LoopOf(fdOf[c])
        IN  fdOf[c] \in delayDel[l] /\ pc[l] # "poll"

\* Every served connection is a node of the list that the idle sweep of its
\* loop walks, under the iterator kept for its descriptor, unless a sweep is
\* removing it: none is missing from the sweep (EventLoop.cpp:145-165,
\* 176-196).
Tracked ==
    \A c \in Conns : obj[c] = "active" /\ Registered(c) =>
        LET f == fdOf[c]
            l == LoopOf(f)
        IN  \/ connMap[f] = c /\ InList(lru[l], c)
            \/ pc[l] = "evict" /\ f \in todo[l]
            \/ pc[l] \in {"unlist", "erase"} /\ f \in delayDel[l]

\* deleteConnection, which knows connections by descriptor, only erases
\* ones that were closed (EventLoop.cpp:218-245).
OnlyClosedAreErased ==
    \A l \in Loops : \A f \in todo[l] :
        pc[l] = "erase" /\ clientMap[f] # NoConn => disc[clientMap[f]]

\* The timer callback, which also goes by descriptor after the mutex is
\* released, only erases connections that are idle past the timeout
\* (EventLoop.cpp:181-202).
OnlyIdleAreEvicted ==
    \A l \in Loops : \A f \in todo[l] :
        pc[l] = "evict" /\ clientMap[f] # NoConn =>
            age[clientMap[f]] >= Timeout

\* where c is in the life the server promises it
Stage(c) ==
    CASE obj[c] = "unborn" -> "unknown"
      [] obj[c] \in {"accepted", "created"} -> "arriving"
      [] obj[c] = "active" /\ ~disc[c] -> "served"
      [] obj[c] = "active" /\ disc[c] -> "closing"
      [] obj[c] = "freed" -> "gone"

Lifecycle == INSTANCE ConnLifecycle
    WITH stage <- [c \in Conns |-> Stage(c)], fd <- fdOf

\* While no client times out, and with no worker pool, a connection has its
\* descriptor to itself from accept4 to its destruction and is destroyed
\* only after it was closed, although three tables of two threads name it by
\* the descriptor alone (Acceptor.cpp:43-92, EventLoop.cpp:218-246,
\* TcpServer.cpp:60-96).
ImplementsLifecycle == Lifecycle!Spec

\* No table holds a reference to a destroyed connection.
Sound ==
    /\ NoDanglingChannel
    /\ NoDanglingTask
    /\ MainFindsConnection
    /\ IteratorsValid

\* the loop of c never comes back from an oversized length
Hung(c) == fdOf[c] \in Fds /\ pc[LoopOf(fdOf[c])] = "hung"

\* While that is so, a connection that was closed is eventually destroyed
\* and its descriptor given back, unless a client hangs the loop with an
\* oversized length (Connection.cpp:58-62, EventLoop.cpp:68, EchoServer.cpp:
\* 64-67).
ClosedIsDestroyed ==
    \A c \in Conns : disc[c] ~> obj[c] = "freed" \/ Hung(c) \/ ~Sound

\* While that is so, a client the server accepted is eventually served or
\* dropped: onconnect never waits forever for a loop, even for one that an
\* oversized length hangs (TcpServer.cpp:60-83).
AcceptedIsServed ==
    \A c \in Conns :
        obj[c] = "accepted" ~> obj[c] \in {"active", "freed"} \/ ~Sound

\* While that is so, a connection idle past the timeout is eventually
\* destroyed unless its client speaks again, however busy the other clients
\* of the loop are, as long as none hangs it with an oversized length
\* (EventLoop.cpp:134-203, EchoServer.cpp:64-67).
IdleIsDestroyed ==
    \A c \in Conns : obj[c] = "active" /\ IsTimeOut(c) ~>
        obj[c] = "freed" \/ ~IsTimeOut(c) \/ Hung(c) \/ ~Sound
=============================================================================

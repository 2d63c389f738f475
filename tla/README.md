# A TLA+ model of Reactor-NetworkLibrary

The library is a multi-reactor TCP server in C++: one main event loop accepts
clients, a fixed number of I/O threads each run one event loop and serve the
connections given to them, an optional pool of worker threads computes replies,
and a double-buffered logger writes lines to disk in a thread of its own. This
directory models its concurrent core and its data structures in TLA+, checks them
with TLC on small instances and proves the main results with TLAPS for all sizes.

Paths below are those of the repository; `EventLoop.cpp:62` is line 62 of
`src/EventLoop.cpp`.

## 1. Inventory

| component | state | operations | interacts with |
|---|---|---|---|
| `TcpServer` | `m_clientConnectionMap` (fd to `shared_ptr<Connection>`), its mutex, the loops | `createconnection`, `deleteconnection`, `removeTimeOutConnection`, `start`, `stop` | called by the main thread (accept) and by every I/O thread (delete, timeout) |
| `Acceptor` | the listening socket | `onconnect`: accept until EAGAIN | calls `createconnection` |
| `EventLoop` | `m_lruconnection`, `m_connectionmap`, `m_taskqueue` (one mutex); `m_delayDeleteConnectionfd` (loop thread only); eventfd, timerfd, `m_stop` | `loop`, `newConnection`, `updateConnection`, `removeTimeOutConnection`, `delayDelete`, `deleteConnection`, `addTask`, `handleWakeUp`, `handleTimer`, `stop` | main thread (`newConnection`), workers (`addTask`), callbacks into `TcpServer` |
| `Channel`, `Epoll` | interest mask, the events that happened; a batch of raw `Channel*` | `handleevents`, `updatechannel`, `removechannel`, `epollwait` | callbacks into `Connection`, `EventLoop`, `Acceptor` |
| `Connection` | socket, two buffers, `m_disconnect`, `m_lasttime` | `onmessage`, `send`, `sendto`, `writeTo`, `closeconnection`, `isTimeOut`, `addToEpoll` | `EventLoop` (LRU, delayed deletion, tasks), application |
| `Buffer` | vector, reader and writer index | `append`, `readFd`, `retrieve`, `retrieveAll`, `retrieveAsString`, `makeSpace` | its connection's loop only |
| `ThreadPool` | task queue, mutex, condition variable, `m_stop` | `AddTask`, worker loop, `stop` | runs the I/O loops; runs the application's work |
| `EventFd`, `Timer` | a kernel counter each | `wakeup`, `wait`; periodic expiry every 7 s | wake a loop |
| `AsyncLogging` | current and next buffer, queue, `m_running` | `start`, `stop`, `Append`, `ThreadFunc` | every thread that logs |
| `Log` | output target | constructor, destructor | `AsyncLogging::Append` |
| `EchoServer` | - | `HandleOnMessage` (framing), `OnMessage` (reply), `Stop` | the application on top |
| `Socket`, `InetAddress`, `TimesTamp` | - | wrappers of system calls | - |

Hard behaviours. A connection is named in six places (the server's map, the
idle list, the iterator map, the deletion set, the batch of epoll events, the
tasks of two queues) by three kinds of names (`shared_ptr`, raw pointer,
descriptor), by three kinds of threads, and its descriptor is reused as soon as
the object dies. Between two of these accesses a mutex is released, or none was
held. Nothing is persisted and the server talks to no peer server, so crash
recovery and message loss do not arise.

What makes each component correct:

* life cycle: no thread uses a destroyed connection; only closed or idle
  connections are destroyed, exactly those, and they all are; a new client
  never meets the leftovers of the one before it on that descriptor;
* idle list: iterators and nodes correspond, every served connection is in it;
* `Buffer`: a queue of bytes, indices inside the vector;
* log: ordered, nothing lost but what is reported dropped, `stop()` flushes,
  buffers are recycled without running dry, the test that takes no mutex does no harm
  while the log is started;
* input and output: no edge is lost, the writable event is asked for exactly
  while there is output, every message is answered once and in order, a client
  that has ended is closed;
* start and stop: each loop has one thread, the reply to what the workers have when
  they are told to stop reaches its loop while that still runs, every thread is joined
  before the server is destroyed, and the server does stop;
* replies of workers: each is queued once, to the loop of its connection, which is
  woken for it; what can overtake what is bounded.

`PROJECT.json` lists the hazards line by line, with the properties that cover
them or the reason why none does yet.

## 2. Modules

| module | what it is |
|---|---|
| `Reactor` | the life cycle of connections: main loop, I/O loops, workers |
| `ReactorProofs` | theorems about it: its map, descriptors, batches and deletions |
| `ReactorListProofs` | theorems about the list, the iterators and the sweeps of its loops |
| `ConnLifecycle` | abstract: what the server promises a client about its connection and descriptor; `Reactor` refines it |
| `MCReactor` | TLC instance (symmetry of the clients, a view without the fields of destroyed ones) |
| `ConnectionIO` | one connection's reading, framing, replying and sending on an edge-triggered socket |
| `ConnectionIOProofs` | theorems about it |
| `Replies` | several workers and several loops: pool queue, task queues, eventfds |
| `RepliesProofs` | theorems about it |
| `ByteQueue` | abstract: a queue of bytes |
| `Buffer` | the buffer, down to its cells; refines `ByteQueue` |
| `BufferProofs` | theorems about it |
| `MCBuffer` | TLC instance (strings of at most three bytes) |
| `LogQueue` | abstract: an ordered log whose back end may give up a run of lines |
| `AsyncLogging` | the logger; refines `LogQueue` |
| `AsyncLoggingProofs` | theorems about it |
| `FlattenProofs` | what the flattening of a sequence of sequences does to concatenation; for `AsyncLoggingProofs` and `ConnectionIOProofs` |
| `Shutdown` | start and stop of the server: both thread pools, the loops as their tasks, `Stop()` in the signal handler |
| `ShutdownProofs` | theorems about it |

Operators whose name starts with `Bug` are plausible mistakes in the operation
that follows them. No action uses them; substituting one for the operation makes
the property named in `PROJECT.json` fail, which shows that the property depends
on that line of the code.

### Reactor

State. `obj[c]` is the life of one `Connection` object (`unborn`, `accepted`: only
its `Socket` exists, `created`, `active`: in epoll, `freed`). `clientMap`, `lru`,
`connMap`, `delayDel`, `taskq` are the containers of the code under their own
roles. `fdOf` remembers a descriptor after the object is gone; a descriptor is
free for `accept4` exactly when every object that has it is freed. Reference
counts are not stored: the shared pointers are those in `clientMap`, in the
worker queue and in the workers, so `HeldByPool` and `EraseFromMap` compute when
the last one goes. (`onmessage` runs on a `shared_from_this` for the length of
one callback of the loop that alone could free it.)

Threads. The main thread is `mainPc`, with one step per locked or unlocked part
of `createconnection`. A loop is `pc[l]`: `poll`, `dispatch` (walking the batch
`pend`, `cur` between the read and the write callback), `evict` (timer callbacks
after the mutex is released), `unlist` (first, locked loop of
`deleteConnection`), `erase` (second, unlocked one). `todo` is what is left of a
sweep. The order of a batch is left open: epoll promises none. A worker takes a
task, sends, and drops the task in three steps.

Mutexes. `TcpServer::m_mtx` guards single container operations, hence single
steps. `EventLoop::m_mtx` spans several steps only in `unlist`: `Unlocked`.

Undefined behaviour. A step that would go through a pointer to a freed object or
an erased iterator has a guard that requires it not to be one; the behaviour of
that thread ends there, and the safety properties say whether that point can be
reached. Liveness is stated up to it (`Sound`): a program with undefined
behaviour owes nothing.

Data. Messages, buffers, addresses are left out; an event has one of the
outcomes read, end of file or error, no read, then written or failed.
`HandleOnMessage` gives at most one task per event to the pool. A length of 64 MB or
more (`EchoServer.cpp:64-67`) closes the connection and keeps the I/O thread in the loop
over its buffer for ever: `OnMessageHangs`, after which `pc[l]` is `hung` and the loop
takes no step. `ClosedIsDestroyed` and `IdleIsDestroyed` excuse a loop in that state;
`AcceptedIsServed` does not need to, as the loop holds no mutex there. Time is an age
per connection that saturates at `MaxAge`; ages of connections that are still
being created stay 0, since that takes far less than the 300 s of `m_timeout`.

### ConnectionIO

One served connection in the thread of its loop, in a finer grain than in
`Reactor`: `pc` is in `onmessage` (`read`, then `handle` for the application's
callback), `sendto` (`write`), the end of the round, or `epoll_wait`. Every
`readFd`, every message taken out of the input and every `send` is a step, so
that the client and the kernel act in between. `rcv` and `snd` are the socket's
queues in the kernel; `armed` says that the socket is in epoll's ready list, and
`nospace` that the kernel owes an event for room in `snd`, which it only does
after the socket was seen full (by `poll`, by `epoll_ctl` or by a failed `send`).
`UpdateChannel` is `EPOLL_CTL_ADD` or `EPOLL_CTL_MOD`: both report a socket that
is ready at that moment, although it is edge-triggered; `writeTo` depends on it.

Units of data are parts of messages: the header of message *n*, then its body. A
header that has arrived in part is to the server one that has not arrived. The
reply to message *n* has two parts and can be sent in two pieces. After a reset
`recv` and `send` fail once the received data is used up. Replies are written by
the loop's own thread, as without workers; those of workers are in `Reactor`.

The length of a message is an unsigned 32-bit number to the client and an `int` to
`peekInt32`: `Length`, with `IntSize` for 2^32. `4 + msgLen` is then compared with a
`size_t`, so a negative sum is larger than any input, and such a message is awaited
for ever; it is not refused, as it is not above 64 MB either. Two kinds of lengths are
excluded by `SumAssumption`: those up to 4 below 2^31, for which the sum overflows
(undefined, see `EchoServer.cpp:47`), and those up to 4 below 2^32, for which it is 0 to
3 and `retrieveAsString` takes whatever there is.

### Replies

The same path as in `Reactor` from a message to its reply, with the detail that matters
when there are several of everything: messages have numbers and `received[n]` is the
connection of message *n*; `poolq` is the queue of the workers, `worker[w]` the place in
`send` (before `m_disconnect` is looked at, before the task is pushed, before
the wake-up), `taskq`, `efd` and `loopPc` are those of a loop, `out` what it has
written to output buffers. `addTask` releases the mutex before it calls `wakeup`, and
`handleWakeUp` reads the eventfd before it takes the mutex: these are steps of
their own. `RunTasks` is one step, since the mutex is held through it. A
closed connection stays where it is, as its object's life is in `Reactor`. `silent` is a
history variable: whether a wake-up wrote a zero since the loop last ran its
queue, which is the only excuse the properties accept.

### ConnLifecycle

Two variables: the stage of a connection (`unknown`, `arriving`, `served`, `closing`,
`gone`) and its descriptor. A descriptor is given only when nobody has it, a served
connection ends only by way of `closing`, and nothing comes back. In `Reactor`,
`Stage(c)` computes the stage from `obj[c]` and `disc[c]`; `ImplementsLifecycle` is the
refinement. It does not hold with idle timeouts (which end a served connection that
nobody closed), nor with workers: the abstract specification is what the server
promises to clients that keep talking.

### Buffer

`mem`, `size`, `reader`, `writer` are the vector and the indices; `MakeSpace`,
`Fill`, `AppendTo`, `ReadInto`, `Retrieve` follow the code branch by branch.
`last` is a history variable: what was last stored or returned as a string, so
that the refinement also says that `retrieveAsString` returns the right bytes.
Sizes are unbounded integers.

### AsyncLogging

A line is its number; a buffer is the sequence of its lines; whether a line fits
in the current buffer is nondeterministic, up to `MaxFit`. `Append` is atomic
when the line fits, and three steps when it does not: `BeginSwap` (line 60),
`TakeNext` (lines 62-69) and `EndSwap` (from line 71), because the log thread tests
`m_currentBuffer` at line 87 without the mutex. After the first it is null, after the
second it is empty while `m_buffers` is full. A test that reads null with `m_running`
false ends the program (`daemon = "crashed"`); one that finds the buffer empty ends the
log thread, which the history variable `missed` records. `wait_for` is
`Lock` then `Wake`, which may happen at any time: notified, spurious, timed out.
`getInstance` and `start` are called before any line; the log thread, which the
constructor has started, may or may not reach its test before that: constant
`EarlyTest`.

### Shutdown

The whole server, seen by its threads. `main` is the main thread: constructing the
loops, testing `m_stop`, in `epoll_wait` or `onconnect`, or holding the mutex of the
server (`map`), of a loop (`list`) or of the log (`log`, the line of
`Acceptor.cpp:69`); between these it holds none, which is the instant in which
`GiveToLoop` goes from one to the other. `io` and `work` are the queues of the two
pools. `thread` says what a thread does: it has not logged its number yet (`start`),
waits for a task, runs one, and for a worker also: is in `addTask` (`give`, which needs
the mutex of the loop), or destroys the task (`drop`, which may end the connection, and
logs that). `loopPc` is where a loop is. At the end of a round `sweep` or `delete` is
the part of `deleteConnection` with the loop's mutex, `erase` (and `evict`, from the
timer) the callback into the server, which takes the server's mutex and, in
`~Connection`, the log's. `spin` is a loop that has met an oversized length
(`EchoServer.cpp:64-67`) and never tests `m_stop` again. `noEpoll` has the loops whose
`epoll_create` failed: `epoll_wait` then fails too, and `loop()` returns
(`EventLoop.cpp:55-58`), which is how a loop can end unasked.

A message is a task of the pool, then (`queued`) a task of its loop, until the loop
writes the reply (`ran`) in `HandleWakeUp`; `closed` has those whose connection is marked
as disconnected. A connection is otherwise only the occasion to take the locks, and its life
is in `Reactor`. A loop writes what it has been given only when it handles its eventfd: one
that is stopped leaves at `EventLoop.cpp:38` with what is in its queue. `Stop()` is
`stopPc`; while it runs the main thread does nothing else, because the handler of the
signal runs on it (`MainRuns`): the kernel prefers that thread for a signal sent to the
process.

`SignalInLock` says whether the signal may come while the main thread has one of the
mutexes. It may (nothing blocks it); the run `signal` shows what follows, and the
run `stop` what holds otherwise. A second signal, one before `Start()` and one on
another thread are left out. `promised` is a history variable.

## 3. What is checked

| run | instance | shows |
|---|---|---|
| `busy` | 3 connections, descriptors 4-6, 2 loops, no workers, no timeouts | `NoDanglingChannel`, `MainFindsConnection`, `IteratorsValid`, `OnlyClosedAreErased` hold, and `Reactor` implements `ConnLifecycle` (60 thousand states) |
| `full` | 3 connections, descriptors 4-5, 1 loop, 1 worker, timeouts | `TypeOK`, `NoStaleEntry`, `RoundLeavesNoneClosed`, `Tracked`, `OnlyIdleAreEvicted` hold in every state up to the first undefined access (772 thousand states with the view) |
| `live` | 2 connections, 2 descriptors, 1 loop, timeouts | `ClosedIsDestroyed`, `AcceptedIsServed`, `IdleIsDestroyed` hold, the first and the last unless an oversized message hangs the loop (6 thousand states) |
| `queue` | strings of at most 3 bytes, reserve 2, initial size 2, stack area 2, content at most 5 | `Buffer` is a `ByteQueue` (31 thousand states) |
| `log` | 6 lines, at most 2 per buffer, drop beyond 2 buffers | the seven properties of the logger hold (12 thousand states) |
| `order` | 3 connections on 2 loops, 2 workers, 3 messages | the five properties of `Replies` hold (221 thousand states) |
| `echo` | 2 messages of 0-3 or 5 parts, 3 being too long and 5 negative (`IntSize` 10); `rcv` 2, `snd` 1 | the six properties of `ConnectionIO` hold (38 thousand states) |
| `stop` | 2 loops, 2 I/O threads, 2 workers, 1 message, 1 client, oversized messages, failing epolls | the six properties of `Shutdown` hold (215 thousand states) |
| `reply` | 2 connections, 1 worker, no timeouts | violates `NoDanglingTask` |
| `reused` | 2 connections on one descriptor, timeouts, no workers | violates `OnlyClosedAreErased` |
| `bomb` | 2 messages, one of them too long | violates `OversizedCloses` |
| `signal` | as `stop`, without workers, with `SignalInLock` | violates `StopReturns` |

The violations are disagreements between the code and its comments:

* **reply.** `Connection::send` gives the loop a task that captures `this`. The
  worker's `shared_ptr` is gone when the task runs; if the connection was closed
  in between, the task writes to a freed object.
* **reused.** `EventLoop.cpp:67` says connections are disposed of after the round, and
  `deleteConnection` relies on it: its set holds descriptors, not connections. But
  the timer handler destroys timed-out connections during the round. Connection A,
  idle past the timeout, gets an event whose `sendto` fails, so its descriptor is in the
  set; the timer, later in the same batch, destroys A and closes the descriptor; the
  main thread gives the descriptor to a new client B; the end of the round
  erases B. This is the configuration that `tcpepoll.cpp` starts.
* **bomb.** A length prefix of 64 MB or more is meant to close the connection.
  `closeconnection` only marks it, and `HandleOnMessage` stays in its loop with
  the same buffer: the thread never comes to the end of the round. For this
  reason `RequestAnswered` and `EofCloses` speak of clients that send no such
  message.
* **signal.** The handler calls `Stop()` on the main thread. If that thread was inside
  `createconnection` it holds a mutex that an I/O thread needs to finish its round, and
  if it was in the log call after it, that of the log, which an I/O thread needs to
  destroy a connection. `Stop()` joins the I/O threads, and nobody moves again.

More disagreements can be seen with the same modules and are not among the runs:

* The timer handler that destroys connections in the middle of a round also leaves their
  channels in the batch that the loop is walking through: `NoDanglingChannel` fails in
  the instance of `live` (A and the timer in one batch, the timer first).
* With workers a connection that has been erased from the map stays in epoll as
  long as a worker holds it; one more event on it marks its descriptor again, the worker
  lets go, the descriptor goes to a new client, and that client is erased:
  `OnlyClosedAreErased` fails in the instance of `reply`.
* A length with the top bit set is neither complete nor "too long" to
  `HandleOnMessage`: the guard against bombs (`EchoServer.cpp:64`) lets it pass, and the
  connection collects input until the client goes. `OversizedCloses` fails in the
  instance of `bomb` with `Bodies = {1, 5}`.
* The log thread's test of `m_currentBuffer` at `AsyncLogging.cpp:87` takes no mutex.
  `m_running` protects it until `stop()`. After that, if another thread is in an
  `Append` that swaps buffers, the test may read null, or find an empty buffer in the place
  of the full one that has just gone to `m_buffers`, and the log thread leaves with lines
  unwritten. `NullOnlyAtStop` says that this is not before `stop()`; `StopFlushes`
  and `LineIsWritten` hold because they excuse these two tests. (In the program that is
  shipped `stop()` runs in the destructor of a static object, at the end of `main`.)
* A loop that is told to stop leaves its task queue as it is (`EventLoop.cpp:38`), so a
  reply that a worker has just given to it may never be written, although the workers
  are joined first. `PromisedReachesLoop` therefore speaks of the queue.
* A loop that spins on an oversized message never tests `m_stop`, so `Stop()` never
  returns: this is `bomb` once more, and the exception of `StopReturns`.
* `EventFd::wakeup` writes an uninitialised integer. Zero is a possible value, and
  wakes nobody, so that a queued reply may wait (`EventFd.cpp:21` says that the
  write wakes the loop). `ReplyArrives` of `Replies` holds only because it excuses this
  case; so does `NoLostWakeup`.
* The log thread tests `m_running` in a thread started by the constructor, before
  `start()`; if it is quick it ends there (`AsyncLogging.cpp:78` gives the writing to
  that thread). It is declared before `m_mtx`, `m_cond` and `m_running`, so it may even
  precede their construction; the singleton has static storage, so `m_running` reads
  false. `LineIsWritten` fails in the instance of `log` with `EarlyTest = TRUE`.

Bounds. Two connections on one descriptor are needed for reuse, a third for a
bystander that shares the loop or the batch; two loops show the absence of
interference between loops in `busy`. `MaxTasks` 1 suffices for the order of a
task against everything else; the queues are handled front to back by one code
path. `Timeout` 1 and `MaxAge` 1 give the two ages the code tells apart. The
descriptors 4-6 fall on both loops. Buffer sizes 2 with strings of 3 make every
branch of `makeSpace` and `readFd` occur at its boundary. `DropAt` 2 (25 in
the code) is the smallest for which two buffers are left to recycle; six lines in
buffers of two fill three and leave one. In `ConnectionIO` a
`snd` of one part makes every reply block half-way, a `rcv` of two splits messages
before, inside and after a header, and two messages give a successor that must
not be mixed up with its predecessor; a body of two parts is the smallest that
can be incomplete behind its header. `AsyncLogging` does not check deadlock,
because the owner may stop the log and `MaxLines` ends it, nor does `signal`, whose
deadlock is its point; the other runs do. In `Shutdown` two loops and as many threads
are needed for one that is stopped while the other still runs; two workers
let one leave while the other replies; `Messages` is finite, so the
clients fall silent at some time: `Stop()` waits for the workers to find their queue
empty, and clients that never pause could keep it waiting. One message is enough: it is
in the queue, with one worker, in `addTask`, in the loop's queue or written while the
other worker exits. One client is enough to hold
each of the two mutexes, and to be erased. (`Finished` of `ConnectionIO` stands for the rest of the program once the
connection is gone.)

In `Replies` two workers are what it takes for a reply to overtake another, three messages
for one to be overtaken and one to be of another connection; of the descriptors 5-7 two
share a loop. It does not check deadlock, since clients may fall silent. In `echo` an
`IntSize` of 10 puts body 5 just beyond the lengths that are positive, and 4 and 9 are
those excluded.

Fairness. Threads get to run (`WF` on the steps of the main loop, of a loop's
round, of a worker, of the log thread). A poll is only owed when a
level-triggered descriptor, the timerfd or the eventfd, is readable: clients owe
the server nothing, so a poll that returns because of a client is not fair. The
clock ticks and a periodic timerfd expires. `accept4`, `Append` and `Stop` are
never owed. In `ConnectionIO` the loop runs and the client reads what it was sent,
the assumption under which an answer can arrive; it is not obliged to send, to
complete a message or to close. In `Replies` each loop runs while it has a wake-up to handle (the eventfd is
level-triggered: as long as it can be read `epoll_wait` returns at once), and each
worker runs while it has or finds a task; messages and closings are not owed. In
`Shutdown` every thread runs, the handler's
included; `epoll_wait` returns after 10 ms at the latest, so a loop that waits is
fairly scheduled too; clients and the signal are not owed. Weak fairness of a thread's
step is that of a thread that waits for a mutex alone: a loop that is refused it again
and again by the main thread may starve, but the main thread takes it a bounded number of
times.

## 4. What is proved

All theorems hold for every value of the constants that satisfies the named
assumptions: sets of connections, descriptors, workers of any size, any positive
number of loops, any sizes of buffers.

* `ReactorProofs!TypeCorrect`: the type invariant.
* `ReactorProofs!DescriptorsAreFresh`: `NoStaleEntry`. By itself it is not
  inductive. `MapInv` adds that an entry of the map is of a live connection with
  that descriptor (`MapSound`), that no two live objects share a descriptor
  (`FdUnique`), that the socket being set up is not in the map yet (`MainOwns`)
  and that a task's connection is alive (`PoolOwns`): the last is what makes
  freeing at `WorkerDrop` safe, the second what makes `accept4` safe.
* `ReactorProofs!RoundsAreComplete`: `RoundLeavesNoneClosed`. `RoundInv` says that
  a batch only has connections of its own loop (`BatchOwn`), is non-empty only
  while it is dispatched (`BatchTime`), and that a connection not yet in epoll is
  not closed (`NewOpen`): so the sweep of the loop in which a connection was
  closed is the sweep that finds it (`Marked`).
* `ReactorProofs!BusyServerIsSound`, `BusyErasesOnlyClosed`, `BusyMainFindsConnection`:
  under `Busy` (no worker pool, and clients busy enough that none times out)
  `NoDanglingChannel`, `OnlyClosedAreErased` and `MainFindsConnection`. The two
  assumptions are needed: section 3 has the violations without them.
  `BusyInv` says that every live connection is in the map (`NoZombie`), so a descriptor
  marked for deletion is that of a closed, registered connection until it is
  erased (`MarkedIsClosed`), and nothing in a batch is erased before the batch is done
  (`BatchAlive`).
* `ReactorProofs!BusyServerKeepsPromise`: `ImplementsLifecycle` under `Busy`. Each step
  maps to a step of `ConnLifecycle` or leaves it alone; `NewOpen` is why a
  connection is served when epoll gets it, `MainOwns` why what `DropSocket` ends was only
  arriving, and `DeletionIsSafe` why what `EraseClosed` ends was closing before.
* `ReactorListProofs!SweepsSeeAll`, `IdleOnlyEvicted`: `Tracked` and
  `OnlyIdleAreEvicted`, with workers and timeouts. Neither is inductive. `ListInv` has
  three parts. `NodesInv` says that a list has no repeated node and holds only
  connections of its loop that have been constructed, not the one that the main thread
  is about to list (`MainUnlisted`): without it erasing one node could leave another.
  `SweepInv` says what is in the hands of a sweep: what is still to be evicted is idle,
  in the map and has no iterator (`Evicting`), so it is still the connection of that
  descriptor when the callback erases it; what `deleteConnection` has visited in its first
  loop has no iterator in its second, or the iterator of a connection that appeared since
  (`Unlisting`, `Erasing`). `AllTraced` sharpens `Tracked`: in the second loop of
  `deleteConnection` it is what is left to erase, not all that was marked, and it speaks
  of the connection that `addToEpoll` is about to make active as well. What is traced
  is the node in the list, which the idle sweep walks, as well as the iterator.
* `ReactorListProofs!BusyIteratorsAreValid`: `IteratorsValid` under `Busy`. `IterInv` adds
  that every iterator leads to a node, every node is of a live connection and what is
  being erased has no node left. The assumption is needed: where a new client is erased
  in the place of an earlier one on its descriptor (run `reused`, and with workers, section
  3), it may be listed between the two loops of `deleteConnection`, and then its
  node and its iterator stay behind when it is destroyed.
* `RepliesProofs!TypeCorrect`, `NoLoopSleeps`, `MessagesAreAnsweredOnce`,
  `OvertakingIsBounded`: the four invariants of `Replies`. `WayInv` follows a message:
  it is in exactly one place of the pool's queue, a worker, the task queue or the
  output of its loop, once, and the pool's queue is in the order of the messages.
  So whatever a reply has before it and skips is in the hands of another worker at the
  instant `send` finds the connection open (`SkippedAreHeld`): hence fewer than there are
  workers, and what is skipped only becomes less afterwards (`PushBound`).
  `NoLostWakeup` is inductive with the type invariant alone.
* `BufferProofs!TypeCorrect`, `BufferIsQueue`: one lemma per operation says that it
  keeps the buffer well formed and what it does to the content
  (`FillCorrect`, `EnsureCorrect`, `AppendCorrect`, `ReadCorrect`,
  `RetrieveCorrect`); the refinement maps each step to a put, a take, a get or a
  stutter.
* `ConnectionIOProofs!NoEdgeIsLost`: `NoLostEdge`. `EdgeInv` follows the promise
  through a round: after the read ended, what arrives arms the socket (`ReadInv`);
  output that this round will not send waits for room, which epoll knows of
  (`RoomInv`), because it was asked for (`SendInv`).
* `ConnectionIOProofs!InterestIsRight`: `InterestMatchesOutput`. The other
  direction of `SendInv`, `WritingInv`, needs that the output is a sequence, so
  that a reply makes it a non-empty one (`OutputInv`, `ReplyAdded`).
* `ConnectionIOProofs!TypeCorrect`: the type invariant, for which the requests and
  replies of any number of messages must be sequences of parts.
* `ConnectionIOProofs!MessagesAreEchoed`: `Echoes`, for every sequence of messages, and
  every way in which kernel and buffers cut the stream. With the type invariant and the
  bound on what the client has sent (`SentBound`) it is inductive. The steps that
  move data from one queue to the next leave the concatenation alone; `HandleMessage`
  goes from *n* to *n + 1*, and the work is to show that the header and the body it takes
  out of `input` are those of message *n + 1*: the stream up to `sent` begins with
  `Requests(n + 1)` as soon as it is long enough (`Requests` and `Replies` are
  `FlattenSeq`, so this uses `FlattenProofs`).
* `AsyncLoggingProofs!TypeCorrect`: the type invariant, from the invariant of the next
  item; it says that `m_currentBuffer` is null exactly between the two moves of an `Append`.
* `AsyncLoggingProofs!NullIsNotRead`: `NullOnlyAtStop`, since `m_running` is tested before
  the buffer and is true as long as the owner has not come to `stop()`.
* `AsyncLoggingProofs!RefillIsPossible`: `RefillPossible`. The invariant is that
  `m_nextBuffer` is null only while a full buffer is queued (`NextIsRestored`) and
  that the log thread holds as many buffers as it misses (`EnoughBuffers`), which
  survives the drop because two buffers are kept.
* `AsyncLoggingProofs!NoLineIsLost`, `LogIsQueue`: `NothingLost` and the refinement of
  `LogQueue`. `StepOfLog` sorts the steps by what they do to the lines: one is logged,
  the log thread writes what it has taken, it gives up what lies beyond two buffers, or
  lines only move between buffers; each is a step of `LogQueue` or a stutter. That
  a swap keeps the order, which the mutant `BugSwapOrder` breaks, is `FlattenConcat`.
* `AsyncLoggingProofs!StopLosesNothing`: `StopFlushes`, if the log thread does not test
  `m_running` before `start()` (`~EarlyTest`, as in the run `log`): otherwise it may exit
  at once, and what is appended between `start()` and `stop()` is never written (section
  3). `StopOK` adds that it does not exit before `stop()`. The test that falls inside an
  `Append` (`missed`) is the exception that the property names.
* `FlattenProofs!FlattenConcat`: `FlattenSeq(s \o t)` is `FlattenSeq(s) \o FlattenSeq(t)`.
  The library states it with an induction theorem that takes an operator, which no
  prover here can instantiate. The induction is therefore on a set: the prefix lengths at
  which the statement fails have a least member (`LeastNumber`, from the
  well-foundedness of `<`), and there is none.

* `ShutdownProofs!PromisesAreKept`, `NoReplyIsStray`, `NoThreadIsLeft`:
  `PromisedReachesLoop`, `RepliesFindLoop` and `ThreadsAreJoined`, from one invariant
  (`InvHolds`). `StopOrder` says that each phase of `Stop()` begins when the one before
  has had its effect: a worker has only exited after the signal, no loop is
  told to stop before all workers have, the handler is done after all I/O threads have.
  `Promise` adds that a message in the hands of a worker has a loop that read it,
  that what was promised is in such hands still, or queued, written or of a closed
  connection, and that once a worker is gone none of it is in the queue of the pool:
  a thread leaves only when it finds the queue empty, and what is queued later
  was never promised.
* `ShutdownProofs!OneThreadPerLoop`: `LoopRunsOnce`. `LoopOwner` adds that the queue of
  the I/O pool has no repetitions and holds exactly the loops not yet begun, and that
  a loop not yet constructed is in neither place.
* `ShutdownProofs!TypeCorrect`: the type invariant. That no loop counts more than
  `MaxClients` connections, nor fewer than none, needs `ClientTypes`: the
  connections of a loop and the one that the main thread is setting up are at most those
  accepted, and a loop that erases a connection has one.

Every invariant and every refinement that a passing run checks has a theorem. Only
model-checked are the liveness properties: `ClosedIsDestroyed`, `AcceptedIsServed`,
`IdleIsDestroyed`, `LineIsWritten`, `RequestAnswered`, `EofCloses`, `StopReturns` and
`ReplyArrives`. Fairness is stated with `ENABLED`, which the prover does not treat.

## 5. Not modelled

* `Log`: formatting, and the output stream, which all threads set to the same
  value after start-up.
* `Socket`, `InetAddress`, `TimesTamp`: wrappers; failures of their calls at
  start-up are only logged.
* The race on the hash table itself when `createconnection` reads
  `m_clientConnectionMap` without the mutex: the model shows that the entry it
  looks for is there, not that reading while another entry is erased is defined.
* `EPOLLRDHUP`: no channel ever asks for it.
* Test clients.
* `TcpServer::stop` on a server with a second signal, and the destructors (they close
  each eventfd and timerfd twice).
* The lengths excluded by `SumAssumption` (above, `ConnectionIO`).
* `accept4` that fails: the main loop tries again, which changes nothing until a
  descriptor is free.

## 6. Plan

1. `Shutdown`, continued: a second signal, the end of `main` without `Stop()`, the
   destructors; an abstract pool that both thread pools refine.
2. An abstract echo service that `ConnectionIO` and `Replies` refine.
3. Proofs: what remains true of the deletions of a server with workers, where
   `OnlyClosedAreErased` fails: that what is erased under a descriptor is closed, or its
   descriptor was marked by a connection that a worker still held; the steps from which
   the liveness properties follow (that a closed connection stays marked until it is
   erased, that a reply keeps its place until it is written).
4. Runs: there are twelve. A module that is added takes the place of a run that
   says least by then, or shares a configuration with one.

## 7. Running

`tlc -config MCReactor_busy.cfg MCReactor` and likewise for each run of
`PROJECT.json`; `tlapm ReactorProofs.tla` and likewise for the other proof modules.
The slowest run, `stop`, takes about a minute on two cores.

--------------------------- MODULE ShutdownProofs ---------------------------
(***************************************************************************)
(* The order in which the server is stopped is right: the workers finish   *)
(* what they have, no reply meets a loop that has ended, and no thread is  *)
(* left when the main loop returns.  A loop has one thread, and counts no  *)
(* more connections than were accepted.                                    *)
(***************************************************************************)
EXTENDS Shutdown, TLAPS

-----------------------------------------------------------------------------
(* Queues.                                                                 *)

\* What pop takes from a queue was in it, and nothing is added.
LEMMA PopTakesHead ==
    ASSUME NEW S, NEW s \in Seq(S), s # <<>>
    PROVE  /\ Head(s) \in S
           /\ Tail(s) \in Seq(S)
           /\ Head(s) \in ToSet(s)
           /\ ToSet(s) = ToSet(Tail(s)) \cup {Head(s)}
<1>1. Len(s) \in Nat /\ Len(s) > 0 /\ DOMAIN s = 1 .. Len(s)
  OBVIOUS
<1>2. Tail(s) \in Seq(S) /\ Head(s) = s[1]
  OBVIOUS
<1>3. 1 \in DOMAIN s
  BY <1>1
<1>4. Head(s) \in S
  BY <1>2, <1>3
<1>5. DOMAIN Tail(s) = 1 .. Len(s) - 1
  OBVIOUS
<1>6. ASSUME NEW i \in DOMAIN Tail(s)
      PROVE  i + 1 \in DOMAIN s /\ Tail(s)[i] = s[i + 1]
  <2>1. i \in 1 .. Len(s) - 1
    BY <1>5
  <2>2. i + 1 \in DOMAIN s
    BY <1>1, <2>1
  <2>3. Tail(s)[i] = s[i + 1]
    BY <1>1, <2>1
  <2>4. QED
    BY <2>2, <2>3
<1>7. Head(s) \in ToSet(s)
  BY <1>2, <1>3 DEF ToSet
<1>8. ToSet(Tail(s)) \subseteq ToSet(s)
  BY <1>6 DEF ToSet
<1>9. ASSUME NEW i \in DOMAIN s
      PROVE  s[i] \in ToSet(Tail(s)) \cup {Head(s)}
  <2>1. CASE i = 1
    BY <1>2, <2>1
  <2>2. CASE i # 1
    <3>1. i - 1 \in DOMAIN Tail(s) /\ (i - 1) + 1 = i
      BY <1>1, <1>5, <2>2
    <3>2. Tail(s)[i - 1] = s[i]
      BY <1>6, <3>1
    <3>3. QED
      BY <3>1, <3>2 DEF ToSet
  <2>3. QED
    BY <2>1, <2>2
<1>10. ToSet(s) \subseteq ToSet(Tail(s)) \cup {Head(s)}
  BY <1>9 DEF ToSet
<1>11. QED
  BY <1>2, <1>4, <1>7, <1>8, <1>10

\* emplace adds one element, at the end.
LEMMA EmplaceAdds ==
    ASSUME NEW S, NEW s \in Seq(S), NEW e \in S
    PROVE  /\ Append(s, e) \in Seq(S)
           /\ ToSet(Append(s, e)) = ToSet(s) \cup {e}
<1>1. /\ Append(s, e) \in Seq(S)
      /\ DOMAIN s = 1 .. Len(s) /\ Len(s) \in Nat
      /\ DOMAIN Append(s, e) = 1 .. Len(s) + 1
  OBVIOUS
<1>2. /\ \A i \in 1 .. Len(s) : Append(s, e)[i] = s[i]
      /\ Append(s, e)[Len(s) + 1] = e
  OBVIOUS
<1>3. 1 .. Len(s) + 1 = 1 .. Len(s) \cup {Len(s) + 1}
  BY <1>1
<1>4. QED
  BY <1>1, <1>2, <1>3 DEF ToSet

\* What a queue holds is of the type of its elements, and an empty one holds
\* nothing.
LEMMA QueueHolds ==
    ASSUME NEW S, NEW s \in Seq(S)
    PROVE  ToSet(s) \subseteq S /\ ToSet(<<>>) = {}
<1>1. \A i \in DOMAIN s : s[i] \in S
  OBVIOUS
<1>2. QED
  BY <1>1 DEF ToSet

\* a queue without repetitions
Distinct(s) == \A i, j \in DOMAIN s : s[i] = s[j] => i = j

\* What pop leaves has no repetitions, and what it takes is gone.
LEMMA DistinctPop ==
    ASSUME NEW S, NEW s \in Seq(S), s # <<>>, Distinct(s)
    PROVE  Distinct(Tail(s)) /\ ToSet(Tail(s)) = ToSet(s) \ {Head(s)}
<1>1. /\ Len(s) \in Nat /\ Len(s) > 0 /\ DOMAIN s = 1 .. Len(s)
      /\ Head(s) = s[1] /\ DOMAIN Tail(s) = 1 .. Len(s) - 1
  OBVIOUS
<1>2. \A i \in 1 .. Len(s) - 1 : Tail(s)[i] = s[i + 1] /\ i + 1 \in DOMAIN s
  BY <1>1
<1>3. ASSUME NEW i \in DOMAIN Tail(s), NEW j \in DOMAIN Tail(s),
             Tail(s)[i] = Tail(s)[j]
      PROVE  i = j
  <2>1. i \in Int /\ j \in Int /\ i + 1 = j + 1
    BY <1>1, <1>2, <1>3 DEF Distinct
  <2>2. QED
    BY <2>1
<1>4. Distinct(Tail(s))
  BY <1>3 DEF Distinct
<1>5. ASSUME NEW x \in ToSet(Tail(s))
      PROVE  x \in ToSet(s) /\ x # Head(s)
  <2>1. PICK i \in DOMAIN Tail(s) : Tail(s)[i] = x
    BY DEF ToSet
  <2>2. i + 1 \in DOMAIN s /\ s[i + 1] = x /\ 1 \in DOMAIN s /\ i + 1 # 1
    BY <1>1, <1>2, <2>1
  <2>3. QED
    BY <1>1, <2>2 DEF Distinct, ToSet
<1>6. ASSUME NEW x \in ToSet(s), x # Head(s)
      PROVE  x \in ToSet(Tail(s))
  <2>1. PICK i \in DOMAIN s : s[i] = x
    BY DEF ToSet
  <2>2. i - 1 \in 1 .. Len(s) - 1 /\ (i - 1) + 1 = i
    BY <1>1, <1>6, <2>1
  <2>3. Tail(s)[i - 1] = x
    BY <1>2, <2>1, <2>2
  <2>4. QED
    BY <1>1, <2>2, <2>3 DEF ToSet
<1>7. ToSet(Tail(s)) = ToSet(s) \ {Head(s)}
  BY <1>5, <1>6
<1>8. QED
  BY <1>4, <1>7

\* A new element may be added.
LEMMA DistinctPush ==
    ASSUME NEW S, NEW s \in Seq(S), NEW e \in S, Distinct(s), e \notin ToSet(s)
    PROVE  Distinct(Append(s, e))
<1>1. /\ DOMAIN s = 1 .. Len(s) /\ Len(s) \in Nat
      /\ DOMAIN Append(s, e) = 1 .. Len(s) + 1
  OBVIOUS
<1>2. /\ \A i \in DOMAIN s : Append(s, e)[i] = s[i] /\ s[i] # e
      /\ Append(s, e)[Len(s) + 1] = e
  BY DEF ToSet
<1>3. \A i \in 1 .. Len(s) + 1 : i \in DOMAIN s \/ i = Len(s) + 1
  BY <1>1
<1>4. QED
  BY <1>1, <1>2, <1>3 DEF Distinct

-----------------------------------------------------------------------------
(* The invariant.                                                          *)

\* The types that the argument needs.  A worker that runs runs a message.
Types ==
    /\ built \in Nat
    /\ io \in Seq(Loops)
    /\ work \in Seq(Messages)
    /\ thread \in [Threads -> {"start", "idle", "run", "give", "drop",
                               "exited"}]
    /\ running \in [Threads -> Loops \cup Messages \cup {NoTask}]
    /\ loopPc \in [Loops -> {"new", "queued", "test", "poll", "evict", "sweep",
                             "delete", "erase", "spin", "ended"}]
    /\ reader \in [Messages -> Loops \cup {NoLoop}]
    /\ closed \subseteq Messages
    /\ queued \subseteq Messages
    /\ ran \subseteq Messages
    /\ \A w \in Workers :
           thread[w] \in {"run", "give"} => running[w] \in Messages

Late == stopPc \in {"loops", "io", "done"}

\* Each phase of Stop() begins when the one before it has had its effect.
StopOrder ==
    /\ workStop => stopPc # "idle"
    /\ \A w \in Workers : thread[w] = "exited" => workStop
    /\ Late => \A w \in Workers : thread[w] = "exited"
    /\ loopStop # {} => Late
    /\ \A l \in Loops : loopPc[l] = "ended" => l \in loopStop \cup noEpoll
    /\ stopPc = "done" => \A t \in IoThreads : thread[t] = "exited"
    /\ main = "returned" => stopPc = "done" \/ MainLoop \in noEpoll

\* A message that the workers have was read by a loop, which has an epoll.  What
\* was promised is still in their hands or has reached its loop, and is no
\* longer in the queue once a worker is gone.
Promise ==
    /\ \A m \in InHand : reader[m] # NoLoop
    /\ \A m \in Messages : reader[m] # NoLoop => reader[m] \notin noEpoll
    /\ \A m \in promised : m \in Messages /\ reader[m] # NoLoop
    /\ promised \subseteq InHand \cup queued \cup ran \cup closed
    /\ (\E w \in Workers : thread[w] = "exited")
           => promised \cap ToSet(work) = {}
    /\ Workers = {} => work = <<>>

\* The program starts in the invariant.
LEMMA InvInit == Init => Types /\ StopOrder /\ Promise
<1>1. \A S : <<>> \in Seq(S) /\ ToSet(<<>>) = {}
  <2>1. ASSUME NEW S PROVE <<>> \in Seq(S) /\ ToSet(<<>>) = {}
    <3>1. <<>> \in Seq(S)
      OBVIOUS
    <3>2. QED
      BY <3>1, QueueHolds
  <2>2. QED
    BY <2>1
<1>2. Init => Types
  BY <1>1 DEF Init, Types, Threads
<1>3. Init => StopOrder
  BY DEF Init, StopOrder, Late, Threads
<1>4. Init => Promise
  BY <1>1 DEF Init, Promise, InHand, Threads
<1>5. QED
  BY <1>2, <1>3, <1>4

\* Every step keeps the types.
LEMMA TypesStep == Types /\ [Next]_vars => Types'
<1> SUFFICES ASSUME Types, [Next]_vars
             PROVE  Types'
  OBVIOUS
<1> USE DEF mainVars, poolVars, loopVars, replyVars, stopVars, vars, Threads,
        Goto, MainGoto, StopGoto, Exit
<1>1. CASE BuildLoop
  <2>1. built + 1 \in Loops
    BY <1>1, NumLoopsAssumption DEF BuildLoop, Types, Loops
  <2>2. io' \in Seq(Loops)
    BY <1>1, <2>1, EmplaceAdds DEF BuildLoop, Types
  <2>3. QED
    BY <1>1, <2>2 DEF BuildLoop, Types
<1>2. CASE Start \/ MainTests \/ MainFails \/ GiveToLoop \/ Activate
           \/ Logged \/ MainRoundEnds
  BY <1>2 DEF Start, MainTests, MainFails, GiveToLoop, Activate,
         Logged, MainRoundEnds, Types
<1>3. CASE StopStep \/ Signal \/ \E l \in Loops : Accept(l)
  BY <1>3 DEF StopStep, JoinWorkers, StopLoop, StopIo, JoinIo, Signal, Accept,
     Types
<1>4. ASSUME NEW t \in IoThreads, NEW l \in Loops, ClientStep(t, l)
      PROVE  Types'
  <2>1. ASSUME NEW m \in Messages, ReadMessage(t, l, m)
        PROVE  Types'
    <3>1. work' \in Seq(Messages)
      <4>1. Append(work, m) \in Seq(Messages)
        BY EmplaceAdds DEF Types
      <4>2. QED
        BY <2>1, <4>1 DEF ReadMessage, Types
    <3>2. ran' \subseteq Messages
      BY <2>1 DEF ReadMessage, Types
    <3>3. QED
      BY <2>1, <3>1, <3>2 DEF ReadMessage, Types
  <2>2. CASE ReadOversized(t, l)
    BY <2>2 DEF ReadOversized, Types
  <2>3. CASE CloseClient(t, l)
    <3>1. closed' \subseteq Messages
      BY <2>3 DEF CloseClient, Types
    <3>2. QED
      BY <2>3, <3>1 DEF CloseClient, Types
  <2>4. QED
    BY <1>4, <2>1, <2>2, <2>3 DEF ClientStep
<1>5. ASSUME NEW w \in Workers, WorkerStep(w)
      PROVE  Types'
  <2>1. CASE TakeMessage(w)
    <3>1. Head(work) \in Messages /\ work' \in Seq(Messages)
      BY <2>1, PopTakesHead DEF TakeMessage, Types
    <3>2. QED
      BY <2>1, <3>1 DEF TakeMessage, Types
  <2>2. CASE Begin(w) \/ ExitWorker(w) \/ DropTask(w)
    BY <2>2 DEF Begin, ExitWorker, DropTask, Types
  <2>3. CASE Reply(w)
    BY <2>3 DEF Reply, Types
  <2>4. CASE GiveReply(w)
    <3>1. running[w] \in Messages
      BY <2>4 DEF GiveReply, Types
    <3>2. QED
      BY <2>4, <3>1 DEF GiveReply, Types
  <2>5. QED
    BY <1>5, <2>1, <2>2, <2>3, <2>4 DEF WorkerStep
<1>6. ASSUME NEW t \in IoThreads, TakeLoop(t)
      PROVE  Types'
  <2>1. Head(io) \in Loops /\ io' \in Seq(Loops)
    BY <1>6, PopTakesHead DEF TakeLoop, Types
  <2>2. QED
    BY <1>6, <2>1, ThreadsAssumption DEF TakeLoop, Types
<1>7. ASSUME NEW t \in IoThreads, ExitIo(t) \/ Begin(t)
      PROVE  Types'
  BY <1>7 DEF ExitIo, Begin, Types
<1>8. ASSUME NEW t \in IoThreads, NEW l \in Loops, LoopStep(t, l)
      PROVE  Types'
  <2>1. CASE Returns(t, l)
    <3>1. Goto(l, "ended") /\ UNCHANGED <<built, io, work, replyVars>>
      BY <2>1 DEF Returns
    <3>2. /\ thread' = [thread EXCEPT ![t] = "idle"]
          /\ running' = [running EXCEPT ![t] = NoTask]
      BY <2>1 DEF Returns
    <3>3. QED
      BY <3>1, <3>2 DEF Types
  <2>2. CASE TestsStop(t, l) \/ TimesOut(t, l) \/ HandleTimer(t, l)
    BY <2>2 DEF TestsStop, TimesOut, HandleTimer, Types
  <2>3. CASE Sweep(t, l) \/ Erase(t, l)
    BY <2>3 DEF Sweep, Erase, Types
  <2>4. CASE HandleWakeUp(t, l)
    <3>1. queued' \subseteq Messages /\ ran' \subseteq Messages
      BY <2>4 DEF HandleWakeUp, Types
    <3>2. QED
      BY <2>4, <3>1 DEF HandleWakeUp, Types
  <2>5. CASE Spin(t, l)
    BY <2>5 DEF Spin, Types
  <2>6. QED
    BY <1>8, <2>1, <2>2, <2>3, <2>4, <2>5 DEF LoopStep
<1>9. CASE UNCHANGED vars
  BY <1>9 DEF Types
<1>10. QED
  BY <1>1, <1>2, <1>3, <1>4, <1>5, <1>6, <1>7, <1>8, <1>9
     DEF Next, MainStep, Event, IoStep, Finished

\* Every step keeps the order of the phases.
LEMMA StopOrderStep == Types /\ StopOrder /\ [Next]_vars => StopOrder'
<1> SUFFICES ASSUME Types, StopOrder, [Next]_vars
             PROVE  StopOrder'
  OBVIOUS
<1> USE DEF mainVars, poolVars, loopVars, replyVars, stopVars, vars, Threads,
        Goto, MainGoto, StopGoto, Exit, Late
<1>1. CASE BuildLoop
  BY <1>1 DEF BuildLoop, Types, StopOrder
<1>2. CASE MainTests
  \* the handler is idle or done when the main loop runs
  BY <1>2 DEF MainTests, MainRuns, StopOrder
<1>3. CASE Start \/ GiveToLoop \/ Activate \/ Logged \/ MainRoundEnds
           \/ MainFails
  BY <1>3 DEF Start, GiveToLoop, Activate, Logged, MainRoundEnds, MainFails,
     StopOrder
<1>4. CASE \E l \in Loops : Accept(l)
  BY <1>4 DEF Accept, StopOrder
<1>5. CASE Signal
  BY <1>5 DEF Signal, StopOrder
<1>6. CASE StopStep
  BY <1>6 DEF StopStep, JoinWorkers, StopLoop, StopIo, JoinIo, StopOrder
<1>7. ASSUME NEW w \in Workers, WorkerStep(w)
      PROVE  StopOrder'
  <2>1. UNCHANGED <<stopVars, main, loopPc, noEpoll>>
    BY <1>7 DEF WorkerStep, Begin, TakeMessage, Reply, GiveReply, DropTask,
                ExitWorker
  <2>2. \A v \in Workers \cup IoThreads :
            /\ thread[v] = "exited" => thread'[v] = "exited"
            /\ thread'[v] = "exited" => thread[v] = "exited" \/ workStop
    BY <1>7 DEF WorkerStep, Begin, TakeMessage, Reply, GiveReply, DropTask,
                ExitWorker, Types
  <2>3. QED
    BY <2>1, <2>2 DEF StopOrder
<1>8. ASSUME NEW t \in IoThreads, TakeLoop(t) \/ ExitIo(t) \/ Begin(t)
      PROVE  StopOrder'
  <2>1. CASE TakeLoop(t)
    <3>1. Head(io) \in Loops
      BY <2>1, PopTakesHead DEF TakeLoop, Types
    <3>2. QED
      BY <2>1, <3>1, ThreadsAssumption DEF TakeLoop, Types, StopOrder
  <2>2. CASE ExitIo(t) \/ Begin(t)
    BY <2>2, ThreadsAssumption DEF ExitIo, Begin, Types, StopOrder
  <2>3. QED
    BY <1>8, <2>1, <2>2
<1>9. ASSUME NEW t \in IoThreads, NEW l \in Loops,
             LoopStep(t, l) \/ ClientStep(t, l)
      PROVE  StopOrder'
  <2>1. CASE Returns(t, l)
    <3>1. /\ UNCHANGED <<stopVars, main, noEpoll>>
          /\ l \in loopStop \cup noEpoll
          /\ loopPc' = [loopPc EXCEPT ![l] = "ended"]
          /\ thread[t] = "run" /\ thread' = [thread EXCEPT ![t] = "idle"]
      BY <2>1 DEF Returns, In, Runs
    <3>2. \A v \in Threads \ {t} : thread'[v] = thread[v]
      BY <3>1 DEF Types
    <3>3. \A k \in Loops : loopPc'[k] = "ended" => k \in loopStop \cup noEpoll
      BY <3>1 DEF Types, StopOrder
    <3>4. QED
      BY <3>1, <3>2, <3>3, ThreadsAssumption DEF StopOrder
  <2>2. ASSUME UNCHANGED <<stopVars, main, noEpoll, thread>>,
               NEW pc, Goto(l, pc), pc # "ended"
        PROVE  StopOrder'
    BY <2>2 DEF Types, StopOrder
  <2>3. CASE TestsStop(t, l) \/ TimesOut(t, l) \/ HandleTimer(t, l)
             \/ Sweep(t, l) \/ Erase(t, l) \/ HandleWakeUp(t, l)
    BY <2>2, <2>3
       DEF TestsStop, TimesOut, HandleTimer, Sweep, Erase, HandleWakeUp
  <2>4. CASE ClientStep(t, l)
    BY <2>2, <2>4 DEF ClientStep, ReadMessage, ReadOversized, CloseClient
  <2>5. CASE Spin(t, l)
    BY <2>5 DEF Spin, StopOrder
  <2>6. QED
    BY <1>9, <2>1, <2>3, <2>4, <2>5 DEF LoopStep
<1>10. CASE UNCHANGED vars
  BY <1>10 DEF StopOrder
<1>11. QED
  BY <1>1, <1>2, <1>3, <1>4, <1>5, <1>6, <1>7, <1>8, <1>9, <1>10
     DEF Next, MainStep, Event, IoStep, Finished

\* Every step keeps what was promised to clients.
LEMMA PromiseStep ==
    Types /\ StopOrder /\ Promise /\ [Next]_vars => Promise'
<1> SUFFICES ASSUME Types, StopOrder, Promise, [Next]_vars
             PROVE  Promise'
  OBVIOUS
<1> USE DEF mainVars, poolVars, loopVars, replyVars, stopVars, vars, Threads,
        Goto, MainGoto, StopGoto, Exit, Late
<1>1. ASSUME UNCHANGED <<work, replyVars, noEpoll, promised, thread, running>>
      PROVE  Promise'
  BY <1>1 DEF Promise, InHand
<1>2. CASE \/ MainStep \/ \E l \in Loops : Accept(l)
           \/ (\E l \in 0 .. NumLoops : StopLoop(l)) \/ StopIo \/ JoinIo
           \/ JoinWorkers \/ UNCHANGED vars
  BY <1>1, <1>2
     DEF MainStep, BuildLoop, Start, MainTests, MainFails, GiveToLoop,
         Activate, Logged, MainRoundEnds, Accept, StopLoop, StopIo, JoinIo,
         JoinWorkers
<1>3. CASE Signal
  <2>1. /\ promised' = InHand
        /\ UNCHANGED <<work, replyVars, noEpoll, thread, running>>
    BY <1>3 DEF Signal
  <2>2. \A w \in Workers : thread[w] # "exited"
    BY <1>3 DEF Signal, StopOrder
  <2>3. InHand \subseteq Messages /\ InHand' = InHand
    BY <2>1, QueueHolds DEF InHand, Types
  <2>4. QED
    BY <2>1, <2>2, <2>3 DEF Promise
<1>4. ASSUME NEW t \in IoThreads, NEW l \in Loops, NEW m \in Messages,
             ReadMessage(t, l, m)
      PROVE  Promise'
  <2>1. /\ reader[m] = NoLoop /\ reader' = [reader EXCEPT ![m] = l]
        /\ l \notin noEpoll
        /\ UNCHANGED <<promised, thread, running, noEpoll, closed, queued>>
        /\ work' = IF Workers # {} THEN Append(work, m) ELSE work
        /\ ran \subseteq ran'
    BY <1>4 DEF ReadMessage, Polls
  <2>2. ToSet(work) \subseteq ToSet(work') /\ ToSet(work') \subseteq ToSet(work) \cup {m}
    BY <2>1, EmplaceAdds DEF Types
  <2>3. /\ InHand \subseteq InHand' /\ InHand' \subseteq InHand \cup {m}
        /\ m \notin promised
    BY <2>1, <2>2 DEF InHand, Promise
  <2>4. InHand \subseteq Messages
    BY QueueHolds DEF InHand, Types
  <2>5. l # NoLoop /\ \A k \in Messages : k # m => reader'[k] = reader[k]
    BY <2>1 DEF Types, Loops, NoLoop
  <2>6. reader'[m] = l
    BY <2>1 DEF Types
  <2>7. /\ \A k \in InHand' : reader'[k] # NoLoop
        /\ \A k \in promised' : k \in Messages /\ reader'[k] # NoLoop
        /\ \A k \in Messages : reader'[k] # NoLoop => reader'[k] \notin noEpoll'
    BY <2>1, <2>3, <2>4, <2>5, <2>6 DEF Promise
  <2>8. (\E w \in Workers : thread'[w] = "exited")
            => promised' \cap ToSet(work') = {}
    BY <2>1, <2>2, <2>3 DEF Promise
  <2>9. promised' \subseteq InHand' \cup queued' \cup ran' \cup closed'
    BY <2>1, <2>3 DEF Promise
  <2>10. Workers = {} => work' = <<>>
    BY <2>1 DEF Promise
  <2>11. QED
    BY <2>7, <2>8, <2>9, <2>10 DEF Promise
<1>5. ASSUME NEW t \in IoThreads, NEW l \in Loops,
             ReadOversized(t, l) \/ CloseClient(t, l)
      PROVE  Promise'
  <2>1. /\ UNCHANGED <<work, reader, queued, ran, noEpoll, promised, thread,
                       running>>
        /\ closed \subseteq closed'
    BY <1>5 DEF ReadOversized, CloseClient
  <2>2. InHand' = InHand
    BY <2>1 DEF InHand
  <2>3. QED
    BY <2>1, <2>2 DEF Promise
<1>6. ASSUME NEW w \in Workers, WorkerStep(w)
      PROVE  Promise'
  <2>1. /\ UNCHANGED <<promised, reader, closed, ran, noEpoll>>
        /\ queued \subseteq queued'
    BY <1>6 DEF WorkerStep, Begin, TakeMessage, Reply, GiveReply, DropTask,
                ExitWorker
  <2>2. ASSUME InHand' \subseteq InHand,
               InHand \subseteq InHand' \cup queued' \cup closed,
               ToSet(work') \subseteq ToSet(work),
               \A v \in Workers : thread'[v] = "exited"
                   => thread[v] = "exited" \/ ToSet(work') = {},
               Workers # {}
        PROVE  Promise'
    BY <2>1, <2>2 DEF Promise
  <2>3. CASE TakeMessage(w)
    <3>1. /\ ToSet(work) = ToSet(work') \cup {Head(work)}
          /\ thread[w] = "idle"
          /\ thread' = [thread EXCEPT ![w] = "run"]
          /\ running' = [running EXCEPT ![w] = Head(work)]
      BY <2>3, PopTakesHead DEF TakeMessage, Types
    <3>2. InHand' = InHand
      BY <3>1 DEF InHand, Types
    <3>3. \A v \in Workers : thread'[v] = "exited" => thread[v] = "exited"
      BY <3>1 DEF Types
    <3>4. QED
      BY <2>2, <3>1, <3>2, <3>3
  <2>4. ASSUME UNCHANGED <<work, running>>,
               NEW pc, thread' = [thread EXCEPT ![w] = pc],
               thread[w] # "exited",
               pc # "exited" \/ ToSet(work) = {},
               pc \in {"run", "give"} => thread[w] \in {"run", "give"},
               thread[w] \in {"run", "give"} =>
                   pc \in {"run", "give"} \/ running[w] \in queued' \cup closed
        PROVE  Promise'
    <3>1. InHand' \subseteq InHand
      BY <2>4 DEF InHand, Types
    <3>2. InHand \subseteq InHand' \cup queued' \cup closed
      <4>1. ASSUME NEW v \in Workers, thread[v] \in {"run", "give"}
            PROVE  running[v] \in InHand' \cup queued' \cup closed
        BY <2>4, <4>1 DEF InHand, Types
      <4>2. QED
        BY <2>4, <4>1 DEF InHand
    <3>3. \A v \in Workers : thread'[v] = "exited"
                   => thread[v] = "exited" \/ ToSet(work') = {}
      BY <2>4 DEF Types
    <3>4. QED
      BY <2>2, <2>4, <3>1, <3>2, <3>3
  <2>5. CASE Begin(w)
    BY <2>4, <2>5 DEF Begin
  <2>6. CASE Reply(w)
    BY <2>4, <2>6 DEF Reply
  <2>7. CASE GiveReply(w)
    BY <2>4, <2>7 DEF GiveReply
  <2>8. CASE DropTask(w)
    <3>1. /\ UNCHANGED work /\ thread[w] = "drop"
          /\ thread' = [thread EXCEPT ![w] = "idle"]
          /\ running' = [running EXCEPT ![w] = NoTask]
      BY <2>8 DEF DropTask
    <3>2. InHand' = InHand
      BY <3>1 DEF InHand, Types
    <3>3. \A v \in Workers : thread'[v] = "exited" => thread[v] = "exited"
      BY <3>1 DEF Types
    <3>4. QED
      BY <2>2, <3>1, <3>2, <3>3
  <2>9. CASE ExitWorker(w)
    <3>1. ToSet(work) = {}
      BY <2>9, QueueHolds DEF ExitWorker, Types
    <3>2. QED
      BY <2>4, <2>9, <3>1 DEF ExitWorker
  <2>10. QED
    BY <1>6, <2>3, <2>5, <2>6, <2>7, <2>8, <2>9 DEF WorkerStep
<1>7. ASSUME NEW t \in IoThreads, IoStep(t)
      PROVE  Promise'
  <2>1. /\ UNCHANGED <<work, reader, closed, noEpoll, promised>>
        /\ \A w \in Workers :
               thread'[w] = thread[w] /\ running'[w] = running[w]
    BY <1>7, ThreadsAssumption
       DEF IoStep, Begin, TakeLoop, ExitIo, LoopStep, TestsStop, Returns,
           TimesOut, HandleWakeUp, HandleTimer, Sweep, Erase, Spin, Types
  <2>2. InHand' = InHand
    BY <2>1 DEF InHand
  <2>3. queued \cup ran \subseteq queued' \cup ran'
    BY <1>7
       DEF IoStep, Begin, TakeLoop, ExitIo, LoopStep, TestsStop, Returns,
           TimesOut, HandleWakeUp, HandleTimer, Sweep, Erase, Spin, Types
  <2>4. QED
    BY <2>1, <2>2, <2>3 DEF Promise
<1>8. QED
  BY <1>2, <1>3, <1>4, <1>5, <1>6, <1>7
     DEF Next, StopStep, Event, ClientStep, Finished

-----------------------------------------------------------------------------
(* Theorems.                                                               *)

\* The invariant holds in every state of the program.
LEMMA InvHolds == Spec => [](Types /\ StopOrder /\ Promise)
<1>1. Types /\ StopOrder /\ Promise /\ [Next]_vars
          => (Types /\ StopOrder /\ Promise)'
  BY TypesStep, StopOrderStep, PromiseStep
<1>2. QED
  BY InvInit, <1>1, PTL DEF Spec

\* However many loops, workers, messages and clients there are, the reply to what
\* the workers had in hand when they were told to stop is in the task queue of
\* its loop, or written, or its connection was closed, before Stop() goes on to
\* the loops (ThreadPool.cpp:25-37, 63-73).
THEOREM PromisesAreKept == Spec => []PromisedReachesLoop
<1>1. Types /\ StopOrder /\ Promise => PromisedReachesLoop
  <2> SUFFICES ASSUME Types, StopOrder, Promise, Late
               PROVE  promised \subseteq queued \cup ran \cup closed
    BY DEF PromisedReachesLoop, Late
  <2>1. \A w \in Workers : thread[w] = "exited"
    BY DEF StopOrder
  <2>2. InHand = ToSet(work)
    BY <2>1 DEF InHand
  <2>3. promised \cap ToSet(work) = {}
    <3>1. CASE Workers = {}
      BY <3>1, QueueHolds DEF Promise, Types
    <3>2. CASE Workers # {}
      BY <2>1, <3>2 DEF Promise
    <3>3. QED
      BY <3>1, <3>2
  <2>4. QED
    BY <2>2, <2>3 DEF Promise
<1>2. QED
  BY InvHolds, <1>1, PTL

\* A reply is never given to a loop that has ended: the workers are joined
\* before a loop is told to stop.
THEOREM NoReplyIsStray == Spec => []RepliesFindLoop
<1>1. Types /\ StopOrder /\ Promise => RepliesFindLoop
  <2> SUFFICES ASSUME Types, StopOrder, Promise,
                      NEW w \in Workers, thread[w] \in {"run", "give"}
               PROVE  loopPc[reader[running[w]]] # "ended"
    BY DEF RepliesFindLoop
  <2>1. running[w] \in Messages /\ running[w] \in InHand
    BY DEF Types, InHand
  <2>2. reader[running[w]] \in Loops /\ reader[running[w]] \notin noEpoll
    BY <2>1 DEF Types, Promise
  <2>3. loopStop = {}
    BY DEF StopOrder
  <2>4. QED
    BY <2>2, <2>3 DEF StopOrder
<1>2. QED
  BY InvHolds, <1>1, PTL

\* No thread of a pool is left when the main loop returns, unless it never had
\* an epoll to wait on (TcpServer.cpp:44-57, EventLoop.cpp:55-58).
THEOREM NoThreadIsLeft == Spec => []ThreadsAreJoined
<1>1. Types /\ StopOrder /\ Promise => ThreadsAreJoined
  BY DEF StopOrder, Late, ThreadsAreJoined, Threads
<1>2. QED
  BY InvHolds, <1>1, PTL

-----------------------------------------------------------------------------
(* Loops and the threads that run them.                                    *)

\* A loop is queued once when it is constructed, and a thread that takes it is
\* the only one to have it until loop() returns.
LoopOwner ==
    /\ Distinct(io)
    /\ \A l \in Loops : loopPc[l] = "queued" <=> l \in ToSet(io)
    /\ \A l \in Loops : loopPc[l] = "new" <=> l > built
    /\ LoopRunsOnce

\* The program starts with no loop.
LEMMA LoopOwnerInit == Init => LoopOwner
<1> SUFFICES ASSUME Init PROVE LoopOwner
  OBVIOUS
<1>1. ToSet(io) = {}
  <2>1. <<>> \in Seq(Loops)
    OBVIOUS
  <2>2. QED
    BY <2>1, QueueHolds DEF Init
<1>2. Distinct(io)
  BY DEF Init, Distinct
<1>3. \A l \in Loops : l > built
  BY NumLoopsAssumption DEF Init, Loops
<1>4. LoopRunsOnce
  BY DEF Init, LoopRunsOnce, Active, Runs, Threads
<1>5. QED
  BY <1>1, <1>2, <1>3, <1>4 DEF Init, LoopOwner

\* Every step keeps the owner of a loop.
LEMMA LoopOwnerStep == Types /\ LoopOwner /\ [Next]_vars => LoopOwner'
<1> SUFFICES ASSUME Types, LoopOwner, [Next]_vars
             PROVE  LoopOwner'
  OBVIOUS
<1> USE DEF mainVars, poolVars, loopVars, replyVars, stopVars, vars, Threads,
        Goto, MainGoto, StopGoto, Exit
<1>1. ASSUME UNCHANGED <<io, built, loopPc>>,
             \A t \in IoThreads :
                 thread'[t] = thread[t] /\ running'[t] = running[t]
      PROVE  LoopOwner'
  BY <1>1 DEF LoopOwner, LoopRunsOnce, Active, Runs, Distinct
<1>2. CASE BuildLoop
  <2> DEFINE n == built + 1
  <2>1. /\ n \in Loops /\ n > built
        /\ \A l \in Loops : l > built <=> l = n \/ l > n
    BY <1>2, NumLoopsAssumption DEF BuildLoop, Types, Loops
  <2>2. /\ built' = n /\ io' = Append(io, n)
        /\ loopPc' = [loopPc EXCEPT ![n] = "queued"]
        /\ UNCHANGED <<thread, running>>
    BY <1>2 DEF BuildLoop
  <2> HIDE DEF n
  <2>3. loopPc[n] = "new" /\ n \notin ToSet(io)
    BY <2>1 DEF LoopOwner
  <2>4. Distinct(io') /\ ToSet(io') = ToSet(io) \cup {n}
    BY <2>1, <2>2, <2>3, DistinctPush, EmplaceAdds DEF LoopOwner, Types
  <2>5. \A l \in Loops : loopPc'[l] = "queued" <=> l \in ToSet(io')
    BY <2>2, <2>4 DEF LoopOwner, Types
  <2>6. \A l \in Loops : loopPc'[l] = "new" <=> l > built'
    <3>1. ~(n > n)
      BY <2>1 DEF Loops
    <3>2. QED
      BY <2>1, <2>2, <2>3, <3>1 DEF LoopOwner, Types
  <2>7. LoopRunsOnce'
    BY <2>2, <2>3 DEF LoopOwner, LoopRunsOnce, Active, Runs, Types
  <2>8. QED
    BY <2>4, <2>5, <2>6, <2>7 DEF LoopOwner
<1>3. CASE \/ Start \/ MainTests \/ MainFails \/ GiveToLoop \/ Activate
           \/ Logged \/ MainRoundEnds
           \/ StopStep \/ Signal \/ UNCHANGED vars
           \/ \E l \in Loops : Accept(l)
  BY <1>1, <1>3
     DEF Start, MainTests, MainFails, GiveToLoop, Activate,
         Logged, MainRoundEnds, StopStep,
         JoinWorkers, StopLoop, StopIo, JoinIo, Signal, Accept
<1>4. ASSUME NEW w \in Workers, WorkerStep(w)
      PROVE  LoopOwner'
  <2>1. UNCHANGED <<io, built, loopPc>>
    BY <1>4 DEF WorkerStep, Begin, TakeMessage, Reply, GiveReply, DropTask,
                ExitWorker
  <2>2. \A t \in IoThreads : thread'[t] = thread[t] /\ running'[t] = running[t]
    BY <1>4, ThreadsAssumption
       DEF WorkerStep, Begin, TakeMessage, Reply, GiveReply, DropTask,
           ExitWorker, Types
  <2>3. QED
    BY <1>1, <2>1, <2>2
<1>5. ASSUME NEW t \in IoThreads, TakeLoop(t)
      PROVE  LoopOwner'
  <2> DEFINE l == Head(io)
  <2>1. /\ l \in Loops /\ l \in ToSet(io)
        /\ Distinct(io') /\ ToSet(io') = ToSet(io) \ {l}
    BY <1>5, PopTakesHead, DistinctPop DEF TakeLoop, Types, LoopOwner
  <2>2. /\ thread[t] = "idle" /\ UNCHANGED built
        /\ thread' = [thread EXCEPT ![t] = "run"]
        /\ running' = [running EXCEPT ![t] = l]
        /\ loopPc' = [loopPc EXCEPT ![l] = "test"]
    BY <1>5 DEF TakeLoop
  <2> HIDE DEF l
  <2>3. loopPc[l] = "queued" /\ \A u \in IoThreads : ~Runs(u, l)
    BY <2>1 DEF LoopOwner, LoopRunsOnce, Active
  <2>4. /\ \A k \in Loops : loopPc'[k] = "queued" <=> k \in ToSet(io')
        /\ \A k \in Loops : loopPc'[k] = "new" <=> k > built'
    BY <2>1, <2>2, <2>3 DEF LoopOwner, Types
  <2>5. \A u \in IoThreads, k \in Loops :
            Runs(u, k)' <=> (Runs(u, k) \/ (u = t /\ k = l))
    BY <2>1, <2>2 DEF Runs, Types
  <2>6. \A k \in Loops : Active(k)' <=> (Active(k) \/ k = l)
    BY <2>1, <2>2 DEF Active, Types
  <2>7. LoopRunsOnce'
    BY <2>3, <2>5, <2>6 DEF LoopOwner, LoopRunsOnce
  <2>8. QED
    BY <2>1, <2>4, <2>7 DEF LoopOwner
<1>6. ASSUME NEW t \in IoThreads, ExitIo(t) \/ Begin(t)
      PROVE  LoopOwner'
  <2>1. UNCHANGED <<io, built, loopPc, running>>
    BY <1>6 DEF ExitIo, Begin
  <2>2. \A u \in IoThreads, k \in Loops : Runs(u, k)' <=> Runs(u, k)
    BY <1>6 DEF ExitIo, Begin, Runs, Types
  <2>3. QED
    BY <2>1, <2>2 DEF LoopOwner, LoopRunsOnce, Active, Distinct
<1>7. ASSUME NEW t \in IoThreads, NEW l \in Loops, Returns(t, l)
      PROVE  LoopOwner'
  <2>1. /\ UNCHANGED <<io, built>>
        /\ thread' = [thread EXCEPT ![t] = "idle"]
        /\ loopPc' = [loopPc EXCEPT ![l] = "ended"]
        /\ running' = [running EXCEPT ![t] = NoTask]
        /\ Runs(t, l) /\ loopPc[l] \in {"test", "poll"}
    BY <1>7 DEF Returns, In
  <2>2. \A u \in IoThreads, k \in Loops :
            Runs(u, k)' <=> (Runs(u, k) /\ u # t)
    BY <2>1 DEF Runs, Types
  <2>3. \A k \in Loops : Active(k)' <=> (Active(k) /\ k # l)
    BY <2>1 DEF Active, Types
  <2>4. \A k \in Loops : Runs(t, k) => k = l
    BY <2>1 DEF Runs
  <2>5. LoopRunsOnce'
    BY <2>1, <2>2, <2>3, <2>4 DEF LoopOwner, LoopRunsOnce
  <2>6. QED
    BY <2>1, <2>5 DEF LoopOwner, Types, Distinct
<1>8. ASSUME NEW t \in IoThreads, NEW l \in Loops,
             LoopStep(t, l) \/ ClientStep(t, l), ~Returns(t, l), ~Spin(t, l)
      PROVE  LoopOwner'
  <2>1. /\ UNCHANGED <<io, built, thread, running>>
        /\ Active(l)
        /\ \E pc \in {"test", "poll", "evict", "sweep", "delete", "erase",
                      "spin"} : Goto(l, pc)
    BY <1>8
       DEF LoopStep, ClientStep, TestsStop, TimesOut, HandleWakeUp, HandleTimer,
           Sweep, Erase, ReadMessage, ReadOversized, CloseClient, Polls, In,
           Active
  <2>2. /\ \A k \in Loops : Active(k)' <=> Active(k)
        /\ \A k \in Loops \ {l} : loopPc'[k] = loopPc[k]
        /\ loopPc'[l] \notin {"new", "queued"}
    BY <2>1 DEF Active, Types
  <2>3. loopPc[l] \notin {"new", "queued"}
    BY <2>1 DEF Active
  <2>4. LoopRunsOnce'
    BY <2>1, <2>2 DEF LoopOwner, LoopRunsOnce, Runs
  <2>5. QED
    BY <2>1, <2>2, <2>3, <2>4 DEF LoopOwner, Distinct
<1>9. CASE \E t \in IoThreads, l \in Loops : Spin(t, l)
  BY <1>1, <1>9 DEF Spin
<1>10. QED
  BY <1>2, <1>3, <1>4, <1>5, <1>6, <1>7, <1>8, <1>9
     DEF Next, MainStep, Event, IoStep, LoopStep, Finished

\* However many threads and loops there are, a loop that has begun and not ended
\* is run by exactly one thread.
THEOREM OneThreadPerLoop == Spec => []LoopRunsOnce
<1>1. Types /\ LoopOwner /\ [Next]_vars => (Types /\ LoopOwner)'
  BY TypesStep, LoopOwnerStep
<1>2. Init => Types /\ LoopOwner
  BY InvInit, LoopOwnerInit
<1>3. Types /\ LoopOwner => LoopRunsOnce
  BY DEF LoopOwner
<1>4. QED
  BY <1>1, <1>2, <1>3, PTL DEF Spec

-----------------------------------------------------------------------------
(* The type invariant.                                                     *)

MainTypes ==
    /\ main \in {"build", "test", "poll", "map", "list", "log", "returned"}
    /\ target \in Loops
    /\ accepted \in 0 .. MaxClients
    /\ built \in 0 .. NumLoops
    /\ io \in Seq(1 .. built)

StopTypes ==
    /\ noEpoll \subseteq {MainLoop} \cup Loops
    /\ ioStop \in BOOLEAN /\ workStop \in BOOLEAN
    /\ loopStop \subseteq {MainLoop} \cup Loops
    /\ stopPc \in {"idle", "work", "loops", "io", "done"}
    /\ promised \subseteq Messages

\* the client that the main thread has accepted and no loop has yet
BeingSetUp == IF main \in {"map", "list"} THEN 1 ELSE 0

\* A loop has no more connections than were accepted, and one that erases a
\* connection has one.
ClientTypes ==
    /\ clients \in [Loops -> Nat]
    /\ \A l \in Loops : clients[l] + BeingSetUp <= accepted
    /\ \A l \in Loops :
           loopPc[l] \in {"evict", "delete", "erase"} => clients[l] > 0

TypeInv == Types /\ MainTypes /\ StopTypes /\ ClientTypes

\* It is stronger than the type invariant of the model.
LEMMA TypeInvIsType == TypeInv => TypeOK
<1> SUFFICES ASSUME TypeInv  PROVE TypeOK
  OBVIOUS
<1>1. ASSUME NEW l \in Loops  PROVE clients[l] \in 0 .. MaxClients
  <2>1. clients[l] \in Nat /\ clients[l] + BeingSetUp <= accepted
    BY DEF TypeInv, ClientTypes
  <2>2. BeingSetUp \in Nat /\ accepted \in Nat /\ accepted <= MaxClients
    BY MaxClientsAssumption DEF TypeInv, MainTypes, BeingSetUp
  <2>. QED  BY <2>1, <2>2, MaxClientsAssumption
<1>2. clients \in [Loops -> 0 .. MaxClients]
  BY <1>1 DEF TypeInv, ClientTypes
<1>. QED  BY <1>2 DEF TypeInv, Types, MainTypes, StopTypes, TypeOK

\* There is no client at first, and no loop.
LEMMA TypeInvInit == Init => TypeInv
<1> SUFFICES ASSUME Init  PROVE TypeInv
  OBVIOUS
<1>1. <<>> \in Seq(1 .. 0)
  OBVIOUS
<1>2. MainTypes
  BY <1>1, NumLoopsAssumption, MaxClientsAssumption DEF Init, MainTypes, Loops
<1>3. StopTypes
  BY DEF Init, StopTypes
<1>4. ClientTypes
  <2>1. BeingSetUp = 0
    BY DEF Init, BeingSetUp
  <2>. QED  BY <2>1 DEF Init, ClientTypes
<1>. QED  BY <1>2, <1>3, <1>4, InvInit DEF TypeInv

\* The loops that are queued have been constructed.
LEMMA MainTypesStep == TypeInv /\ [Next]_vars => MainTypes'
<1> SUFFICES ASSUME TypeInv, [Next]_vars  PROVE MainTypes'
  OBVIOUS
<1> USE DEF mainVars, poolVars, loopVars, replyVars, stopVars, vars, MainTypes,
        MainGoto, StopGoto, Exit
<1>1. MainTypes
  BY DEF TypeInv
<1>2. CASE BuildLoop
  <2>1. /\ built \in Nat /\ built < NumLoops /\ built' = built + 1
        /\ io' = Append(io, built + 1) /\ UNCHANGED <<main, target, accepted>>
    BY <1>1, <1>2 DEF BuildLoop
  <2>2. built + 1 \in 0 .. NumLoops /\ built + 1 \in 1 .. built + 1
    BY <2>1, NumLoopsAssumption
  <2>3. io \in Seq(1 .. built + 1)
    <3>1. \A i \in 1 .. Len(io) : io[i] \in 1 .. built + 1
      BY <1>1, <2>1
    <3>. QED  BY <1>1, <3>1
  <2>4. io' \in Seq(1 .. built + 1)
    BY <2>1, <2>2, <2>3, EmplaceAdds
  <2>. QED  BY <1>1, <2>1, <2>2, <2>4
<1>3. CASE Start \/ MainTests \/ MainFails \/ GiveToLoop \/ Activate
           \/ Logged \/ MainRoundEnds
  BY <1>1, <1>3 DEF Start, MainTests, MainFails, GiveToLoop, Activate,
         Logged, MainRoundEnds
<1>4. ASSUME NEW l \in Loops, Accept(l)
      PROVE  MainTypes'
  BY <1>1, <1>4, MaxClientsAssumption DEF Accept
<1>5. ASSUME NEW t \in IoThreads, TakeLoop(t)
      PROVE  MainTypes'
  <2>1. io # <<>> /\ io' = Tail(io) /\ UNCHANGED mainVars
    BY <1>5 DEF TakeLoop
  <2>2. Tail(io) \in Seq(1 .. built)
    BY <1>1, <2>1, PopTakesHead
  <2>. QED  BY <1>1, <2>1, <2>2
<1>6. CASE UNCHANGED <<mainVars, io>>
  BY <1>1, <1>6
<1>7. \/ BuildLoop
      \/ Start \/ MainTests \/ MainFails \/ GiveToLoop \/ Activate
           \/ Logged \/ MainRoundEnds
      \/ \E l \in Loops : Accept(l)
      \/ \E t \in IoThreads : TakeLoop(t)
      \/ UNCHANGED <<mainVars, io>>
  BY DEF Next, MainStep, StopStep, Event, Finished, WorkerStep, IoStep,
         LoopStep, ClientStep, JoinWorkers, StopLoop, StopIo, JoinIo, Signal,
         ReadMessage, ReadOversized, CloseClient, Begin, TakeMessage, Reply,
         GiveReply, DropTask, ExitWorker, ExitIo, TestsStop, Returns, TimesOut,
         HandleWakeUp, HandleTimer, Sweep, Erase, Spin
<1>. QED  BY <1>2, <1>3, <1>4, <1>5, <1>6, <1>7

\* What is promised are messages, and only loops are stopped.
LEMMA StopTypesStep == TypeInv /\ [Next]_vars => StopTypes'
<1> SUFFICES ASSUME TypeInv, [Next]_vars  PROVE StopTypes'
  OBVIOUS
<1> USE DEF mainVars, poolVars, loopVars, replyVars, stopVars, vars, StopTypes,
        MainGoto, StopGoto, Exit
<1>1. StopTypes
  BY DEF TypeInv
<1>2. CASE Signal
  <2>1. InHand \subseteq Messages
    BY QueueHolds DEF InHand, TypeInv, Types
  <2>. QED  BY <1>1, <1>2, <2>1 DEF Signal
<1>3. ASSUME NEW l \in 0 .. NumLoops, StopLoop(l)
      PROVE  StopTypes'
  <2>1. l \in {MainLoop} \cup Loops
    BY NumLoopsAssumption DEF MainLoop, Loops
  <2>. QED  BY <1>1, <1>3, <2>1 DEF StopLoop
<1>4. CASE JoinWorkers \/ StopIo \/ JoinIo
  BY <1>1, <1>4 DEF JoinWorkers, StopIo, JoinIo
<1>5. CASE UNCHANGED <<stopVars, noEpoll>>
  BY <1>1, <1>5
<1>6. \/ Signal
      \/ \E l \in 0 .. NumLoops : StopLoop(l)
      \/ JoinWorkers \/ StopIo \/ JoinIo
      \/ UNCHANGED <<stopVars, noEpoll>>
  BY DEF Next, MainStep, StopStep, Event, Finished, WorkerStep, IoStep,
         LoopStep, ClientStep, BuildLoop, Start, MainTests, MainFails,
         GiveToLoop, Activate, Logged, MainRoundEnds, Accept, ReadMessage,
         ReadOversized, CloseClient, Begin, TakeLoop, TakeMessage, Reply,
         GiveReply, DropTask, ExitWorker, ExitIo, TestsStop, Returns, TimesOut,
         HandleWakeUp, HandleTimer, Sweep, Erase, Spin
<1>. QED  BY <1>2, <1>3, <1>4, <1>5, <1>6

\* A loop is given each accepted client once, and erases one that it has.
LEMMA ClientTypesStep == TypeInv /\ [Next]_vars => ClientTypes'
<1> SUFFICES ASSUME TypeInv, [Next]_vars  PROVE ClientTypes'
  OBVIOUS
<1> USE DEF mainVars, poolVars, loopVars, replyVars, stopVars, vars, ClientTypes,
        Goto, MainGoto, StopGoto, Exit
<1>1. /\ ClientTypes /\ accepted \in Nat /\ target \in Loops
      /\ loopPc \in [Loops -> {"new", "queued", "test", "poll", "evict",
                               "sweep", "delete", "erase", "spin", "ended"}]
  <2>1. Types /\ MainTypes
    BY DEF TypeInv
  <2>2. clients \in [Loops -> Nat] /\ ClientTypes
    BY DEF TypeInv
  <2>3. accepted \in Nat /\ target \in Loops
    BY <2>1, MaxClientsAssumption DEF MainTypes
  <2>. QED  BY <2>1, <2>2, <2>3 DEF Types
<1>2. CASE Activate
  <2>1. /\ main = "list" /\ main' = "log"
        /\ clients' = [clients EXCEPT ![target] = @ + 1]
        /\ UNCHANGED <<accepted, loopPc>>
    BY <1>2 DEF Activate
  <2>2. BeingSetUp = 1 /\ BeingSetUp' = 0
    BY <2>1 DEF BeingSetUp
  <2>. QED  BY <1>1, <2>1, <2>2
<1>3. ASSUME NEW l \in Loops, Accept(l)
      PROVE  ClientTypes'
  <2>1. /\ BeingSetUp = 0 /\ BeingSetUp' = 1 /\ accepted' = accepted + 1
        /\ UNCHANGED <<clients, loopPc>>
    BY <1>3 DEF Accept, BeingSetUp
  <2>. QED  BY <1>1, <2>1
<1>4. ASSUME NEW t \in IoThreads, NEW l \in Loops, Erase(t, l)
      PROVE  ClientTypes'
  <2>1. /\ loopPc[l] \in {"erase", "evict"} /\ UNCHANGED <<main, accepted>>
        /\ clients' = [clients EXCEPT ![l] = @ - 1]
        /\ \E pc \in {"test", "sweep"} : loopPc' = [loopPc EXCEPT ![l] = pc]
    BY <1>4 DEF Erase, In
  <2>2. UNCHANGED BeingSetUp /\ BeingSetUp \in Nat
    BY <2>1 DEF BeingSetUp
  <2>3. clients[l] \in Nat /\ clients[l] > 0
    BY <1>1, <2>1
  <2>. QED  BY <1>1, <2>1, <2>2, <2>3
<1>5. ASSUME NEW t \in IoThreads, TakeLoop(t)
      PROVE  ClientTypes'
  <2>1. /\ UNCHANGED <<main, accepted, clients>>
        /\ loopPc' = [loopPc EXCEPT ![Head(io)] = "test"]
    BY <1>5 DEF TakeLoop
  <2>2. UNCHANGED BeingSetUp
    BY <2>1 DEF BeingSetUp
  <2>. QED  BY <1>1, <2>1, <2>2
<1>6. CASE BuildLoop
  <2>1. /\ UNCHANGED <<main, accepted, clients>>
        /\ loopPc' = [loopPc EXCEPT ![built + 1] = "queued"]
    BY <1>6 DEF BuildLoop
  <2>2. UNCHANGED BeingSetUp
    BY <2>1 DEF BeingSetUp
  <2>. QED  BY <1>1, <2>1, <2>2
<1>7. ASSUME NEW t \in IoThreads, NEW l \in Loops, ~Erase(t, l), ~Spin(t, l),
             LoopStep(t, l) \/ ClientStep(t, l)
      PROVE  ClientTypes'
  <2>1. /\ UNCHANGED <<main, accepted, clients>>
        /\ \E pc \in {"test", "poll", "evict", "sweep", "delete", "erase",
                      "spin", "ended"} :
               /\ loopPc' = [loopPc EXCEPT ![l] = pc]
               /\ pc \in {"evict", "delete", "erase"} => clients[l] > 0
    BY <1>1, <1>7
       DEF LoopStep, ClientStep, ReadMessage, ReadOversized, CloseClient,
           TestsStop, Returns, TimesOut, HandleWakeUp, HandleTimer, Sweep, In
  <2>2. UNCHANGED BeingSetUp
    BY <2>1 DEF BeingSetUp
  <2>. QED  BY <1>1, <2>1, <2>2
<1>8. CASE Start \/ MainTests \/ MainFails \/ GiveToLoop \/ Logged
           \/ MainRoundEnds
  <2>1. /\ BeingSetUp' = BeingSetUp
        /\ UNCHANGED <<accepted, clients, loopPc>>
    BY <1>8 DEF Start, MainTests, MainFails, GiveToLoop, Logged, MainRoundEnds,
                BeingSetUp
  <2>. QED  BY <1>1, <2>1
<1>9. CASE UNCHANGED <<main, accepted, loopPc, clients>>
  BY <1>1, <1>9 DEF BeingSetUp
<1>10. \/ BuildLoop \/ Activate
       \/ Start \/ MainTests \/ MainFails \/ GiveToLoop \/ Logged
       \/ MainRoundEnds
       \/ \E l \in Loops : Accept(l)
       \/ \E t \in IoThreads : TakeLoop(t)
       \/ \E t \in IoThreads, l \in Loops : LoopStep(t, l) \/ ClientStep(t, l)
       \/ UNCHANGED <<main, accepted, loopPc, clients>>
  BY DEF Next, MainStep, StopStep, Event, Finished, WorkerStep, IoStep,
         JoinWorkers, StopLoop, StopIo, JoinIo, Signal, Begin, TakeMessage,
         Reply, GiveReply, DropTask, ExitWorker, ExitIo
<1>11. ASSUME NEW t \in IoThreads, NEW l \in Loops, Spin(t, l)
       PROVE  ClientTypes'
  BY <1>9, <1>11 DEF Spin
<1>. QED
  BY <1>2, <1>3, <1>4, <1>5, <1>6, <1>7, <1>8, <1>9, <1>10, <1>11

\* The I/O pool is only given loops that have been constructed, and no count
\* of connections becomes negative or exceeds the clients that were accepted
\* (TcpServer.cpp:15-31, 60-95, EventLoop.cpp:224-246).
THEOREM TypeCorrect == Spec => []TypeOK
<1>1. TypeInv /\ [Next]_vars => TypeInv'
  BY TypesStep, MainTypesStep, StopTypesStep, ClientTypesStep DEF TypeInv
<1>. QED  BY <1>1, TypeInvInit, TypeInvIsType, PTL DEF Spec
=============================================================================

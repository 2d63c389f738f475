--------------------------- MODULE RepliesProofs ---------------------------
(***************************************************************************)
(* Replies are not lost, not doubled, reach the loop of their connection,  *)
(* overtake each other only as far as there are workers to hold them back, *)
(* and never wait for a loop that sleeps.                                  *)
(***************************************************************************)
EXTENDS Replies, FiniteSetTheorems, TLAPS

LEMMA LoopOfInLoops == \A f \in Fds : LoopOf(f) \in Loops
  BY FdsAssumption, NumLoopsAssumption DEF LoopOf, Loops

\* A message that exists has a connection and a loop.
LEMMA HomeInLoops ==
  ASSUME TypeOK, NEW n \in Messages
  PROVE  received[n] \in Fds /\ Home(n) \in Loops
  BY LoopOfInLoops DEF TypeOK, Messages, Home

-----------------------------------------------------------------------------
(* Sequences.                                                              *)

\* emplace adds one element, at the end.
LEMMA AppendIs ==
  ASSUME NEW S, NEW s \in Seq(S), NEW e
  PROVE  /\ Len(s) \in Nat
         /\ DOMAIN s = 1 .. Len(s)
         /\ DOMAIN Append(s, e) = 1 .. Len(s) + 1
         /\ Len(Append(s, e)) = Len(s) + 1
         /\ \A i \in 1 .. Len(s) : Append(s, e)[i] = s[i]
         /\ Append(s, e)[Len(s) + 1] = e
  OBVIOUS

\* A queue is the function of its places.
LEMMA SeqIs ==
  ASSUME NEW S, NEW s \in Seq(S)
  PROVE  s = [i \in 1 .. Len(s) |-> s[i]]
  OBVIOUS

\* A queue of a set is a queue of a larger one.
LEMMA SeqGrows ==
  ASSUME NEW S, NEW T, S \subseteq T, NEW s \in Seq(S)
  PROVE  s \in Seq(T)
<1>1. Len(s) \in Nat /\ DOMAIN s = 1 .. Len(s)
  OBVIOUS
<1>2. \A i \in 1 .. Len(s) : s[i] \in T
  BY <1>1
<1>3. s = [i \in 1 .. Len(s) |-> s[i]]
  OBVIOUS
<1>. QED  BY <1>1, <1>2, <1>3

\* What is moved from one queue to the end of another stays in its place.
LEMMA ConcatIs ==
  ASSUME NEW S, NEW s \in Seq(S), NEW t \in Seq(S)
  PROVE  s \o t \in Seq(S) /\ (s \o t) \o <<>> = s \o t
<1>1. s \o t \in Seq(S)
  OBVIOUS
<1>. QED  BY <1>1

\* What is queued behind the second goes behind both.
LEMMA ConcatAppend ==
  ASSUME NEW S, NEW s \in Seq(S), NEW t \in Seq(S), NEW e \in S
  PROVE  s \o Append(t, e) = Append(s \o t, e)
<1> DEFINE a == s \o Append(t, e)
           b == Append(s \o t, e)
<1>1. /\ Len(s) \in Nat /\ Len(t) \in Nat
      /\ Append(t, e) \in Seq(S) /\ Len(Append(t, e)) = Len(t) + 1
      /\ s \o t \in Seq(S) /\ Len(s \o t) = Len(s) + Len(t)
  OBVIOUS
<1>2. a \in Seq(S) /\ b \in Seq(S)
  BY <1>1
<1>3. Len(a) = Len(s) + Len(t) + 1 /\ Len(b) = Len(s) + Len(t) + 1
  BY <1>1
<1>4. ASSUME NEW i \in 1 .. Len(s) + Len(t) + 1  PROVE a[i] = b[i]
  <2>1. CASE i <= Len(s)
    BY <1>1, <2>1
  <2>2. CASE i > Len(s) /\ i <= Len(s) + Len(t)
    BY <1>1, <2>2
  <2>3. CASE i = Len(s) + Len(t) + 1
    BY <1>1, <2>3
  <2>. QED  BY <1>1, <2>1, <2>2, <2>3
<1> HIDE DEF a, b
<1>5. /\ a = [i \in 1 .. Len(a) |-> a[i]]
      /\ b = [i \in 1 .. Len(b) |-> b[i]]
  BY <1>2, SeqIs
<1>6. a = b
  BY <1>3, <1>4, <1>5
<1>. QED  BY <1>6 DEF a, b

-----------------------------------------------------------------------------
(* Types.                                                                  *)

\* The server starts in a state of the right type.
LEMMA TypeInit == Init => TypeOK
  BY DEF Init, TypeOK, Idle, Messages

\* A new message widens what the others may be.
LEMMA TypeWidens ==
  ASSUME TypeOK, NEW f \in Fds, received' = Append(received, f)
  PROVE  /\ Messages' = Messages \cup {Len(received) + 1}
         /\ Len(received) \in Nat
         /\ \A n \in Messages : received'[n] = received[n]
<1>1. received \in Seq(Fds)
  BY DEF TypeOK
<1>. QED  BY <1>1, AppendIs DEF Messages

\* Every step keeps the types.
LEMMA TypeStep == TypeOK /\ [Next]_vars => TypeOK'
<1> SUFFICES ASSUME TypeOK, [Next]_vars  PROVE TypeOK'
  OBVIOUS
<1>1. ASSUME NEW f \in Fds, HandleOnMessage(f)  PROVE TypeOK'
  <2>1. /\ Messages' = Messages \cup {Len(received) + 1}
        /\ received' \in Seq(Fds)
    BY <1>1, TypeWidens DEF HandleOnMessage, TypeOK
  <2>2. poolq' \in Seq(Messages')
    <3>1. poolq \in Seq(Messages')
      BY <2>1, SeqGrows DEF TypeOK
    <3>. QED  BY <1>1, <2>1, <3>1 DEF HandleOnMessage
  <2>3. ASSUME NEW l \in Loops
        PROVE  taskq[l] \in Seq(Messages') /\ out[l] \in Seq(Messages')
    BY <2>1, SeqGrows DEF TypeOK
  <2>4. /\ taskq \in [Loops -> Seq(Messages')]
        /\ out \in [Loops -> Seq(Messages')]
    BY <2>3 DEF TypeOK
  <2>5. worker \in [Workers -> {Idle} \cup
                      [pc : {"send", "push", "wakeup"}, msg : Messages']]
    BY <2>1 DEF TypeOK
  <2>. QED  BY <1>1, <2>1, <2>2, <2>4, <2>5 DEF HandleOnMessage, TypeOK
<1>2. ASSUME NEW f \in Fds, CloseConnection(f)  PROVE TypeOK'
  BY <1>2 DEF CloseConnection, TypeOK, Messages
<1>3. ASSUME NEW l \in Loops, HandleWakeUp(l)  PROVE TypeOK'
  BY <1>3 DEF HandleWakeUp, TypeOK, Messages
<1>4. ASSUME NEW l \in Loops, RunTasks(l)  PROVE TypeOK'
  <2>1. out[l] \o taskq[l] \in Seq(Messages)
    BY ConcatIs DEF TypeOK
  <2>2. <<>> \in Seq(Messages)
    OBVIOUS
  <2>. QED  BY <1>4, <2>1, <2>2 DEF RunTasks, TypeOK, Messages
<1>5. ASSUME NEW w \in Workers, Take(w)  PROVE TypeOK'
  <2>1. Head(poolq) \in Messages /\ Tail(poolq) \in Seq(Messages)
    BY <1>5 DEF Take, TypeOK
  <2>. QED  BY <1>5, <2>1 DEF Take, TypeOK, Messages
<1>6. ASSUME NEW w \in Workers, Send(w)  PROVE TypeOK'
  BY <1>6 DEF Send, TypeOK, Messages, Idle
<1>7. ASSUME NEW w \in Workers, Push(w)  PROVE TypeOK'
  <2>1. worker[w].msg \in Messages
    BY <1>7 DEF Push, TypeOK, Idle
  <2>2. Append(taskq[Home(worker[w].msg)], worker[w].msg) \in Seq(Messages)
    BY <2>1, HomeInLoops DEF TypeOK
  <2>3. taskq' \in [Loops -> Seq(Messages)]
    BY <1>7, <2>2 DEF Push, TypeOK
  <2>4. worker' \in [Workers -> {Idle} \cup
                       [pc : {"send", "push", "wakeup"}, msg : Messages]]
    <3>1. worker[w] \in [pc : {"send", "push", "wakeup"}, msg : Messages]
      BY <1>7 DEF Push, TypeOK, Idle
    <3>2. [worker[w] EXCEPT !.pc = "wakeup"] \in
             [pc : {"send", "push", "wakeup"}, msg : Messages]
      BY <3>1
    <3>. QED  BY <1>7, <3>2 DEF Push, TypeOK
  <2>. QED  BY <1>7, <2>3, <2>4 DEF Push, TypeOK, Messages
<1>8. ASSUME NEW w \in Workers, Wakeup(w)  PROVE TypeOK'
  BY <1>8 DEF Wakeup, TypeOK, Messages, Idle
<1>9. CASE UNCHANGED vars
  BY <1>9 DEF vars, TypeOK, Messages
<1>. QED
  BY <1>1, <1>2, <1>3, <1>4, <1>5, <1>6, <1>7, <1>8, <1>9
  DEF Next, LoopStep, WorkerStep

\* Every reachable state is well typed.
THEOREM TypeCorrect == Spec => []TypeOK
  BY TypeInit, TypeStep, PTL DEF Spec

-----------------------------------------------------------------------------
(* The wake-up.                                                            *)

\* What NoLostWakeup asks for loop l.
Awake(l) ==
    \/ efd[l]
    \/ loopPc[l] = "drain"
    \/ silent[l]
    \/ \E w \in Workers : worker[w].pc = "wakeup" /\ Home(worker[w].msg) = l

\* No step puts a loop to sleep on a reply.
LEMMA WakeupStep == TypeOK /\ NoLostWakeup /\ [Next]_vars => NoLostWakeup'
<1> SUFFICES ASSUME TypeOK, NoLostWakeup, [Next]_vars,
                    NEW l \in Loops, taskq'[l] # <<>>
             PROVE  Awake(l)'
  BY DEF NoLostWakeup, Awake
<1>0. taskq[l] # <<>> => Awake(l)
  BY DEF NoLostWakeup, Awake
<1>1. ASSUME NEW f \in Fds, HandleOnMessage(f)  PROVE Awake(l)'
  <2>1. \A n \in Messages : Home(n)' = Home(n)
    BY <1>1, TypeWidens DEF HandleOnMessage, Home
  <2>2. \A w \in Workers : worker[w].pc = "wakeup" => worker[w].msg \in Messages
    BY DEF TypeOK, Idle
  <2>. QED  BY <1>0, <1>1, <2>1, <2>2 DEF HandleOnMessage, Awake
<1>2. ASSUME NEW f \in Fds, CloseConnection(f)  PROVE Awake(l)'
  BY <1>0, <1>2 DEF CloseConnection, Awake, Home
<1>3. ASSUME NEW k \in Loops, HandleWakeUp(k)  PROVE Awake(l)'
  BY <1>0, <1>3 DEF HandleWakeUp, Awake, Home, TypeOK
<1>4. ASSUME NEW k \in Loops, RunTasks(k)  PROVE Awake(l)'
  BY <1>0, <1>4 DEF RunTasks, Awake, Home, TypeOK
<1>5. ASSUME NEW w \in Workers, Take(w)  PROVE Awake(l)'
  BY <1>0, <1>5 DEF Take, Awake, Home, TypeOK
<1>6. ASSUME NEW w \in Workers, Send(w)  PROVE Awake(l)'
  BY <1>0, <1>6 DEF Send, Awake, Home, TypeOK
<1>7. ASSUME NEW w \in Workers, Push(w)  PROVE Awake(l)'
  <2>1. worker' = [worker EXCEPT ![w].pc = "wakeup"]
    BY <1>7 DEF Push
  <2>2. worker'[w].pc = "wakeup" /\ worker'[w].msg = worker[w].msg
    BY <2>1, <1>7 DEF TypeOK, Push, Idle
  <2>3. CASE Home(worker[w].msg) = l
    BY <1>7, <2>2, <2>3 DEF Push, Awake, Home
  <2>4. CASE Home(worker[w].msg) # l
    <3>1. taskq'[l] = taskq[l]
      BY <1>7, <2>4 DEF Push, TypeOK
    <3>2. Awake(l)
      BY <1>0, <3>1
    <3>. QED  BY <1>7, <2>1, <3>2 DEF Push, Awake, Home, TypeOK
  <2>. QED  BY <2>3, <2>4
<1>8. ASSUME NEW w \in Workers, Wakeup(w)  PROVE Awake(l)'
  <2>1. CASE Home(worker[w].msg) = l
    <3>1. Home(worker[w].msg) \in Loops
      BY <2>1
    <3>. QED  BY <1>8, <2>1, <3>1 DEF Wakeup, Awake, TypeOK
  <2>2. CASE Home(worker[w].msg) # l
    <3>1. /\ taskq' = taskq /\ loopPc' = loopPc /\ received' = received
          /\ worker' = [worker EXCEPT ![w] = Idle]
          /\ efd'[l] = efd[l] /\ silent'[l] = silent[l]
      BY <1>8, <2>2 DEF Wakeup, TypeOK
    <3>. QED  BY <1>0, <2>2, <3>1 DEF Awake, Home, TypeOK
  <2>. QED  BY <2>1, <2>2
<1>9. CASE UNCHANGED vars
  BY <1>0, <1>9 DEF vars, Awake, Home
<1>. QED
  BY <1>1, <1>2, <1>3, <1>4, <1>5, <1>6, <1>7, <1>8, <1>9
  DEF Next, LoopStep, WorkerStep

\* A loop never sleeps while it has a reply to write, however many workers
\* wake it and whenever it empties its queue.
THEOREM NoLoopSleeps == Spec => []NoLostWakeup
<1>1. Init => NoLostWakeup
  BY DEF Init, NoLostWakeup
<1>. QED  BY <1>1, TypeInit, TypeStep, WakeupStep, PTL DEF Spec

-----------------------------------------------------------------------------
(* The way of a message.                                                   *)

Holds(w) == worker[w].pc \in {"send", "push"}
Taken == Len(received) - Len(poolq)

\* the pool has the last messages, in order
PoolOrder ==
    /\ Len(poolq) <= Len(received)
    /\ \A i \in 1 .. Len(poolq) : poolq[i] = Taken + i

\* the workers have earlier ones, no two of them the same
HeldOnce ==
    /\ \A w \in Workers : worker[w].pc # "idle" => worker[w].msg \in 1 .. Taken
    /\ \A v, w \in Workers : /\ Holds(v) /\ Holds(w)
                             /\ worker[v].msg = worker[w].msg
                             => v = w

\* and the loops others still, each once
StreamSound ==
    \A l \in Loops : \A i \in DOMAIN Stream(l) :
        /\ Stream(l)[i] \in 1 .. Taken
        /\ Home(Stream(l)[i]) = l
        /\ \A w \in Workers : Holds(w) => worker[w].msg # Stream(l)[i]
        /\ \A j \in DOMAIN Stream(l) : Stream(l)[i] = Stream(l)[j] => i = j

InStream(n) == \E i \in DOMAIN Stream(Home(n)) : Stream(Home(n))[i] = n

NoneLost ==
    \A n \in 1 .. Taken : \/ disc[received[n]]
                          \/ \E w \in Workers : Holds(w) /\ worker[w].msg = n
                          \/ InStream(n)

\* a worker that is about to queue its reply overtakes few
PushBound ==
    \A w \in Workers : worker[w].pc = "push" =>
        \A n \in Messages, l \in Loops : n = worker[w].msg /\ l = Home(n) =>
            Cardinality(Skipped(received, n, Stream(l), Len(Stream(l))))
                < Cardinality(Workers)

WayInv == PoolOrder /\ HeldOnce /\ StreamSound /\ NoneLost

\* A worker's reply goes behind what the loop of its connection has.
LEMMA PushAppends ==
  ASSUME TypeOK, NEW w \in Workers, Push(w), NEW l \in Loops
  PROVE  Stream(l)' = IF Home(worker[w].msg) = l
                      THEN Append(Stream(l), worker[w].msg)
                      ELSE Stream(l)
<1>1. worker[w].msg \in Messages /\ out' = out
  BY DEF Push, TypeOK, Idle
<1>2. CASE Home(worker[w].msg) = l
  <2> DEFINE s == out[l]
             t == taskq[l]
             e == worker[w].msg
  <2>1. taskq'[l] = Append(t, e)
    BY <1>2 DEF Push, TypeOK
  <2>2. s \in Seq(Messages) /\ t \in Seq(Messages) /\ e \in Messages
    BY <1>1 DEF TypeOK
  <2> HIDE DEF s, t, e
  <2>3. s \o Append(t, e) = Append(s \o t, e)
    BY <2>2, ConcatAppend
  <2>. QED  BY <1>1, <1>2, <2>1, <2>3 DEF Stream, s, t, e
<1>3. CASE Home(worker[w].msg) # l
  <2>1. taskq'[l] = taskq[l]
    BY <1>3 DEF Push, TypeOK
  <2>. QED  BY <1>1, <1>3, <2>1 DEF Stream
<1>. QED  BY <1>2, <1>3

\* What a loop has to write changes when a worker queues a reply, only then.
LEMMA StreamFrame ==
  ASSUME TypeOK, [Next]_vars, NEW l \in Loops
  PROVE  /\ Stream(l) \in Seq(Messages)
         /\ \/ Stream(l)' = Stream(l)
            \/ \E w \in Workers :
                  /\ Push(w)
                  /\ Home(worker[w].msg) = l
                  /\ Stream(l)' = Append(Stream(l), worker[w].msg)
<1> DEFINE Goal == \/ Stream(l)' = Stream(l)
                   \/ \E w \in Workers :
                        /\ Push(w)
                        /\ Home(worker[w].msg) = l
                        /\ Stream(l)' = Append(Stream(l), worker[w].msg)
<1>0. out[l] \in Seq(Messages) /\ taskq[l] \in Seq(Messages)
  BY DEF TypeOK
<1>1. Stream(l) \in Seq(Messages)
  BY <1>0, ConcatIs DEF Stream
<1>2. ASSUME UNCHANGED <<taskq, out>>  PROVE Goal
  BY <1>2 DEF Stream
<1>3. ASSUME NEW k \in Loops, RunTasks(k)  PROVE Goal
  <2>1. CASE k = l
    <3>1. out'[l] = out[l] \o taskq[l] /\ taskq'[l] = <<>>
      BY <1>3, <2>1 DEF RunTasks, TypeOK
    <3>. QED  BY <1>0, <3>1, ConcatIs DEF Stream
  <2>2. CASE k # l
    <3>1. out'[l] = out[l] /\ taskq'[l] = taskq[l]
      BY <1>3, <2>2 DEF RunTasks, TypeOK
    <3>. QED  BY <3>1 DEF Stream
  <2>. QED  BY <2>1, <2>2
<1>4. ASSUME NEW w \in Workers, Push(w)  PROVE Goal
  BY <1>4, PushAppends
<1>5. UNCHANGED <<taskq, out>> \/ (\E k \in Loops : RunTasks(k))
                               \/ (\E w \in Workers : Push(w))
  BY DEF Next, LoopStep, WorkerStep, HandleOnMessage, CloseConnection,
         HandleWakeUp, Take, Send, Wakeup, vars
<1>. QED  BY <1>1, <1>2, <1>3, <1>4, <1>5

\* Messages keep their connection, and closed connections stay closed.
LEMMA RecordFrame ==
  ASSUME TypeOK, [Next]_vars
  PROVE  /\ Messages = 1 .. Len(received) /\ Len(received) \in Nat
         /\ Len(poolq) \in Nat /\ DOMAIN poolq = 1 .. Len(poolq)
         /\ \A n \in Messages : /\ received'[n] = received[n]
                                /\ Home(n)' = Home(n)
                                /\ Home(n) \in Loops
                                /\ disc[received[n]] => disc'[received[n]]
<1>1. /\ Messages = 1 .. Len(received) /\ Len(received) \in Nat
      /\ Len(poolq) \in Nat /\ DOMAIN poolq = 1 .. Len(poolq)
  BY DEF TypeOK, Messages
<1>2. \A n \in Messages : received'[n] = received[n]
  <2>1. received' = received \/ \E f \in Fds : HandleOnMessage(f)
    BY DEF Next, LoopStep, WorkerStep, HandleOnMessage, CloseConnection,
           HandleWakeUp, RunTasks, Take, Send, Push, Wakeup, vars
  <2>. QED  BY <2>1, TypeWidens DEF HandleOnMessage
<1>3. \A f \in Fds : disc[f] => disc'[f]
  <2>1. disc' = disc \/ \E f \in Fds : CloseConnection(f)
    BY DEF Next, LoopStep, WorkerStep, HandleOnMessage, CloseConnection,
           HandleWakeUp, RunTasks, Take, Send, Push, Wakeup, vars
  <2>. QED  BY <2>1 DEF CloseConnection, TypeOK
<1>. QED  BY <1>1, <1>2, <1>3, HomeInLoops DEF Home

\* What a step changes of the pool and of what workers hold.
LEMMA WorkerFrame ==
  ASSUME TypeOK, [Next]_vars
  PROVE  \/ \E f \in Fds : HandleOnMessage(f)
         \/ \E w \in Workers : Take(w) \/ Send(w) \/ Push(w) \/ Wakeup(w)
         \/ UNCHANGED <<received, poolq, worker>>
  BY DEF Next, LoopStep, WorkerStep, CloseConnection, HandleWakeUp, RunTasks,
         vars

\* The pool stays in order, and no two workers hold one message.
LEMMA PoolStep ==
  ASSUME TypeOK, PoolOrder, HeldOnce, [Next]_vars
  PROVE  /\ PoolOrder' /\ HeldOnce'
         /\ Taken \in Nat /\ Taken <= Len(received)
         /\ Taken <= Taken' /\ 1 .. Taken \subseteq Messages
<1>0. /\ Messages = 1 .. Len(received) /\ Len(received) \in Nat
      /\ Len(poolq) \in Nat /\ DOMAIN poolq = 1 .. Len(poolq)
  BY RecordFrame
<1>1. /\ Taken \in Nat /\ Taken <= Len(received)
      /\ 1 .. Taken \subseteq Messages
  BY <1>0 DEF PoolOrder, Taken
<1> DEFINE Goal == PoolOrder' /\ HeldOnce' /\ Taken <= Taken'
<1>2. ASSUME NEW f \in Fds, HandleOnMessage(f)  PROVE Goal
  <2>1. /\ received' = Append(received, f)
        /\ poolq' = Append(poolq, Len(received) + 1)
        /\ worker' = worker
    BY <1>2 DEF HandleOnMessage
  <2>2. Len(received') = Len(received) + 1
    BY <2>1, AppendIs DEF TypeOK
  <2>3. /\ Len(poolq') = Len(poolq) + 1
        /\ \A i \in 1 .. Len(poolq) : poolq'[i] = poolq[i]
        /\ poolq'[Len(poolq) + 1] = Len(received) + 1
    BY <2>1, AppendIs DEF TypeOK
  <2>4. Taken' = Taken
    BY <1>0, <2>2, <2>3 DEF Taken
  <2>5. PoolOrder'
    BY <1>0, <2>2, <2>3, <2>4 DEF PoolOrder, Taken
  <2>. QED  BY <1>1, <2>1, <2>4, <2>5 DEF HeldOnce, Holds
<1>3. ASSUME NEW w \in Workers, Take(w)  PROVE Goal
  <2>1. /\ poolq # <<>> /\ poolq' = Tail(poolq) /\ received' = received
        /\ worker[w].pc = "idle"
        /\ worker' = [worker EXCEPT ![w] = [pc |-> "send",
                                            msg |-> Head(poolq)]]
    BY <1>3 DEF Take
  <2>2. /\ Len(poolq) > 0 /\ Len(poolq') = Len(poolq) - 1
        /\ Head(poolq) = poolq[1]
        /\ \A i \in 1 .. Len(poolq) - 1 : poolq'[i] = poolq[i + 1]
    BY <1>0, <2>1 DEF TypeOK
  <2>3. Taken' = Taken + 1 /\ Head(poolq) = Taken + 1
    BY <1>0, <2>1, <2>2 DEF PoolOrder, Taken
  <2>4. PoolOrder'
    BY <1>0, <1>1, <2>1, <2>2, <2>3 DEF PoolOrder, Taken
  <2>5. /\ worker'[w] = [pc |-> "send", msg |-> Taken + 1]
        /\ \A v \in Workers \ {w} : worker'[v] = worker[v]
    BY <2>1, <2>3 DEF TypeOK
  <2>6. HeldOnce'
    BY <1>1, <2>3, <2>5 DEF HeldOnce, Holds
  <2>. QED  BY <1>1, <2>3, <2>4, <2>6
<1>4. ASSUME NEW w \in Workers, Send(w) \/ Push(w) \/ Wakeup(w)  PROVE Goal
  <2>1. UNCHANGED <<received, poolq>>
    BY <1>4 DEF Send, Push, Wakeup
  <2>2. /\ worker'[w].pc # "idle" => worker'[w].msg = worker[w].msg
        /\ worker[w].pc # "idle"
        /\ worker'[w].pc \in {"send", "push"} => Holds(w)
        /\ \A v \in Workers \ {w} : worker'[v] = worker[v]
    BY <1>4 DEF Send, Push, Wakeup, TypeOK, Idle, Holds
  <2>3. Taken' = Taken
    BY <2>1 DEF Taken
  <2>4. HeldOnce'
    BY <2>2, <2>3 DEF HeldOnce, Holds
  <2>. QED  BY <1>1, <2>1, <2>3, <2>4 DEF PoolOrder
<1>5. CASE UNCHANGED <<received, poolq, worker>>
  BY <1>1, <1>5 DEF PoolOrder, HeldOnce, Holds, Taken
<1>. QED  BY <1>1, <1>2, <1>3, <1>4, <1>5, WorkerFrame

\* A worker that holds a message held it before, or has just taken it; one
\* that no longer does queued its reply or found the connection closed.
LEMMA HoldsFrame ==
  ASSUME TypeOK, PoolOrder, HeldOnce, [Next]_vars, NEW w \in Workers
  PROVE  /\ Holds(w)' => \/ Holds(w) /\ worker'[w].msg = worker[w].msg
                         \/ Take(w) /\ worker'[w].msg = Taken + 1
         /\ Holds(w) => \/ Holds(w)' /\ worker'[w].msg = worker[w].msg
                        \/ Push(w)
                        \/ Send(w) /\ disc[received[worker[w].msg]]
         /\ Taken' # Taken => \E v \in Workers :
               Holds(v)' /\ worker'[v].msg = Taken' /\ Taken' = Taken + 1
<1>0. /\ Len(received) \in Nat /\ Len(poolq) \in Nat /\ Taken \in Nat
      /\ DOMAIN poolq = 1 .. Len(poolq)
  BY RecordFrame, PoolStep
<1>1. ASSUME NEW f \in Fds, HandleOnMessage(f)
      PROVE  worker' = worker /\ Taken' = Taken
  <2>1. /\ Len(received') = Len(received) + 1
        /\ Len(poolq') = Len(poolq) + 1
    BY <1>1, AppendIs DEF HandleOnMessage, TypeOK
  <2>. QED  BY <1>0, <1>1, <2>1 DEF HandleOnMessage, Taken
<1>2. ASSUME NEW v \in Workers, Take(v)
      PROVE  /\ worker' = [worker EXCEPT ![v] = [pc |-> "send",
                                                 msg |-> Taken + 1]]
             /\ Taken' = Taken + 1 /\ worker[v].pc = "idle"
  <2>1. /\ Len(poolq) > 0 /\ Head(poolq) = poolq[1]
        /\ Len(Tail(poolq)) = Len(poolq) - 1
    BY <1>0, <1>2 DEF Take, TypeOK
  <2>2. Head(poolq) = Taken + 1
    BY <1>0, <2>1 DEF PoolOrder
  <2>3. Taken' = Taken + 1
    <3>1. received' = received /\ Len(poolq') = Len(poolq) - 1
      BY <1>2, <2>1 DEF Take
    <3>. QED  BY <1>0, <3>1 DEF Taken
  <2>. QED  BY <1>2, <2>2, <2>3 DEF Take
<1>3. ASSUME NEW v \in Workers, Send(v) \/ Push(v) \/ Wakeup(v)
      PROVE  /\ Taken' = Taken
             /\ \A u \in Workers \ {v} : worker'[u] = worker[u]
             /\ Holds(v)' => Holds(v) /\ worker'[v].msg = worker[v].msg
             /\ Holds(v) => \/ Holds(v)' /\ worker'[v].msg = worker[v].msg
                            \/ Push(v)
                            \/ Send(v) /\ disc[received[worker[v].msg]]
  <2>1. Taken' = Taken
    BY <1>3 DEF Send, Push, Wakeup, Taken
  <2>2. CASE Send(v)
    BY <2>1, <2>2 DEF Send, TypeOK, Idle, Holds
  <2>3. CASE Push(v)
    BY <2>1, <2>3 DEF Push, TypeOK, Idle, Holds
  <2>4. CASE Wakeup(v)
    BY <2>1, <2>4 DEF Wakeup, TypeOK, Idle, Holds
  <2>. QED  BY <1>3, <2>2, <2>3, <2>4
<1>4. CASE UNCHANGED <<received, poolq, worker>>
  BY <1>4 DEF Holds, Taken
<1>5. CASE \E f \in Fds : HandleOnMessage(f)
  BY <1>1, <1>5 DEF Holds
<1>6. CASE \E v \in Workers : Take(v)
  <2>1. PICK v \in Workers : Take(v)
    BY <1>6
  <2>2. worker'[v] = [pc |-> "send", msg |-> Taken + 1]
    BY <1>2, <2>1 DEF TypeOK
  <2>3. \A u \in Workers \ {v} : worker'[u] = worker[u]
    BY <1>2, <2>1 DEF TypeOK
  <2>4. Holds(v)' /\ worker'[v].msg = Taken' /\ Taken' = Taken + 1 /\ ~Holds(v)
    BY <1>2, <2>1, <2>2 DEF Holds
  <2>. QED  BY <2>1, <2>2, <2>3, <2>4 DEF Holds
<1>7. CASE \E v \in Workers : Send(v) \/ Push(v) \/ Wakeup(v)
  BY <1>3, <1>7 DEF Holds
<1>. QED  BY <1>4, <1>5, <1>6, <1>7, WorkerFrame

\* Replies stay with their loop, each once.
LEMMA StreamStep ==
  ASSUME TypeOK, PoolOrder, HeldOnce, StreamSound, [Next]_vars
  PROVE  StreamSound'
<1> SUFFICES ASSUME NEW l \in Loops
             PROVE  \A i \in DOMAIN Stream(l)' :
                /\ Stream(l)'[i] \in 1 .. Taken'
                /\ LoopOf(received'[Stream(l)'[i]]) = l
                /\ \A w \in Workers : Holds(w)' => worker'[w].msg # Stream(l)'[i]
                /\ \A j \in DOMAIN Stream(l)' :
                      Stream(l)'[i] = Stream(l)'[j] => i = j
  BY DEF StreamSound, Home
<1>1. /\ Taken \in Nat /\ Taken <= Taken' /\ 1 .. Taken \subseteq Messages
      /\ Taken' \in Nat
  BY PoolStep, RecordFrame DEF PoolOrder, Taken
<1>2. \A i \in DOMAIN Stream(l) :
         /\ Stream(l)[i] \in 1 .. Taken'
         /\ LoopOf(received'[Stream(l)[i]]) = l
         /\ \A w \in Workers : Holds(w)' => worker'[w].msg # Stream(l)[i]
         /\ \A j \in DOMAIN Stream(l) : Stream(l)[i] = Stream(l)[j] => i = j
  <2> SUFFICES ASSUME NEW i \in DOMAIN Stream(l)
               PROVE  /\ Stream(l)[i] \in 1 .. Taken'
                      /\ LoopOf(received'[Stream(l)[i]]) = l
                      /\ \A w \in Workers : Holds(w)' =>
                            worker'[w].msg # Stream(l)[i]
    BY DEF StreamSound
  <2>1. /\ Stream(l)[i] \in 1 .. Taken /\ Home(Stream(l)[i]) = l
        /\ \A w \in Workers : Holds(w) => worker[w].msg # Stream(l)[i]
    BY DEF StreamSound
  <2>2. LoopOf(received'[Stream(l)[i]]) = l
    BY <1>1, <2>1, RecordFrame DEF Home
  <2>3. ASSUME NEW w \in Workers, Holds(w)'
        PROVE  worker'[w].msg # Stream(l)[i]
    BY <1>1, <2>1, <2>3, HoldsFrame
  <2>. QED  BY <1>1, <2>1, <2>2, <2>3
<1>3. CASE Stream(l)' = Stream(l)
  BY <1>2, <1>3
<1>4. ASSUME NEW w \in Workers, Push(w), Home(worker[w].msg) = l,
             Stream(l)' = Append(Stream(l), worker[w].msg)
      PROVE  \A i \in DOMAIN Stream(l)' :
                /\ Stream(l)'[i] \in 1 .. Taken'
                /\ LoopOf(received'[Stream(l)'[i]]) = l
                /\ \A v \in Workers : Holds(v)' => worker'[v].msg # Stream(l)'[i]
                /\ \A j \in DOMAIN Stream(l)' :
                      Stream(l)'[i] = Stream(l)'[j] => i = j
  <2> DEFINE n == worker[w].msg
             k == Len(Stream(l))
  <2>1. /\ DOMAIN Stream(l) = 1 .. k /\ k \in Nat
        /\ DOMAIN Stream(l)' = 1 .. k + 1
        /\ \A i \in 1 .. k : Stream(l)'[i] = Stream(l)[i]
        /\ Stream(l)'[k + 1] = n
    BY <1>4, StreamFrame, AppendIs
  <2>2. Holds(w) /\ n \in 1 .. Taken
    BY <1>4 DEF Push, Holds, HeldOnce
  <2>3. LoopOf(received'[n]) = l
    BY <1>1, <1>4, <2>2, RecordFrame DEF Home
  <2>4. \A i \in 1 .. k : Stream(l)[i] # n
    BY <2>1, <2>2 DEF StreamSound
  <2>5. ASSUME NEW v \in Workers, Holds(v)'  PROVE worker'[v].msg # n
    <3>1. worker'[w].pc = "wakeup" /\ ~Holds(w)'
      BY <1>4 DEF Push, TypeOK, Holds, Idle
    <3>2. Holds(v) /\ worker'[v].msg = worker[v].msg /\ v # w
      BY <1>4, <2>5, <3>1 DEF Push, TypeOK, Holds
    <3>. QED  BY <2>2, <3>2 DEF HeldOnce
  <2> HIDE DEF n, k
  <2>6. \A i \in 1 .. k + 1 : i = k + 1 \/ i \in 1 .. k
    BY <2>1
  <2>. QED  BY <1>1, <1>2, <2>1, <2>2, <2>3, <2>4, <2>5, <2>6
<1>. QED  BY <1>3, <1>4, StreamFrame

\* What is in a stream stays in it.
LEMMA StreamKeeps ==
  ASSUME TypeOK, [Next]_vars, NEW n \in Messages
  PROVE  InStream(n) => InStream(n)'
<1> SUFFICES ASSUME NEW l \in Loops, Home(n) = l, Home(n)' = l
             PROVE  InStream(n) => InStream(n)'
  BY RecordFrame
<1>2. /\ DOMAIN Stream(l) \subseteq DOMAIN Stream(l)'
      /\ \A i \in DOMAIN Stream(l) : Stream(l)'[i] = Stream(l)[i]
  <2>1. CASE Stream(l)' = Stream(l)
    BY <2>1
  <2>2. ASSUME NEW w \in Workers,
               Stream(l)' = Append(Stream(l), worker[w].msg)
        PROVE  /\ DOMAIN Stream(l) \subseteq DOMAIN Stream(l)'
               /\ \A i \in DOMAIN Stream(l) : Stream(l)'[i] = Stream(l)[i]
    <3>1. Stream(l) \in Seq(Messages)
      BY StreamFrame
    <3>. QED  BY <2>2, <3>1, AppendIs
  <2>. QED  BY <2>1, <2>2, StreamFrame
<1>. QED  BY <1>2 DEF InStream

\* A message is lost only to a closed connection.
LEMMA NoneLostStep ==
  ASSUME TypeOK, WayInv, [Next]_vars
  PROVE  NoneLost'
<1> SUFFICES ASSUME NEW n \in 1 .. Taken'
             PROVE  \/ disc'[received'[n]]
                    \/ \E w \in Workers : Holds(w)' /\ worker'[w].msg = n
                    \/ InStream(n)'
  BY DEF NoneLost
<1>0. /\ Taken \in Nat /\ Taken <= Taken' /\ 1 .. Taken \subseteq Messages
  BY PoolStep DEF WayInv
<1>1. CASE n \notin 1 .. Taken
  <2>1. Taken' # Taken
    BY <1>0, <1>1
  <2>2. PICK v \in Workers :
           Holds(v)' /\ worker'[v].msg = Taken' /\ Taken' = Taken + 1
    BY <2>1, HoldsFrame, WorkersAssumption DEF WayInv
  <2>3. n = Taken'
    BY <1>0, <1>1, <2>2
  <2>. QED  BY <2>2, <2>3
<1>2. CASE n \in 1 .. Taken /\ disc[received[n]]
  BY <1>0, <1>2, RecordFrame
<1>3. CASE n \in 1 .. Taken /\ InStream(n)
  BY <1>0, <1>3, StreamKeeps
<1>4. ASSUME n \in 1 .. Taken,
             NEW w \in Workers, Holds(w), worker[w].msg = n
      PROVE  \/ disc'[received'[n]]
             \/ Holds(w)' /\ worker'[w].msg = n
             \/ InStream(n)'
  <2>1. CASE Push(w)
    <3> SUFFICES ASSUME NEW l \in Loops, Home(n) = l, Home(n)' = l
                 PROVE  InStream(n)'
      BY <1>0, <1>4, RecordFrame
    <3>2. Stream(l)' = Append(Stream(l), n)
      BY <1>4, <2>1, PushAppends
    <3>3. \E i \in DOMAIN Stream(l)' : Stream(l)'[i] = n
      <4>1. /\ Len(Stream(l)) \in Nat
            /\ DOMAIN Stream(l)' = 1 .. Len(Stream(l)) + 1
            /\ Stream(l)'[Len(Stream(l)) + 1] = n
        BY <3>2, StreamFrame, AppendIs
      <4>. QED  BY <4>1
    <3>. QED  BY <3>3 DEF InStream
  <2>2. CASE Send(w) /\ disc[received[n]]
    BY <1>0, <1>4, <2>2, RecordFrame
  <2>. QED  BY <1>4, <2>1, <2>2, HoldsFrame DEF WayInv
<1>. QED
  BY <1>1, <1>2, <1>3, <1>4 DEF WayInv, NoneLost

\* The way holds when the server starts.
LEMMA WayInit == Init => WayInv
<1> SUFFICES ASSUME Init  PROVE WayInv
  OBVIOUS
<1>1. \A l \in Loops : Stream(l) = <<>>
  BY DEF Init, Stream
<1>2. received = <<>> /\ poolq = <<>> /\ Taken = 0
      /\ \A w \in Workers : worker[w].pc = "idle"
  BY DEF Init, Taken, Idle
<1>3. PoolOrder
  BY <1>2 DEF PoolOrder
<1>4. HeldOnce
  BY <1>2 DEF HeldOnce, Holds
<1>5. StreamSound
  BY <1>1 DEF StreamSound
<1>6. NoneLost
  BY <1>2 DEF NoneLost
<1>. QED  BY <1>3, <1>4, <1>5, <1>6 DEF WayInv

\* The way is right in every reachable state.
LEMMA WayCorrect == Spec => [](TypeOK /\ WayInv)
<1>1. TypeOK /\ WayInv /\ [Next]_vars => (TypeOK /\ WayInv)'
  <2> SUFFICES ASSUME TypeOK, WayInv, [Next]_vars
               PROVE  (TypeOK /\ WayInv)'
    OBVIOUS
  <2>. QED
    BY TypeStep, PoolStep, StreamStep, NoneLostStep DEF WayInv
<1>. QED  BY <1>1, TypeInit, WayInit, PTL DEF Spec

\* No message is answered twice or by another loop, and none is lost while
\* its connection is open, whatever the workers, the loops and the messages.
THEOREM MessagesAreAnsweredOnce == Spec => []AnsweredOnce
<1>1. TypeOK /\ WayInv => AnsweredOnce
  <2> SUFFICES ASSUME TypeOK, WayInv  PROVE AnsweredOnce
    OBVIOUS
  <2>1. /\ Messages = 1 .. Len(received) /\ Len(received) \in Nat
        /\ Len(poolq) \in Nat /\ DOMAIN poolq = 1 .. Len(poolq)
        /\ Taken \in Nat
    BY DEF TypeOK, Messages, Taken, WayInv, PoolOrder
  <2>2. \A m : m \in Unsent <=>
           \/ \E i \in 1 .. Len(poolq) : m = Taken + i
           \/ \E w \in Workers : Holds(w) /\ worker[w].msg = m
    BY <2>1 DEF Unsent, Holds, WayInv, PoolOrder
  <2>3. ASSUME NEW l \in Loops, NEW i \in DOMAIN Stream(l)
        PROVE  /\ Home(Stream(l)[i]) = l
               /\ Stream(l)[i] \notin Unsent
               /\ \A j \in DOMAIN Stream(l) :
                     Stream(l)[i] = Stream(l)[j] => i = j
    BY <2>1, <2>2 DEF WayInv, StreamSound
  <2>4. ASSUME NEW n \in Messages
        PROVE  disc[received[n]] \/ n \in Unsent \/ InStream(n)
    <3>1. CASE n \in 1 .. Taken
      BY <2>2, <3>1 DEF WayInv, NoneLost
    <3>2. CASE n \notin 1 .. Taken
      <4>1. n - Taken \in 1 .. Len(poolq) /\ n = Taken + (n - Taken)
        BY <2>1, <3>2 DEF Taken
      <4>. QED  BY <2>2, <4>1
    <3>. QED  BY <3>1, <3>2
  <2>. QED  BY <2>3, <2>4 DEF AnsweredOnce, InStream
<1>. QED  BY <1>1, WayCorrect, PTL

-----------------------------------------------------------------------------
(* Overtaking.                                                             *)

\* What is skipped is finite, and does not depend on later messages or on
\* what follows in the stream.
LEMMA SkippedSame ==
  ASSUME NEW n \in Nat, NEW k \in Nat, NEW r, NEW q, NEW s, NEW t,
         \A m \in 1 .. n : q[m] = r[m],
         \A j \in 1 .. k : t[j] = s[j]
  PROVE  /\ Skipped(q, n, t, k) = Skipped(r, n, s, k)
         /\ IsFiniteSet(Skipped(r, n, s, k))
         /\ Cardinality(Skipped(r, n, s, k)) \in Nat
<1>1. Skipped(q, n, t, k) = Skipped(r, n, s, k)
  BY DEF Skipped
<1>2. IsFiniteSet(1 .. n - 1)
  BY FS_Interval
<1>3. Skipped(r, n, s, k) \in SUBSET (1 .. n - 1)
  BY DEF Skipped
<1>4. IsFiniteSet(Skipped(r, n, s, k))
  BY <1>2, <1>3, FS_Subset
<1>. QED  BY <1>1, <1>4, FS_CardinalityType

\* A longer prefix skips no more.
LEMMA SkippedFewer ==
  ASSUME NEW n \in Nat, NEW k \in Nat, NEW r, NEW s
  PROVE  Cardinality(Skipped(r, n, s, k + 1)) <= Cardinality(Skipped(r, n, s, k))
<1>1. Skipped(r, n, s, k + 1) \in SUBSET Skipped(r, n, s, k)
  BY DEF Skipped
<1>2. IsFiniteSet(Skipped(r, n, s, k))
  BY SkippedSame
<1>. QED  BY <1>1, <1>2, FS_Subset

\* When a worker finds the connection open, the earlier messages that are
\* not in the stream are with other workers.
LEMMA SkippedAreHeld ==
  ASSUME TypeOK, WayInv, NEW w \in Workers, Holds(w),
         ~disc[received[worker[w].msg]],
         NEW n, n = worker[w].msg, NEW l \in Loops, Home(n) = l
  PROVE  Cardinality(Skipped(received, n, Stream(l), Len(Stream(l))))
            < Cardinality(Workers)
<1> DEFINE S == Skipped(received, n, Stream(l), Len(Stream(l)))
           T == Workers \ {w}
           H == {worker[v].msg : v \in T}
           f == [v \in T |-> worker[v].msg]
<1>1. n \in 1 .. Taken /\ Taken \in Nat /\ n \in Nat
  BY DEF WayInv, HeldOnce, Holds, PoolOrder, TypeOK, Taken
<1>2. /\ IsFiniteSet(T) /\ Cardinality(T) = Cardinality(Workers) - 1
      /\ Cardinality(T) \in Nat
  BY WorkersAssumption, FS_RemoveElement, FS_CardinalityType
<1>3. f \in Surjection(T, H)
  BY DEF Surjection
<1>4. IsFiniteSet(H) /\ Cardinality(H) <= Cardinality(T)
  <2> HIDE DEF T, H, f
  <2>. QED  BY <1>2, <1>3, FS_Surjection
<1>5. Stream(l) \in Seq(Messages)
  BY ConcatIs DEF TypeOK, Stream
<1>6. S \subseteq H
  <2> SUFFICES ASSUME NEW m \in S  PROVE m \in H
    OBVIOUS
  <2>1. /\ m \in 1 .. n - 1 /\ received[m] = received[n]
        /\ \A j \in 1 .. Len(Stream(l)) : Stream(l)[j] # m
    BY DEF Skipped
  <2>2. m \in 1 .. Taken /\ m # n /\ Home(m) = l /\ ~disc[received[m]]
    BY <1>1, <2>1 DEF Home
  <2>3. ~InStream(m)
    BY <1>5, <2>1, <2>2 DEF InStream
  <2>4. PICK v \in Workers : Holds(v) /\ worker[v].msg = m
    BY <2>2, <2>3 DEF WayInv, NoneLost
  <2>. QED  BY <2>2, <2>4
<1> HIDE DEF S, T, H, f
<1>7. Cardinality(S) <= Cardinality(H) /\ Cardinality(S) \in Nat
  BY <1>4, <1>6, FS_Subset, FS_CardinalityType
<1>8. Cardinality(H) \in Nat /\ Cardinality(Workers) \in Nat
  BY <1>4, WorkersAssumption, FS_CardinalityType
<1>9. Cardinality(S) < Cardinality(Workers)
  BY <1>2, <1>4, <1>7, <1>8
<1>. QED  BY <1>9 DEF S

\* A worker comes to queue its reply by finding the connection open.
LEMMA PushFrame ==
  ASSUME TypeOK, [Next]_vars, NEW w \in Workers, worker'[w].pc = "push"
  PROVE  /\ worker'[w].msg = worker[w].msg
         /\ worker[w].msg \in Messages
         /\ \/ worker[w].pc = "push"
            \/ Send(w) /\ Holds(w) /\ ~disc[received[worker[w].msg]]
<1>1. ASSUME NEW v \in Workers, Take(v) \/ Push(v) \/ Wakeup(v)
      PROVE  worker'[w] = worker[w]
  <2>1. worker'[v].pc # "push"
    BY <1>1 DEF Take, Push, Wakeup, TypeOK, Idle
  <2>2. v # w
    BY <2>1
  <2>. QED  BY <1>1, <2>2 DEF Take, Push, Wakeup, TypeOK
<1>2. ASSUME NEW v \in Workers, Send(v), v # w
      PROVE  worker'[w] = worker[w]
  BY <1>2 DEF Send, TypeOK
<1>3. CASE Send(w)
  BY <1>3 DEF Send, TypeOK, Idle, Holds
<1>4. worker'[w] = worker[w] \/ Send(w)
  BY <1>1, <1>2, WorkerFrame DEF HandleOnMessage
<1>. QED  BY <1>3, <1>4 DEF TypeOK, Idle

\* A worker that is about to queue its reply overtakes no more by waiting.
LEMMA PushBoundStep ==
  ASSUME TypeOK, WayInv, PushBound, [Next]_vars
  PROVE  PushBound'
<1> SUFFICES ASSUME NEW w \in Workers, worker'[w].pc = "push",
                    NEW n \in Messages', NEW l \in Loops,
                    n = worker'[w].msg, l = LoopOf(received'[n])
             PROVE  Cardinality(Skipped(received', n, Stream(l)',
                                        Len(Stream(l)')))
                      < Cardinality(Workers)
  BY DEF PushBound, Home
<1> DEFINE s == Stream(l)
           k == Len(s)
           Before == Cardinality(Skipped(received, n, s, k))
<1>1. /\ n \in Messages /\ n = worker[w].msg /\ n \in Nat
      /\ Home(n) = l /\ \A m \in 1 .. n : received'[m] = received[m]
  BY PushFrame, RecordFrame DEF Home
<1>2. Before < Cardinality(Workers)
  <2>1. CASE worker[w].pc = "push"
    BY <1>1, <2>1 DEF PushBound
  <2>2. CASE Holds(w) /\ ~disc[received[worker[w].msg]]
    BY <1>1, <2>2, SkippedAreHeld
  <2>. QED  BY <2>1, <2>2, PushFrame
<1>3. k \in Nat /\ Cardinality(Workers) \in Nat
  BY StreamFrame, WorkersAssumption, FS_CardinalityType
<1>4. CASE Stream(l)' = s
  <2>1. Skipped(received', n, s, k) = Skipped(received, n, s, k)
    BY <1>1, <1>3, SkippedSame
  <2>. QED  BY <1>2, <1>4, <2>1
<1>5. ASSUME NEW e, Stream(l)' = Append(s, e)
      PROVE  Cardinality(Skipped(received', n, Stream(l)', Len(Stream(l)')))
                < Cardinality(Workers)
  <2> DEFINE t == Stream(l)'
  <2>1. Len(t) = k + 1 /\ \A i \in 1 .. k : t[i] = s[i]
    BY <1>5, StreamFrame, AppendIs
  <2>2. Skipped(received', n, t, k) = Skipped(received, n, s, k)
    <3> HIDE DEF s, t, k
    <3>. QED  BY <1>1, <1>3, <2>1, SkippedSame
  <2>3. /\ Cardinality(Skipped(received', n, t, k + 1))
             <= Cardinality(Skipped(received', n, t, k))
        /\ Cardinality(Skipped(received', n, t, k + 1)) \in Nat
        /\ Cardinality(Skipped(received', n, t, k)) \in Nat
    <3> HIDE DEF t, k
    <3>. QED  BY <1>1, <1>3, SkippedFewer, SkippedSame
  <2>. QED  BY <1>2, <1>3, <2>1, <2>2, <2>3
<1>. QED  BY <1>4, <1>5, StreamFrame

\* The place of a reply in the stream is final.
LEMMA OvertakingStep ==
  ASSUME TypeOK, WayInv, PushBound, BoundedOvertaking, [Next]_vars
  PROVE  BoundedOvertaking'
<1> SUFFICES ASSUME NEW l \in Loops, NEW i \in DOMAIN Stream(l)'
             PROVE  Cardinality(Skipped(received', Stream(l)'[i], Stream(l)',
                                        i - 1))
                      < Cardinality(Workers)
  BY DEF BoundedOvertaking
<1> DEFINE s == Stream(l)
           t == Stream(l)'
           k == Len(s)
<1>1. s \in Seq(Messages) /\ k \in Nat /\ DOMAIN s = 1 .. k
  BY StreamFrame
<1>2. \A n \in Messages : n \in Nat /\ \A m \in 1 .. n : received'[m] = received[m]
  BY RecordFrame
<1>3. ASSUME i \in 1 .. k, t[i] = s[i], \A j \in 1 .. k : t[j] = s[j]
      PROVE  Cardinality(Skipped(received', t[i], t, i - 1))
                < Cardinality(Workers)
  <2>1. s[i] \in Messages /\ i - 1 \in Nat /\ 1 .. i - 1 \subseteq 1 .. k
    BY <1>1, <1>3
  <2>2. Skipped(received', s[i], t, i - 1) = Skipped(received, s[i], s, i - 1)
    <3> HIDE DEF s, t, k
    <3>. QED  BY <1>2, <1>3, <2>1, SkippedSame
  <2>3. Cardinality(Skipped(received, s[i], s, i - 1)) < Cardinality(Workers)
    BY <1>1, <1>3 DEF BoundedOvertaking
  <2>. QED  BY <1>3, <2>2, <2>3
<1>4. CASE t = s
  BY <1>1, <1>3, <1>4
<1>5. ASSUME NEW w \in Workers, Push(w), Home(worker[w].msg) = l,
             t = Append(s, worker[w].msg)
      PROVE  Cardinality(Skipped(received', t[i], t, i - 1))
                < Cardinality(Workers)
  <2>1. /\ DOMAIN t = 1 .. k + 1 /\ t[k + 1] = worker[w].msg
        /\ \A j \in 1 .. k : t[j] = s[j]
    BY <1>1, <1>5, AppendIs
  <2>2. CASE i \in 1 .. k
    BY <1>3, <2>1, <2>2
  <2>3. CASE i = k + 1
    <3>0. worker[w].pc = "push" /\ worker[w].msg \in Messages
      <4> HIDE DEF s, t, k
      <4>. QED  BY <1>5 DEF Push, TypeOK, Idle
    <3>1. PICK n \in Messages : n = worker[w].msg
      BY <3>0
    <3>2. Cardinality(Skipped(received, n, s, k)) < Cardinality(Workers)
      BY <1>5, <3>0, <3>1 DEF PushBound
    <3>3. Skipped(received', n, t, k) = Skipped(received, n, s, k)
      <4> HIDE DEF s, t, k
      <4>. QED  BY <1>1, <1>2, <2>1, SkippedSame
    <3>. QED  BY <1>1, <2>1, <2>3, <3>1, <3>2, <3>3
  <2>4. i \in 1 .. k \/ i = k + 1
    BY <1>1, <2>1
  <2>. QED  BY <2>2, <2>3, <2>4
<1>. QED  BY <1>4, <1>5, StreamFrame

\* With any number of workers a reply overtakes fewer earlier messages of its
\* connection than there are workers: one worker keeps the order.
THEOREM OvertakingIsBounded == Spec => []BoundedOvertaking
<1> DEFINE Inv == TypeOK /\ WayInv /\ PushBound /\ BoundedOvertaking
<1>1. Init => Inv
  <2> SUFFICES ASSUME Init  PROVE Inv
    OBVIOUS
  <2>1. PushBound
    BY DEF Init, PushBound, Idle
  <2>2. BoundedOvertaking
    BY DEF Init, BoundedOvertaking, Stream
  <2>. QED  BY <2>1, <2>2, TypeInit, WayInit
<1>2. Inv /\ [Next]_vars => Inv'
  <2> SUFFICES ASSUME Inv, [Next]_vars  PROVE Inv'
    OBVIOUS
  <2>1. WayInv'
    BY PoolStep, StreamStep, NoneLostStep DEF WayInv
  <2>. QED  BY <2>1, TypeStep, PushBoundStep, OvertakingStep
<1>. QED  BY <1>1, <1>2, PTL DEF Spec
=============================================================================

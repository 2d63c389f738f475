--------------------------- MODULE ReactorProofs ---------------------------
(***************************************************************************)
(* Proofs about Reactor, for every number of connections, descriptors,     *)
(* loops and workers.                                                      *)
(***************************************************************************)
EXTENDS Reactor, TLAPS

\* A descriptor belongs to a loop (TcpServer.cpp:67).
LEMMA LoopOfInLoops == \A f \in Fds : LoopOf(f) \in Loops
  BY FdsAssumption, NumLoopsAssumption DEF LoopOf, Loops

\* An iterator designates a node of its list.
LEMMA NodeOfInDomain ==
  ASSUME NEW s \in Seq(Conns), NEW c, InList(s, c)
  PROVE  NodeOf(s, c) \in DOMAIN s /\ s[NodeOf(s, c)] = c
  BY DEF NodeOf, InList

\* Erasing a node leaves a list of connections.
LEMMA WithoutType ==
  ASSUME NEW s \in Seq(Conns), NEW c, InList(s, c)
  PROVE  Without(s, c) \in Seq(Conns)
<1> DEFINE i == NodeOf(s, c)
<1>1. i \in 1 .. Len(s)
  BY NodeOfInDomain
<1>2. RemoveAt(s, i) \in Seq(Conns)
  BY <1>1 DEF RemoveAt
<1>. QED  BY <1>2 DEF Without

\* Splicing a node to the front leaves a list of connections.
LEMMA TouchType ==
  ASSUME TypeOK, NEW l \in Loops, NEW c \in Conns, Alive(c), Touch(l, c)
  PROVE  /\ lru' \in [Loops -> Seq(Conns)]
         /\ age' \in [Conns -> Nat]
<1> DEFINE node == connMap[fdOf[c]]
<1>1. fdOf[c] \in Fds /\ node \in Conns \cup {NoConn} /\ lru[l] \in Seq(Conns)
  BY DEF TypeOK, Alive
<1>2. CASE node = NoConn
  BY <1>2 DEF Touch, TypeOK
<1>3. CASE node # NoConn
  <2>1. InList(lru[l], node)
    BY <1>3 DEF Touch
  <2>2. <<node>> \o Without(lru[l], node) \in Seq(Conns)
    BY <1>1, <1>3, <2>1, WithoutType
  <2>3. lru' = [lru EXCEPT ![l] = <<node>> \o Without(@, node)]
    BY <1>3 DEF Touch
  <2>. QED  BY <2>2, <2>3 DEF Touch, TypeOK
<1>. QED  BY <1>2, <1>3

\* The server starts in a well-typed state.
LEMMA TypeInit == Init => TypeOK
  BY DEF Init, TypeOK, Idle

\* Every step of every thread keeps the state well typed.
LEMMA TypeStep == TypeOK /\ [Next]_vars => TypeOK'
<1> SUFFICES ASSUME TypeOK, [Next]_vars  PROVE TypeOK'
  OBVIOUS
<1> USE DEF TypeOK
<1>1. ASSUME NEW c \in Conns, NEW f \in Fds, Accept(c, f)  PROVE TypeOK'
  BY <1>1, ConnsAssumption DEF Accept, registries, round, sources, pool
<1>2. CASE DropSocket
  BY <1>2 DEF DropSocket, registries, round, sources, pool
<1>3. CASE CreateConnection
  BY <1>3 DEF CreateConnection, round, sources, pool
<1>4. CASE NewConnection
  <2>1. mainConn \in Conns
    BY <1>4 DEF NewConnection
  <2>2. lru' \in [Loops -> Seq(Conns)]
    <3>1. ASSUME NEW l \in Loops  PROVE <<mainConn>> \o lru[l] \in Seq(Conns)
      BY <2>1
    <3>. QED  BY <1>4, <3>1 DEF NewConnection
  <2>3. connMap' \in [Fds -> Conns \cup {NoConn}]
    BY <1>4, <2>1 DEF NewConnection
  <2>. QED  BY <1>4, <2>2, <2>3 DEF NewConnection, objects, round, sources, pool
<1>5. CASE AddToEpoll
  BY <1>5 DEF AddToEpoll, registries, round, sources, pool
<1>6. CASE Tick
  BY <1>6 DEF Tick, registries, round, sources, mainVars, pool
<1>7. ASSUME NEW l \in Loops, TimerExpire(l)  PROVE TypeOK'
  BY <1>7 DEF TimerExpire, objects, registries, round, mainVars, pool
<1>8. ASSUME NEW l \in Loops, NEW batch \in SUBSET Conns, Poll(l, batch)
      PROVE TypeOK'
  BY <1>8 DEF Poll, objects, registries, mainVars, pool
<1>9. ASSUME NEW l \in Loops, NEW c \in Conns, OnMessage(l, c)  PROVE TypeOK'
  <2>1. lru' \in [Loops -> Seq(Conns)] /\ age' \in [Conns -> Nat]
    BY <1>9, TouchType DEF OnMessage, HandleOnMessage, Dispatches
  <2>2. poolq' \in Seq(Conns)
    <3>1. poolq' = poolq \/ poolq' = Append(poolq, c)
      BY <1>9, Zenon DEF OnMessage, HandleOnMessage
    <3>2. Append(poolq, c) \in Seq(Conns)
      OBVIOUS
    <3>. QED  BY <3>1, <3>2
  <2>. QED
    BY <1>9, <2>1, <2>2
    DEF OnMessage, HandleOnMessage, sources, mainVars
<1>10. ASSUME NEW l \in Loops, NEW c \in Conns, OnMessageCloses(l, c)
       PROVE TypeOK'
  <2>1. lru' \in [Loops -> Seq(Conns)] /\ age' \in [Conns -> Nat]
    BY <1>10, TouchType DEF OnMessageCloses, Dispatches
  <2>2. fdOf[c] \in Fds
    BY <1>10 DEF OnMessageCloses, Dispatches, Alive
  <2>. QED
    BY <1>10, <2>1, <2>2
    DEF OnMessageCloses, CloseConnection, sources, mainVars, pool
<1>11. ASSUME NEW l \in Loops, NEW c \in Conns, SkipRead(l, c)  PROVE TypeOK'
  BY <1>11
  DEF SkipRead, Dispatches, objects, registries, sources, mainVars, pool
<1>12. ASSUME NEW l \in Loops, FinishEvent(l)  PROVE TypeOK'
  BY <1>12 DEF FinishEvent, objects, registries, sources, mainVars, pool
<1>13. ASSUME NEW l \in Loops, SendtoCloses(l)  PROVE TypeOK'
  <2>1. cur[l] \in Conns /\ fdOf[cur[l]] \in Fds
    BY <1>13 DEF SendtoCloses, Alive
  <2>. QED
    BY <1>13, <2>1 DEF SendtoCloses, CloseConnection, sources, mainVars, pool
<1>14. ASSUME NEW l \in Loops, HandleWakeUp(l)  PROVE TypeOK'
  BY <1>14 DEF HandleWakeUp, objects, registries, round, mainVars, pool
<1>15. ASSUME NEW l \in Loops, NEW kept \in 0 .. Len(lru[l]), HandleTimer(l, kept)
       PROVE TypeOK'
  <2> DEFINE popped == {i \in DOMAIN lru[l] : i > kept}
             gone == {fdOf[lru[l][i]] : i \in {j \in popped : Alive(lru[l][j])}}
  <2>1. lru[l] \in Seq(Conns)
    OBVIOUS
  <2>2. gone \subseteq Fds
    BY <2>1 DEF Alive
  <2>3. SubSeq(lru[l], 1, kept) \in Seq(Conns)
    BY <2>1
  <2>. HIDE DEF gone
  <2>4. /\ todo' = [todo EXCEPT ![l] = gone]
        /\ lru' = [lru EXCEPT ![l] = SubSeq(lru[l], 1, kept)]
        /\ connMap' = [f \in Fds |-> IF f \in gone THEN NoConn ELSE connMap[f]]
        /\ pc' = [pc EXCEPT ![l] = IF gone = {} THEN "dispatch" ELSE "evict"]
    BY <1>15 DEF HandleTimer, gone
  <2>5. todo' \in [Loops -> SUBSET Fds]
    BY <2>2, <2>4
  <2>6. lru' \in [Loops -> Seq(Conns)]
    BY <2>3, <2>4
  <2>7. connMap' \in [Fds -> Conns \cup {NoConn}]
    BY <2>4
  <2>8. pc' \in [Loops -> {"poll", "dispatch", "hung", "evict", "unlist", "erase"}]
    BY <2>4
  <2>. QED
    BY <1>15, <2>5, <2>6, <2>7, <2>8 DEF HandleTimer, objects, mainVars, pool
<1>16. ASSUME NEW l \in Loops, EndRound(l)  PROVE TypeOK'
  BY <1>16 DEF EndRound, objects, registries, sources, mainVars, pool
<1>17. ASSUME NEW l \in Loops, NEW f \in Fds, EvictTimedOut(l, f)  PROVE TypeOK'
  BY <1>17 DEF EvictTimedOut, EraseFromMap, sources, mainVars, pool
<1>18. ASSUME NEW l \in Loops, NEW f \in Fds, UnlistClosed(l, f)  PROVE TypeOK'
  <2>1. lru' \in [Loops -> Seq(Conns)] /\ connMap' \in [Fds -> Conns \cup {NoConn}]
    <3>1. CASE connMap[f] = NoConn
      BY <1>18, <3>1 DEF UnlistClosed
    <3>2. CASE connMap[f] # NoConn
      <4>1. /\ InList(lru[l], connMap[f])
            /\ lru' = [lru EXCEPT ![l] = Without(@, connMap[f])]
            /\ connMap' = [connMap EXCEPT ![f] = NoConn]
        BY <1>18, <3>2 DEF UnlistClosed
      <4>2. Without(lru[l], connMap[f]) \in Seq(Conns)
        BY <4>1, WithoutType
      <4>. QED  BY <4>1, <4>2
    <3>. QED  BY <3>1, <3>2
  <2>. QED  BY <1>18, <2>1 DEF UnlistClosed, objects, sources, mainVars, pool
<1>19. ASSUME NEW l \in Loops, NEW f \in Fds, EraseClosed(l, f)  PROVE TypeOK'
  BY <1>19 DEF EraseClosed, EraseFromMap, sources, mainVars, pool
<1>20. ASSUME NEW w \in Workers, WorkerTake(w)  PROVE TypeOK'
  BY <1>20 DEF WorkerTake, objects, registries, round, sources, mainVars
<1>21. ASSUME NEW w \in Workers, WorkerSend(w)  PROVE TypeOK'
  <2> DEFINE c == worker[w].conn
  <2>1. c \in Conns
    <3>1. worker[w].pc = "send"
      BY <1>21 DEF WorkerSend
    <3>2. worker[w] \in {Idle} \cup [pc : {"send", "drop"}, conn : Conns]
      OBVIOUS
    <3>. QED  BY <3>1, <3>2 DEF Idle
  <2>2. worker' \in [Workers -> {Idle} \cup [pc : {"send", "drop"}, conn : Conns]]
    BY <1>21, <2>1 DEF WorkerSend, AddTask, Wakeup
  <2>3. /\ taskq' \in [Loops -> Seq(Conns)]
        /\ efd' \in [Loops -> {"clear", "signalled", "batched"}]
    <3>1. CASE UNCHANGED <<taskq, efd>>
      BY <3>1
    <3>2. CASE /\ taskq' = [taskq EXCEPT ![LoopOf(fdOf[c])] = Append(@, c)]
               /\ \/ UNCHANGED efd
                  \/ efd' = [efd EXCEPT ![LoopOf(fdOf[c])] =
                               IF @ = "clear" THEN "signalled" ELSE @]
      <4> DEFINE l == LoopOf(fdOf[c])
      <4>. HIDE DEF l
      <4>1. ASSUME l \in Loops  PROVE Append(taskq[l], c) \in Seq(Conns)
        BY <2>1, <4>1
      <4>2. taskq' \in [Loops -> Seq(Conns)]
        BY <3>2, <4>1 DEF l
      <4>3. efd' \in [Loops -> {"clear", "signalled", "batched"}]
        BY <3>2 DEF l
      <4>. QED  BY <4>2, <4>3
    <3>. QED  BY <1>21, <3>1, <3>2 DEF WorkerSend, AddTask, Wakeup
  <2>. QED
    BY <1>21, <2>2, <2>3
    DEF WorkerSend, AddTask, Wakeup, objects, registries, round, mainVars
<1>22. ASSUME NEW w \in Workers, WorkerDrop(w)  PROVE TypeOK'
  BY <1>22 DEF WorkerDrop, Idle, registries, round, sources, mainVars
<1>23. CASE UNCHANGED vars
  BY <1>23 DEF vars, objects, registries, round, sources, mainVars, pool
<1>24. ASSUME NEW l \in Loops, NEW c \in Conns, OnMessageHangs(l, c)
       PROVE TypeOK'
  <2>1. lru' \in [Loops -> Seq(Conns)] /\ age' \in [Conns -> Nat]
    BY <1>24, TouchType DEF OnMessageHangs, HandleOnMessage, Dispatches
  <2>2. poolq' \in Seq(Conns)
    <3>1. poolq' = poolq \/ poolq' = Append(poolq, c)
      BY <1>24, Zenon DEF OnMessageHangs, HandleOnMessage
    <3>2. Append(poolq, c) \in Seq(Conns)
      OBVIOUS
    <3>. QED  BY <3>1, <3>2
  <2>3. fdOf[c] \in Fds
    BY <1>24 DEF OnMessageHangs, Dispatches, Alive
  <2>4. UNCHANGED <<obj, fdOf, clientMap, connMap, cur, todo, timer, efd,
                    taskq, mainPc, mainConn, worker>>
    BY <1>24 DEF OnMessageHangs, sources, mainVars
  <2>5. /\ pc' = [pc EXCEPT ![l] = "hung"]
        /\ pend' = [pend EXCEPT ![l] = {}]
        /\ disc' = [disc EXCEPT ![c] = TRUE]
        /\ delayDel' = [delayDel EXCEPT ![l] = @ \cup {fdOf[c]}]
    BY <1>24 DEF OnMessageHangs, CloseConnection
  <2>. QED  BY <2>1, <2>2, <2>3, <2>4, <2>5
<1>. QED
  BY <1>1, <1>2, <1>3, <1>4, <1>5, <1>6, <1>7, <1>8, <1>9, <1>10, <1>11,
     <1>12, <1>13, <1>14, <1>15, <1>16, <1>17, <1>18, <1>19, <1>20, <1>21,
     <1>22, <1>23, <1>24
  DEF Next, MainStep, PollStep, RoundStep, DispatchStep, WorkerStep

\* Every variable keeps its type (all of the modelled code).
THEOREM TypeCorrect == Spec => []TypeOK
  BY TypeInit, TypeStep, PTL DEF Spec

-----------------------------------------------------------------------------
(* The map of connections and the descriptors.                             *)

Holding(c) == obj[c] \in {"accepted", "created", "active"}

\* An entry of the map leads to a live connection of that descriptor.
MapSound ==
    \A f \in Fds : clientMap[f] # NoConn =>
        Alive(clientMap[f]) /\ fdOf[clientMap[f]] = f

\* Two sockets are never open on one descriptor.
FdUnique ==
    \A c, d \in Conns :
        Holding(c) /\ Holding(d) /\ fdOf[c] = fdOf[d] => c = d

\* What onconnect holds before the Connection exists is an open Socket.
MainOwns == mainPc = "create" => obj[mainConn] = "accepted"

\* A shared_ptr held by the worker pool keeps its connection alive.
PoolOwns == \A c \in Conns : HeldByPool(c) => Alive(c)

MapInv == MapSound /\ FdUnique /\ MainOwns /\ PoolOwns

\* Who touches the objects, the map or the main loop.
LEMMA MapFrame ==
  ASSUME [Next]_vars
  PROVE  \/ \E c \in Conns, f \in Fds : Accept(c, f)
         \/ MainStep
         \/ \E l \in Loops, f \in Fds :
              EvictTimedOut(l, f) \/ EraseClosed(l, f)
         \/ \E w \in Workers : WorkerDrop(w)
         \/ UNCHANGED <<obj, fdOf, clientMap, mainPc, mainConn>>
<1>1. ASSUME NEW l \in Loops, DispatchStep(l)
      PROVE  UNCHANGED <<obj, fdOf, clientMap, mainPc, mainConn>>
  BY <1>1
  DEF DispatchStep, OnMessage, HandleOnMessage, OnMessageCloses,
      OnMessageHangs, SkipRead,
      FinishEvent,
      SendtoCloses, HandleWakeUp, HandleTimer, objects, registries, mainVars
<1>2. ASSUME NEW l \in Loops,
             \/ TimerExpire(l)
             \/ PollStep(l)
             \/ EndRound(l)
             \/ \E f \in Fds : UnlistClosed(l, f)
      PROVE  UNCHANGED <<obj, fdOf, clientMap, mainPc, mainConn>>
  BY <1>2
  DEF TimerExpire, PollStep, Poll, EndRound, UnlistClosed, objects,
      registries, mainVars
<1>3. ASSUME NEW w \in Workers, WorkerTake(w) \/ WorkerSend(w)
      PROVE  UNCHANGED <<obj, fdOf, clientMap, mainPc, mainConn>>
  BY <1>3
  DEF WorkerTake, WorkerSend, AddTask, Wakeup, objects, registries, mainVars
<1>4. CASE Tick \/ UNCHANGED vars
  BY <1>4 DEF Tick, vars, objects, registries, mainVars
<1>. QED
  BY <1>1, <1>2, <1>3, <1>4 DEF Next, RoundStep, WorkerStep

\* What erasing an entry does to the objects.
LEMMA EraseFrees ==
  ASSUME TypeOK, NEW f \in Fds, EraseFromMap(f), NEW c \in Conns
  PROVE  \/ obj'[c] = obj[c]
         \/ obj'[c] = "freed" /\ clientMap[f] = c /\ ~HeldByPool(c)
<1>1. obj'[c] = IF clientMap[f] = c /\ ~HeldByPool(c) THEN "freed" ELSE obj[c]
  BY Zenon DEF EraseFromMap
<1>. QED  BY <1>1

\* Erasing an entry keeps the map sound and descriptors unique.
LEMMA EraseKeepsMap ==
  ASSUME TypeOK, MapInv, NEW f \in Fds, EraseFromMap(f),
         UNCHANGED <<fdOf, mainPc, mainConn>>
  PROVE  MapSound' /\ FdUnique' /\ MainOwns'
<1>1. ASSUME NEW c \in Conns
      PROVE  obj'[c] = obj[c] \/ (obj'[c] = "freed" /\ clientMap[f] = c)
  BY EraseFrees
<1>2. MapSound'
  <2> SUFFICES ASSUME NEW g \in Fds, clientMap'[g] # NoConn
               PROVE  /\ obj'[clientMap'[g]] \in {"created", "active"}
                      /\ fdOf'[clientMap'[g]] = g
    BY DEF MapSound, Alive
  <2>1. g # f /\ clientMap'[g] = clientMap[g]
    BY DEF EraseFromMap, TypeOK
  <2>2. clientMap[g] \in Conns /\ Alive(clientMap[g]) /\ fdOf[clientMap[g]] = g
    BY <2>1 DEF TypeOK, MapInv, MapSound
  <2>3. clientMap[g] # clientMap[f]
    BY <2>1, <2>2 DEF MapInv, MapSound, TypeOK
  <2>. QED  BY <1>1, <2>1, <2>2, <2>3 DEF Alive
<1>3. FdUnique'
  BY <1>1 DEF MapInv, FdUnique, Holding
<1>4. MainOwns'
  <2> SUFFICES ASSUME mainPc = "create"  PROVE obj'[mainConn] = "accepted"
    BY DEF MainOwns
  <2>1. mainConn \in Conns /\ obj[mainConn] = "accepted"
    BY DEF TypeOK, MapInv, MainOwns
  <2>2. clientMap[f] # mainConn
    BY <2>1, ConnsAssumption DEF MapInv, MapSound, Alive
  <2>. QED  BY <1>1, <2>1, <2>2
<1>. QED  BY <1>2, <1>3, <1>4

\* What a worker's last reference does to the objects.
LEMMA DropFrees ==
  ASSUME TypeOK, MapInv, NEW w \in Workers, WorkerDrop(w)
  PROVE  /\ worker[w].conn \in Conns
         /\ Alive(worker[w].conn)
         /\ \A d \in Conns \ {worker[w].conn} : obj'[d] = obj[d]
         /\ Registered(worker[w].conn) => obj' = obj
         /\ \/ obj' = obj
            \/ obj'[worker[w].conn] = "freed"
<1> DEFINE c == worker[w].conn
<1>1. c \in Conns
  BY DEF WorkerDrop, TypeOK, Idle
<1>2. Alive(c)
  BY <1>1 DEF MapInv, PoolOwns, HeldByPool
<1>3. CASE Registered(c)
  <2>1. obj' = obj
    BY <1>1, <1>3 DEF WorkerDrop, TypeOK
  <2>. QED  BY <1>1, <1>2, <2>1
<1>4. CASE ~Registered(c)
  <2>1. obj' = obj \/ obj' = [obj EXCEPT ![c] = "freed"]
    BY <1>1 DEF WorkerDrop, TypeOK
  <2>. QED  BY <1>1, <1>2, <1>4, <2>1 DEF TypeOK
<1>. QED  BY <1>3, <1>4

\* Every step keeps the map of the server, the descriptors and the new
\* connection in accord.
LEMMA MapStep ==
  TypeOK /\ MapInv /\ [Next]_vars => MapSound' /\ FdUnique' /\ MainOwns'
<1> SUFFICES ASSUME TypeOK, MapInv, [Next]_vars
             PROVE  MapSound' /\ FdUnique' /\ MainOwns'
  OBVIOUS
<1> USE DEF MapInv, MapSound, FdUnique, MainOwns, Holding, Alive
<1>1. ASSUME NEW c \in Conns, NEW f \in Fds, Accept(c, f)
      PROVE  MapSound' /\ FdUnique' /\ MainOwns'
  BY <1>1, ConnsAssumption DEF Accept, TypeOK, registries, FdFree
<1>2. CASE DropSocket
  BY <1>2 DEF DropSocket, TypeOK, registries
<1>3. CASE CreateConnection
  BY <1>3, ConnsAssumption DEF CreateConnection, TypeOK
<1>4. CASE NewConnection
  BY <1>4 DEF NewConnection, objects
<1>5. CASE AddToEpoll
  <2>1. mainConn \in Conns /\ fdOf[mainConn] \in Fds /\ Alive(mainConn)
    BY <1>5, ConnsAssumption DEF AddToEpoll, TypeOK
  <2>2. /\ obj' = [obj EXCEPT ![mainConn] = "active"]
        /\ UNCHANGED <<fdOf, clientMap>>
        /\ mainPc' = "accept"
    BY <1>5 DEF AddToEpoll, registries
  <2>. QED  BY <2>1, <2>2 DEF TypeOK
<1>6. ASSUME NEW l \in Loops, NEW f \in Fds,
             EvictTimedOut(l, f) \/ EraseClosed(l, f)
      PROVE  MapSound' /\ FdUnique' /\ MainOwns'
  BY <1>6, EraseKeepsMap DEF EvictTimedOut, EraseClosed, mainVars
<1>7. ASSUME NEW w \in Workers, WorkerDrop(w)
      PROVE  MapSound' /\ FdUnique' /\ MainOwns'
  <2> DEFINE c == worker[w].conn
  <2>1. UNCHANGED <<fdOf, clientMap, mainPc, mainConn>>
    BY <1>7 DEF WorkerDrop, registries, mainVars
  <2>2. CASE obj' = obj
    BY <2>1, <2>2
  <2>3. CASE obj'[c] = "freed" /\ ~Registered(c)
    <3>1. c \in Conns /\ obj[c] # "accepted"
      BY <1>7, DropFrees
    <3>2. ASSUME NEW d \in Conns  PROVE obj'[d] = obj[d] \/ (obj'[d] = "freed" /\ d = c)
      BY <1>7, <2>3, DropFrees
    <3>3. \A f \in Fds : clientMap[f] # c
      BY <2>3, <3>1, ConnsAssumption DEF Registered
    <3>4. ASSUME NEW f \in Fds, clientMap[f] # NoConn
          PROVE  obj'[clientMap[f]] = obj[clientMap[f]]
      <4>1. clientMap[f] \in Conns
        BY <3>4 DEF TypeOK
      <4>2. clientMap[f] # c
        BY <3>3
      <4>. QED  BY <3>2, <4>1, <4>2
    <3>7. MapSound'
      BY <2>1, <3>4
    <3>5. FdUnique'
      BY <2>1, <3>2
    <3>6. MainOwns'
      BY <2>1, <3>1, <3>2 DEF TypeOK
    <3>. QED  BY <3>5, <3>6, <3>7
  <2>. QED  BY <1>7, <2>2, <2>3, DropFrees
<1>8. CASE UNCHANGED <<obj, fdOf, clientMap, mainPc, mainConn>>
  BY <1>8
<1>. QED
  BY <1>1, <1>2, <1>3, <1>4, <1>5, <1>6, <1>7, <1>8, MapFrame DEF MainStep

\* Every step leaves alive what a task of the worker pool refers to.
LEMMA PoolStep == TypeOK /\ MapInv /\ [Next]_vars => PoolOwns'
<1> SUFFICES ASSUME TypeOK, MapInv, [Next]_vars  PROVE PoolOwns'
  OBVIOUS
<1> USE DEF PoolOwns, Alive
<1>0. ASSUME UNCHANGED pool, NEW d \in Conns
      PROVE  HeldByPool(d)' <=> HeldByPool(d)
  BY <1>0 DEF pool, HeldByPool
<1>1. ASSUME UNCHANGED pool,
             \A d \in Conns : Alive(d) /\ HeldByPool(d) => Alive(d)'
      PROVE  PoolOwns'
  BY <1>0, <1>1 DEF MapInv
<1>2. ASSUME NEW c \in Conns, NEW f \in Fds, Accept(c, f)  PROVE PoolOwns'
  BY <1>1, <1>2 DEF Accept, TypeOK
<1>3. CASE MainStep
  <2>1. mainConn \in Conns
    BY <1>3 DEF MainStep, DropSocket, CreateConnection, NewConnection,
                AddToEpoll, TypeOK
  <2>2. CASE DropSocket
    BY <1>1, <2>1, <2>2 DEF DropSocket, TypeOK, MapInv, MainOwns
  <2>3. CASE CreateConnection
    BY <1>1, <2>1, <2>3 DEF CreateConnection, TypeOK
  <2>4. CASE NewConnection
    BY <1>1, <2>1, <2>4 DEF NewConnection, objects
  <2>5. CASE AddToEpoll
    BY <1>1, <2>1, <2>5 DEF AddToEpoll, TypeOK
  <2>. QED  BY <1>3, <2>2, <2>3, <2>4, <2>5 DEF MainStep
<1>4. ASSUME NEW l \in Loops, NEW f \in Fds,
             EvictTimedOut(l, f) \/ EraseClosed(l, f)
      PROVE  PoolOwns'
  <2>1. EraseFromMap(f) /\ UNCHANGED pool
    BY <1>4 DEF EvictTimedOut, EraseClosed
  <2>. QED  BY <1>1, <2>1, EraseFrees
<1>5. ASSUME NEW w \in Workers, WorkerDrop(w)  PROVE PoolOwns'
  <2>1. PICK c \in Conns : /\ c = worker[w].conn
                           /\ \A d \in Conns \ {c} : obj'[d] = obj[d]
    BY <1>5, DropFrees
  <2>2. poolq' = poolq /\ worker' = [worker EXCEPT ![w] = Idle]
    BY <1>5 DEF WorkerDrop
  <2>3. ASSUME NEW d \in Conns, HeldByPool(d)'  PROVE HeldByPool(d)
    BY <2>2, <2>3, ConnsAssumption DEF HeldByPool, TypeOK, Idle
  <2>4. ASSUME HeldByPool(c)'  PROVE obj' = obj
    <3>1. CASE \E i \in DOMAIN poolq : poolq[i] = c
      BY <1>5, <2>1, <3>1 DEF WorkerDrop, TypeOK
    <3>2. ASSUME NEW v \in Workers, worker'[v].conn = c  PROVE obj' = obj
      <4>1. v # w
        BY <2>1, <2>2, <3>2, ConnsAssumption DEF TypeOK, Idle
      <4>2. worker'[v] = worker[v]
        BY <2>2, <4>1 DEF TypeOK
      <4>. QED  BY <1>5, <2>1, <3>2, <4>1, <4>2 DEF WorkerDrop, TypeOK
    <3>. QED  BY <2>2, <2>4, <3>1, <3>2 DEF HeldByPool
  <2>5. ASSUME NEW d \in Conns, HeldByPool(d)'  PROVE obj'[d] = obj[d]
    BY <2>1, <2>4, <2>5
  <2>6. ASSUME NEW d \in Conns, HeldByPool(d)'
        PROVE  obj[d] \in {"created", "active"}
    BY <2>3, <2>6 DEF MapInv
  <2>. QED  BY <2>5, <2>6
<1>6. ASSUME NEW l \in Loops, NEW c \in Conns,
             OnMessage(l, c) \/ OnMessageHangs(l, c)
      PROVE  PoolOwns'
  <2>1. Alive(c) /\ UNCHANGED <<obj, worker>>
    BY <1>6 DEF OnMessage, OnMessageHangs, HandleOnMessage, Dispatches
  <2>2. HandleOnMessage(c)
    BY <1>6 DEF OnMessage, OnMessageHangs
  <2>4. poolq' = poolq \/ poolq' = Append(poolq, c)
    BY <2>2, Zenon DEF HandleOnMessage
  <2>3. ASSUME NEW d \in Conns, HeldByPool(d)'  PROVE HeldByPool(d) \/ d = c
    <3>1. CASE \E v \in Workers : worker'[v].conn = d
      BY <2>1, <3>1 DEF HeldByPool
    <3>2. ASSUME NEW i \in DOMAIN poolq', poolq'[i] = d
          PROVE  d = c \/ \E j \in DOMAIN poolq : poolq[j] = d
      <4>1. CASE poolq' = poolq
        BY <3>2, <4>1
      <4>2. CASE poolq' = Append(poolq, c)
        <5>1. poolq \in Seq(Conns) /\ i \in 1 .. Len(poolq) + 1
          BY <3>2, <4>2 DEF TypeOK
        <5>. QED  BY <3>2, <4>2, <5>1
      <4>. QED  BY <2>4, <4>1, <4>2
    <3>. QED  BY <2>3, <3>1, <3>2 DEF HeldByPool
  <2>. QED  BY <2>1, <2>3 DEF MapInv
<1>7. ASSUME NEW w \in Workers, WorkerTake(w) \/ WorkerSend(w)
      PROVE  PoolOwns'
  <2>1. obj' = obj
    BY <1>7 DEF WorkerTake, WorkerSend, AddTask, Wakeup, objects
  <2>2. ASSUME NEW d \in Conns, HeldByPool(d)'  PROVE HeldByPool(d)
    <3>1. CASE WorkerTake(w)
      BY <2>2, <3>1 DEF WorkerTake, HeldByPool, TypeOK
    <3>2. CASE WorkerSend(w)
      BY <2>2, <3>2 DEF WorkerSend, AddTask, Wakeup, HeldByPool, TypeOK
    <3>. QED  BY <1>7, <3>1, <3>2
  <2>. QED  BY <2>1, <2>2 DEF MapInv
<1>8. CASE UNCHANGED <<obj, poolq, worker>>
  BY <1>1, <1>8 DEF pool
<1>9. ASSUME NEW l \in Loops,
             \/ TimerExpire(l)
             \/ PollStep(l)
             \/ EndRound(l)
             \/ \E f \in Fds : UnlistClosed(l, f)
      PROVE  UNCHANGED <<obj, poolq, worker>>
  BY <1>9
  DEF TimerExpire, PollStep, Poll, EndRound, UnlistClosed, objects, pool
<1>10. ASSUME NEW l \in Loops, DispatchStep(l),
              ~ \E c \in Conns : OnMessage(l, c) \/ OnMessageHangs(l, c)
       PROVE  UNCHANGED <<obj, poolq, worker>>
  BY <1>10
  DEF DispatchStep, OnMessageCloses, SkipRead, FinishEvent, SendtoCloses,
      HandleWakeUp, HandleTimer, objects, pool
<1>11. CASE Tick \/ UNCHANGED vars
  BY <1>8, <1>11 DEF Tick, vars, objects, pool
<1>. QED
  BY <1>2, <1>3, <1>4, <1>5, <1>6, <1>7, <1>8, <1>9, <1>10, <1>11
  DEF Next, RoundStep, WorkerStep

\* The map invariant holds of the empty server.
LEMMA MapInit == Init => MapInv
<1> SUFFICES ASSUME Init  PROVE MapInv
  OBVIOUS
<1>1. \A c \in Conns : ~HeldByPool(c)
  BY ConnsAssumption DEF Init, HeldByPool, Idle
<1>. QED
  BY <1>1 DEF Init, MapInv, MapSound, FdUnique, MainOwns, Holding, PoolOwns

\* Types and the map invariant hold throughout.
LEMMA MapCorrect == Spec => [](TypeOK /\ MapInv)
<1>1. TypeOK /\ MapInv /\ [Next]_vars => (TypeOK /\ MapInv)'
  BY TypeStep, MapStep, PoolStep DEF MapInv
<1>. QED  BY <1>1, TypeInit, MapInit, PTL DEF Spec

\* The descriptor of a freshly accepted socket has no entry in the map.
LEMMA FreshEntry ==
  ASSUME TypeOK, MapInv, mainPc = "create"
  PROVE  /\ mainConn \in Conns
         /\ obj[mainConn] = "accepted"
         /\ fdOf[mainConn] \in Fds
         /\ clientMap[fdOf[mainConn]] = NoConn
  BY DEF TypeOK, MapInv, MapSound, FdUnique, MainOwns, Holding, Alive

\* A descriptor given to a new client has no entry left in the map
\* (TcpServer::createconnection).
THEOREM DescriptorsAreFresh == Spec => []NoStaleEntry
<1>1. TypeOK /\ MapInv => NoStaleEntry
  BY FreshEntry DEF NoStaleEntry
<1>. QED  BY <1>1, MapCorrect, PTL

-----------------------------------------------------------------------------
(* The rounds of a loop.                                                   *)

\* connections loop l still has to handle in this round
InBatch(l, c) == c \in pend[l] \/ cur[l] = c

\* A batch only holds connections of its loop, once active.
BatchOwn ==
    \A l \in Loops, c \in Conns : InBatch(l, c) =>
        /\ obj[c] \in {"active", "freed"}
        /\ fdOf[c] \in Fds
        /\ LoopOf(fdOf[c]) = l

\* It exists only while the loop dispatches it.
BatchTime ==
    \A l \in Loops :
        /\ pend[l] # {} => pc[l] \in {"dispatch", "evict"}
        /\ cur[l] # NoConn => pc[l] = "dispatch"

\* No connection is closed before it is served.
NewOpen ==
    \A c \in Conns : obj[c] \in {"unborn", "accepted", "created"} => ~disc[c]

RoundInv == BatchOwn /\ BatchTime /\ NewOpen

\* An object never goes back, and keeps its descriptor.
LEMMA NeverBack ==
  ASSUME TypeOK, MapInv, [Next]_vars, NEW c \in Conns
  PROVE  /\ obj[c] \in {"active", "freed"} => obj'[c] \in {"active", "freed"}
         /\ obj[c] # "unborn" => fdOf'[c] = fdOf[c]
         /\ obj'[c] = "unborn" => obj[c] = "unborn"
<1>1. ASSUME NEW d \in Conns, NEW f \in Fds, Accept(d, f)
      PROVE  /\ obj[c] # "unborn" => obj'[c] = obj[c] /\ fdOf'[c] = fdOf[c]
             /\ obj'[c] = "unborn" => obj[c] = "unborn"
  BY <1>1 DEF Accept, TypeOK
<1>2. CASE MainStep
  <2>1. fdOf' = fdOf
    BY <1>2 DEF MainStep, DropSocket, CreateConnection, NewConnection,
                AddToEpoll, objects
  <2>2. CASE CreateConnection
    <3>1. mainConn \in Conns /\ obj[mainConn] = "accepted"
      BY <2>2 DEF CreateConnection, TypeOK, MapInv, MainOwns
    <3>. QED  BY <2>1, <2>2, <3>1 DEF CreateConnection, TypeOK
  <2>3. CASE DropSocket \/ NewConnection \/ AddToEpoll
    BY <2>1, <2>3 DEF DropSocket, NewConnection, AddToEpoll, TypeOK, objects
  <2>. QED  BY <1>2, <2>2, <2>3 DEF MainStep
<1>3. ASSUME NEW l \in Loops, NEW f \in Fds,
             EvictTimedOut(l, f) \/ EraseClosed(l, f)
      PROVE  fdOf' = fdOf /\ (obj'[c] = obj[c] \/ obj'[c] = "freed")
  BY <1>3, EraseFrees DEF EvictTimedOut, EraseClosed
<1>4. ASSUME NEW w \in Workers, WorkerDrop(w)
      PROVE  fdOf' = fdOf /\ (obj'[c] = obj[c] \/ obj'[c] = "freed")
  <2>1. fdOf' = fdOf
    BY <1>4 DEF WorkerDrop
  <2>. QED  BY <1>4, <2>1, DropFrees
<1>5. CASE UNCHANGED <<obj, fdOf, clientMap, mainPc, mainConn>>
  BY <1>5
<1>. QED  BY <1>1, <1>2, <1>3, <1>4, <1>5, MapFrame

\* Who touches the batches.
LEMMA RoundFrame ==
  ASSUME [Next]_vars
  PROVE  \/ \E l \in Loops : PollStep(l) \/ RoundStep(l)
         \/ UNCHANGED <<pc, pend, cur, todo, disc, delayDel>>
<1>1. ASSUME NEW c \in Conns, NEW f \in Fds, Accept(c, f)
      PROVE  UNCHANGED <<pc, pend, cur, todo, disc, delayDel>>
  BY <1>1 DEF Accept, round, registries
<1>2. CASE MainStep
  BY <1>2 DEF MainStep, DropSocket, CreateConnection, NewConnection,
              AddToEpoll, round, registries, objects
<1>3. ASSUME NEW l \in Loops, TimerExpire(l)
      PROVE  UNCHANGED <<pc, pend, cur, todo, disc, delayDel>>
  BY <1>3 DEF TimerExpire, round, registries, objects
<1>4. ASSUME NEW w \in Workers, WorkerStep(w)
      PROVE  UNCHANGED <<pc, pend, cur, todo, disc, delayDel>>
  BY <1>4
  DEF WorkerStep, WorkerTake, WorkerSend, AddTask, Wakeup, WorkerDrop, round,
              registries, objects
<1>5. CASE Tick \/ UNCHANGED vars
  BY <1>5 DEF Tick, vars, round, registries, objects
<1>. QED  BY <1>1, <1>2, <1>3, <1>4, <1>5 DEF Next

\* What one step of a loop does to the batches.
LEMMA BatchFrame ==
  ASSUME TypeOK, BatchTime, NEW l \in Loops, PollStep(l) \/ RoundStep(l)
  PROVE  /\ BatchTime'
         /\ \A k \in Loops, c \in Conns : InBatch(k, c)' =>
               \/ InBatch(k, c)
               \/ obj[c] = "active" /\ LoopOf(fdOf[c]) = k
<1> DEFINE Goal ==
      /\ BatchTime'
      /\ \A k \in Loops, c \in Conns : InBatch(k, c)' =>
            \/ InBatch(k, c)
            \/ obj[c] = "active" /\ LoopOf(fdOf[c]) = k
<1> USE ConnsAssumption DEF BatchTime, InBatch, TypeOK
<1>1. ASSUME NEW batch \in SUBSET Conns, Poll(l, batch)  PROVE Goal
  BY <1>1 DEF Poll
<1>2. ASSUME NEW c \in Conns, OnMessage(l, c)  PROVE Goal
  BY <1>2 DEF OnMessage, HandleOnMessage, Dispatches
<1>3. ASSUME NEW c \in Conns, OnMessageCloses(l, c)  PROVE Goal
  BY <1>3 DEF OnMessageCloses, Dispatches
<1>4. ASSUME NEW c \in Conns, SkipRead(l, c)  PROVE Goal
  BY <1>4 DEF SkipRead, Dispatches
<1>5. CASE FinishEvent(l)
  BY <1>5 DEF FinishEvent
<1>6. CASE SendtoCloses(l)
  BY <1>6 DEF SendtoCloses
<1>7. CASE HandleWakeUp(l)
  BY <1>7 DEF HandleWakeUp, round
<1>8. ASSUME NEW kept \in 0 .. Len(lru[l]), HandleTimer(l, kept)  PROVE Goal
  <2>1. /\ cur[l] = NoConn
        /\ UNCHANGED <<pend, cur>>
        /\ \E p \in {"dispatch", "evict"} : pc' = [pc EXCEPT ![l] = p]
    BY <1>8 DEF HandleTimer
  <2>. QED  BY <2>1
<1>9. CASE EndRound(l)
  BY <1>9 DEF EndRound
<1>10. ASSUME NEW f \in Fds, EvictTimedOut(l, f)  PROVE Goal
  BY <1>10 DEF EvictTimedOut
<1>11. ASSUME NEW f \in Fds, UnlistClosed(l, f)  PROVE Goal
  BY <1>11 DEF UnlistClosed
<1>12. ASSUME NEW f \in Fds, EraseClosed(l, f)  PROVE Goal
  <2>1. /\ pc[l] = "erase"
        /\ UNCHANGED <<pend, cur>>
        /\ pc' = pc \/ pc' = [pc EXCEPT ![l] = "poll"]
    BY <1>12 DEF EraseClosed
  <2>2. pend[l] = {} /\ cur[l] = NoConn
    BY <2>1
  <2>. QED  BY <2>1, <2>2
<1>13. ASSUME NEW c \in Conns, OnMessageHangs(l, c)  PROVE Goal
  <2>1. /\ pc' = [pc EXCEPT ![l] = "hung"]
        /\ pend' = [pend EXCEPT ![l] = {}]
        /\ cur' = cur /\ cur[l] = NoConn
    BY <1>13 DEF OnMessageHangs, Dispatches
  <2>. QED  BY <2>1
<1>. QED
  BY <1>1, <1>2, <1>3, <1>4, <1>5, <1>6, <1>7, <1>8, <1>9, <1>10, <1>11,
     <1>12, <1>13
  DEF PollStep, RoundStep, DispatchStep

\* Only the connection being handled gets closed.
LEMMA CloseFrame ==
  ASSUME TypeOK, NEW l \in Loops, PollStep(l) \/ RoundStep(l)
  PROVE  \A c \in Conns : disc'[c] # disc[c] => InBatch(l, c)
<1> DEFINE Goal == \A c \in Conns : disc'[c] # disc[c] => InBatch(l, c)
<1>1. ASSUME NEW c \in Conns, OnMessageCloses(l, c)  PROVE Goal
  BY <1>1 DEF OnMessageCloses, Dispatches, CloseConnection, InBatch, TypeOK
<1>2. CASE SendtoCloses(l)
  BY <1>2 DEF SendtoCloses, CloseConnection, InBatch, TypeOK
<1>3. ASSUME NEW c \in Conns, OnMessageHangs(l, c)  PROVE Goal
  BY <1>3 DEF OnMessageHangs, Dispatches, CloseConnection, InBatch, TypeOK
<1>4. ASSUME PollStep(l) \/ RoundStep(l),
             ~ \E c \in Conns : OnMessageCloses(l, c) \/ OnMessageHangs(l, c),
             ~ SendtoCloses(l)
      PROVE  disc' = disc
  BY <1>4
  DEF PollStep, Poll, RoundStep, DispatchStep, OnMessage, HandleOnMessage,
      SkipRead,
      FinishEvent, HandleWakeUp, HandleTimer, EndRound, EvictTimedOut,
      UnlistClosed, EraseClosed, objects
<1>. QED  BY <1>1, <1>2, <1>3, <1>4

\* Every step keeps batches, the marked descriptors and new connections apart.
LEMMA RoundStepInv == TypeOK /\ MapInv /\ RoundInv /\ [Next]_vars => RoundInv'
<1> SUFFICES ASSUME TypeOK, MapInv, RoundInv, [Next]_vars  PROVE RoundInv'
  OBVIOUS
<1>1. CASE UNCHANGED <<pc, pend, cur, todo, disc, delayDel>>
  <2>1. BatchOwn'
    BY <1>1, NeverBack DEF RoundInv, BatchOwn, InBatch
  <2>2. BatchTime'
    BY <1>1 DEF RoundInv, BatchTime
  <2>3. NewOpen'
    BY <1>1, NeverBack DEF RoundInv, NewOpen, TypeOK
  <2>. QED  BY <2>1, <2>2, <2>3 DEF RoundInv
<1>2. ASSUME NEW l \in Loops, PollStep(l) \/ RoundStep(l)  PROVE RoundInv'
  <2>1. BatchTime'
    BY <1>2, BatchFrame DEF RoundInv
  <2>2. BatchOwn'
    <3> SUFFICES ASSUME NEW k \in Loops, NEW c \in Conns, InBatch(k, c)'
                 PROVE  /\ obj'[c] \in {"active", "freed"}
                        /\ fdOf'[c] \in Fds
                        /\ LoopOf(fdOf'[c]) = k
      BY DEF BatchOwn, LoopOf
    <3>1. /\ obj[c] \in {"active", "freed"}
          /\ fdOf[c] \in Fds
          /\ LoopOf(fdOf[c]) = k
      BY <1>2, BatchFrame DEF RoundInv, BatchOwn, TypeOK
    <3>. QED  BY <3>1, NeverBack
  <2>3. NewOpen'
    <3> SUFFICES ASSUME NEW c \in Conns,
                        obj'[c] \in {"unborn", "accepted", "created"}
                 PROVE  ~disc'[c]
      BY DEF NewOpen
    <3>1. obj[c] \in {"unborn", "accepted", "created"}
      BY NeverBack DEF TypeOK
    <3>2. disc'[c] = disc[c]
      BY <1>2, <3>1, CloseFrame DEF RoundInv, BatchOwn
    <3>. QED  BY <3>1, <3>2 DEF RoundInv, NewOpen
  <2>. QED  BY <2>1, <2>2, <2>3 DEF RoundInv
<1>. QED  BY <1>1, <1>2, RoundFrame

\* No round is under way when the server starts.
LEMMA RoundInit == Init => RoundInv
  BY ConnsAssumption
  DEF Init, RoundInv, BatchOwn, BatchTime, NewOpen, InBatch

\* A closed connection still in the map is marked, and the deletion under
\* way has not passed it by.
Marked(c) ==
    LET l == LoopOf(fdOf[c])
    IN  /\ fdOf[c] \in delayDel[l]
        /\ pc[l] # "poll"
        /\ pc[l] = "erase" => fdOf[c] \in todo[l]

ClosedMarked == \A c \in Conns : disc[c] /\ Registered(c) => Marked(c)

CoreInv == TypeOK /\ MapInv /\ RoundInv

\* No step registers a connection that is closed.
LEMMA ClosedStaysRegistered ==
  ASSUME CoreInv, CoreInv', [Next]_vars, NEW c \in Conns,
         disc'[c], Registered(c)'
  PROVE  Registered(c) /\ fdOf'[c] = fdOf[c] /\ fdOf[c] \in Fds
<1>1. obj'[c] \notin {"unborn", "accepted", "created"}
  BY DEF CoreInv, RoundInv, NewOpen
<1>2. fdOf'[c] \in Fds /\ clientMap'[fdOf'[c]] = c
  BY DEF Registered
<1>3. ASSUME NEW d \in Conns, NEW f \in Fds, Accept(d, f)
      PROVE  clientMap' = clientMap /\ fdOf'[c] = fdOf[c]
  BY <1>1, <1>3 DEF Accept, CoreInv, TypeOK, registries
<1>4. CASE MainStep
  <2>1. CASE CreateConnection
    <3>1. c # mainConn
      BY <1>1, <2>1 DEF CreateConnection, CoreInv, TypeOK
    <3>. QED
      BY <1>2, <2>1, <3>1 DEF CreateConnection, CoreInv, TypeOK, Registered
  <2>2. CASE DropSocket \/ NewConnection \/ AddToEpoll
    BY <1>2, <2>2
    DEF DropSocket, NewConnection, AddToEpoll, registries, objects, Registered
  <2>. QED  BY <1>4, <2>1, <2>2 DEF MainStep
<1>5. ASSUME NEW l \in Loops, NEW f \in Fds,
             EvictTimedOut(l, f) \/ EraseClosed(l, f)
      PROVE  Registered(c) /\ fdOf'[c] = fdOf[c] /\ fdOf[c] \in Fds
  <2>1. EraseFromMap(f) /\ fdOf' = fdOf
    BY <1>5 DEF EvictTimedOut, EraseClosed
  <2>. QED
    BY <1>2, <2>1, ConnsAssumption DEF EraseFromMap, CoreInv, TypeOK, Registered
<1>6. ASSUME NEW w \in Workers, WorkerDrop(w)
      PROVE  clientMap' = clientMap /\ fdOf'[c] = fdOf[c]
  BY <1>6 DEF WorkerDrop, registries
<1>. QED
  BY <1>2, <1>3, <1>4, <1>5, <1>6, MapFrame DEF Registered

\* A step of loop l keeps a closed connection marked, or marks it.
LEMMA MarkStep ==
  ASSUME CoreInv, NEW l \in Loops, PollStep(l) \/ RoundStep(l),
         NEW c \in Conns, Registered(c), Registered(c)', fdOf[c] \in Fds,
         fdOf'[c] = fdOf[c], disc[c] => Marked(c), disc'[c]
  PROVE  Marked(c)'
<1> DEFINE k == LoopOf(fdOf[c])
<1>1. k \in Loops
  BY LoopOfInLoops
<1>2. ASSUME /\ fdOf[c] \in delayDel'[k]
             /\ pc'[k] # "poll"
             /\ pc'[k] = "erase" => fdOf[c] \in todo'[k]
      PROVE  Marked(c)'
  BY <1>2 DEF Marked, LoopOf
<1>3. disc[c] => /\ fdOf[c] \in delayDel[k]
                 /\ pc[k] # "poll"
                 /\ pc[k] = "erase" => fdOf[c] \in todo[k]
  BY DEF Marked
<1>4. CASE ~disc[c]
  <2>1. InBatch(l, c)
    BY <1>4, CloseFrame DEF CoreInv
  <2>2. k = l
    BY <2>1 DEF CoreInv, RoundInv, BatchOwn
  <2>3. CASE \E d \in Conns : OnMessageCloses(l, d)
    BY <1>1, <1>2, <1>4, <2>2, <2>3
    DEF OnMessageCloses, Dispatches, CloseConnection, CoreInv, TypeOK
  <2>6. ASSUME NEW d \in Conns, OnMessageHangs(l, d)  PROVE Marked(c)'
    <3>1. /\ pc' = [pc EXCEPT ![l] = "hung"]
          /\ disc' = [disc EXCEPT ![d] = TRUE]
          /\ delayDel' = [delayDel EXCEPT ![l] = @ \cup {fdOf[d]}]
      BY <2>6 DEF OnMessageHangs, CloseConnection
    <3>2. c = d
      BY <1>4, <3>1 DEF CoreInv, TypeOK
    <3>. QED  BY <1>1, <1>2, <2>2, <3>1, <3>2 DEF CoreInv, TypeOK
  <2>4. CASE SendtoCloses(l)
    <3>1. pc[l] = "dispatch" /\ cur[l] = c
      BY <1>4, <2>4
      DEF SendtoCloses, CloseConnection, CoreInv, RoundInv, BatchTime, TypeOK
    <3>. QED
      BY <1>1, <1>2, <2>2, <2>4, <3>1
      DEF SendtoCloses, CloseConnection, CoreInv, TypeOK
  <2>5. CASE /\ ~ \E d \in Conns : \/ OnMessageCloses(l, d)
                                    \/ OnMessageHangs(l, d)
             /\ ~ SendtoCloses(l)
    <3>1. disc' = disc
      BY <2>5
      DEF PollStep, Poll, RoundStep, DispatchStep, OnMessage,
          HandleOnMessage, SkipRead,
          FinishEvent, HandleWakeUp, HandleTimer, EndRound, EvictTimedOut,
          UnlistClosed, EraseClosed, objects
    <3>. QED  BY <1>4, <3>1
  <2>. QED  BY <2>3, <2>4, <2>5, <2>6
<1>5. CASE disc[c]
  <2> USE <1>1, <1>3, <1>5 DEF CoreInv, TypeOK
  <2>1. ASSUME NEW batch \in SUBSET Conns, Poll(l, batch)  PROVE Marked(c)'
    BY <1>2, <2>1 DEF Poll, registries
  <2>2. ASSUME DispatchStep(l)  PROVE Marked(c)'
    <3>1. \A j \in Loops : delayDel[j] \subseteq delayDel'[j]
      <4>1. ASSUME NEW d \in Conns, CloseConnection(l, d)
            PROVE  \A j \in Loops : delayDel[j] \subseteq delayDel'[j]
        BY <4>1 DEF CloseConnection
      <4>2. delayDel' = delayDel \/ \E d \in Conns : CloseConnection(l, d)
        BY <2>2
        DEF DispatchStep, OnMessage, HandleOnMessage, OnMessageCloses,
          OnMessageHangs, SkipRead, FinishEvent,
          SendtoCloses, HandleWakeUp, HandleTimer, registries
      <4>. QED  BY <4>1, <4>2
    <3>2. CASE UNCHANGED <<pc, todo>>
      BY <1>2, <3>1, <3>2
    <3>3. ASSUME NEW kept \in 0 .. Len(lru[l]), HandleTimer(l, kept)
          PROVE  Marked(c)'
      <4>1. /\ \A j \in Loops \ {l} : pc'[j] = pc[j] /\ todo'[j] = todo[j]
            /\ pc'[l] \in {"dispatch", "evict"}
        BY <3>3 DEF HandleTimer
      <4>. QED  BY <1>2, <3>1, <4>1
    <3>4. ASSUME NEW d \in Conns, OnMessageHangs(l, d)  PROVE Marked(c)'
      <4>1. todo' = todo /\ pc' = [pc EXCEPT ![l] = "hung"]
        BY <3>4 DEF OnMessageHangs
      <4>. QED  BY <1>2, <3>1, <4>1
    <3>. QED
      BY <2>2, <3>2, <3>3, <3>4
      DEF DispatchStep, OnMessage, HandleOnMessage, OnMessageCloses,
          OnMessageHangs, SkipRead, FinishEvent,
          SendtoCloses, HandleWakeUp, round
  <2>3. CASE EndRound(l)
    BY <1>2, <2>3 DEF EndRound, registries
  <2>4. ASSUME NEW f \in Fds, EvictTimedOut(l, f)  PROVE Marked(c)'
    BY <1>2, <2>4 DEF EvictTimedOut
  <2>5. ASSUME NEW f \in Fds, UnlistClosed(l, f)  PROVE Marked(c)'
    BY <1>2, <2>5 DEF UnlistClosed
  <2>6. ASSUME NEW f \in Fds, EraseClosed(l, f)  PROVE Marked(c)'
    <3>1. fdOf[c] # f
      BY <2>6, ConnsAssumption DEF EraseClosed, EraseFromMap, Registered
    <3>. QED  BY <1>2, <2>6, <3>1 DEF EraseClosed
  <2>. QED
    BY <2>1, <2>2, <2>3, <2>4, <2>5, <2>6 DEF PollStep, RoundStep
<1>. QED  BY <1>4, <1>5

\* A closed connection that is still in the map stays marked for deletion.
LEMMA MarkedStep ==
  CoreInv /\ CoreInv' /\ ClosedMarked /\ [Next]_vars => ClosedMarked'
<1> SUFFICES ASSUME CoreInv, CoreInv', ClosedMarked, [Next]_vars,
                    NEW c \in Conns, disc'[c], Registered(c)'
             PROVE  Marked(c)'
  BY DEF ClosedMarked
<1>1. Registered(c) /\ fdOf'[c] = fdOf[c] /\ fdOf[c] \in Fds
  BY ClosedStaysRegistered
<1>2. CASE UNCHANGED <<pc, pend, cur, todo, disc, delayDel>>
  BY <1>1, <1>2 DEF ClosedMarked, Marked
<1>3. ASSUME NEW l \in Loops, PollStep(l) \/ RoundStep(l)  PROVE Marked(c)'
  BY <1>1, <1>3, MarkStep DEF ClosedMarked
<1>. QED  BY <1>2, <1>3, RoundFrame

\* The core invariant, and that closed connections are marked, hold throughout.
LEMMA CoreCorrect == Spec => [](CoreInv /\ ClosedMarked)
<1>1. Init => CoreInv /\ ClosedMarked
  BY TypeInit, MapInit, RoundInit DEF Init, CoreInv, ClosedMarked
<1>2. CoreInv /\ ClosedMarked /\ [Next]_vars => (CoreInv /\ ClosedMarked)'
  BY TypeStep, MapStep, PoolStep, RoundStepInv, MarkedStep
  DEF CoreInv, MapInv
<1>. QED  BY <1>1, <1>2, PTL DEF Spec

\* A loop never waits for events again with a closed connection left in the
\* map (EventLoop::loop, deleteConnection).
THEOREM RoundsAreComplete == Spec => []RoundLeavesNoneClosed
<1>1. ClosedMarked => RoundLeavesNoneClosed
  BY DEF ClosedMarked, Marked, RoundLeavesNoneClosed
<1>. QED  BY <1>1, CoreCorrect, PTL

-----------------------------------------------------------------------------
(* A server without a worker pool, whose clients are never idle for long.  *)

Busy == Workers = {} /\ MaxAge < Timeout

AgesBounded == \A c \in Conns : age[c] <= MaxAge

\* Nothing is evicted, nothing is held by a pool.
NoEviction ==
    /\ AgesBounded
    /\ poolq = <<>>
    /\ \A l \in Loops : pc[l] # "evict"

\* A live connection is in the map.
NoZombie == \A c \in Conns : Alive(c) => Registered(c)

\* What is marked for deletion, until it is deleted, is the descriptor of a
\* closed connection of that loop.
MarkedIsClosed ==
    \A l \in Loops : \A f \in delayDel[l] :
        /\ LoopOf(f) = l
        /\ pc[l] # "erase" \/ f \in todo[l] =>
              clientMap[f] # NoConn /\ disc[clientMap[f]]

\* A deletion under way only visits what is marked.
DeletionTodo ==
    \A l \in Loops : pc[l] \in {"unlist", "erase"} => todo[l] \subseteq delayDel[l]

\* The connection onconnect is setting up is in the map and not yet served.
MainHolds ==
    mainPc \in {"list", "activate"} =>
        obj[mainConn] = "created" /\ Registered(mainConn)

BatchAlive == \A l \in Loops, c \in Conns : InBatch(l, c) => Alive(c)

BusyInv ==
    /\ NoEviction
    /\ NoZombie
    /\ MarkedIsClosed
    /\ DeletionTodo
    /\ MainHolds
    /\ BatchAlive

\* While no client times out no sweep removes a connection.
LEMMA NoEvictionStep ==
  ASSUME Busy, TypeOK, NoEviction, [Next]_vars
  PROVE  NoEviction'
<1> USE AgesAssumption DEF NoEviction, AgesBounded, TypeOK
<1>1. ASSUME NEW l \in Loops, DispatchStep(l)  PROVE NoEviction'
  <2>1. \A c \in Conns : age'[c] = age[c] \/ age'[c] = 0
    BY <1>1
    DEF DispatchStep, OnMessage, HandleOnMessage, OnMessageCloses,
      OnMessageHangs, Touch,
        SkipRead, FinishEvent,
        SendtoCloses, HandleWakeUp, HandleTimer, objects
  <2>2. poolq' = poolq
    BY <1>1
    DEF Busy, DispatchStep, OnMessage, HandleOnMessage, OnMessageCloses,
        OnMessageHangs, SkipRead, FinishEvent,
        SendtoCloses, HandleWakeUp, HandleTimer, pool
  <2>3. \A k \in Loops : pc'[k] # "evict"
    <3>1. CASE pc' = pc
      BY <3>1
    <3>2. ASSUME NEW kept \in 0 .. Len(lru[l]), HandleTimer(l, kept)
          PROVE  \A k \in Loops : pc'[k] # "evict"
      <4> DEFINE popped == {i \in DOMAIN lru[l] : i > kept}
                 gone == {fdOf[lru[l][i]] : i \in {j \in popped : Alive(lru[l][j])}}
      <4>1. \A i \in popped : ~Alive(lru[l][i])
        <5> SUFFICES ASSUME NEW i \in popped, Alive(lru[l][i])  PROVE FALSE
          OBVIOUS
        <5>1. lru[l][i] \in Conns
          OBVIOUS
        <5>2. age[lru[l][i]] >= Timeout
          BY <3>2 DEF HandleTimer, IsTimeOut
        <5>. QED  BY <5>1, <5>2 DEF Busy
      <4>2. gone = {}
        BY <4>1
      <4>. HIDE DEF gone
      <4>3. pc' = [pc EXCEPT ![l] = IF gone = {} THEN "dispatch" ELSE "evict"]
        BY <3>2 DEF HandleTimer, gone
      <4>. QED  BY <4>2, <4>3
    <3>3. ASSUME NEW c \in Conns, OnMessageHangs(l, c)
          PROVE  \A k \in Loops : pc'[k] # "evict"
      BY <3>3 DEF OnMessageHangs
    <3>. QED
      BY <1>1, <3>1, <3>2, <3>3
      DEF DispatchStep, OnMessage, HandleOnMessage, OnMessageCloses,
          OnMessageHangs, SkipRead, FinishEvent,
          SendtoCloses, HandleWakeUp, round
  <2>4. ASSUME NEW c \in Conns  PROVE age'[c] <= MaxAge
    <3>1. age[c] <= MaxAge /\ 0 <= MaxAge
      OBVIOUS
    <3>. QED  BY <2>1, <3>1
  <2>5. poolq' = <<>>
    BY <2>2
  <2>. QED  BY <2>3, <2>4, <2>5
<1>2. ASSUME NEW l \in Loops,
             \/ TimerExpire(l)
             \/ PollStep(l)
             \/ EndRound(l)
             \/ \E f \in Fds : \/ UnlistClosed(l, f)
                               \/ EraseClosed(l, f)
                               \/ EvictTimedOut(l, f)
      PROVE  NoEviction'
  <2>1. UNCHANGED <<age, poolq>>
    BY <1>2
    DEF TimerExpire, PollStep, Poll, EndRound, UnlistClosed, EraseClosed,
        EvictTimedOut, objects, pool
  <2>2. \A k \in Loops : pc'[k] # "evict"
    BY <1>2
    DEF TimerExpire, PollStep, Poll, EndRound, UnlistClosed, EraseClosed,
        EvictTimedOut, round
  <2>. QED  BY <2>1, <2>2
<1>3. ASSUME NEW c \in Conns, NEW f \in Fds, Accept(c, f)  PROVE NoEviction'
  BY <1>3 DEF Accept, round, pool
<1>4. CASE MainStep
  <2>1. UNCHANGED <<pc, poolq>>
    BY <1>4 DEF MainStep, DropSocket, CreateConnection, NewConnection,
                AddToEpoll, round, pool
  <2>2. age' = age \/ age' = [age EXCEPT ![mainConn] = 0]
    BY <1>4 DEF MainStep, DropSocket, CreateConnection, NewConnection,
                AddToEpoll, objects
  <2>3. ASSUME NEW c \in Conns  PROVE age'[c] <= MaxAge
    <3>1. age[c] <= MaxAge /\ 0 <= MaxAge
      OBVIOUS
    <3>2. age'[c] = age[c] \/ age'[c] = 0
      BY <2>2
    <3>. QED  BY <3>1, <3>2
  <2>. QED  BY <2>1, <2>3
<1>5. CASE Tick
  BY <1>5 DEF Tick, round, pool
<1>6. CASE UNCHANGED vars
  BY <1>6 DEF vars, objects, round, pool
<1>. QED
  BY <1>1, <1>2, <1>3, <1>4, <1>5, <1>6 DEF Busy, Next, RoundStep

\* Deleting a marked descriptor destroys one closed connection, which is
\* neither in a batch nor being set up.
LEMMA DeletionIsSafe ==
  ASSUME CoreInv, BusyInv, NEW l \in Loops, NEW f \in Fds, EraseClosed(l, f)
  PROVE  /\ disc[clientMap[f]]
         /\ clientMap[f] \in Conns
         /\ obj[clientMap[f]] = "active"
         /\ fdOf[clientMap[f]] = f
         /\ \A k \in Loops : ~InBatch(k, clientMap[f])
<1>1. f \in delayDel[l] /\ LoopOf(f) = l
  BY DEF EraseClosed, BusyInv, DeletionTodo, MarkedIsClosed
<1>2. clientMap[f] \in Conns /\ disc[clientMap[f]]
  BY <1>1 DEF EraseClosed, BusyInv, MarkedIsClosed, CoreInv, TypeOK
<1>3. Alive(clientMap[f]) /\ fdOf[clientMap[f]] = f
  BY <1>2, ConnsAssumption DEF CoreInv, MapInv, MapSound
<1>4. obj[clientMap[f]] = "active"
  BY <1>2, <1>3 DEF CoreInv, RoundInv, NewOpen, Alive
<1>5. ASSUME NEW k \in Loops, InBatch(k, clientMap[f])  PROVE FALSE
  <2>1. k = l
    BY <1>1, <1>2, <1>3, <1>5 DEF CoreInv, RoundInv, BatchOwn
  <2>2. pc[l] \in {"dispatch", "evict"}
    BY <1>2, <1>5, <2>1, ConnsAssumption
    DEF CoreInv, RoundInv, BatchTime, InBatch
  <2>. QED  BY <2>2 DEF EraseClosed
<1>. QED  BY <1>2, <1>3, <1>4, <1>5

\* Without workers, erasing the entry of a connection destroys it at once.
LEMMA EraseFreesBusy ==
  ASSUME Busy, CoreInv, BusyInv, NEW f \in Fds, EraseFromMap(f), NEW c \in Conns
  PROVE  obj'[c] = IF clientMap[f] = c THEN "freed" ELSE obj[c]
<1>1. ~HeldByPool(c)
  BY DEF Busy, BusyInv, NoEviction, HeldByPool
<1>2. obj'[c] = IF clientMap[f] = c /\ ~HeldByPool(c) THEN "freed" ELSE obj[c]
  BY Zenon DEF EraseFromMap
<1>. QED  BY <1>1, <1>2

\* Outside the map's own steps, a live connection stays live and registered.
LEMMA MainHoldsStep ==
  ASSUME Busy, CoreInv, CoreInv', BusyInv, NoEviction', [Next]_vars
  PROVE  MainHolds' /\ NoZombie' /\ BatchAlive'
<1> DEFINE Goal == MainHolds' /\ NoZombie' /\ BatchAlive'
<1> USE DEF BusyInv, MainHolds, NoZombie, BatchAlive, Alive, Registered
<1>1. ASSUME NEW c \in Conns, NEW f \in Fds, Accept(c, f)  PROVE Goal
  <2>1. c # NoConn /\ obj[c] = "unborn"
    BY <1>1, ConnsAssumption DEF Accept
  <2>2. /\ obj' = [obj EXCEPT ![c] = "accepted"]
        /\ fdOf' = [fdOf EXCEPT ![c] = f]
        /\ mainPc' = "create"
        /\ UNCHANGED <<clientMap, pend, cur>>
    BY <1>1 DEF Accept, registries, round
  <2>. QED  BY <2>1, <2>2 DEF CoreInv, TypeOK, InBatch
<1>2. CASE DropSocket
  <2>1. mainConn \in Conns /\ obj[mainConn] = "accepted"
    BY <1>2 DEF DropSocket, CoreInv, TypeOK, MapInv, MainOwns
  <2>2. /\ obj' = [obj EXCEPT ![mainConn] = "freed"]
        /\ mainPc' = "accept"
        /\ UNCHANGED <<fdOf, clientMap, pend, cur>>
    BY <1>2 DEF DropSocket, registries, round
  <2>. QED  BY <2>1, <2>2 DEF CoreInv, TypeOK, InBatch
<1>3. CASE CreateConnection
  <2>1. /\ mainConn \in Conns
        /\ obj[mainConn] = "accepted"
        /\ fdOf[mainConn] \in Fds
        /\ clientMap[fdOf[mainConn]] = NoConn
    BY <1>3, FreshEntry DEF CreateConnection, CoreInv
  <2>2. /\ obj' = [obj EXCEPT ![mainConn] = "created"]
        /\ clientMap' = [clientMap EXCEPT ![fdOf[mainConn]] = mainConn]
        /\ mainPc' = "list"
        /\ UNCHANGED <<fdOf, mainConn, pend, cur>>
    BY <1>3 DEF CreateConnection, round
  <2>3. MainHolds' /\ BatchAlive'
    BY <2>1, <2>2 DEF CoreInv, TypeOK, InBatch
  <2>4. NoZombie'
    BY <2>1, <2>2, ConnsAssumption DEF CoreInv, TypeOK
  <2>. QED  BY <2>3, <2>4
<1>4. CASE NewConnection
  BY <1>4 DEF NewConnection, objects, round, InBatch
<1>5. CASE AddToEpoll
  <2>1. mainConn \in Conns /\ obj[mainConn] = "created" /\ Registered(mainConn)
    BY <1>5 DEF AddToEpoll, CoreInv, TypeOK
  <2>2. /\ obj' = [obj EXCEPT ![mainConn] = "active"]
        /\ mainPc' = "accept"
        /\ UNCHANGED <<fdOf, clientMap, pend, cur>>
    BY <1>5 DEF AddToEpoll, registries, round
  <2>. QED  BY <2>1, <2>2 DEF CoreInv, TypeOK, InBatch
<1>6. ASSUME NEW l \in Loops, NEW f \in Fds, EraseClosed(l, f)  PROVE Goal
  <2>1. EraseFromMap(f) /\ UNCHANGED <<fdOf, mainPc, mainConn, pend, cur>>
    BY <1>6 DEF EraseClosed, mainVars
  <2>2. clientMap' = [clientMap EXCEPT ![f] = NoConn]
    BY <2>1 DEF EraseFromMap
  <2>3. ASSUME NEW c \in Conns
        PROVE  obj'[c] = IF clientMap[f] = c THEN "freed" ELSE obj[c]
    BY <2>1, EraseFreesBusy
  <2>4. /\ clientMap[f] \in Conns
        /\ obj[clientMap[f]] = "active"
        /\ fdOf[clientMap[f]] = f
        /\ \A k \in Loops : ~InBatch(k, clientMap[f])
    BY <1>6, DeletionIsSafe
  <2>5. BatchAlive'
    BY <2>1, <2>3, <2>4 DEF InBatch
  <2>6. NoZombie'
    <3> SUFFICES ASSUME NEW c \in Conns, obj'[c] \in {"created", "active"}
                 PROVE  fdOf[c] \in Fds /\ clientMap'[fdOf[c]] = c
      BY <2>1
    <3>1. clientMap[f] # c /\ obj[c] \in {"created", "active"}
      BY <2>3
    <3>2. fdOf[c] \in Fds /\ clientMap[fdOf[c]] = c
      BY <3>1
    <3>. QED  BY <2>2, <3>1, <3>2 DEF CoreInv, TypeOK
  <2>7. MainHolds'
    <3> SUFFICES ASSUME mainPc \in {"list", "activate"}
                 PROVE  /\ obj'[mainConn] = "created"
                        /\ fdOf[mainConn] \in Fds
                        /\ clientMap'[fdOf[mainConn]] = mainConn
      BY <2>1
    <3>1. mainConn \in Conns /\ clientMap[f] # mainConn
      BY <2>4 DEF CoreInv, TypeOK
    <3>2. fdOf[mainConn] # f
      BY <3>1
    <3>. QED  BY <2>2, <2>3, <3>1, <3>2 DEF CoreInv, TypeOK
  <2>. QED  BY <2>5, <2>6, <2>7
<1>7. ASSUME NEW l \in Loops, PollStep(l) \/ RoundStep(l),
             UNCHANGED <<obj, fdOf, clientMap, mainPc, mainConn>>
      PROVE  Goal
  <2>1. BatchAlive'
    BY <1>7, BatchFrame DEF CoreInv, RoundInv
  <2>. QED  BY <1>7, <2>1
<1>8. CASE UNCHANGED <<obj, fdOf, clientMap, mainPc, mainConn, pend, cur>>
  BY <1>8 DEF InBatch
<1>9. ASSUME NEW l \in Loops, NEW f \in Fds, EvictTimedOut(l, f)  PROVE FALSE
  BY <1>9 DEF EvictTimedOut, NoEviction
<1>. QED
  BY <1>1, <1>2, <1>3, <1>4, <1>5, <1>6, <1>7, <1>8, <1>9, MapFrame,
     RoundFrame
  DEF MainStep, Busy

\* In a busy server a descriptor marked for deletion is that of a closed
\* connection, until it has been deleted.
LEMMA MarkedIsClosedStep ==
  ASSUME Busy, CoreInv, CoreInv', BusyInv, [Next]_vars
  PROVE  MarkedIsClosed' /\ DeletionTodo'
<1> DEFINE Goal == MarkedIsClosed' /\ DeletionTodo'
<1> USE DEF BusyInv, MarkedIsClosed, DeletionTodo, LoopOf
\* registering a new connection
<1>1. CASE CreateConnection
  <2>1. /\ mainConn \in Conns
        /\ fdOf[mainConn] \in Fds
        /\ clientMap[fdOf[mainConn]] = NoConn
    BY <1>1, FreshEntry DEF CreateConnection, CoreInv
  <2>. QED
    BY <1>1, <2>1 DEF CreateConnection, CoreInv, TypeOK, round
<1>2. CASE UNCHANGED <<pc, todo, disc, delayDel, clientMap>>
  BY <1>2
<1>3. ASSUME NEW c \in Conns, NEW f \in Fds, Accept(c, f)
      PROVE  UNCHANGED <<pc, todo, disc, delayDel, clientMap>>
  BY <1>3 DEF Accept, registries, round
<1>4. CASE MainStep /\ ~CreateConnection
  BY <1>2, <1>4 DEF MainStep, DropSocket, NewConnection, AddToEpoll, round,
                    registries, objects
<1>5. CASE Tick \/ UNCHANGED vars
  BY <1>2, <1>5 DEF Tick, vars, objects, registries, round
<1>6. ASSUME NEW l \in Loops, TimerExpire(l)
      PROVE  UNCHANGED <<pc, todo, disc, delayDel, clientMap>>
  BY <1>6 DEF TimerExpire, objects, registries, round
<1>7. ASSUME NEW l \in Loops, NEW batch \in SUBSET Conns, Poll(l, batch)
      PROVE  Goal
  BY <1>7 DEF Poll, objects, registries, CoreInv, TypeOK
\* closing a connection of the batch
<1>8. ASSUME NEW l \in Loops, NEW c \in Conns, InBatch(l, c),
             CloseConnection(l, c), UNCHANGED <<pc, todo, clientMap>>,
             pc[l] = "dispatch"
      PROVE  Goal
  <2>1. /\ fdOf[c] \in Fds
        /\ LoopOf(fdOf[c]) = l
        /\ clientMap[fdOf[c]] = c
    BY <1>8 DEF CoreInv, RoundInv, BatchOwn, BatchAlive, NoZombie, Registered
  <2>2. \A d \in Conns : disc[d] => disc'[d]
    BY <1>8 DEF CloseConnection, CoreInv, TypeOK
  <2>3. /\ disc'[c]
        /\ delayDel' = [delayDel EXCEPT ![l] = @ \cup {fdOf[c]}]
    BY <1>8 DEF CloseConnection, CoreInv, TypeOK
  <2>4. DeletionTodo'
    BY <1>8, <2>3 DEF CoreInv, TypeOK
  <2>5. MarkedIsClosed'
    BY <1>8, <2>1, <2>2, <2>3, ConnsAssumption DEF CoreInv, TypeOK
  <2>. QED  BY <2>4, <2>5
<1>9. ASSUME NEW l \in Loops, NEW c \in Conns, OnMessageCloses(l, c)
      PROVE  Goal
  BY <1>8, <1>9 DEF OnMessageCloses, Dispatches, InBatch
\* closing one, and the loop hangs
<1>18. ASSUME NEW l \in Loops, NEW c \in Conns, OnMessageHangs(l, c)
       PROVE  Goal
  <2>1. /\ c \in pend[l] /\ pc[l] = "dispatch"
        /\ disc' = [disc EXCEPT ![c] = TRUE]
        /\ delayDel' = [delayDel EXCEPT ![l] = @ \cup {fdOf[c]}]
        /\ pc' = [pc EXCEPT ![l] = "hung"]
        /\ UNCHANGED <<todo, clientMap>>
    BY <1>18 DEF OnMessageHangs, Dispatches, CloseConnection
  <2>2. /\ fdOf[c] \in Fds
        /\ LoopOf(fdOf[c]) = l
        /\ clientMap[fdOf[c]] = c
    BY <2>1 DEF CoreInv, RoundInv, BatchOwn, BatchAlive, NoZombie, Registered,
                InBatch
  <2>3. disc'[c] /\ \A d \in Conns : disc[d] => disc'[d]
    BY <2>1 DEF CoreInv, TypeOK
  <2>4. DeletionTodo'
    BY <2>1 DEF CoreInv, TypeOK
  <2>5. MarkedIsClosed'
    <3> SUFFICES ASSUME NEW k \in Loops, NEW g \in delayDel'[k]
                 PROVE  /\ LoopOf(g) = k
                        /\ pc'[k] # "erase" \/ g \in todo'[k] =>
                             clientMap'[g] # NoConn /\ disc'[clientMap'[g]]
      OBVIOUS
    <3>1. CASE g \in delayDel[k]
      <4>1. LoopOf(g) = k
        BY <3>1
      <4>2. ASSUME pc'[k] # "erase" \/ g \in todo'[k]
            PROVE  pc[k] # "erase" \/ g \in todo[k]
        BY <2>1, <4>2 DEF CoreInv, TypeOK
      <4>3. clientMap[g] \in Conns \cup {NoConn}
        BY <3>1 DEF CoreInv, TypeOK
      <4>. QED  BY <2>1, <2>3, <3>1, <4>1, <4>2, <4>3
    <3>2. CASE g \notin delayDel[k]
      <4>1. k = l /\ g = fdOf[c]
        BY <2>1, <3>2 DEF CoreInv, TypeOK
      <4>. QED  BY <2>1, <2>2, <2>3, <4>1, ConnsAssumption
    <3>. QED  BY <3>1, <3>2
  <2>. QED  BY <2>4, <2>5
<1>10. ASSUME NEW l \in Loops, SendtoCloses(l)  PROVE Goal
  <2>1. cur[l] \in Conns /\ pc[l] = "dispatch"
    BY <1>10 DEF SendtoCloses, CoreInv, TypeOK, RoundInv, BatchTime
  <2>. QED  BY <1>8, <1>10, <2>1 DEF SendtoCloses, InBatch
<1>11. ASSUME NEW l \in Loops, NEW c \in Conns, OnMessage(l, c) \/ SkipRead(l, c)
       PROVE  UNCHANGED <<pc, todo, disc, delayDel, clientMap>>
  BY <1>11 DEF OnMessage, HandleOnMessage, SkipRead, objects, registries
<1>12. ASSUME NEW l \in Loops, FinishEvent(l) \/ HandleWakeUp(l)
       PROVE  UNCHANGED <<pc, todo, disc, delayDel, clientMap>>
  BY <1>12 DEF FinishEvent, HandleWakeUp, objects, registries, round
<1>13. ASSUME NEW l \in Loops, NEW kept \in 0 .. Len(lru[l]), HandleTimer(l, kept)
       PROVE  Goal
  <2>1. /\ pc[l] = "dispatch"
        /\ \E p \in {"dispatch", "evict"} : pc' = [pc EXCEPT ![l] = p]
        /\ \A k \in Loops \ {l} : todo'[k] = todo[k]
        /\ UNCHANGED <<disc, delayDel, clientMap>>
    <3>1. /\ pc[l] = "dispatch"
          /\ UNCHANGED <<disc, delayDel, clientMap>>
          /\ \E p \in {"dispatch", "evict"} : pc' = [pc EXCEPT ![l] = p]
      BY <1>13 DEF HandleTimer, objects
    <3>2. PICK gone : todo' = [todo EXCEPT ![l] = gone]
      BY <1>13 DEF HandleTimer
    <3>3. \A k \in Loops \ {l} : todo'[k] = todo[k]
      BY <3>2 DEF CoreInv, TypeOK
    <3>. QED  BY <3>1, <3>3
  <2>. QED  BY <2>1 DEF CoreInv, TypeOK
<1>14. ASSUME NEW l \in Loops, EndRound(l)  PROVE Goal
  BY <1>14 DEF EndRound, objects, registries, CoreInv, TypeOK
<1>15. ASSUME NEW l \in Loops, NEW f \in Fds, UnlistClosed(l, f)  PROVE Goal
  BY <1>15 DEF UnlistClosed, objects, CoreInv, TypeOK
\* deleting one
<1>16. ASSUME NEW l \in Loops, NEW f \in Fds, EraseClosed(l, f)  PROVE Goal
  <2>1. /\ pc[l] = "erase" /\ f \in todo[l] /\ LoopOf(f) = l
        /\ clientMap' = [clientMap EXCEPT ![f] = NoConn]
        /\ todo' = [todo EXCEPT ![l] = @ \ {f}]
        /\ disc' = disc
    BY <1>16 DEF EraseClosed, EraseFromMap
  <2>2. CASE /\ todo[l] = {f}
             /\ pc' = [pc EXCEPT ![l] = "poll"]
             /\ delayDel' = [delayDel EXCEPT ![l] = {}]
    <3>1. DeletionTodo'
      BY <2>1, <2>2 DEF CoreInv, TypeOK
    <3>2. MarkedIsClosed'
      <4> SUFFICES ASSUME NEW k \in Loops, NEW g \in delayDel'[k]
                   PROVE  /\ g % NumLoops = k
                          /\ pc'[k] # "erase" \/ g \in todo'[k] =>
                               clientMap'[g] # NoConn /\ disc'[clientMap'[g]]
        OBVIOUS
      <4>1. k # l /\ g \in delayDel[k] /\ pc'[k] = pc[k] /\ todo'[k] = todo[k]
        BY <2>1, <2>2 DEF CoreInv, TypeOK
      <4>2. g % NumLoops = k /\ g # f
        BY <2>1, <4>1
      <4>3. g \in Fds /\ clientMap'[g] = clientMap[g]
        BY <2>1, <4>1, <4>2 DEF CoreInv, TypeOK
      <4>. QED  BY <2>1, <4>1, <4>2, <4>3
    <3>. QED  BY <3>1, <3>2
  <2>3. CASE UNCHANGED <<pc, delayDel>>
    BY <2>1, <2>3 DEF CoreInv, TypeOK
  <2>. QED  BY <1>16, <2>2, <2>3 DEF EraseClosed
<1>17. ASSUME NEW l \in Loops, NEW f \in Fds, EvictTimedOut(l, f)  PROVE FALSE
  BY <1>17 DEF EvictTimedOut, NoEviction
<1>. QED
  BY <1>1, <1>2, <1>3, <1>4, <1>5, <1>6, <1>7, <1>9, <1>10, <1>11, <1>12,
     <1>13, <1>14, <1>15, <1>16, <1>17, <1>18
  DEF Busy, Next, PollStep, RoundStep, DispatchStep

\* Nothing is used after it is destroyed, and the right things are deleted, in
\* every reachable state of a busy server without workers.
LEMMA BusyCorrect ==
  ASSUME Busy
  PROVE  Spec => [](CoreInv /\ BusyInv)
<1> DEFINE Inv == CoreInv /\ BusyInv
<1>1. Init => Inv
  <2> SUFFICES ASSUME Init  PROVE Inv
    OBVIOUS
  <2>1. CoreInv
    BY TypeInit, MapInit, RoundInit DEF CoreInv
  <2>2. BusyInv
    BY ConnsAssumption, AgesAssumption
    DEF Init, BusyInv, NoEviction, AgesBounded, NoZombie, MarkedIsClosed,
        DeletionTodo, MainHolds, BatchAlive, InBatch, Alive
  <2>. QED  BY <2>1, <2>2
<1>2. Inv /\ [Next]_vars => Inv'
  <2> SUFFICES ASSUME Inv, [Next]_vars  PROVE Inv'
    OBVIOUS
  <2>1. CoreInv'
    BY TypeStep, MapStep, PoolStep, RoundStepInv DEF CoreInv, MapInv
  <2>2. NoEviction'
    BY NoEvictionStep DEF CoreInv, BusyInv
  <2>. QED
    BY <2>1, <2>2, MainHoldsStep, MarkedIsClosedStep DEF BusyInv
<1>. QED  BY <1>1, <1>2, PTL DEF Spec

\* In a busy server without workers no loop uses a destroyed connection.
THEOREM BusyServerIsSound ==
  ASSUME Busy
  PROVE  Spec => []NoDanglingChannel
<1>1. CoreInv /\ BusyInv => NoDanglingChannel
  BY DEF BusyInv, BatchAlive, InBatch, NoDanglingChannel, CoreInv, TypeOK
<1>. QED  BY <1>1, BusyCorrect, PTL

\* There, deleteConnection erases closed connections only.
THEOREM BusyErasesOnlyClosed ==
  ASSUME Busy
  PROVE  Spec => []OnlyClosedAreErased
<1>1. CoreInv /\ BusyInv => OnlyClosedAreErased
  BY DEF BusyInv, MarkedIsClosed, DeletionTodo, OnlyClosedAreErased
<1>. QED  BY <1>1, BusyCorrect, PTL

\* There, createconnection finds the connection it has put in the map.
THEOREM BusyMainFindsConnection ==
  ASSUME Busy
  PROVE  Spec => []MainFindsConnection
<1>1. CoreInv /\ BusyInv => MainFindsConnection
  BY DEF BusyInv, MainHolds, Registered, MainFindsConnection
<1>. QED  BY <1>1, BusyCorrect, PTL

-----------------------------------------------------------------------------
(* The life the server promises a connection.                              *)

\* A step that leaves the objects alone is a stutter.
LEMMA StageKept ==
  ASSUME UNCHANGED <<obj, fdOf, disc>>
  PROVE  UNCHANGED Lifecycle!vars
  BY DEF Lifecycle!vars, Stage

\* A step that moves one connection on is a turn of its life, or a stutter.
LEMMA StageTurns ==
  ASSUME TypeOK, TypeOK', NEW c \in Conns, fdOf' = fdOf,
         \A d \in Conns \ {c} : obj'[d] = obj[d] /\ disc'[d] = disc[d],
         \/ Stage(c)' = Stage(c)
         \/ Stage(c) = "arriving" /\ Stage(c)' \in {"served", "gone"}
         \/ Stage(c) = "served" /\ Stage(c)' = "closing"
         \/ Stage(c) = "closing" /\ Stage(c)' = "gone"
  PROVE  [Lifecycle!Next]_(Lifecycle!vars)
<1> DEFINE S == [d \in Conns |-> Stage(d)]
<1>1. \A d \in Conns \ {c} : Stage(d)' = Stage(d)
  BY DEF Stage
<1>2. S' = [S EXCEPT ![c] = Stage(c)']
  BY <1>1
<1>3. CASE Stage(c)' = Stage(c)
  <2>1. S' = S
    BY <1>1, <1>3
  <2>. QED  BY <2>1 DEF Lifecycle!vars
<1>4. CASE \/ Stage(c) = "arriving" /\ Stage(c)' \in {"served", "gone"}
           \/ Stage(c) = "served" /\ Stage(c)' = "closing"
           \/ Stage(c) = "closing" /\ Stage(c)' = "gone"
  <2>1. S[c] = Stage(c)
    OBVIOUS
  <2> HIDE DEF S
  <2>2. /\ S[c] \in DOMAIN Lifecycle!Later
        /\ Stage(c)' \in Lifecycle!Later[S[c]]
    BY <1>4, <2>1 DEF Lifecycle!Later
  <2>3. \E s \in Lifecycle!Later[S[c]] : S' = [S EXCEPT ![c] = s]
    BY <1>2, <2>2
  <2>4. Lifecycle!Turn(c)
    BY <2>2, <2>3 DEF Lifecycle!Turn, S
  <2>. QED  BY <2>4 DEF Lifecycle!Next
<1>. QED  BY <1>3, <1>4

\* A step either leaves the objects alone or is one of these.
LEMMA ObjectFrame ==
  ASSUME Busy, NoEviction, [Next]_vars
  PROVE  \/ \E c \in Conns, f \in Fds : Accept(c, f)
         \/ DropSocket \/ CreateConnection \/ AddToEpoll
         \/ \E l \in Loops, c \in Conns : \/ OnMessageCloses(l, c)
                                         \/ OnMessageHangs(l, c)
         \/ \E l \in Loops : SendtoCloses(l)
         \/ \E l \in Loops, f \in Fds : EraseClosed(l, f)
         \/ UNCHANGED <<obj, fdOf, disc>>
<1>1. ASSUME NEW l \in Loops, DispatchStep(l)
      PROVE  \/ \E c \in Conns : OnMessageCloses(l, c) \/ OnMessageHangs(l, c)
             \/ SendtoCloses(l)
             \/ UNCHANGED <<obj, fdOf, disc>>
  BY <1>1 DEF DispatchStep, OnMessage, SkipRead, FinishEvent, HandleWakeUp,
              HandleTimer, objects
<1>2. ASSUME NEW l \in Loops, NEW f \in Fds, EvictTimedOut(l, f)  PROVE FALSE
  BY <1>2 DEF EvictTimedOut, NoEviction
<1>3. ASSUME NEW l \in Loops,
             \/ TimerExpire(l) \/ PollStep(l) \/ EndRound(l)
             \/ \E f \in Fds : UnlistClosed(l, f)
      PROVE  UNCHANGED <<obj, fdOf, disc>>
  BY <1>3 DEF TimerExpire, PollStep, Poll, EndRound, UnlistClosed, objects
<1>4. CASE MainStep
  BY <1>4 DEF MainStep, NewConnection, objects
<1>5. CASE Tick \/ UNCHANGED vars
  BY <1>5 DEF Tick, vars, objects
<1>. QED
  BY <1>1, <1>2, <1>3, <1>4, <1>5 DEF Busy, Next, RoundStep

\* Every step of the busy server is a turn of one connection's life.
LEMMA LifecycleStep ==
  ASSUME Busy, CoreInv, BusyInv, TypeOK', [Next]_vars
  PROVE  [Lifecycle!Next]_(Lifecycle!vars)
<1> USE DEF CoreInv
<1>1. ASSUME NEW c \in Conns, NEW f \in Fds, Accept(c, f)
      PROVE  Lifecycle!Next
  <2> DEFINE S == [d \in Conns |-> Stage(d)]
  <2>1. /\ obj' = [obj EXCEPT ![c] = "accepted"] /\ obj[c] = "unborn"
        /\ disc' = disc /\ fdOf' = [fdOf EXCEPT ![c] = f]
    BY <1>1 DEF Accept
  <2>2. /\ Stage(c) = "unknown" /\ Stage(c)' = "arriving"
        /\ \A d \in Conns \ {c} : Stage(d)' = Stage(d)
    BY <2>1 DEF Stage, TypeOK
  <2>3. S' = [S EXCEPT ![c] = "arriving"]
    BY <2>2
  <2>4. \A d \in Conns : fdOf[d] = f => S[d] \in {"unknown", "gone"}
    BY <1>1 DEF Accept, FdFree, Stage
  <2>5. S[c] = "unknown"
    BY <2>2
  <2>6. Lifecycle!Arrive(c, f)
    BY <2>1, <2>3, <2>4, <2>5 DEF Lifecycle!Arrive
  <2>. QED  BY <2>6 DEF Lifecycle!Next
<1>2. CASE DropSocket
  <2>1. mainConn \in Conns /\ obj[mainConn] = "accepted"
    BY <1>2 DEF DropSocket, TypeOK, MapInv, MainOwns
  <2>2. /\ obj' = [obj EXCEPT ![mainConn] = "freed"]
        /\ fdOf' = fdOf /\ disc' = disc
    BY <1>2 DEF DropSocket
  <2>3. PICK c \in Conns : c = mainConn
    BY <2>1
  <2>4. Stage(c) = "arriving" /\ Stage(c)' = "gone"
    BY <2>1, <2>2, <2>3 DEF Stage, TypeOK
  <2>5. \A d \in Conns \ {c} : obj'[d] = obj[d] /\ disc'[d] = disc[d]
    BY <2>2, <2>3 DEF TypeOK
  <2>. QED  BY <2>2, <2>4, <2>5, StageTurns
<1>3. CASE CreateConnection
  <2>1. mainConn \in Conns /\ obj[mainConn] = "accepted"
    BY <1>3 DEF CreateConnection, TypeOK, MapInv, MainOwns
  <2>2. /\ obj' = [obj EXCEPT ![mainConn] = "created"]
        /\ fdOf' = fdOf /\ disc' = disc
    BY <1>3 DEF CreateConnection
  <2>3. PICK c \in Conns : c = mainConn
    BY <2>1
  <2>4. Stage(c)' = Stage(c)
    BY <2>1, <2>2, <2>3 DEF Stage, TypeOK
  <2>5. \A d \in Conns \ {c} : obj'[d] = obj[d] /\ disc'[d] = disc[d]
    BY <2>2, <2>3 DEF TypeOK
  <2>. QED  BY <2>2, <2>4, <2>5, StageTurns
<1>4. CASE AddToEpoll
  <2>1. mainConn \in Conns /\ obj[mainConn] = "created" /\ ~disc[mainConn]
    BY <1>4 DEF AddToEpoll, TypeOK, BusyInv, MainHolds, RoundInv, NewOpen
  <2>2. /\ obj' = [obj EXCEPT ![mainConn] = "active"]
        /\ fdOf' = fdOf /\ disc' = disc
    BY <1>4 DEF AddToEpoll
  <2>3. PICK c \in Conns : c = mainConn
    BY <2>1
  <2>4. Stage(c) = "arriving" /\ Stage(c)' = "served"
    BY <2>1, <2>2, <2>3 DEF Stage, TypeOK
  <2>5. \A d \in Conns \ {c} : obj'[d] = obj[d] /\ disc'[d] = disc[d]
    BY <2>2, <2>3 DEF TypeOK
  <2>. QED  BY <2>2, <2>4, <2>5, StageTurns
<1>5. ASSUME NEW c \in Conns,
             obj[c] \in {"active", "freed"}, Alive(c), UNCHANGED <<obj, fdOf>>,
             disc' = [disc EXCEPT ![c] = TRUE]
      PROVE  [Lifecycle!Next]_(Lifecycle!vars)
  <2>1. Stage(c) \in {"served", "closing"} /\ Stage(c)' = "closing"
    BY <1>5 DEF Stage, Alive, TypeOK
  <2>2. \A d \in Conns \ {c} : obj'[d] = obj[d] /\ disc'[d] = disc[d]
    BY <1>5 DEF TypeOK
  <2>. QED  BY <1>5, <2>1, <2>2, StageTurns
<1>6. ASSUME NEW l \in Loops, NEW c \in Conns,
             OnMessageCloses(l, c) \/ OnMessageHangs(l, c)
      PROVE  [Lifecycle!Next]_(Lifecycle!vars)
  <2>1. /\ Dispatches(l, c) /\ CloseConnection(l, c)
        /\ UNCHANGED <<obj, fdOf>>
    BY <1>6 DEF OnMessageCloses, OnMessageHangs
  <2>2. obj[c] \in {"active", "freed"} /\ Alive(c)
    BY <2>1 DEF Dispatches, RoundInv, BatchOwn, InBatch
  <2>. QED  BY <1>5, <2>1, <2>2 DEF CloseConnection
<1>7. ASSUME NEW l \in Loops, SendtoCloses(l)
      PROVE  [Lifecycle!Next]_(Lifecycle!vars)
  <2>1. cur[l] \in Conns
    BY <1>7 DEF SendtoCloses, TypeOK
  <2>2. obj[cur[l]] \in {"active", "freed"} /\ Alive(cur[l])
    BY <1>7, <2>1 DEF SendtoCloses, RoundInv, BatchOwn, InBatch
  <2>. QED  BY <1>5, <1>7, <2>1, <2>2 DEF SendtoCloses, CloseConnection
<1>8. ASSUME NEW l \in Loops, NEW f \in Fds, EraseClosed(l, f)
      PROVE  [Lifecycle!Next]_(Lifecycle!vars)
  <2>2. PICK c \in Conns : c = clientMap[f] /\ disc[c] /\ obj[c] = "active"
    BY <1>8, DeletionIsSafe
  <2>4. fdOf' = fdOf /\ disc' = disc /\ EraseFromMap(f)
    BY <1>8 DEF EraseClosed
  <2>5. /\ obj'[c] \in {"active", "freed"}
        /\ \A d \in Conns \ {c} : obj'[d] = obj[d] /\ disc'[d] = disc[d]
    BY <2>2, <2>4, EraseFrees
  <2>6. Stage(c) = "closing" /\ Stage(c)' \in {"closing", "gone"}
    BY <2>2, <2>4, <2>5 DEF Stage, TypeOK
  <2>. QED  BY <2>4, <2>5, <2>6, StageTurns
<1>9. CASE UNCHANGED <<obj, fdOf, disc>>
  BY <1>9, StageKept
<1>. QED
  BY <1>1, <1>2, <1>3, <1>4, <1>6, <1>7, <1>8, <1>9, ObjectFrame DEF BusyInv

\* A busy server without workers gives every connection the life it is
\* promised, whatever the numbers of loops, connections and descriptors.
THEOREM BusyServerKeepsPromise ==
  ASSUME Busy
  PROVE  Spec => ImplementsLifecycle
<1>1. Init => Lifecycle!Init
  BY DEF Init, Lifecycle!Init, Stage
<1>2. CoreInv /\ BusyInv /\ CoreInv' /\ [Next]_vars
         => [Lifecycle!Next]_(Lifecycle!vars)
  BY LifecycleStep DEF CoreInv
<1>. QED
  BY <1>1, <1>2, BusyCorrect, PTL DEF Spec, ImplementsLifecycle, Lifecycle!Spec
=============================================================================

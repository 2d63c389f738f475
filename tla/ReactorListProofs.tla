------------------------- MODULE ReactorListProofs -------------------------
(***************************************************************************)
(* Proofs about the list of a loop and its iterators: what the idle sweep  *)
(* knows, what it evicts and what an iterator designates.                  *)
(***************************************************************************)
EXTENDS ReactorProofs

-----------------------------------------------------------------------------
(* A list in which no connection has two nodes.                            *)

NoRepeats(s) == \A i, j \in DOMAIN s : s[i] = s[j] => i = j

\* The part of a list after a node.
LEMMA TailPart ==
    ASSUME NEW s \in Seq(Conns), NEW n \in 1 .. Len(s)
    PROVE  /\ SubSeq(s, n + 1, Len(s)) \in Seq(Conns)
           /\ Len(SubSeq(s, n + 1, Len(s))) = Len(s) - n
           /\ \A i \in 1 .. Len(s) - n :
                 SubSeq(s, n + 1, Len(s))[i] = s[n + i]
<1> DEFINE b == SubSeq(s, n + 1, Len(s))
<1>1. n \in Nat /\ Len(s) \in Nat /\ n <= Len(s) /\ 1 <= n
  OBVIOUS
<1>2. b \in Seq(Conns)
  OBVIOUS
<1>3. Len(b) = IF n + 1 <= Len(s) THEN Len(s) - (n + 1) + 1 ELSE 0
  OBVIOUS
<1>4. Len(b) = Len(s) - n
  <2> HIDE DEF b
  <2>. QED  BY <1>1, <1>3
<1>5. \A i \in 1 .. Len(s) - n : b[i] = s[n + i]
  <2> SUFFICES ASSUME NEW i \in 1 .. Len(s) - n  PROVE b[i] = s[n + i]
    OBVIOUS
  <2>1. i \in 1 .. Len(s) - (n + 1) + 1 /\ (n + 1) + i - 1 = n + i
    BY <1>1
  <2>2. b[i] = s[(n + 1) + i - 1]
    BY <1>1, <2>1
  <2>. QED  BY <2>1, <2>2
<1>. QED  BY <1>2, <1>4, <1>5

\* The elements of two lists put end to end.
LEMMA Joined ==
    ASSUME NEW a \in Seq(Conns), NEW b \in Seq(Conns)
    PROVE  /\ Len(a \o b) = Len(a) + Len(b)
           /\ \A i \in 1 .. Len(a) + Len(b) :
                 (a \o b)[i] = IF i <= Len(a) THEN a[i] ELSE b[i - Len(a)]
  OBVIOUS

\* Erasing the node of a connection leaves the nodes of the others
\* (EventLoop.cpp:233).
LEMMA WithoutNode ==
    ASSUME NEW s \in Seq(Conns), NEW c, InList(s, c), NoRepeats(s)
    PROVE  /\ Without(s, c) \in Seq(Conns)
           /\ NoRepeats(Without(s, c))
           /\ \A d : InList(Without(s, c), d) <=> InList(s, d) /\ d # c
<1> DEFINE n == NodeOf(s, c)
           t == Without(s, c)
<1>1. n \in 1 .. Len(s) /\ s[n] = c /\ Len(s) \in Nat
      /\ DOMAIN s = 1 .. Len(s)
  BY NodeOfInDomain
<1>2. t \in Seq(Conns)
  BY WithoutType
<1>3. t = SubSeq(s, 1, n - 1) \o SubSeq(s, n + 1, Len(s))
  BY DEF Without, RemoveAt
<1> DEFINE a == SubSeq(s, 1, n - 1)
           b == SubSeq(s, n + 1, Len(s))
<1> HIDE DEF n, t
<1>left. /\ a \in Seq(Conns) /\ Len(a) = n - 1
      /\ \A i \in 1 .. n - 1 : a[i] = s[i]
  BY <1>1
<1>right. /\ b \in Seq(Conns) /\ Len(b) = Len(s) - n
      /\ \A i \in 1 .. Len(s) - n : b[i] = s[n + i]
  BY <1>1, TailPart
<1>both. t = a \o b
  BY <1>3
<1> HIDE DEF a, b
<1>4. Len(t) = Len(s) - 1 /\ DOMAIN t = 1 .. Len(s) - 1
  <2>1. Len(t) = Len(a) + Len(b)
    BY <1>left, <1>right, <1>both, Joined
  <2>2. Len(t) = Len(s) - 1
    BY <1>1, <1>left, <1>right, <2>1
  <2>. QED  BY <1>2, <2>2
<1>5. \A i \in 1 .. Len(s) - 1 : t[i] = IF i < n THEN s[i] ELSE s[i + 1]
  <2> SUFFICES ASSUME NEW i \in 1 .. Len(s) - 1
               PROVE  t[i] = IF i < n THEN s[i] ELSE s[i + 1]
    OBVIOUS
  <2>1. t[i] = IF i <= Len(a) THEN a[i] ELSE b[i - Len(a)]
    BY <1>1, <1>left, <1>right, <1>both, Joined
  <2>2. CASE i < n
    BY <1>1, <1>left, <2>1, <2>2
  <2>3. CASE i >= n
    <3>1. i - (n - 1) \in 1 .. Len(s) - n /\ n + (i - (n - 1)) = i + 1
      BY <1>1, <2>3
    <3>2. t[i] = b[i - (n - 1)]
      BY <1>1, <1>left, <2>1, <2>3
    <3>3. b[i - (n - 1)] = s[n + (i - (n - 1))]
      BY <1>right, <3>1
    <3>. QED  BY <1>1, <2>3, <3>1, <3>2, <3>3
  <2>. QED  BY <1>1, <2>2, <2>3
<1>6. NoRepeats(t)
  <2> SUFFICES ASSUME NEW i \in 1 .. Len(s) - 1, NEW j \in 1 .. Len(s) - 1,
                      t[i] = t[j]
               PROVE  i = j
    BY <1>4 DEF NoRepeats
  <2> DEFINE At(k) == IF k < n THEN k ELSE k + 1
  <2>1. \A k \in 1 .. Len(s) - 1 : At(k) \in DOMAIN s /\ t[k] = s[At(k)]
    BY <1>1, <1>5
  <2>2. At(i) = At(j)
    BY <2>1 DEF NoRepeats
  <2>. QED  BY <1>1, <2>2
<1>7. ASSUME NEW d  PROVE InList(t, d) <=> InList(s, d) /\ d # c
  <2>1. ASSUME InList(t, d)  PROVE InList(s, d) /\ d # c
    <3>1. PICK i \in 1 .. Len(s) - 1 : t[i] = d
      BY <1>4, <2>1 DEF InList
    <3>2. PICK j \in DOMAIN s : s[j] = d /\ j # n
      BY <1>1, <1>5, <3>1
    <3>. QED  BY <1>1, <3>2 DEF InList, NoRepeats
  <2>2. ASSUME InList(s, d), d # c  PROVE InList(t, d)
    <3>1. PICK j \in 1 .. Len(s) : s[j] = d
      BY <1>1, <2>2 DEF InList
    <3>2. j # n
      BY <1>1, <2>2, <3>1
    <3>3. CASE j < n
      BY <1>1, <1>4, <1>5, <3>1, <3>3 DEF InList
    <3>4. CASE j > n
      <4>1. j - 1 \in 1 .. Len(s) - 1 /\ ~(j - 1 < n) /\ (j - 1) + 1 = j
        BY <1>1, <3>4
      <4>2. t[j - 1] = d
        BY <1>5, <3>1, <4>1
      <4>. QED  BY <1>4, <4>1, <4>2 DEF InList
    <3>. QED  BY <1>1, <3>2, <3>3, <3>4
  <2>. QED  BY <2>1, <2>2
<1>. QED  BY <1>2, <1>6, <1>7 DEF t

\* A node at the front is one more (EventLoop.cpp:145-165).
LEMMA FrontNode ==
    ASSUME NEW s \in Seq(Conns), NEW c \in Conns, ~InList(s, c), NoRepeats(s)
    PROVE  /\ <<c>> \o s \in Seq(Conns)
           /\ NoRepeats(<<c>> \o s)
           /\ \A d : InList(<<c>> \o s, d) <=> InList(s, d) \/ d = c
<1> DEFINE t == <<c>> \o s
<1>1. /\ t \in Seq(Conns) /\ Len(s) \in Nat /\ DOMAIN s = 1 .. Len(s)
      /\ DOMAIN t = 1 .. Len(s) + 1 /\ t[1] = c
  OBVIOUS
<1>2. \A i \in 2 .. Len(s) + 1 : t[i] = s[i - 1] /\ i - 1 \in DOMAIN s
  BY <1>1
<1>3. \A i \in DOMAIN s : i + 1 \in 2 .. Len(s) + 1 /\ t[i + 1] = s[i]
  BY <1>1
<1> HIDE DEF t
<1>4. \A i \in DOMAIN t : i = 1 \/ i \in 2 .. Len(s) + 1
  BY <1>1
<1>5. \A i \in DOMAIN s : s[i] # c
  BY DEF InList
<1>6. NoRepeats(t)
  <2> SUFFICES ASSUME NEW i \in DOMAIN t, NEW j \in DOMAIN t, t[i] = t[j]
               PROVE  i = j
    BY DEF NoRepeats
  <2>1. CASE i = 1 \/ j = 1
    BY <1>1, <1>2, <1>4, <1>5, <2>1
  <2>2. CASE i \in 2 .. Len(s) + 1 /\ j \in 2 .. Len(s) + 1
    <3>1. s[i - 1] = s[j - 1] /\ i - 1 \in DOMAIN s /\ j - 1 \in DOMAIN s
      BY <1>2, <2>2
    <3>2. i - 1 = j - 1
      BY <3>1 DEF NoRepeats
    <3>. QED  BY <2>2, <3>2
  <2>. QED  BY <1>4, <2>1, <2>2
<1>7. ASSUME NEW d  PROVE InList(t, d) <=> InList(s, d) \/ d = c
  <2>1. ASSUME InList(t, d)  PROVE InList(s, d) \/ d = c
    BY <1>1, <1>2, <1>4, <2>1 DEF InList
  <2>2. ASSUME InList(s, d)  PROVE InList(t, d)
    <3>1. PICK i \in DOMAIN s : s[i] = d
      BY <2>2 DEF InList
    <3>2. i + 1 \in DOMAIN t /\ t[i + 1] = d
      BY <1>1, <1>3, <3>1
    <3>. QED  BY <3>2 DEF InList
  <2>3. InList(t, c)
    BY <1>1 DEF InList
  <2>. QED  BY <2>1, <2>2, <2>3
<1>. QED  BY <1>1, <1>6, <1>7 DEF t

\* What is left at the front after the sweep has popped the rest
\* (EventLoop.cpp:176-195).
LEMMA KeptNodes ==
    ASSUME NEW s \in Seq(Conns), NEW k \in 0 .. Len(s), NoRepeats(s)
    PROVE  /\ SubSeq(s, 1, k) \in Seq(Conns)
           /\ NoRepeats(SubSeq(s, 1, k))
           /\ \A d : InList(SubSeq(s, 1, k), d) <=>
                        \E i \in 1 .. k : s[i] = d
           /\ \A i \in DOMAIN s : i > k => ~InList(SubSeq(s, 1, k), s[i])
<1> DEFINE t == SubSeq(s, 1, k)
<1>1. /\ t \in Seq(Conns) /\ DOMAIN t = 1 .. k /\ DOMAIN s = 1 .. Len(s)
      /\ Len(s) \in Nat
      /\ \A i \in 1 .. k : t[i] = s[i] /\ i \in DOMAIN s
  OBVIOUS
<1> HIDE DEF t
<1>2. NoRepeats(t)
  BY <1>1 DEF NoRepeats
<1>3. \A d : InList(t, d) <=> \E i \in 1 .. k : s[i] = d
  BY <1>1 DEF InList
<1>4. \A i \in DOMAIN s : i > k => ~InList(t, s[i])
  BY <1>1, <1>3 DEF NoRepeats
<1>. QED  BY <1>1, <1>2, <1>3, <1>4 DEF t

-----------------------------------------------------------------------------
(* The connections a loop lists.                                           *)

\* What loop l knows connection d by: a node of its list.
Listed(l, d) == InList(lru[l], d)

\* A node is that of a connection of the loop, once it was built.
ListOwn ==
    \A l \in Loops, d \in Conns : Listed(l, d) =>
        /\ obj[d] \notin {"unborn", "accepted"}
        /\ fdOf[d] \in Fds
        /\ LoopOf(fdOf[d]) = l

ListDistinct == \A l \in Loops : NoRepeats(lru[l])

\* An iterator is kept under the descriptor of the connection it leads to.
EntryOwn ==
    \A f \in Fds : connMap[f] # NoConn =>
        /\ obj[connMap[f]] \notin {"unborn", "accepted"}
        /\ fdOf[connMap[f]] = f

\* What onconnect builds is not served before it is in epoll.
MainNew ==
    mainPc \in {"list", "activate"} => obj[mainConn] \in {"created", "freed"}

\* It is not listed before newConnection lists it.
MainUnlisted == mainPc = "list" => \A l \in Loops : ~Listed(l, mainConn)

NodesInv == ListOwn /\ ListDistinct /\ EntryOwn /\ MainNew /\ MainUnlisted

\* A live connection with a node is in the map of the server, and its
\* iterator is the one kept.
ListMapped ==
    \A l \in Loops, d \in Conns : Listed(l, d) /\ Alive(d) =>
        Registered(d) /\ connMap[fdOf[d]] = d

\* A descriptor is marked for deletion by its own loop.
MarkedOwn == \A l \in Loops : \A f \in delayDel[l] : LoopOf(f) = l

\* What a sweep is to evict is idle and has lost its node.
Evicting ==
    \A l \in Loops : pc[l] = "evict" =>
        \A f \in todo[l] : /\ LoopOf(f) = l
                           /\ clientMap[f] # NoConn
                           /\ age[clientMap[f]] >= Timeout
                           /\ connMap[f] = NoConn

\* What the first loop of deleteConnection has visited has lost its node.
Unlisting ==
    \A l \in Loops : pc[l] = "unlist" =>
        \A f \in delayDel[l] \ todo[l] : connMap[f] = NoConn

\* A node made while the second loop runs is that of a new connection.
Erasing ==
    \A l \in Loops : pc[l] = "erase" =>
        \A f \in todo[l] : connMap[f] = NoConn \/ ~HeldByPool(connMap[f])

\* A connection grows old, and gets requests, only once it is served.
CreatedAge == \A c \in Conns : obj[c] = "created" => age[c] = 0
PoolActive == \A c \in Conns : HeldByPool(c) => obj[c] = "active"

SweepInv ==
    /\ ListMapped
    /\ MarkedOwn
    /\ DeletionTodo
    /\ Evicting
    /\ Unlisting
    /\ Erasing
    /\ CreatedAge
    /\ PoolActive

\* Where a served connection of the map is known to its loop.
Traced(c) ==
    LET f == fdOf[c]
        l == LoopOf(f)
    IN  \/ connMap[f] = c /\ Listed(l, c)
        \/ pc[l] = "evict" /\ f \in todo[l]
        \/ pc[l] = "unlist" /\ f \in delayDel[l]
        \/ pc[l] = "erase" /\ f \in todo[l]

\* Served, or about to be.
Joining(c) == obj[c] = "active" \/ (mainPc = "activate" /\ c = mainConn)

AllTraced == \A c \in Conns : Joining(c) /\ Registered(c) => Traced(c)

ListInv == NodesInv /\ SweepInv /\ AllTraced

\* Nothing is listed, marked or swept in the empty server.
LEMMA ListInit == Init => ListInv
<1> SUFFICES ASSUME Init  PROVE ListInv
  OBVIOUS
<1>1. \A l \in Loops : \A d : ~Listed(l, d)
  BY DEF Init, Listed, InList
<1>2. ListDistinct
  BY DEF Init, ListDistinct, NoRepeats
<1>3. NodesInv
  BY <1>1, <1>2
  DEF Init, NodesInv, ListOwn, EntryOwn, MainNew, MainUnlisted
<1>4. \A c \in Conns : ~HeldByPool(c)
  BY ConnsAssumption DEF Init, HeldByPool, Idle
<1>5. SweepInv
  BY <1>1, <1>4
  DEF Init, SweepInv, ListMapped, MarkedOwn, DeletionTodo, Evicting,
      Unlisting, Erasing, CreatedAge, PoolActive
<1>6. AllTraced
  BY DEF Init, AllTraced, Joining
<1>. QED  BY <1>3, <1>5, <1>6 DEF ListInv

-----------------------------------------------------------------------------
(* Who touches what.                                                       *)

\* An object once built stays built, and one destroyed stays destroyed.
LEMMA StaysBuilt ==
    ASSUME TypeOK, MapInv, [Next]_vars, NEW c \in Conns
    PROVE  /\ obj[c] \notin {"unborn", "accepted"} =>
                 obj'[c] \notin {"unborn", "accepted"}
           /\ obj[c] = "freed" => obj'[c] = "freed"
<1> DEFINE Goal == /\ obj[c] \notin {"unborn", "accepted"} =>
                         obj'[c] \notin {"unborn", "accepted"}
                   /\ obj[c] = "freed" => obj'[c] = "freed"
<1>1. ASSUME NEW d \in Conns, NEW f \in Fds, Accept(d, f)  PROVE Goal
  BY <1>1 DEF Accept, TypeOK
<1>2. CASE DropSocket \/ CreateConnection
  <2>1. mainConn \in Conns /\ obj[mainConn] = "accepted"
    BY <1>2 DEF DropSocket, CreateConnection, TypeOK, MapInv, MainOwns
  <2>. QED  BY <1>2, <2>1 DEF DropSocket, CreateConnection, TypeOK
<1>3. CASE NewConnection
  BY <1>3 DEF NewConnection, objects
<1>4. CASE AddToEpoll
  <2>1. mainConn \in Conns /\ Alive(mainConn)
    BY <1>4, ConnsAssumption DEF AddToEpoll, TypeOK, MapInv, MapSound
  <2>. QED  BY <1>4, <2>1 DEF AddToEpoll, TypeOK, Alive
<1>5. ASSUME NEW l \in Loops, NEW f \in Fds,
             EvictTimedOut(l, f) \/ EraseClosed(l, f)
      PROVE  Goal
  BY <1>5, EraseFrees DEF EvictTimedOut, EraseClosed
<1>6. ASSUME NEW w \in Workers, WorkerDrop(w)  PROVE Goal
  BY <1>6, DropFrees
<1>7. CASE UNCHANGED <<obj, fdOf, clientMap, mainPc, mainConn>>
  BY <1>7
<1>. QED
  BY <1>1, <1>2, <1>3, <1>4, <1>5, <1>6, <1>7, MapFrame DEF MainStep

\* Only connections have nodes.
LEMMA ListedConn ==
    ASSUME TypeOK, NEW l \in Loops, NEW d, Listed(l, d)
    PROVE  d \in Conns
  BY DEF TypeOK, Listed, InList

SameNodes ==
    /\ connMap' = connMap
    /\ ListDistinct'
    /\ \A k \in Loops, d \in Conns : Listed(k, d)' <=> Listed(k, d)

\* Moving a node to the front leaves the same nodes.
LEMMA TouchNodes ==
    ASSUME TypeOK, ListDistinct, NEW l \in Loops, NEW c \in Conns, Alive(c),
           Touch(l, c), connMap' = connMap
    PROVE  SameNodes
<1> DEFINE node == connMap[fdOf[c]]
<1>1. node \in Conns \cup {NoConn} /\ lru[l] \in Seq(Conns)
  BY DEF TypeOK, Alive
<1>2. CASE node = NoConn
  BY <1>2 DEF Touch, SameNodes, ListDistinct, Listed
<1>3. CASE node # NoConn
  <2> DEFINE s == Without(lru[l], node)
             t == <<node>> \o s
  <2>1. node \in Conns /\ InList(lru[l], node) /\ NoRepeats(lru[l])
    BY <1>1, <1>3 DEF Touch, ListDistinct
  <2>2. /\ s \in Seq(Conns) /\ NoRepeats(s)
        /\ \A d : InList(s, d) <=> InList(lru[l], d) /\ d # node
    BY <1>1, <2>1, WithoutNode
  <2>3. lru' = [lru EXCEPT ![l] = t]
    BY <1>3 DEF Touch
  <2> HIDE DEF s, node
  <2>4. /\ NoRepeats(t)
        /\ \A d : InList(t, d) <=> InList(s, d) \/ d = node
    BY <2>1, <2>2, FrontNode
  <2> HIDE DEF t
  <2>5. \A d : InList(t, d) <=> InList(lru[l], d)
    BY <2>1, <2>2, <2>4
  <2>6. \A k \in Loops : lru'[k] = IF k = l THEN t ELSE lru[k]
    BY <2>3 DEF TypeOK
  <2>7. ListDistinct'
    BY <2>4, <2>6 DEF ListDistinct
  <2>8. \A k \in Loops, d \in Conns : Listed(k, d)' <=> Listed(k, d)
    BY <2>5, <2>6 DEF Listed
  <2>. QED  BY <2>7, <2>8 DEF SameNodes
<1>. QED  BY <1>2, <1>3

\* Who makes or erases a node.
LEMMA NodesFrame ==
    ASSUME TypeOK, ListDistinct, [Next]_vars
    PROVE  \/ NewConnection
           \/ \E l \in Loops : \E kept \in 0 .. Len(lru[l]) :
                HandleTimer(l, kept)
           \/ \E l \in Loops, f \in Fds : UnlistClosed(l, f)
           \/ SameNodes
<1>1. CASE UNCHANGED <<lru, connMap>>
  BY <1>1 DEF SameNodes, ListDistinct, Listed
<1>2. ASSUME NEW l \in Loops, NEW c \in Conns,
             OnMessage(l, c) \/ OnMessageCloses(l, c) \/ OnMessageHangs(l, c)
      PROVE  SameNodes
  BY <1>2, TouchNodes
  DEF OnMessage, HandleOnMessage, OnMessageCloses, OnMessageHangs, Dispatches
<1>3. ASSUME NEW l \in Loops,
             \/ TimerExpire(l)
             \/ PollStep(l)
             \/ EndRound(l)
             \/ \E c \in Conns : SkipRead(l, c)
             \/ FinishEvent(l)
             \/ SendtoCloses(l)
             \/ HandleWakeUp(l)
             \/ \E f \in Fds : EvictTimedOut(l, f) \/ EraseClosed(l, f)
      PROVE  UNCHANGED <<lru, connMap>>
  BY <1>3
  DEF TimerExpire, PollStep, Poll, EndRound, SkipRead, FinishEvent,
      SendtoCloses, HandleWakeUp, EvictTimedOut, EraseClosed, registries
<1>4. ASSUME NEW w \in Workers, WorkerStep(w)  PROVE UNCHANGED <<lru, connMap>>
  BY <1>4
  DEF WorkerStep, WorkerTake, WorkerSend, AddTask, Wakeup, WorkerDrop,
      registries
<1>5. CASE \/ \E c \in Conns, f \in Fds : Accept(c, f)
           \/ DropSocket \/ CreateConnection \/ AddToEpoll
           \/ Tick \/ UNCHANGED vars
  BY <1>1, <1>5
  DEF Accept, DropSocket, CreateConnection, AddToEpoll, Tick, vars, registries
<1>. QED
  BY <1>1, <1>2, <1>3, <1>4, <1>5
  DEF Next, MainStep, RoundStep, DispatchStep

\* newConnection makes one node.
LEMMA NewNode ==
    ASSUME TypeOK, ListDistinct, MainUnlisted, NewConnection
    PROVE  /\ mainConn \in Conns /\ fdOf[mainConn] \in Fds
           /\ ListDistinct'
           /\ \A k \in Loops, d \in Conns : Listed(k, d)' <=>
                \/ Listed(k, d)
                \/ k = LoopOf(fdOf[mainConn]) /\ d = mainConn
<1> DEFINE l == LoopOf(fdOf[mainConn])
<1>1. mainConn \in Conns /\ fdOf[mainConn] \in Fds
  BY DEF NewConnection, TypeOK
<1>2. l \in Loops
  BY <1>1, LoopOfInLoops
<1>3. lru[l] \in Seq(Conns) /\ NoRepeats(lru[l]) /\ ~InList(lru[l], mainConn)
  BY <1>2 DEF TypeOK, ListDistinct, MainUnlisted, Listed, NewConnection
<1>4. lru' = [lru EXCEPT ![l] = <<mainConn>> \o lru[l]]
  BY DEF NewConnection
<1> HIDE DEF l
<1>5. /\ NoRepeats(<<mainConn>> \o lru[l])
      /\ \A d : InList(<<mainConn>> \o lru[l], d) <=>
                  InList(lru[l], d) \/ d = mainConn
  BY <1>1, <1>3, FrontNode
<1>6. \A k \in Loops :
        lru'[k] = IF k = l THEN <<mainConn>> \o lru[l] ELSE lru[k]
  BY <1>4 DEF TypeOK
<1>7. ListDistinct'
  BY <1>5, <1>6 DEF ListDistinct
<1>8. ASSUME NEW k \in Loops, NEW d \in Conns
      PROVE  Listed(k, d)' <=> Listed(k, d) \/ (k = l /\ d = mainConn)
  <2>1. CASE k = l
    BY <1>5, <1>6, <2>1 DEF Listed
  <2>2. CASE k # l
    BY <1>6, <2>2 DEF Listed
  <2>. QED  BY <2>1, <2>2
<1>. QED  BY <1>1, <1>7, <1>8 DEF l

\* deleteConnection erases at most the node an iterator leads to.
LEMMA NodeErased ==
    ASSUME TypeOK, ListDistinct, NEW l \in Loops, NEW f \in Fds,
           UnlistClosed(l, f)
    PROVE  /\ connMap' = [connMap EXCEPT ![f] = NoConn]
           /\ ListDistinct'
           /\ \A k \in Loops, d \in Conns : Listed(k, d)' <=>
                Listed(k, d) /\ ~(k = l /\ d = connMap[f])
<1>1. CASE connMap[f] = NoConn
  <2>1. UNCHANGED <<lru, connMap>>
    BY <1>1 DEF UnlistClosed
  <2>2. connMap' = [connMap EXCEPT ![f] = NoConn]
    BY <1>1, <2>1 DEF TypeOK
  <2>. QED
    BY <1>1, <2>1, <2>2, ConnsAssumption DEF ListDistinct, Listed
<1>2. CASE connMap[f] # NoConn
  <2> DEFINE s == Without(lru[l], connMap[f])
  <2>1. /\ InList(lru[l], connMap[f])
        /\ lru' = [lru EXCEPT ![l] = s]
        /\ connMap' = [connMap EXCEPT ![f] = NoConn]
    BY <1>2 DEF UnlistClosed
  <2>2. lru[l] \in Seq(Conns) /\ NoRepeats(lru[l])
    BY DEF TypeOK, ListDistinct
  <2>3. /\ NoRepeats(s)
        /\ \A d : InList(s, d) <=> InList(lru[l], d) /\ d # connMap[f]
    BY <2>1, <2>2, WithoutNode
  <2> HIDE DEF s
  <2>4. \A k \in Loops : lru'[k] = IF k = l THEN s ELSE lru[k]
    BY <2>1 DEF TypeOK
  <2>5. ListDistinct'
    BY <2>3, <2>4 DEF ListDistinct
  <2>. QED  BY <2>1, <2>3, <2>4, <2>5 DEF Listed
<1>. QED  BY <1>1, <1>2

\* A sweep of loop l that pops the live connections of the descriptors gone.
Sweeps(l, gone) ==
    /\ connMap' = [f \in Fds |-> IF f \in gone THEN NoConn ELSE connMap[f]]
    /\ todo' = [todo EXCEPT ![l] = gone]
    /\ pc' = [pc EXCEPT ![l] = IF gone = {} THEN "dispatch" ELSE "evict"]
    /\ ListDistinct'
    /\ \A k \in Loops, d \in Conns : Listed(k, d)' => Listed(k, d)
    /\ \A k \in Loops, d \in Conns : Listed(k, d) /\ ~Listed(k, d)' =>
          k = l /\ (Alive(d) => fdOf[d] \in gone)
    /\ \A f \in gone : \E d \in Conns :
          /\ Listed(l, d) /\ ~Listed(l, d)'
          /\ Alive(d) /\ age[d] >= Timeout
          /\ fdOf[d] = f

\* What removeTimeOutConnection does under its mutex.
LEMMA TimerSweeps ==
    ASSUME TypeOK, ListDistinct, NEW l \in Loops, NEW kept \in 0 .. Len(lru[l]),
           HandleTimer(l, kept)
    PROVE  \E gone \in SUBSET Fds : Sweeps(l, gone)
<1> DEFINE s == lru[l]
           t == SubSeq(s, 1, kept)
           popped == {i \in DOMAIN s : i > kept}
           gone == {fdOf[s[i]] : i \in {j \in popped : Alive(s[j])}}
<1>1. s \in Seq(Conns) /\ NoRepeats(s) /\ kept \in 0 .. Len(s)
  BY DEF TypeOK, ListDistinct
<1>2. \A i \in DOMAIN s : s[i] \in Conns
  BY <1>1
<1>3. gone \in SUBSET Fds
  BY <1>2 DEF TypeOK, Alive
<1>4. /\ lru' = [lru EXCEPT ![l] = t]
      /\ connMap' = [f \in Fds |-> IF f \in gone THEN NoConn ELSE connMap[f]]
      /\ todo' = [todo EXCEPT ![l] = gone]
      /\ pc' = [pc EXCEPT ![l] = IF gone = {} THEN "dispatch" ELSE "evict"]
      /\ \A i \in popped : Alive(s[i]) => IsTimeOut(s[i])
  BY DEF HandleTimer
<1>5. /\ NoRepeats(t)
      /\ \A d : InList(t, d) <=> \E i \in 1 .. kept : s[i] = d
      /\ \A i \in DOMAIN s : i > kept => ~InList(t, s[i])
  BY <1>1, KeptNodes
<1>6. 1 .. kept \subseteq DOMAIN s
  BY <1>1
<1>7. \A d : InList(s, d) /\ ~InList(t, d) => \E i \in popped : s[i] = d
  <2> SUFFICES ASSUME NEW d, InList(s, d), ~InList(t, d)
               PROVE  \E i \in popped : s[i] = d
    OBVIOUS
  <2>1. PICK i \in DOMAIN s : s[i] = d
    BY DEF InList
  <2>2. i \notin 1 .. kept
    BY <1>5, <2>1
  <2>3. i > kept
    BY <1>1, <2>2
  <2>. QED  BY <2>1, <2>3
<1>8. \A f \in gone : \E i \in popped : Alive(s[i]) /\ fdOf[s[i]] = f
  OBVIOUS
<1>9. \A i \in popped : Alive(s[i]) => fdOf[s[i]] \in gone
  OBVIOUS
<1> HIDE DEF gone, t
<1>10. /\ \A k \in Loops \ {l} : lru'[k] = lru[k]
       /\ lru'[l] = t
  BY <1>4 DEF TypeOK
<1>11. ListDistinct'
  BY <1>5, <1>10 DEF ListDistinct
<1>12. ASSUME NEW k \in Loops, NEW d \in Conns, Listed(k, d)'
       PROVE  Listed(k, d)
  <2>1. CASE k = l
    BY <1>5, <1>6, <1>10, <1>12, <2>1 DEF Listed, InList
  <2>2. CASE k # l
    BY <1>10, <1>12, <2>2 DEF Listed
  <2>. QED  BY <2>1, <2>2
<1>13. ASSUME NEW k \in Loops, NEW d \in Conns, Listed(k, d), ~Listed(k, d)'
       PROVE  k = l /\ (Alive(d) => fdOf[d] \in gone)
  <2>1. k = l
    BY <1>10, <1>13 DEF Listed
  <2>2. PICK i \in popped : s[i] = d
    BY <1>7, <1>10, <1>13, <2>1 DEF Listed
  <2>. QED  BY <1>9, <2>1, <2>2
<1>14. ASSUME NEW f \in gone
       PROVE  \E d \in Conns : /\ Listed(l, d) /\ ~Listed(l, d)'
                               /\ Alive(d) /\ age[d] >= Timeout
                               /\ fdOf[d] = f
  <2>1. PICK i \in popped : Alive(s[i]) /\ fdOf[s[i]] = f
    BY <1>8
  <2>2. PICK d \in Conns : d = s[i]
    BY <1>2
  <2>3. /\ Listed(l, d) /\ Alive(d) /\ fdOf[d] = f
        /\ age[d] >= Timeout
    BY <1>4, <2>1, <2>2 DEF Listed, InList, IsTimeOut
  <2>4. ~InList(t, d)
    BY <1>5, <2>2
  <2>5. ~Listed(l, d)'
    BY <1>10, <2>4 DEF Listed
  <2>. QED  BY <2>3, <2>5
<1>15. Sweeps(l, gone)
  BY <1>4, <1>11, <1>12, <1>13, <1>14 DEF Sweeps
<1>. QED  BY <1>3, <1>15

\* Only newConnection makes a node or an iterator.
LEMMA NodesGrow ==
    ASSUME TypeOK, ListDistinct, MainUnlisted, [Next]_vars
    PROVE  /\ ListDistinct'
           /\ \A k \in Loops, d \in Conns : Listed(k, d)' =>
                \/ Listed(k, d)
                \/ /\ NewConnection
                   /\ d = mainConn /\ k = LoopOf(fdOf[mainConn])
           /\ \A f \in Fds :
                \/ connMap'[f] \in {NoConn, connMap[f]}
                \/ /\ NewConnection
                   /\ f = fdOf[mainConn] /\ connMap'[f] = mainConn
<1>1. CASE NewConnection
  <2>1. connMap' = [connMap EXCEPT ![fdOf[mainConn]] = mainConn]
    BY <1>1 DEF NewConnection
  <2>2. \A f \in Fds : \/ connMap'[f] = connMap[f]
                       \/ f = fdOf[mainConn] /\ connMap'[f] = mainConn
    BY <2>1 DEF TypeOK
  <2>. QED  BY <1>1, <2>2, NewNode
<1>2. ASSUME NEW l \in Loops, NEW kept \in 0 .. Len(lru[l]),
             HandleTimer(l, kept)
      PROVE  /\ ListDistinct'
             /\ \A k \in Loops, d \in Conns : Listed(k, d)' => Listed(k, d)
             /\ \A f \in Fds : connMap'[f] \in {NoConn, connMap[f]}
  BY <1>2, TimerSweeps DEF Sweeps
<1>3. ASSUME NEW l \in Loops, NEW f \in Fds, UnlistClosed(l, f)
      PROVE  /\ ListDistinct'
             /\ \A k \in Loops, d \in Conns : Listed(k, d)' => Listed(k, d)
             /\ \A g \in Fds : connMap'[g] \in {NoConn, connMap[g]}
  BY <1>3, NodeErased DEF TypeOK
<1>4. CASE SameNodes
  BY <1>4 DEF SameNodes
<1>. QED  BY <1>1, <1>2, <1>3, <1>4, NodesFrame

\* Who moves the main loop.
LEMMA MainFrame ==
    ASSUME [Next]_vars
    PROVE  \/ \E c \in Conns, f \in Fds : Accept(c, f)
           \/ MainStep
           \/ UNCHANGED mainVars
  BY MapFrame DEF EvictTimedOut, EraseClosed, WorkerDrop, mainVars

\* Every step keeps the nodes and the iterators those of the loop's own
\* connections.
LEMMA NodesStep ==
    ASSUME TypeOK, MapInv, NodesInv, [Next]_vars
    PROVE  NodesInv'
<1> USE DEF NodesInv
<1>1. ASSUME NEW d \in Conns, obj[d] \notin {"unborn", "accepted"}
      PROVE  /\ obj'[d] \notin {"unborn", "accepted"}
             /\ fdOf'[d] = fdOf[d]
  BY <1>1, StaysBuilt, NeverBack
<1>2. ASSUME NewConnection
      PROVE  /\ mainConn \in Conns /\ fdOf[mainConn] \in Fds
             /\ obj[mainConn] \notin {"unborn", "accepted"}
  BY <1>2 DEF NewConnection, TypeOK, MainNew
<1>3. ListOwn'
  <2> SUFFICES ASSUME NEW k \in Loops, NEW d \in Conns, Listed(k, d)'
               PROVE  /\ obj'[d] \notin {"unborn", "accepted"}
                      /\ fdOf'[d] \in Fds
                      /\ LoopOf(fdOf'[d]) = k
    BY DEF ListOwn, LoopOf
  <2>1. /\ obj[d] \notin {"unborn", "accepted"}
        /\ fdOf[d] \in Fds
        /\ LoopOf(fdOf[d]) = k
    BY <1>2, NodesGrow DEF ListOwn
  <2>. QED  BY <1>1, <2>1
<1>4. ListDistinct'
  BY NodesGrow
<1>5. EntryOwn'
  <2> SUFFICES ASSUME NEW f \in Fds, connMap'[f] # NoConn
               PROVE  /\ obj'[connMap'[f]] \notin {"unborn", "accepted"}
                      /\ fdOf'[connMap'[f]] = f
    BY DEF EntryOwn
  <2>1. \/ connMap'[f] = connMap[f]
        \/ NewConnection /\ f = fdOf[mainConn] /\ connMap'[f] = mainConn
    BY NodesGrow
  <2>2. /\ connMap'[f] \in Conns
        /\ obj[connMap'[f]] \notin {"unborn", "accepted"}
        /\ fdOf[connMap'[f]] = f
    BY <1>2, <2>1 DEF EntryOwn, TypeOK
  <2>3. PICK d \in Conns : d = connMap'[f]
    BY <2>2
  <2>. QED  BY <1>1, <2>2, <2>3
<1>6. MainNew' /\ MainUnlisted'
  <2>1. ASSUME NEW c \in Conns, NEW f \in Fds, Accept(c, f)
        PROVE  MainNew' /\ MainUnlisted'
    BY <2>1 DEF Accept, MainNew, MainUnlisted
  <2>2. CASE DropSocket \/ AddToEpoll
    BY <2>2 DEF DropSocket, AddToEpoll, MainNew, MainUnlisted
  <2>3. CASE CreateConnection
    <3>1. mainConn \in Conns /\ obj[mainConn] = "accepted"
      BY <2>3 DEF CreateConnection, TypeOK, MapInv, MainOwns
    <3>2. /\ obj'[mainConn] = "created" /\ mainConn' = mainConn
          /\ mainPc' = "list" /\ lru' = lru
      BY <2>3, <3>1 DEF CreateConnection, TypeOK
    <3>3. \A l \in Loops : ~Listed(l, mainConn)
      BY <3>1 DEF ListOwn
    <3>. QED  BY <3>2, <3>3 DEF MainNew, MainUnlisted, Listed
  <2>4. CASE NewConnection
    BY <2>4 DEF NewConnection, MainNew, MainUnlisted, objects
  <2>5. CASE UNCHANGED mainVars
    <3>1. mainPc' = mainPc /\ mainConn' = mainConn
      BY <2>5 DEF mainVars
    <3>2. MainNew'
      <4> SUFFICES ASSUME mainPc \in {"list", "activate"}
                   PROVE  obj'[mainConn] \in {"created", "freed"}
        BY <3>1 DEF MainNew
      <4>1. mainConn \in Conns /\ obj[mainConn] \in {"created", "freed"}
        BY DEF MainNew, TypeOK
      <4>2. obj'[mainConn] \in {obj[mainConn], "freed"}
        <5>1. ASSUME NEW l \in Loops, NEW f \in Fds,
                     EvictTimedOut(l, f) \/ EraseClosed(l, f)
              PROVE  obj'[mainConn] \in {obj[mainConn], "freed"}
          BY <4>1, <5>1, EraseFrees DEF EvictTimedOut, EraseClosed
        <5>2. ASSUME NEW w \in Workers, WorkerDrop(w)
              PROVE  obj'[mainConn] \in {obj[mainConn], "freed"}
          BY <4>1, <5>2, DropFrees
        <5>3. CASE MainStep \/ \E c \in Conns, f \in Fds : Accept(c, f)
          BY <3>1, <5>3 DEF MainStep, Accept, DropSocket, CreateConnection,
                            NewConnection, AddToEpoll, objects
        <5>. QED  BY <5>1, <5>2, <5>3, MapFrame
      <4>. QED  BY <4>1, <4>2
    <3>3. MainUnlisted'
      <4> SUFFICES ASSUME mainPc = "list", NEW l \in Loops,
                          Listed(l, mainConn)'
                   PROVE  FALSE
        BY <3>1 DEF MainUnlisted
      <4>1. mainConn \in Conns /\ ~Listed(l, mainConn) /\ ~NewConnection
        BY <3>1 DEF MainUnlisted, TypeOK, NewConnection
      <4>2. PICK c \in Conns : c = mainConn
        BY <4>1
      <4>3. Listed(l, c)'
        BY <3>1, <4>2 DEF Listed
      <4>. QED  BY <4>1, <4>2, <4>3, NodesGrow
    <3>. QED  BY <3>2, <3>3
  <2>. QED  BY <2>1, <2>2, <2>3, <2>4, <2>5, MainFrame DEF MainStep
<1>. QED  BY <1>3, <1>4, <1>5, <1>6

-----------------------------------------------------------------------------
(* What is marked, what is old and what has requests.                      *)

\* Only the handler of a connection gives the worker pool a reference to it.
LEMMA HeldFrame ==
    ASSUME TypeOK, [Next]_vars, NEW d \in Conns, HeldByPool(d)'
    PROVE  HeldByPool(d) \/ \E l \in Loops : Dispatches(l, d)
<1>1. CASE UNCHANGED pool
  BY <1>1 DEF pool, HeldByPool
<1>2. ASSUME NEW w \in Workers, WorkerTake(w)  PROVE HeldByPool(d)
  <2>1. /\ poolq \in Seq(Conns) /\ poolq # <<>>
        /\ poolq' = Tail(poolq)
        /\ worker' = [worker EXCEPT ![w] =
                        [pc |-> "send", conn |-> Head(poolq)]]
    BY <1>2 DEF WorkerTake, TypeOK
  <2>2. CASE \E i \in DOMAIN poolq' : poolq'[i] = d
    BY <2>1, <2>2 DEF HeldByPool
  <2>3. ASSUME NEW v \in Workers, worker'[v].conn = d  PROVE HeldByPool(d)
    BY <2>1, <2>3 DEF HeldByPool, TypeOK
  <2>. QED  BY <2>2, <2>3 DEF HeldByPool
<1>3. ASSUME NEW w \in Workers, WorkerSend(w)  PROVE HeldByPool(d)
  BY <1>3 DEF WorkerSend, HeldByPool, TypeOK
<1>4. ASSUME NEW w \in Workers, WorkerDrop(w)  PROVE HeldByPool(d)
  BY <1>4, ConnsAssumption DEF WorkerDrop, HeldByPool, TypeOK, Idle
<1>5. ASSUME NEW l \in Loops, NEW c \in Conns,
             OnMessage(l, c) \/ OnMessageHangs(l, c)
      PROVE  HeldByPool(d) \/ (d = c /\ Dispatches(l, c))
  <2>1. worker' = worker /\ HandleOnMessage(c) /\ Dispatches(l, c)
    BY <1>5 DEF OnMessage, OnMessageHangs
  <2>2. poolq' = poolq \/ poolq' = Append(poolq, c)
    BY <2>1, Zenon DEF HandleOnMessage
  <2>3. CASE poolq' = poolq
    BY <2>1, <2>3 DEF HeldByPool
  <2>4. CASE poolq' = Append(poolq, c)
    <3>1. CASE \E v \in Workers : worker'[v].conn = d
      BY <2>1, <3>1 DEF HeldByPool
    <3>2. ASSUME NEW i \in DOMAIN poolq', poolq'[i] = d
          PROVE  d = c \/ \E j \in DOMAIN poolq : poolq[j] = d
      BY <2>4, <3>2 DEF TypeOK
    <3>. QED  BY <2>1, <3>1, <3>2 DEF HeldByPool
  <2>. QED  BY <2>2, <2>3, <2>4
<1>6. ASSUME NEW l \in Loops,
             \/ TimerExpire(l)
             \/ PollStep(l)
             \/ EndRound(l)
             \/ \E c \in Conns : OnMessageCloses(l, c) \/ SkipRead(l, c)
             \/ FinishEvent(l)
             \/ SendtoCloses(l)
             \/ HandleWakeUp(l)
             \/ \E kept \in 0 .. Len(lru[l]) : HandleTimer(l, kept)
             \/ \E f \in Fds : \/ EvictTimedOut(l, f)
                               \/ UnlistClosed(l, f)
                               \/ EraseClosed(l, f)
      PROVE  UNCHANGED pool
  BY <1>6
  DEF TimerExpire, PollStep, Poll, EndRound, OnMessageCloses, SkipRead,
      FinishEvent, SendtoCloses, HandleWakeUp, HandleTimer, EvictTimedOut,
      UnlistClosed, EraseClosed
<1>7. CASE \/ \E c \in Conns, f \in Fds : Accept(c, f)
           \/ MainStep \/ Tick \/ UNCHANGED vars
  BY <1>1, <1>7
  DEF Accept, MainStep, DropSocket, CreateConnection, NewConnection,
      AddToEpoll, Tick, vars
<1>. QED
  BY <1>1, <1>2, <1>3, <1>4, <1>5, <1>6, <1>7
  DEF Next, RoundStep, DispatchStep, WorkerStep

\* Time passes for served connections, and starts again at a message.
LEMMA AgeFrame ==
    ASSUME TypeOK, [Next]_vars, NEW c \in Conns
    PROVE  \/ age'[c] = age[c]
           \/ obj[c] = "active" /\ age'[c] = age[c] + 1 /\ Tick
           \/ age'[c] = 0 /\ CreateConnection /\ c = mainConn
           \/ age'[c] = 0 /\ \E l \in Loops : Dispatches(l, c)
<1>1. CASE age' = age
  BY <1>1
<1>2. CASE Tick
  BY <1>2 DEF Tick
<1>3. CASE CreateConnection
  <2>1. age' = [age EXCEPT ![mainConn] = 0]
    BY <1>3 DEF CreateConnection
  <2>. QED  BY <1>3, <2>1 DEF TypeOK
<1>4. ASSUME NEW l \in Loops, NEW d \in Conns,
             OnMessage(l, d) \/ OnMessageCloses(l, d) \/ OnMessageHangs(l, d)
      PROVE  \/ age'[c] = age[c]
             \/ age'[c] = 0 /\ Dispatches(l, c)
  <2>1. Dispatches(l, d) /\ age' = [age EXCEPT ![d] = 0]
    BY <1>4 DEF OnMessage, OnMessageCloses, OnMessageHangs, Touch
  <2>. QED  BY <2>1 DEF TypeOK
<1>5. ASSUME NEW l \in Loops,
             \/ TimerExpire(l)
             \/ PollStep(l)
             \/ EndRound(l)
             \/ \E d \in Conns : SkipRead(l, d)
             \/ FinishEvent(l)
             \/ SendtoCloses(l)
             \/ HandleWakeUp(l)
             \/ \E kept \in 0 .. Len(lru[l]) : HandleTimer(l, kept)
             \/ \E f \in Fds : \/ EvictTimedOut(l, f)
                               \/ UnlistClosed(l, f)
                               \/ EraseClosed(l, f)
      PROVE  age' = age
  BY <1>5
  DEF TimerExpire, PollStep, Poll, EndRound, SkipRead, FinishEvent,
      SendtoCloses, HandleWakeUp, HandleTimer, EvictTimedOut, UnlistClosed,
      EraseClosed, objects
<1>6. ASSUME NEW w \in Workers, WorkerStep(w)  PROVE age' = age
  BY <1>6
  DEF WorkerStep, WorkerTake, WorkerSend, AddTask, Wakeup, WorkerDrop, objects
<1>7. CASE \/ \E d \in Conns, f \in Fds : Accept(d, f)
           \/ DropSocket \/ NewConnection \/ AddToEpoll \/ UNCHANGED vars
  BY <1>7
  DEF Accept, DropSocket, NewConnection, AddToEpoll, vars, objects
<1>. QED
  BY <1>1, <1>2, <1>3, <1>4, <1>5, <1>6, <1>7
  DEF Next, MainStep, RoundStep, DispatchStep

\* Only onconnect builds and activates connections.
LEMMA BuiltFrame ==
    ASSUME TypeOK, MapInv, [Next]_vars, NEW c \in Conns
    PROVE  /\ obj'[c] = "created" =>
                obj[c] = "created" \/ (c = mainConn /\ age'[c] = 0)
           /\ obj'[c] = "active" =>
                obj[c] = "active" \/ (mainPc = "activate" /\ c = mainConn)
<1> DEFINE Goal == /\ obj'[c] = "created" =>
                        obj[c] = "created" \/ (c = mainConn /\ age'[c] = 0)
                   /\ obj'[c] = "active" =>
                        obj[c] = "active" \/ (mainPc = "activate" /\ c = mainConn)
<1>1. ASSUME NEW d \in Conns, NEW f \in Fds, Accept(d, f)  PROVE Goal
  BY <1>1 DEF Accept, TypeOK
<1>2. CASE MainStep
  BY <1>2
  DEF MainStep, DropSocket, CreateConnection, NewConnection, AddToEpoll,
      TypeOK, objects
<1>3. ASSUME NEW l \in Loops, NEW f \in Fds,
             EvictTimedOut(l, f) \/ EraseClosed(l, f)
      PROVE  Goal
  BY <1>3, EraseFrees DEF EvictTimedOut, EraseClosed
<1>4. ASSUME NEW w \in Workers, WorkerDrop(w)  PROVE Goal
  BY <1>4, DropFrees
<1>5. CASE UNCHANGED <<obj, fdOf, clientMap, mainPc, mainConn>>
  BY <1>5
<1>. QED  BY <1>1, <1>2, <1>3, <1>4, <1>5, MapFrame

\* A connection has no age and no request before it is served.
LEMMA ServedStep ==
    ASSUME CoreInv, CoreInv', CreatedAge, PoolActive, [Next]_vars
    PROVE  CreatedAge' /\ PoolActive'
<1> USE DEF CoreInv
<1>1. ASSUME NEW l \in Loops, NEW c \in Conns, Dispatches(l, c)
      PROVE  obj[c] = "active"
  BY <1>1 DEF Dispatches, RoundInv, BatchOwn, InBatch, Alive
<1>2. CreatedAge'
  <2> SUFFICES ASSUME NEW c \in Conns, obj'[c] = "created"
               PROVE  age'[c] = 0
    BY DEF CreatedAge
  <2>1. CASE obj[c] = "created"
    BY <1>1, <2>1, AgeFrame DEF CreatedAge
  <2>. QED  BY <2>1, BuiltFrame
<1>3. PoolActive'
  <2> SUFFICES ASSUME NEW c \in Conns, HeldByPool(c)'
               PROVE  obj'[c] = "active"
    BY DEF PoolActive
  <2>1. obj[c] = "active"
    BY <1>1, HeldFrame DEF PoolActive
  <2>2. obj'[c] \in {"active", "freed"} /\ obj'[c] # "freed"
    BY <2>1, NeverBack DEF MapInv, PoolOwns, Alive
  <2>. QED  BY <2>2
<1>. QED  BY <1>2, <1>3

\* Every step marks only descriptors of the loop's own, and a deletion
\* visits only what is marked.
LEMMA DeletionStep ==
    ASSUME CoreInv, MarkedOwn, DeletionTodo, [Next]_vars
    PROVE  MarkedOwn' /\ DeletionTodo'
<1> DEFINE Goal == MarkedOwn' /\ DeletionTodo'
<1> USE DEF MarkedOwn, DeletionTodo, LoopOf, CoreInv, TypeOK
<1>1. CASE UNCHANGED <<pc, todo, delayDel>>
  BY <1>1
<1>2. ASSUME NEW l \in Loops, NEW batch \in SUBSET Conns, Poll(l, batch)
      PROVE  Goal
  BY <1>2 DEF Poll, registries
<1>3. ASSUME NEW l \in Loops, NEW c \in Conns, InBatch(l, c),
             CloseConnection(l, c), UNCHANGED <<pc, todo>>
      PROVE  Goal
  BY <1>3 DEF CloseConnection, RoundInv, BatchOwn
<1>4. ASSUME NEW l \in Loops, NEW c \in Conns, OnMessageCloses(l, c)
      PROVE  Goal
  BY <1>3, <1>4 DEF OnMessageCloses, Dispatches, InBatch
<1>12. ASSUME NEW l \in Loops, NEW c \in Conns, OnMessageHangs(l, c)
       PROVE  Goal
  <2>1. /\ c \in pend[l] /\ todo' = todo
        /\ delayDel' = [delayDel EXCEPT ![l] = @ \cup {fdOf[c]}]
        /\ pc' = [pc EXCEPT ![l] = "hung"]
    BY <1>12 DEF OnMessageHangs, Dispatches, CloseConnection
  <2>2. LoopOf(fdOf[c]) = l
    BY <2>1 DEF RoundInv, BatchOwn, InBatch
  <2>. QED  BY <2>1, <2>2
<1>5. ASSUME NEW l \in Loops, SendtoCloses(l)  PROVE Goal
  <2>1. cur[l] \in Conns
    BY <1>5 DEF SendtoCloses
  <2>. QED  BY <1>3, <1>5, <2>1 DEF SendtoCloses, InBatch
<1>6. ASSUME NEW l \in Loops,
             \/ \E c \in Conns : OnMessage(l, c) \/ SkipRead(l, c)
             \/ FinishEvent(l)
             \/ HandleWakeUp(l)
      PROVE  UNCHANGED <<pc, todo, delayDel>>
  BY <1>6
  DEF OnMessage, HandleOnMessage, SkipRead, FinishEvent, HandleWakeUp,
      registries, round
<1>7. ASSUME NEW l \in Loops, NEW kept \in 0 .. Len(lru[l]),
             HandleTimer(l, kept)
      PROVE  Goal
  <2>1. delayDel' = delayDel
    BY <1>7 DEF HandleTimer
  <2>2. /\ \A k \in Loops \ {l} : pc'[k] = pc[k] /\ todo'[k] = todo[k]
        /\ pc'[l] \in {"dispatch", "evict"}
    BY <1>7 DEF HandleTimer
  <2>. QED  BY <2>1, <2>2
<1>8. ASSUME NEW l \in Loops, EndRound(l)  PROVE Goal
  BY <1>8 DEF EndRound, registries
<1>9. ASSUME NEW l \in Loops, NEW f \in Fds, EvictTimedOut(l, f)  PROVE Goal
  BY <1>9 DEF EvictTimedOut
<1>10. ASSUME NEW l \in Loops, NEW f \in Fds, UnlistClosed(l, f)  PROVE Goal
  BY <1>10 DEF UnlistClosed
<1>11. ASSUME NEW l \in Loops, NEW f \in Fds, EraseClosed(l, f)  PROVE Goal
  <2>1. /\ todo'[l] \subseteq todo[l]
        /\ \A k \in Loops \ {l} : todo'[k] = todo[k]
    BY <1>11 DEF EraseClosed
  <2>2. CASE todo[l] = {f}
    <3>1. /\ pc'[l] = "poll" /\ delayDel'[l] = {}
          /\ \A k \in Loops \ {l} :
                pc'[k] = pc[k] /\ delayDel'[k] = delayDel[k]
      BY <1>11, <2>2 DEF EraseClosed
    <3>. QED  BY <2>1, <3>1
  <2>3. CASE todo[l] # {f}
    <3>1. UNCHANGED <<pc, delayDel>>
      BY <1>11, <2>3 DEF EraseClosed
    <3>. QED  BY <2>1, <3>1
  <2>. QED  BY <2>2, <2>3
<1>. QED
  BY <1>1, <1>2, <1>4, <1>5, <1>6, <1>7, <1>8, <1>9, <1>10, <1>11, <1>12,
     RoundFrame
  DEF PollStep, RoundStep, DispatchStep

-----------------------------------------------------------------------------
(* What a loop visits.                                                     *)

\* A step that neither makes a node nor moves a sweep on.
QuietRound ==
    /\ todo' = todo
    /\ \A l \in Loops :
          /\ \/ pc'[l] = pc[l]
             \/ pc[l] = "poll" /\ pc'[l] = "dispatch"
             \/ pc[l] = "dispatch" /\ pc'[l] = "hung"
          /\ delayDel[l] \subseteq delayDel'[l]
          /\ delayDel'[l] = delayDel[l] \/ pc[l] = "dispatch"

Quiet ==
    /\ SameNodes
    /\ QuietRound
    /\ clientMap' = clientMap \/ CreateConnection

\* A step of a round either moves a sweep on or is quiet.
LEMMA RoundMoves ==
    ASSUME CoreInv, [Next]_vars
    PROVE  \/ \E l \in Loops : \/ EndRound(l)
                               \/ \E kept \in 0 .. Len(lru[l]) :
                                     HandleTimer(l, kept)
                               \/ \E f \in Fds : \/ EvictTimedOut(l, f)
                                                 \/ UnlistClosed(l, f)
                                                 \/ EraseClosed(l, f)
           \/ QuietRound
<1> USE DEF CoreInv, TypeOK, QuietRound
<1>1. CASE UNCHANGED <<pc, todo, delayDel>>
  BY <1>1 DEF QuietRound
<1>2. ASSUME NEW l \in Loops, NEW batch \in SUBSET Conns, Poll(l, batch)
      PROVE  QuietRound
  BY <1>2 DEF Poll, registries
<1>3. ASSUME NEW l \in Loops, NEW c \in Conns, CloseConnection(l, c),
             pc[l] = "dispatch", UNCHANGED <<pc, todo>>
      PROVE  QuietRound
  BY <1>3 DEF CloseConnection
<1>4. ASSUME NEW l \in Loops, NEW c \in Conns, OnMessageCloses(l, c)
      PROVE  QuietRound
  BY <1>3, <1>4 DEF OnMessageCloses, Dispatches
<1>7. ASSUME NEW l \in Loops, NEW c \in Conns, OnMessageHangs(l, c)
      PROVE  QuietRound
  BY <1>7 DEF OnMessageHangs, Dispatches, CloseConnection
<1>5. ASSUME NEW l \in Loops, SendtoCloses(l)  PROVE QuietRound
  <2>1. cur[l] \in Conns /\ pc[l] = "dispatch"
    BY <1>5 DEF SendtoCloses, RoundInv, BatchTime
  <2>. QED  BY <1>3, <1>5, <2>1 DEF SendtoCloses
<1>6. ASSUME NEW l \in Loops,
             \/ \E c \in Conns : OnMessage(l, c) \/ SkipRead(l, c)
             \/ FinishEvent(l)
             \/ HandleWakeUp(l)
      PROVE  UNCHANGED <<pc, todo, delayDel>>
  BY <1>6
  DEF OnMessage, HandleOnMessage, SkipRead, FinishEvent, HandleWakeUp,
      registries, round
<1>. QED
  BY <1>1, <1>2, <1>4, <1>5, <1>6, <1>7, RoundFrame
  DEF PollStep, RoundStep, DispatchStep

\* The steps that do.
LEMMA SweepFrame ==
    ASSUME CoreInv, ListDistinct, [Next]_vars
    PROVE  \/ NewConnection
           \/ \E l \in Loops : \/ EndRound(l)
                               \/ \E kept \in 0 .. Len(lru[l]) :
                                     HandleTimer(l, kept)
                               \/ \E f \in Fds : \/ EvictTimedOut(l, f)
                                                 \/ UnlistClosed(l, f)
                                                 \/ EraseClosed(l, f)
           \/ Quiet
<1> SUFFICES ASSUME ~NewConnection,
                    \A l \in Loops :
                       /\ ~EndRound(l)
                       /\ \A kept \in 0 .. Len(lru[l]) : ~HandleTimer(l, kept)
                       /\ \A f \in Fds : /\ ~EvictTimedOut(l, f)
                                         /\ ~UnlistClosed(l, f)
                                         /\ ~EraseClosed(l, f)
             PROVE  Quiet
  OBVIOUS
<1>1. SameNodes
  BY NodesFrame DEF CoreInv
<1>2. clientMap' = clientMap \/ CreateConnection
  <2>1. ASSUME NEW c \in Conns, NEW f \in Fds, Accept(c, f)
        PROVE  clientMap' = clientMap
    BY <2>1 DEF Accept, registries
  <2>2. CASE DropSocket \/ AddToEpoll
    BY <2>2 DEF DropSocket, AddToEpoll, registries
  <2>3. ASSUME NEW w \in Workers, WorkerDrop(w)  PROVE clientMap' = clientMap
    BY <2>3 DEF WorkerDrop, registries
  <2>. QED  BY <2>1, <2>2, <2>3, MapFrame DEF MainStep
<1>3. QuietRound
  BY RoundMoves
<1>. QED  BY <1>1, <1>2, <1>3 DEF Quiet

\* A step that leaves a connection in the map found it there.
LEMMA RegisteredBefore ==
    ASSUME CoreInv, [Next]_vars, NEW c \in Conns,
           obj[c] \notin {"unborn", "accepted"}, Registered(c)'
    PROVE  Registered(c) /\ fdOf'[c] = fdOf[c] /\ fdOf[c] \in Fds
<1> USE DEF CoreInv
<1>1. fdOf'[c] = fdOf[c] /\ fdOf[c] \in Fds /\ clientMap'[fdOf[c]] = c
  BY NeverBack DEF Registered
<1>2. clientMap'[fdOf[c]] = clientMap[fdOf[c]]
  <2>1. ASSUME NEW d \in Conns, NEW f \in Fds, Accept(d, f)
        PROVE  clientMap' = clientMap
    BY <2>1 DEF Accept, registries
  <2>2. CASE DropSocket \/ NewConnection \/ AddToEpoll
    BY <2>2 DEF DropSocket, NewConnection, AddToEpoll, registries
  <2>3. CASE CreateConnection
    <3>1. mainConn \in Conns /\ obj[mainConn] = "accepted"
      BY <2>3 DEF CreateConnection, TypeOK, MapInv, MainOwns
    <3>. QED  BY <1>1, <2>3, <3>1 DEF CreateConnection, TypeOK
  <2>4. ASSUME NEW l \in Loops, NEW f \in Fds,
               EvictTimedOut(l, f) \/ EraseClosed(l, f)
        PROVE  clientMap'[fdOf[c]] = clientMap[fdOf[c]]
    <3>1. clientMap' = [clientMap EXCEPT ![f] = NoConn]
      BY <2>4 DEF EvictTimedOut, EraseClosed, EraseFromMap
    <3>. QED  BY <1>1, <3>1, ConnsAssumption DEF TypeOK
  <2>5. ASSUME NEW w \in Workers, WorkerDrop(w)  PROVE clientMap' = clientMap
    BY <2>5 DEF WorkerDrop, registries
  <2>. QED  BY <2>1, <2>2, <2>3, <2>4, <2>5, MapFrame DEF MainStep
<1>. QED  BY <1>1, <1>2 DEF Registered

\* A served connection of the map stays known to its loop.
LEMMA TracedStep ==
    ASSUME CoreInv, NodesInv, MarkedOwn, DeletionTodo, AllTraced, [Next]_vars
    PROVE  AllTraced'
<1> SUFFICES ASSUME NEW c \in Conns, Joining(c)', Registered(c)'
             PROVE  Traced(c)'
  BY DEF AllTraced
<1> USE DEF CoreInv
<1>1. CASE NewConnection /\ c = mainConn
  <2>1. PICK k \in Loops : fdOf[c] \in Fds /\ k = LoopOf(fdOf[c])
    BY <1>1, NewNode, LoopOfInLoops DEF NodesInv
  <2>2. Listed(k, c)'
    BY <1>1, <2>1, NewNode DEF NodesInv
  <2>3. connMap'[fdOf[c]] = c /\ fdOf' = fdOf
    BY <1>1, <2>1 DEF NewConnection, TypeOK, objects
  <2>. QED  BY <2>1, <2>2, <2>3 DEF Traced, Listed, LoopOf
<1>2. CASE ~(NewConnection /\ c = mainConn)
  <2>1. Joining(c)
    <3>1. CASE obj'[c] = "active"
      BY <3>1, BuiltFrame DEF Joining
    <3>2. CASE mainPc' = "activate" /\ c = mainConn'
      BY <1>2, <3>2, MainFrame
      DEF MainStep, Accept, DropSocket, CreateConnection, NewConnection,
          AddToEpoll, mainVars, Joining
    <3>. QED  BY <3>1, <3>2 DEF Joining
  <2>2. obj[c] \notin {"unborn", "accepted"}
    BY <2>1 DEF Joining, NodesInv, MainNew
  <2>3. Registered(c) /\ fdOf'[c] = fdOf[c] /\ fdOf[c] \in Fds
    BY <2>2, RegisteredBefore
  <2>4. Traced(c)
    BY <2>1, <2>3 DEF AllTraced
  <2>5. PICK f \in Fds : f = fdOf[c]
    BY <2>3
  <2>6. PICK k \in Loops : k = LoopOf(f)
    BY LoopOfInLoops
  <2> DEFINE Known(m, n, p, t, r) == \/ m[f] = c /\ InList(n[k], c)
                                     \/ p[k] = "evict" /\ f \in t[k]
                                     \/ p[k] = "unlist" /\ f \in r[k]
                                     \/ p[k] = "erase" /\ f \in t[k]
  <2>7. Known(connMap, lru, pc, todo, delayDel)
    BY <2>4, <2>5, <2>6 DEF Traced, Listed
  <2>8. Known(connMap', lru', pc', todo', delayDel') => Traced(c)'
    BY <2>3, <2>5, <2>6 DEF Traced, Listed, LoopOf
  <2>9. clientMap[f] = c /\ clientMap'[f] = c
    BY <2>3, <2>5 DEF Registered
  <2> DEFINE Goal == Known(connMap', lru', pc', todo', delayDel')
  <2> USE DEF TypeOK
  <2>10. CASE NewConnection
    <3>1. f # fdOf[mainConn]
      BY <1>2, <2>9, <2>10 DEF NewConnection
    <3>2. InList(lru[k], c) => InList(lru'[k], c)
      BY <2>10, NewNode DEF NodesInv, Listed
    <3>. QED  BY <2>7, <2>8, <2>10, <3>1, <3>2 DEF NewConnection, round
  <2>11. ASSUME NEW l \in Loops, NEW kept \in 0 .. Len(lru[l]),
                HandleTimer(l, kept)
         PROVE  Goal
    <3>1. PICK gone \in SUBSET Fds : Sweeps(l, gone)
      BY <2>11, TimerSweeps DEF NodesInv
    <3>2. pc[l] = "dispatch" /\ delayDel' = delayDel
      BY <2>11 DEF HandleTimer
    <3>3. /\ connMap' = [g \in Fds |-> IF g \in gone THEN NoConn
                                       ELSE connMap[g]]
          /\ todo' = [todo EXCEPT ![l] = gone]
          /\ pc' = [pc EXCEPT ![l] = IF gone = {} THEN "dispatch"
                                     ELSE "evict"]
      BY <3>1 DEF Sweeps
    <3>4. CASE f \in gone
      <4>1. PICK d \in Conns : Listed(l, d) /\ fdOf[d] = f
        BY <3>1, <3>4 DEF Sweeps
      <4>2. k = l
        BY <2>6, <4>1 DEF NodesInv, ListOwn
      <4>. QED  BY <3>3, <3>4, <4>2
    <3>5. CASE f \notin gone
      <4>1. connMap'[f] = connMap[f]
        BY <3>3, <3>5
      <4>4. InList(lru[k], c) => InList(lru'[k], c)
        BY <2>5, <2>9, <3>1, <3>5, ConnsAssumption
        DEF Sweeps, Listed, MapInv, MapSound
      <4>2. CASE k = l
        BY <2>7, <3>2, <4>1, <4>2, <4>4
      <4>3. CASE k # l
        BY <2>7, <3>2, <3>3, <4>1, <4>3, <4>4
      <4>. QED  BY <4>2, <4>3
    <3>. QED  BY <3>4, <3>5
  <2>12. ASSUME NEW l \in Loops, EndRound(l)  PROVE Goal
    BY <2>7, <2>12 DEF EndRound, registries
  <2>13. ASSUME NEW l \in Loops, NEW g \in Fds, EvictTimedOut(l, g)
         PROVE  Goal
    <3>1. f # g
      BY <2>9, <2>13, ConnsAssumption DEF EvictTimedOut, EraseFromMap
    <3>. QED  BY <2>7, <2>13, <3>1 DEF EvictTimedOut
  <2>14. ASSUME NEW l \in Loops, NEW g \in Fds, UnlistClosed(l, g)
         PROVE  Goal
    <3>1. g \in delayDel[l] /\ LoopOf(g) = l
      BY <2>14 DEF UnlistClosed, DeletionTodo, MarkedOwn
    <3>2. /\ pc[l] = "unlist" /\ delayDel' = delayDel
          /\ connMap' = [connMap EXCEPT ![g] = NoConn]
      BY <2>14, NodeErased DEF UnlistClosed, NodesInv
    <3>3. /\ todo' = [todo EXCEPT ![l] = IF @ = {g} THEN delayDel[l]
                                         ELSE @ \ {g}]
          /\ pc' = [pc EXCEPT ![l] = IF todo[l] = {g} THEN "erase" ELSE @]
      BY <2>14 DEF UnlistClosed
    <3>6. ASSUME f # g, connMap[f] = c, InList(lru[k], c)
          PROVE  InList(lru'[k], c)
      <4>1. connMap[g] # c
        BY <2>5, <3>1, <3>6, ConnsAssumption DEF NodesInv, EntryOwn
      <4>. QED  BY <2>14, <3>6, <4>1, NodeErased DEF NodesInv, Listed
    <3>4. CASE k = l
      <4>1. f \in delayDel[l] \/ (connMap'[f] = c /\ InList(lru'[k], c))
        BY <2>7, <3>1, <3>2, <3>4, <3>6
      <4>. QED  BY <3>2, <3>3, <3>4, <4>1
    <3>5. CASE k # l
      <4>1. f # g
        BY <2>6, <3>1, <3>5
      <4>. QED  BY <2>7, <3>2, <3>3, <3>5, <3>6, <4>1
    <3>. QED  BY <3>4, <3>5
  <2>15. ASSUME NEW l \in Loops, NEW g \in Fds, EraseClosed(l, g)
         PROVE  Goal
    <3>1. f # g
      BY <2>9, <2>15, ConnsAssumption DEF EraseClosed, EraseFromMap
    <3>. QED  BY <2>7, <2>15, <3>1 DEF EraseClosed
  <2>16. CASE Quiet
    <3>1. /\ connMap' = connMap /\ QuietRound
          /\ InList(lru[k], c) => InList(lru'[k], c)
      BY <2>16 DEF Quiet, SameNodes, Listed
    <3> HIDE DEF TypeOK, CoreInv
    <3>2. /\ todo'[k] = todo[k]
          /\ pc[k] \notin {"poll", "dispatch"} => pc'[k] = pc[k]
          /\ f \in delayDel[k] => f \in delayDel'[k]
      BY <3>1 DEF QuietRound
    <3>. QED  BY <2>7, <2>8, <3>1, <3>2
  <2>. QED
    BY <2>8, <2>10, <2>11, <2>12, <2>13, <2>14, <2>15, <2>16, SweepFrame
    DEF NodesInv
<1>. QED  BY <1>1, <1>2

\* What a loop evicts or deletes is its own.
LEMMA VisitsOwn ==
    ASSUME MarkedOwn, DeletionTodo, Evicting, NEW l \in Loops,
           NEW f \in todo[l], pc[l] \in {"evict", "unlist", "erase"}
    PROVE  LoopOf(f) = l
  BY DEF MarkedOwn, DeletionTodo, Evicting

\* What a sweep is to evict stays idle, without a node and in the map, until
\* it is evicted.
LEMMA EvictingStep ==
    ASSUME CoreInv, NodesInv, SweepInv, [Next]_vars
    PROVE  Evicting'
<1> SUFFICES ASSUME NEW k \in Loops, pc'[k] = "evict", NEW g \in todo'[k]
             PROVE  /\ LoopOf(g) = k
                    /\ clientMap'[g] # NoConn
                    /\ age'[clientMap'[g]] >= Timeout
                    /\ connMap'[g] = NoConn
  BY DEF Evicting, LoopOf
<1> DEFINE Goal == /\ LoopOf(g) = k
                   /\ clientMap'[g] # NoConn
                   /\ age'[clientMap'[g]] >= Timeout
                   /\ connMap'[g] = NoConn
<1> USE AgesAssumption, ConnsAssumption DEF CoreInv, TypeOK
<1>1. ASSUME pc[k] = "evict", g \in todo[k]
      PROVE  /\ LoopOf(g) = k /\ g \in Fds
             /\ connMap[g] = NoConn
             /\ clientMap[g] \in Conns
             /\ Alive(clientMap[g]) /\ fdOf[clientMap[g]] = g
             /\ age[clientMap[g]] >= Timeout
             /\ age'[clientMap[g]] >= Timeout
  <2>1. PICK c \in Conns : c = clientMap[g]
    BY <1>1 DEF SweepInv, Evicting
  <2>2. /\ LoopOf(g) = k /\ connMap[g] = NoConn /\ g \in Fds
        /\ Alive(c) /\ fdOf[c] = g /\ age[c] >= Timeout
    BY <1>1, <2>1 DEF SweepInv, Evicting, MapInv, MapSound
  <2>3. ASSUME NEW l \in Loops, Dispatches(l, c)  PROVE FALSE
    <3>1. LoopOf(fdOf[c]) = l /\ pc[l] = "dispatch"
      BY <2>3 DEF Dispatches, RoundInv, BatchOwn, InBatch
    <3>. QED  BY <1>1, <2>2, <3>1
  <2>4. ~(CreateConnection /\ c = mainConn)
    BY <2>2 DEF CreateConnection, MapInv, MainOwns, Alive
  <2>5. age[c] \in Nat /\ Timeout \in Nat
    OBVIOUS
  <2>6. age'[c] = age[c] \/ age'[c] = age[c] + 1
    BY <2>3, <2>4, AgeFrame
  <2>7. age'[c] >= Timeout
    BY <2>2, <2>5, <2>6
  <2>. QED  BY <2>1, <2>2, <2>7
<1>2. ASSUME pc[k] = "evict", g \in todo[k],
             clientMap'[g] = clientMap[g], connMap'[g] = connMap[g]
      PROVE  Goal
  BY <1>1, <1>2
<1>3. CASE NewConnection
  <2>1. pc[k] = "evict" /\ g \in todo[k]
    BY <1>3 DEF NewConnection, round
  <2>2. g # fdOf[mainConn]
    <3> SUFFICES ASSUME g = fdOf[mainConn]  PROVE FALSE
      OBVIOUS
    <3>1. clientMap[g] = mainConn /\ mainConn \in Conns
          /\ obj[mainConn] \in {"created", "freed"}
      BY <1>3 DEF NewConnection, NodesInv, MainNew
    <3>2. age[mainConn] = 0
      BY <1>1, <2>1, <3>1 DEF Alive, SweepInv, CreatedAge
    <3>. QED  BY <1>1, <2>1, <3>1, <3>2
  <2>3. clientMap' = clientMap /\ connMap'[g] = connMap[g]
    BY <1>1, <1>3, <2>1, <2>2 DEF NewConnection
  <2>. QED  BY <1>2, <2>1, <2>3
<1>4. ASSUME NEW l \in Loops, NEW kept \in 0 .. Len(lru[l]),
             HandleTimer(l, kept)
      PROVE  Goal
  <2>1. PICK gone \in SUBSET Fds : Sweeps(l, gone)
    BY <1>4, TimerSweeps DEF NodesInv
  <2>2. clientMap' = clientMap /\ age' = age
    BY <1>4 DEF HandleTimer, objects
  <2>3. /\ connMap' = [f \in Fds |-> IF f \in gone THEN NoConn
                                     ELSE connMap[f]]
        /\ todo' = [todo EXCEPT ![l] = gone]
        /\ pc' = [pc EXCEPT ![l] = IF gone = {} THEN "dispatch" ELSE "evict"]
    BY <2>1 DEF Sweeps
  <2>4. CASE k = l
    <3>1. g \in gone /\ g \in Fds
      BY <2>3, <2>4
    <3>2. PICK d \in Conns : /\ Listed(l, d) /\ Alive(d)
                             /\ age[d] >= Timeout /\ fdOf[d] = g
      BY <2>1, <3>1 DEF Sweeps
    <3>3. LoopOf(g) = l /\ clientMap[g] = d
      BY <3>2 DEF NodesInv, ListOwn, SweepInv, ListMapped, Registered
    <3>. QED  BY <2>2, <2>3, <2>4, <3>1, <3>2, <3>3
  <2>5. CASE k # l
    <3>1. pc[k] = "evict" /\ g \in todo[k]
      BY <2>3, <2>5
    <3>2. connMap'[g] = connMap[g]
      BY <1>1, <2>3, <3>1
    <3>. QED  BY <1>2, <2>2, <3>1, <3>2
  <2>. QED  BY <2>4, <2>5
<1>5. ASSUME NEW l \in Loops, EndRound(l)  PROVE Goal
  <2>1. pc[k] = "evict" /\ g \in todo[k]
    BY <1>5 DEF EndRound
  <2>. QED  BY <1>2, <1>5, <2>1 DEF EndRound, registries
<1>6. ASSUME NEW l \in Loops, NEW f \in Fds, EvictTimedOut(l, f)
      PROVE  Goal
  <2>1. pc[k] = "evict" /\ g \in todo[k] /\ (k = l => g # f)
    BY <1>6 DEF EvictTimedOut
  <2>2. LoopOf(f) = l
    BY <1>6, VisitsOwn DEF EvictTimedOut, SweepInv
  <2>3. g # f
    BY <1>1, <2>1, <2>2
  <2>4. connMap' = connMap /\ clientMap'[g] = clientMap[g]
    BY <1>1, <1>6, <2>1, <2>3 DEF EvictTimedOut, EraseFromMap
  <2>. QED  BY <1>2, <2>1, <2>4
<1>7. ASSUME NEW l \in Loops, NEW f \in Fds, UnlistClosed(l, f)
      PROVE  Goal
  <2>1. pc[k] = "evict" /\ g \in todo[k]
    BY <1>7 DEF UnlistClosed
  <2>2. clientMap' = clientMap /\ connMap'[g] = connMap[g]
    BY <1>1, <1>7, <2>1 DEF UnlistClosed
  <2>. QED  BY <1>2, <2>1, <2>2
<1>8. ASSUME NEW l \in Loops, NEW f \in Fds, EraseClosed(l, f)
      PROVE  Goal
  <2>1. k # l /\ pc[k] = "evict" /\ g \in todo[k]
    BY <1>8 DEF EraseClosed
  <2>2. LoopOf(f) = l
    BY <1>8, VisitsOwn DEF EraseClosed, SweepInv
  <2>3. g # f
    BY <1>1, <2>1, <2>2
  <2>4. connMap' = connMap /\ clientMap'[g] = clientMap[g]
    BY <1>1, <1>8, <2>1, <2>3 DEF EraseClosed, EraseFromMap
  <2>. QED  BY <1>2, <2>1, <2>4
<1>9. CASE Quiet
  <2>1. pc[k] = "evict" /\ g \in todo[k] /\ connMap' = connMap
    BY <1>9 DEF Quiet, QuietRound, SameNodes
  <2>2. CASE clientMap' = clientMap
    BY <1>2, <2>1, <2>2
  <2>3. CASE CreateConnection
    <3>1. clientMap[fdOf[mainConn]] = NoConn
      BY <2>3, FreshEntry DEF CreateConnection
    <3>2. clientMap'[g] = clientMap[g]
      BY <1>1, <2>1, <2>3, <3>1 DEF CreateConnection
    <3>. QED  BY <1>2, <2>1, <3>2
  <2>. QED  BY <1>9, <2>2, <2>3 DEF Quiet
<1>. QED
  BY <1>3, <1>4, <1>5, <1>6, <1>7, <1>8, <1>9, SweepFrame DEF NodesInv

\* A descriptor that deleteConnection has visited gets no node while it
\* holds the mutex.
LEMMA UnlistingStep ==
    ASSUME CoreInv, NodesInv, SweepInv, [Next]_vars
    PROVE  Unlisting'
<1> SUFFICES ASSUME NEW k \in Loops, pc'[k] = "unlist",
                    NEW g \in delayDel'[k], g \notin todo'[k]
             PROVE  connMap'[g] = NoConn
  BY DEF Unlisting
<1> DEFINE Goal == connMap'[g] = NoConn
<1> USE DEF CoreInv, TypeOK
<1>1. ASSUME pc[k] = "unlist", g \in delayDel[k], g \notin todo[k]
      PROVE  connMap[g] = NoConn /\ LoopOf(g) = k /\ g \in Fds
  BY <1>1 DEF SweepInv, Unlisting, MarkedOwn
<1>2. CASE NewConnection
  <2>1. pc[k] = "unlist" /\ g \in delayDel[k] /\ g \notin todo[k]
    BY <1>2 DEF NewConnection, round
  <2>2. g # fdOf[mainConn]
    BY <1>1, <1>2, <2>1 DEF NewConnection, Unlocked
  <2>. QED  BY <1>1, <1>2, <2>1, <2>2 DEF NewConnection
<1>3. ASSUME NEW l \in Loops, NEW kept \in 0 .. Len(lru[l]),
             HandleTimer(l, kept)
      PROVE  Goal
  <2>1. PICK gone \in SUBSET Fds : Sweeps(l, gone)
    BY <1>3, TimerSweeps DEF NodesInv
  <2>2. delayDel' = delayDel
    BY <1>3 DEF HandleTimer
  <2>3. pc[k] = "unlist" /\ g \in delayDel[k] /\ g \notin todo[k]
    BY <2>1, <2>2 DEF Sweeps
  <2>4. connMap'[g] \in {NoConn, connMap[g]}
    BY <1>1, <2>1, <2>3 DEF Sweeps
  <2>. QED  BY <1>1, <2>3, <2>4
<1>4. ASSUME NEW l \in Loops, EndRound(l)  PROVE Goal
  BY <1>1, <1>4 DEF EndRound, registries
<1>5. ASSUME NEW l \in Loops, NEW f \in Fds, EvictTimedOut(l, f)
      PROVE  Goal
  BY <1>1, <1>5 DEF EvictTimedOut
<1>6. ASSUME NEW l \in Loops, NEW f \in Fds, UnlistClosed(l, f)
      PROVE  Goal
  <2>1. connMap' = [connMap EXCEPT ![f] = NoConn] /\ delayDel' = delayDel
    BY <1>6, NodeErased DEF UnlistClosed, NodesInv
  <2>2. pc[k] = "unlist" /\ (g \notin todo[k] \/ g = f)
    BY <1>6, <2>1 DEF UnlistClosed
  <2>. QED  BY <1>1, <2>1, <2>2
<1>7. ASSUME NEW l \in Loops, NEW f \in Fds, EraseClosed(l, f)
      PROVE  Goal
  BY <1>1, <1>7 DEF EraseClosed
<1>8. CASE Quiet
  <2>1. /\ pc[k] = "unlist" /\ g \in delayDel[k] /\ g \notin todo[k]
        /\ connMap' = connMap
    BY <1>8 DEF Quiet, QuietRound, SameNodes
  <2>. QED  BY <1>1, <2>1
<1>. QED
  BY <1>2, <1>3, <1>4, <1>5, <1>6, <1>7, <1>8, SweepFrame DEF NodesInv

\* While the entries of the marked descriptors are erased, only newConnection
\* gives one of them a node.
LEMMA ErasedBefore ==
    ASSUME CoreInv, NodesInv, SweepInv, [Next]_vars, ~NewConnection,
           NEW k \in Loops, pc'[k] = "erase", NEW g \in Fds, g \in todo'[k],
           connMap'[g] # NoConn
    PROVE  connMap'[g] = connMap[g] /\ pc[k] = "erase" /\ g \in todo[k]
<1> USE DEF CoreInv
<1>1. connMap'[g] = connMap[g]
  BY NodesGrow DEF NodesInv
<1>2. ASSUME NEW l \in Loops, NEW kept \in 0 .. Len(lru[l]),
             HandleTimer(l, kept)
      PROVE  pc[k] = "erase" /\ g \in todo[k]
  <2>1. PICK gone \in SUBSET Fds : Sweeps(l, gone)
    BY <1>2, TimerSweeps DEF NodesInv
  <2>. QED  BY <2>1 DEF Sweeps, TypeOK
<1>3. ASSUME NEW l \in Loops, EndRound(l)
      PROVE  pc[k] = "erase" /\ g \in todo[k]
  BY <1>3 DEF EndRound, TypeOK
<1>4. ASSUME NEW l \in Loops, NEW f \in Fds,
             EvictTimedOut(l, f) \/ EraseClosed(l, f)
      PROVE  pc[k] = "erase" /\ g \in todo[k]
  <2>1. CASE EvictTimedOut(l, f)
    BY <2>1 DEF EvictTimedOut, TypeOK
  <2>2. CASE EraseClosed(l, f)
    <3>1. /\ todo' = [todo EXCEPT ![l] = @ \ {f}]
          /\ pc' = pc \/ pc' = [pc EXCEPT ![l] = "poll"]
      BY <2>2 DEF EraseClosed
    <3>. QED  BY <3>1 DEF TypeOK
  <2>. QED  BY <1>4, <2>1, <2>2
<1>5. ASSUME NEW l \in Loops, NEW f \in Fds, UnlistClosed(l, f)
      PROVE  pc[k] = "erase" /\ g \in todo[k]
  <2>1. connMap' = [connMap EXCEPT ![f] = NoConn]
    BY <1>5, NodeErased DEF NodesInv
  <2>2. CASE pc[k] = "erase"
    <3>1. k # l
      BY <1>5, <2>2 DEF UnlistClosed
    <3>. QED  BY <1>5, <2>2, <3>1 DEF UnlistClosed, TypeOK
  <2>3. CASE pc[k] # "erase"
    <3>1. /\ k = l /\ pc[l] = "unlist" /\ todo[l] = {f}
          /\ g \in delayDel[l]
      BY <1>5, <2>3 DEF UnlistClosed, TypeOK
    <3>2. g # f
      BY <2>1 DEF TypeOK
    <3>3. connMap[g] = NoConn
      BY <3>1, <3>2 DEF SweepInv, Unlisting
    <3>. QED  BY <1>1, <3>3
  <2>. QED  BY <2>2, <2>3
<1>6. CASE Quiet
  <2>1. pc[k] = "erase" /\ g \in todo[k]
    BY <1>6 DEF Quiet, QuietRound
  <2>. QED  BY <1>1, <2>1
<1>. QED
  BY <1>1, <1>2, <1>3, <1>4, <1>5, <1>6, SweepFrame DEF NodesInv

\* There it is that of a connection which has not been served yet.
LEMMA ErasingStep ==
    ASSUME CoreInv, CoreInv', NodesInv, SweepInv, [Next]_vars
    PROVE  Erasing'
<1> SUFFICES ASSUME NEW k \in Loops, pc'[k] = "erase", NEW g \in todo'[k],
                    connMap'[g] # NoConn
             PROVE  ~HeldByPool(connMap[g])'
  BY DEF Erasing
<1> USE DEF CoreInv
<1>1. g \in Fds
  BY DEF TypeOK
<1>2. PICK e \in Conns : e = connMap'[g]
  BY <1>1 DEF TypeOK
<1>3. SUFFICES ASSUME HeldByPool(e)'  PROVE FALSE
  BY <1>2 DEF HeldByPool
<1>4. ASSUME connMap[g] = e, pc[k] = "erase", g \in todo[k]  PROVE FALSE
  <2>1. ~HeldByPool(e)
    BY <1>4, ConnsAssumption DEF SweepInv, Erasing
  <2>2. PICK l \in Loops : Dispatches(l, e)
    BY <2>1, <1>3, HeldFrame
  <2>3. pc[l] = "dispatch" /\ LoopOf(fdOf[e]) = l
    BY <2>2 DEF Dispatches, RoundInv, BatchOwn, InBatch
  <2>4. fdOf[e] = g
    BY <1>1, <1>4, ConnsAssumption DEF NodesInv, EntryOwn
  <2>5. LoopOf(g) = k
    BY <1>4, VisitsOwn DEF SweepInv
  <2>. QED  BY <1>4, <2>3, <2>4, <2>5
<1>5. CASE NewConnection
  <2>1. pc[k] = "erase" /\ g \in todo[k]
    BY <1>5 DEF NewConnection, round
  <2>2. CASE g = fdOf[mainConn]
    <3>1. e = mainConn /\ obj[e] \in {"created", "freed"}
      BY <1>1, <1>2, <1>5, <2>2
      DEF NewConnection, NodesInv, MainNew, TypeOK
    <3>2. HeldByPool(e)
      BY <1>3, <1>5 DEF NewConnection, pool, HeldByPool
    <3>. QED  BY <3>1, <3>2 DEF SweepInv, PoolActive
  <2>3. CASE g # fdOf[mainConn]
    <3>1. connMap'[g] = connMap[g]
      BY <1>1, <1>5, <2>3 DEF NewConnection, TypeOK
    <3>. QED  BY <1>2, <1>4, <2>1, <3>1
  <2>. QED  BY <2>2, <2>3
<1>6. CASE ~NewConnection
  <2>1. connMap[g] = e /\ pc[k] = "erase" /\ g \in todo[k]
    BY <1>1, <1>2, <1>6, ErasedBefore
  <2>. QED  BY <1>4, <2>1
<1>. QED  BY <1>5, <1>6

\* A live connection with a node stays in the map, under the iterator kept.
LEMMA ListMappedStep ==
    ASSUME CoreInv, NodesInv, SweepInv, [Next]_vars
    PROVE  ListMapped'
<1> SUFFICES ASSUME NEW k \in Loops, NEW d \in Conns,
                    Listed(k, d)', Alive(d)'
             PROVE  Registered(d)' /\ connMap'[fdOf'[d]] = d
  BY DEF ListMapped
<1> DEFINE Goal == Registered(d)' /\ connMap'[fdOf'[d]] = d
<1> USE ConnsAssumption DEF CoreInv, TypeOK
<1>1. CASE NewConnection /\ d = mainConn
  BY <1>1 DEF NewConnection, Registered, objects
<1>2. CASE ~(NewConnection /\ d = mainConn)
  <2>1. Listed(k, d)
    BY <1>2, NodesGrow DEF NodesInv
  <2>2. /\ obj[d] \notin {"unborn", "accepted"} /\ fdOf[d] \in Fds
        /\ LoopOf(fdOf[d]) = k
    BY <2>1 DEF NodesInv, ListOwn
  <2>3. Alive(d)
    BY <2>2, StaysBuilt DEF Alive
  <2>4. PICK g \in Fds : g = fdOf[d]
    BY <2>2
  <2>5. LoopOf(g) = k /\ clientMap[g] = d /\ connMap[g] = d
    BY <2>1, <2>2, <2>3, <2>4 DEF SweepInv, ListMapped, Registered
  <2>6. fdOf'[d] = g
    BY <2>2, <2>4, NeverBack
  <2>7. ASSUME clientMap'[g] = clientMap[g], connMap'[g] = connMap[g]
        PROVE  Goal
    BY <2>5, <2>6, <2>7 DEF Registered
  <2>8. CASE NewConnection
    <3>1. g # fdOf[mainConn]
      BY <1>2, <2>5, <2>8 DEF NewConnection
    <3>. QED  BY <2>7, <2>8, <3>1 DEF NewConnection
  <2>9. ASSUME NEW l \in Loops, NEW kept \in 0 .. Len(lru[l]),
               HandleTimer(l, kept)
        PROVE  Goal
    <3>1. PICK gone \in SUBSET Fds : Sweeps(l, gone)
      BY <2>9, TimerSweeps DEF NodesInv
    <3>2. clientMap' = clientMap
      BY <2>9 DEF HandleTimer
    <3>3. g \notin gone
      <4> SUFFICES ASSUME g \in gone  PROVE FALSE
        OBVIOUS
      <4>1. PICK e \in Conns : /\ Listed(l, e) /\ ~Listed(l, e)'
                               /\ Alive(e) /\ fdOf[e] = g
        BY <3>1 DEF Sweeps
      <4>2. e = d
        BY <2>3, <2>4, <4>1 DEF MapInv, FdUnique, Holding, Alive
      <4>3. l = k
        BY <2>2, <4>1, <4>2 DEF NodesInv, ListOwn
      <4>. QED  BY <4>1, <4>2, <4>3
    <3>4. connMap'[g] = connMap[g]
      BY <3>1, <3>3 DEF Sweeps
    <3>. QED  BY <2>7, <3>2, <3>4
  <2>10. ASSUME NEW l \in Loops, EndRound(l)  PROVE Goal
    BY <2>7, <2>10 DEF EndRound, registries
  <2>11. ASSUME NEW l \in Loops, NEW f \in Fds, EvictTimedOut(l, f)
         PROVE  Goal
    <3>1. f # g
      BY <2>5, <2>11 DEF EvictTimedOut, SweepInv, Evicting
    <3>. QED  BY <2>7, <2>11, <3>1 DEF EvictTimedOut, EraseFromMap
  <2>12. ASSUME NEW l \in Loops, NEW f \in Fds, UnlistClosed(l, f)
         PROVE  Goal
    <3>1. LoopOf(f) = l
      BY <2>12, VisitsOwn DEF UnlistClosed, SweepInv
    <3>2. f # g
      BY <2>1, <2>5, <2>12, <3>1, NodeErased DEF NodesInv
    <3>3. connMap'[g] = connMap[g]
      BY <2>12, <3>2, NodeErased DEF NodesInv
    <3>. QED  BY <2>7, <2>12, <3>3 DEF UnlistClosed
  <2>13. ASSUME NEW l \in Loops, NEW f \in Fds, EraseClosed(l, f)
         PROVE  Goal
    <3>1. f # g
      <4> SUFFICES ASSUME f = g  PROVE FALSE
        OBVIOUS
      <4>1. f \in todo[l] /\ pc[l] = "erase" /\ connMap[f] = d /\ d # NoConn
        BY <2>5, <2>13 DEF EraseClosed
      <4> HIDE DEF TypeOK, CoreInv
      <4>2. ~HeldByPool(d)
        BY <4>1, Zenon DEF SweepInv, Erasing
      <4>3. obj' = [c \in Conns |->
                      IF clientMap[f] = c /\ ~HeldByPool(c)
                      THEN "freed" ELSE obj[c]]
        BY <2>13 DEF EraseClosed, EraseFromMap
      <4>4. obj'[d] = "freed"
        BY <2>5, <4>2, <4>3
      <4>. QED  BY <4>4 DEF Alive
    <3>. QED  BY <2>7, <2>13, <3>1 DEF EraseClosed, EraseFromMap
  <2>14. CASE Quiet
    <3>1. connMap' = connMap
      BY <2>14 DEF Quiet, SameNodes
    <3>2. CASE clientMap' = clientMap
      BY <2>7, <3>1, <3>2
    <3>3. CASE CreateConnection
      <4>1. clientMap[fdOf[mainConn]] = NoConn
        BY <3>3, FreshEntry DEF CreateConnection
      <4>2. clientMap'[g] = clientMap[g]
        BY <2>5, <3>3, <4>1 DEF CreateConnection
      <4>. QED  BY <2>7, <3>1, <4>2
    <3>. QED  BY <2>14, <3>2, <3>3 DEF Quiet
  <2>. QED
    BY <2>8, <2>9, <2>10, <2>11, <2>12, <2>13, <2>14, SweepFrame
    DEF NodesInv
<1>. QED  BY <1>1, <1>2

\* The lists, the marks and the sweeps of a loop stay in accord with the map.
LEMMA ListStep ==
    ASSUME CoreInv, CoreInv', ListInv, [Next]_vars
    PROVE  ListInv'
<1>1. NodesInv'
  BY NodesStep DEF CoreInv, ListInv
<1>2. MarkedOwn' /\ DeletionTodo'
  BY DeletionStep DEF ListInv, SweepInv
<1>3. CreatedAge' /\ PoolActive'
  BY ServedStep DEF ListInv, SweepInv
<1>4. ListMapped' /\ Evicting' /\ Unlisting' /\ Erasing'
  BY ListMappedStep, EvictingStep, UnlistingStep, ErasingStep DEF ListInv
<1>5. AllTraced'
  BY TracedStep DEF ListInv, SweepInv
<1>. QED  BY <1>1, <1>2, <1>3, <1>4, <1>5 DEF ListInv, SweepInv

\* They do so in every reachable state.
LEMMA ListCorrect == Spec => [](CoreInv /\ ListInv)
<1>1. Init => CoreInv /\ ListInv
  BY TypeInit, MapInit, RoundInit, ListInit DEF CoreInv
<1>2. CoreInv /\ [Next]_vars => CoreInv'
  BY TypeStep, MapStep, PoolStep, RoundStepInv DEF CoreInv, MapInv
<1>3. CoreInv /\ ListInv /\ [Next]_vars => (CoreInv /\ ListInv)'
  BY <1>2, ListStep
<1>. QED  BY <1>1, <1>3, PTL DEF Spec

\* Every served connection is a node of the list that the idle sweep of its
\* loop walks, under the iterator kept for its descriptor, unless a sweep is
\* removing it (EventLoop.cpp:145-165, 176-196).
THEOREM SweepsSeeAll == Spec => []Tracked
<1>1. CoreInv /\ ListInv => Tracked
  <2> SUFFICES ASSUME CoreInv, ListInv, NEW c \in Conns,
                      obj[c] = "active", Registered(c)
               PROVE  \/ /\ connMap[fdOf[c]] = c
                         /\ InList(lru[LoopOf(fdOf[c])], c)
                      \/ /\ pc[LoopOf(fdOf[c])] = "evict"
                         /\ fdOf[c] \in todo[LoopOf(fdOf[c])]
                      \/ /\ pc[LoopOf(fdOf[c])] \in {"unlist", "erase"}
                         /\ fdOf[c] \in delayDel[LoopOf(fdOf[c])]
    BY DEF Tracked
  <2>1. Traced(c)
    BY DEF ListInv, AllTraced, Joining
  <2>2. LoopOf(fdOf[c]) \in Loops
    BY LoopOfInLoops DEF Registered
  <2>. QED  BY <2>1, <2>2 DEF Traced, Listed, ListInv, SweepInv, DeletionTodo
<1>. QED  BY <1>1, ListCorrect, PTL

\* The timer callback, which goes by descriptor after the mutex is released,
\* only erases connections that are idle past the timeout (EventLoop.cpp:
\* 181-202).
THEOREM IdleOnlyEvicted == Spec => []OnlyIdleAreEvicted
<1>1. ListInv => OnlyIdleAreEvicted
  BY DEF ListInv, SweepInv, Evicting, OnlyIdleAreEvicted
<1>. QED  BY <1>1, ListCorrect, PTL

-----------------------------------------------------------------------------
(* The iterators of a busy server without workers.                         *)

\* An iterator leads to a node of its loop.
EntryListed ==
    \A f \in Fds : connMap[f] # NoConn => Listed(LoopOf(f), connMap[f])

\* A node is that of a live connection.
NodesLive == \A l \in Loops, d \in Conns : Listed(l, d) => Alive(d)

\* What deleteConnection erases from the map has no node left.
ErasedUnlisted ==
    \A l \in Loops : pc[l] = "erase" =>
        \A f \in todo[l] : connMap[f] = NoConn

IterInv == EntryListed /\ NodesLive /\ ErasedUnlisted

\* Nothing but deleteConnection destroys a live connection there.
LEMMA BusyLives ==
    ASSUME Busy, CoreInv, BusyInv, [Next]_vars, NEW c \in Conns, Alive(c)
    PROVE  \/ Alive(c)'
           \/ \E l \in Loops, f \in Fds :
                EraseClosed(l, f) /\ clientMap[f] = c
<1> USE DEF CoreInv, TypeOK, Alive
<1>1. ASSUME NEW d \in Conns, NEW f \in Fds, Accept(d, f)  PROVE Alive(c)'
  BY <1>1 DEF Accept
<1>2. CASE DropSocket \/ CreateConnection
  <2>1. mainConn \in Conns /\ obj[mainConn] = "accepted"
    BY <1>2 DEF DropSocket, CreateConnection, MapInv, MainOwns
  <2>. QED  BY <1>2, <2>1 DEF DropSocket, CreateConnection
<1>3. CASE AddToEpoll
  BY <1>3 DEF AddToEpoll
<1>4. ASSUME NEW l \in Loops, NEW d \in Conns,
             OnMessageCloses(l, d) \/ OnMessageHangs(l, d)
      PROVE  Alive(c)'
  BY <1>4 DEF OnMessageCloses, OnMessageHangs
<1>5. ASSUME NEW l \in Loops, SendtoCloses(l)  PROVE Alive(c)'
  BY <1>5 DEF SendtoCloses
<1>6. ASSUME NEW l \in Loops, NEW f \in Fds, EraseClosed(l, f)
      PROVE  Alive(c)' \/ clientMap[f] = c
  BY <1>6, EraseFreesBusy DEF EraseClosed
<1>7. CASE UNCHANGED <<obj, fdOf, disc>>
  BY <1>7
<1>. QED
  BY <1>1, <1>2, <1>3, <1>4, <1>5, <1>6, <1>7, ObjectFrame DEF BusyInv

\* Nothing is swept there: the iterators and the nodes stay in accord.
LEMMA IterStep ==
    ASSUME Busy, CoreInv, CoreInv', BusyInv, BusyInv', ListInv, IterInv,
           [Next]_vars
    PROVE  IterInv'
<1> USE ConnsAssumption DEF ListInv
<1>1. NodesLive'
  <2> SUFFICES ASSUME NEW k \in Loops, NEW d \in Conns, Listed(k, d)'
               PROVE  Alive(d)'
    BY DEF NodesLive
  <2>1. CASE NewConnection /\ d = mainConn
    <3>1. obj[d] = "created" /\ obj' = obj
      BY <2>1 DEF NewConnection, BusyInv, MainHolds, objects
    <3>. QED  BY <3>1 DEF Alive
  <2>2. CASE ~(NewConnection /\ d = mainConn)
    <3>1. Listed(k, d) /\ Alive(d)
      BY <2>2, NodesGrow DEF CoreInv, NodesInv, IterInv, NodesLive
    <3>2. connMap[fdOf[d]] = d
      BY <3>1 DEF SweepInv, ListMapped
    <3>3. ASSUME NEW l \in Loops, NEW f \in Fds, EraseClosed(l, f),
                 clientMap[f] = d
          PROVE  FALSE
      <4>1. fdOf[d] = f
        BY <3>3 DEF CoreInv, MapInv, MapSound
      <4>2. connMap[f] = NoConn
        BY <3>3 DEF EraseClosed, IterInv, ErasedUnlisted
      <4>. QED  BY <3>2, <4>1, <4>2
    <3>. QED  BY <3>1, <3>3, BusyLives
  <2>. QED  BY <2>1, <2>2
<1>2. EntryListed'
  <2> SUFFICES ASSUME NEW f \in Fds, connMap'[f] # NoConn
               PROVE  Listed(LoopOf(f), connMap[f])'
    BY DEF EntryListed, LoopOf
  <2>1. PICK e \in Conns : e = connMap'[f]
    BY DEF CoreInv, TypeOK
  <2>2. PICK k \in Loops : k = LoopOf(f)
    BY LoopOfInLoops
  <2>3. SUFFICES Listed(k, e)'
    BY <2>1, <2>2 DEF Listed, LoopOf
  <2>4. CASE NewConnection /\ f = fdOf[mainConn] /\ e = mainConn
    BY <2>2, <2>4, NewNode DEF CoreInv, NodesInv
  <2>5. CASE connMap[f] = e
    <3>1. Listed(k, e) /\ Alive(e) /\ fdOf[e] = f
      BY <2>2, <2>5
      DEF IterInv, EntryListed, NodesLive, NodesInv, EntryOwn
    <3>2. CASE NewConnection
      BY <3>1, <3>2, NewNode DEF CoreInv, NodesInv
    <3>3. ASSUME NEW l \in Loops, NEW kept \in 0 .. Len(lru[l]),
                 HandleTimer(l, kept)
          PROVE  Listed(k, e)'
      <4>1. PICK gone \in SUBSET Fds : Sweeps(l, gone)
        BY <3>3, TimerSweeps DEF CoreInv, NodesInv
      <4>2. ASSUME NEW g \in gone  PROVE FALSE
        <5>1. PICK d \in Conns : age[d] >= Timeout
          BY <4>1, <4>2 DEF Sweeps
        <5>2. age[d] <= MaxAge /\ age[d] \in Nat
          BY DEF BusyInv, NoEviction, AgesBounded, CoreInv, TypeOK
        <5>. QED  BY <5>1, <5>2, AgesAssumption DEF Busy
      <4>. QED  BY <3>1, <4>1, <4>2 DEF Sweeps
    <3>4. ASSUME NEW l \in Loops, NEW g \in Fds, UnlistClosed(l, g)
          PROVE  Listed(k, e)'
      <4>1. f # g
        <5>1. connMap' = [connMap EXCEPT ![g] = NoConn]
          BY <3>4, NodeErased DEF CoreInv, NodesInv
        <5>. QED  BY <5>1 DEF CoreInv, TypeOK
      <4>2. connMap[g] # e
        BY <3>1, <4>1 DEF NodesInv, EntryOwn
      <4>. QED  BY <3>1, <3>4, <4>2, NodeErased DEF CoreInv, NodesInv
    <3>5. CASE SameNodes
      BY <3>1, <3>5 DEF SameNodes
    <3>. QED
      BY <3>2, <3>3, <3>4, <3>5, NodesFrame DEF CoreInv, NodesInv
  <2>. QED  BY <2>1, <2>4, <2>5, NodesGrow DEF CoreInv, NodesInv
<1>3. ErasedUnlisted'
  <2> SUFFICES ASSUME NEW k \in Loops, pc'[k] = "erase", NEW g \in todo'[k],
                      connMap'[g] # NoConn
               PROVE  FALSE
    BY DEF ErasedUnlisted
  <2>1. g \in Fds
    BY DEF CoreInv, TypeOK
  <2>2. ~(/\ connMap'[g] = connMap[g]
          /\ pc[k] = "erase" /\ g \in todo[k])
    BY DEF IterInv, ErasedUnlisted
  <2>3. CASE NewConnection
    <3>1. pc[k] = "erase" /\ g \in todo[k] /\ g \in delayDel[k]
      BY <2>3 DEF NewConnection, round, SweepInv, DeletionTodo
    <3>2. g = fdOf[mainConn]
      BY <2>1, <2>2, <2>3, <3>1 DEF NewConnection, CoreInv, TypeOK
    <3>3. /\ mainConn \in Conns /\ clientMap[g] = mainConn
          /\ obj[mainConn] = "created"
      BY <2>3, <3>2 DEF NewConnection, BusyInv, MainHolds, CoreInv, TypeOK
    <3>4. disc[mainConn]
      BY <3>1, <3>3 DEF BusyInv, MarkedIsClosed
    <3>. QED  BY <3>3, <3>4 DEF CoreInv, RoundInv, NewOpen
  <2>4. CASE ~NewConnection
    BY <2>1, <2>2, <2>4, ErasedBefore
  <2>. QED  BY <2>3, <2>4
<1>. QED  BY <1>1, <1>2, <1>3 DEF IterInv

\* The invariant makes every iterator good.
LEMMA IterValid ==
    ASSUME CoreInv, ListInv, IterInv
    PROVE  IteratorsValid
<1> USE ConnsAssumption DEF ListInv, IterInv, CoreInv
<1>1. ASSUME NEW f \in Fds, connMap[f] # NoConn
      PROVE  /\ Alive(connMap[f])
             /\ fdOf[connMap[f]] = f
             /\ \E i \in DOMAIN lru[LoopOf(f)] :
                  \A j \in DOMAIN lru[LoopOf(f)] :
                    (lru[LoopOf(f)][j] = connMap[f]) <=> (i = j)
  <2>1. PICK e \in Conns : e = connMap[f]
    BY <1>1 DEF TypeOK
  <2>2. PICK l \in Loops : l = LoopOf(f)
    BY LoopOfInLoops
  <2>3. Listed(l, e) /\ Alive(e) /\ fdOf[e] = f /\ NoRepeats(lru[l])
    BY <1>1, <2>1, <2>2
    DEF EntryListed, NodesLive, NodesInv, EntryOwn, ListDistinct
  <2>4. PICK i \in DOMAIN lru[l] : lru[l][i] = e
    BY <2>3 DEF Listed, InList
  <2>5. \A j \in DOMAIN lru[l] : (lru[l][j] = e) <=> (i = j)
    BY <2>3, <2>4 DEF NoRepeats
  <2>. QED  BY <2>1, <2>2, <2>3, <2>5
<1>2. ASSUME NEW l \in Loops, NEW i \in DOMAIN lru[l]
      PROVE  connMap[fdOf[lru[l][i]]] = lru[l][i]
  <2>1. PICK d \in Conns : d = lru[l][i]
    BY DEF TypeOK
  <2>2. Listed(l, d)
    BY <2>1 DEF Listed, InList
  <2>. QED  BY <2>1, <2>2 DEF NodesLive, SweepInv, ListMapped
<1>. QED  BY <1>1, <1>2 DEF IteratorsValid

\* In a busy server without workers every iterator kept in m_connectionmap
\* designates the one node of a live connection of its descriptor, and every
\* node is designated by one (EventLoop.cpp:163, 233).
THEOREM BusyIteratorsAreValid ==
    ASSUME Busy
    PROVE  Spec => []IteratorsValid
<1> DEFINE Inv == CoreInv /\ BusyInv /\ ListInv
<1>1. Spec => []Inv
  BY BusyCorrect, ListCorrect, PTL
<1>2. Init => IterInv
  BY DEF Init, IterInv, EntryListed, NodesLive, ErasedUnlisted, Listed,
         InList
<1>3. Inv /\ Inv' /\ IterInv /\ [Next]_vars => IterInv'
  BY IterStep
<1>4. Inv /\ IterInv => IteratorsValid
  BY IterValid
<1>. QED  BY <1>1, <1>2, <1>3, <1>4, PTL DEF Spec
=============================================================================

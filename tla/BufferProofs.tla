---------------------------- MODULE BufferProofs ----------------------------
(***************************************************************************)
(* The buffer stays well formed and implements the byte queue, for every   *)
(* size of the reserve, of the second area and of the strings.             *)
(***************************************************************************)
EXTENDS Buffer, SequenceTheorems, TLAPS

(* What each operation does to a well-formed buffer and to its content.    *)

\* What a well-formed buffer holds is a string of readableBytes() bytes.
LEMMA ContentType ==
    ASSUME NEW b, WellFormed(b)
    PROVE  /\ Content(b) \in Seq(Byte)
           /\ Len(Content(b)) = Readable(b)
           /\ Readable(b) \in Nat
           /\ Writable(b) \in Nat
           /\ \A i \in 1 .. Readable(b) : Content(b)[i] = b.mem[b.reader + i - 1]
<1>1. Readable(b) \in Nat /\ Writable(b) \in Nat
  BY DEF WellFormed, Readable, Writable
<1>2. \A i \in 1 .. Readable(b) : b.reader + i - 1 \in 0 .. b.size - 1
  BY SizesAssumption DEF WellFormed, Readable
<1>3. \A i \in 1 .. Readable(b) : b.mem[b.reader + i - 1] \in Byte
  BY <1>2 DEF WellFormed
<1>4. Content(b) \in [1 .. Readable(b) -> Byte]
  BY <1>3 DEF Content
<1>5. Content(b) \in Seq(Byte) /\ Len(Content(b)) = Readable(b)
  BY <1>1, <1>4
<1>. QED  BY <1>1, <1>5 DEF Content

\* A cell after std::copy: the new byte in the range copied to, else the old.
LEMMA StoreAt ==
    ASSUME NEW b, NEW at, NEW s, NEW j \in DOMAIN b.mem
    PROVE  Store(b, at, s)[j] = IF j \in at .. at + Len(s) - 1
                                THEN s[j - at + 1] ELSE b.mem[j]
BY DEF Store

\* Writing into the free tail appends to the content (Buffer.cpp:107-108).
LEMMA FillCorrect ==
    ASSUME NEW b, WellFormed(b), NEW s \in Seq(Byte), Len(s) <= Writable(b)
    PROVE  /\ WellFormed(Fill(b, s))
           /\ Content(Fill(b, s)) = Content(b) \o s
           /\ Writable(Fill(b, s)) = Writable(b) - Len(s)
<1> DEFINE c == Fill(b, s)
<1>1. /\ c.mem = Store(b, b.writer, s) /\ c.size = b.size
      /\ c.reader = b.reader /\ c.writer = b.writer + Len(s)
  BY DEF Fill, Buf
<1>2. Len(s) \in Nat /\ b.writer + Len(s) <= b.size
  BY DEF WellFormed, Writable
<1>3. c.mem \in [0 .. b.size - 1 -> Byte]
  <2>1. DOMAIN b.mem = 0 .. b.size - 1
    BY DEF WellFormed
  <2>2. \A i \in b.writer .. b.writer + Len(s) - 1 : s[i - b.writer + 1] \in Byte
    BY <1>2 DEF WellFormed
  <2>3. \A i \in 0 .. b.size - 1 : (IF i \in b.writer .. b.writer + Len(s) - 1
                                    THEN s[i - b.writer + 1] ELSE b.mem[i]) \in Byte
    BY <2>2 DEF WellFormed
  <2>. QED  BY <1>1, <2>1, <2>3 DEF Store
<1>4. WellFormed(c)
  <2>. HIDE DEF c
  <2>. QED  BY <1>1, <1>2, <1>3 DEF WellFormed
<1>5. Readable(c) = Readable(b) + Len(s) /\ Writable(c) = Writable(b) - Len(s)
  BY <1>1, <1>2 DEF Readable, Writable, WellFormed
<1>6. ASSUME NEW i \in 1 .. Readable(c)
      PROVE  Content(c)[i] = (Content(b) \o s)[i]
  <2>. HIDE DEF c
  <2>1. Content(c)[i] = c.mem[b.reader + i - 1]
    BY <1>1, <1>4, ContentType
  <2>2. b.reader + i - 1 \in 0 .. b.size - 1
    <3>1. /\ b.size \in Nat /\ b.reader \in Nat /\ b.writer \in Nat
          /\ Len(s) \in Nat /\ b.writer + Len(s) <= b.size
      BY <1>2, SizesAssumption DEF WellFormed, Writable
    <3>2. i \in 1 .. (b.writer - b.reader) + Len(s)
      BY <1>5 DEF Readable
    <3>. QED  BY <3>1, <3>2
  <2>3. c.mem[b.reader + i - 1] =
          IF b.reader + i - 1 \in b.writer .. b.writer + Len(s) - 1
          THEN s[b.reader + i - 1 - b.writer + 1] ELSE b.mem[b.reader + i - 1]
    <3>1. b.reader + i - 1 \in DOMAIN b.mem
      BY <2>2 DEF WellFormed
    <3>2. PICK j \in Int : j = b.reader + i - 1
      BY <2>2
    <3>3. c.mem[j] = IF j \in b.writer .. b.writer + Len(s) - 1
                     THEN s[j - b.writer + 1] ELSE b.mem[j]
      BY <1>1, <3>1, <3>2, StoreAt
    <3>4. b.reader \in Int /\ i \in Int /\ b.writer \in Int
      BY <1>5, ContentType DEF WellFormed
    <3>. QED  BY <3>2, <3>3, <3>4
  <2>4. CASE i <= Readable(b)
    <3>1. c.mem[b.reader + i - 1] = b.mem[b.reader + i - 1]
      BY <1>2, <2>3, <2>4 DEF WellFormed, Readable
    <3>2. i \in 1 .. Len(Content(b))
      BY <1>5, <2>4, ContentType
    <3>3. (Content(b) \o s)[i] = Content(b)[i]
      BY <3>2, ContentType
    <3>. QED  BY <2>1, <2>4, <3>1, <3>3, ContentType
  <2>5. CASE i > Readable(b)
    <3>1. i - Readable(b) \in 1 .. Len(s)
      BY <1>2, <1>5, <2>5, ContentType
    <3>2. c.mem[b.reader + i - 1] = s[i - Readable(b)]
      <4>1. b.reader + i - 1 \in b.writer .. b.writer + Len(s) - 1
        BY <1>2, <1>5, <2>5 DEF WellFormed, Readable
      <4>2. b.reader + i - 1 - b.writer + 1 = i - Readable(b)
        BY DEF WellFormed, Readable
      <4>. QED  BY <2>3, <4>1, <4>2
    <3>3. (Content(b) \o s)[i] = s[i - Readable(b)]
      BY <1>2, <1>5, <2>5, <3>1, ContentType
    <3>. QED  BY <2>1, <3>2, <3>3
  <2>. QED  BY <2>4, <2>5, <1>2, <1>5, ContentType
<1>7. Content(c) \in Seq(Byte) /\ Len(Content(c)) = Readable(c)
  BY <1>4, ContentType
<1>8. Content(b) \o s \in Seq(Byte) /\ Len(Content(b) \o s) = Readable(c)
  <2>1. Content(b) \in Seq(Byte) /\ Len(Content(b)) = Readable(b)
    BY ContentType
  <2>2. Content(b) \o s \in Seq(Byte)
    BY <2>1
  <2>3. Len(Content(b) \o s) = Len(Content(b)) + Len(s)
    BY <2>1
  <2>. QED  BY <1>5, <2>1, <2>2, <2>3
<1>9. Content(c) = Content(b) \o s
  <2>. HIDE DEF c
  <2>. QED  BY <1>6, <1>7, <1>8, SeqEqual
<1>. QED  BY <1>4, <1>5, <1>9

\* ensureWriteableBytes makes the room asked for, by moving the content or by
\* growing, and keeps the content (Buffer.cpp:118-152).
LEMMA EnsureCorrect ==
    ASSUME NEW b, WellFormed(b), NEW len \in Nat
    PROVE  /\ WellFormed(EnsureWriteable(b, len))
           /\ Content(EnsureWriteable(b, len)) = Content(b)
           /\ len <= Writable(EnsureWriteable(b, len))
<1> DEFINE c == EnsureWriteable(b, len)
<1>1. CASE Writable(b) >= len
  <2>1. c = b
    BY <1>1, ContentType DEF EnsureWriteable
  <2>. QED  BY <1>1, <2>1
\* the vector grows
<1>2. CASE Writable(b) < len /\ Writable(b) + b.reader < len + Prepend
  <2>1. /\ c.mem = [i \in 0 .. len + b.writer - 1 |->
                       IF i < b.size THEN b.mem[i] ELSE Zero]
        /\ c.size = len + b.writer
        /\ c.reader = b.reader
        /\ c.writer = b.writer
    BY <1>2 DEF EnsureWriteable, MakeSpace, Buf
  <2>2. b.size <= len + b.writer /\ len + b.writer \in Nat
    BY <1>2 DEF Writable, WellFormed
  <2>3. c.mem \in [0 .. c.size - 1 -> Byte]
    BY <2>1, ByteAssumption DEF WellFormed
  <2>4. WellFormed(c)
    <3>. HIDE DEF c
    <3>. QED  BY <2>1, <2>2, <2>3 DEF WellFormed
  <2>5. Readable(c) = Readable(b) /\ Writable(c) = len
    BY <2>1, <2>2 DEF Readable, Writable, WellFormed
  <2>6. ASSUME NEW i \in 1 .. Readable(b)
        PROVE  c.mem[c.reader + i - 1] = b.mem[b.reader + i - 1]
    <3>1. b.reader + i - 1 \in 0 .. b.size - 1
      BY SizesAssumption DEF WellFormed, Readable
    <3>. HIDE DEF c
    <3>. QED  BY <2>1, <2>2, <3>1 DEF WellFormed
  <2>7. Content(c) = Content(b)
    <3>. HIDE DEF c
    <3>. QED  BY <2>5, <2>6 DEF Content
  <2>. QED  BY <2>4, <2>5, <2>7
\* the content moves to the front
<1>3. CASE Writable(b) < len /\ ~(Writable(b) + b.reader < len + Prepend)
  <2>1. /\ c.mem = Store(b, Prepend, Content(b))
        /\ c.size = b.size
        /\ c.reader = Prepend
        /\ c.writer = Prepend + Readable(b)
    BY <1>3 DEF EnsureWriteable, MakeSpace, Buf
  <2>2. /\ Readable(b) \in Nat /\ Len(Content(b)) = Readable(b)
        /\ Content(b) \in Seq(Byte)
    BY ContentType
  <2>3. Prepend + Readable(b) + len <= b.size
    BY <1>3, SizesAssumption DEF Readable, Writable, WellFormed
  <2>4. c.mem \in [0 .. b.size - 1 -> Byte]
    <3>1. DOMAIN b.mem = 0 .. b.size - 1
      BY DEF WellFormed
    <3>2. \A i \in Prepend .. Prepend + Len(Content(b)) - 1 :
             Content(b)[i - Prepend + 1] \in Byte
      BY <2>2, SizesAssumption
    <3>3. \A i \in 0 .. b.size - 1 :
             (IF i \in Prepend .. Prepend + Len(Content(b)) - 1
              THEN Content(b)[i - Prepend + 1] ELSE b.mem[i]) \in Byte
      BY <3>2 DEF WellFormed
    <3>. QED  BY <2>1, <3>1, <3>3 DEF Store
  <2>5. WellFormed(c)
    <3>. HIDE DEF c
    <3>. QED  BY <2>1, <2>2, <2>3, <2>4, SizesAssumption DEF WellFormed
  <2>6. Readable(c) = Readable(b) /\ len <= Writable(c)
    BY <2>1, <2>2, <2>3, SizesAssumption DEF Readable, Writable, WellFormed
  <2>7. ASSUME NEW i \in 1 .. Readable(b)
        PROVE  c.mem[c.reader + i - 1] = b.mem[b.reader + i - 1]
    <3>1. Prepend + i - 1 \in 0 .. b.size - 1
      BY <2>2, <2>3, SizesAssumption DEF WellFormed
    <3>2. Prepend + i - 1 \in Prepend .. Prepend + Len(Content(b)) - 1
      BY <2>2, SizesAssumption
    <3>3. c.mem[Prepend + i - 1] = Content(b)[Prepend + i - 1 - Prepend + 1]
      <4>1. Prepend + i - 1 \in DOMAIN b.mem
        BY <3>1 DEF WellFormed
      <4>2. PICK j \in Int : j = Prepend + i - 1
        BY <3>1
      <4>3. Store(b, Prepend, Content(b))[j] = Content(b)[j - Prepend + 1]
        BY <3>2, <4>1, <4>2, StoreAt
      <4>. HIDE DEF c
      <4>4. i \in Int /\ Prepend \in Int
        BY <2>2, SizesAssumption
      <4>. QED  BY <2>1, <4>2, <4>3, <4>4
    <3>4. Prepend + i - 1 - Prepend + 1 = i
      BY SizesAssumption
    <3>. QED  BY <2>1, <3>3, <3>4, ContentType
  <2>8. Content(c) = Content(b)
    <3>. HIDE DEF c
    <3>. QED  BY <2>6, <2>7 DEF Content
  <2>. QED  BY <2>5, <2>6, <2>8
<1>. QED  BY <1>1, <1>2, <1>3, ContentType

\* append adds its data to the content (Buffer.cpp:104-109).
LEMMA AppendCorrect ==
    ASSUME NEW b, WellFormed(b), NEW s \in Seq(Byte)
    PROVE  /\ WellFormed(AppendTo(b, s))
           /\ Content(AppendTo(b, s)) = Content(b) \o s
<1>1. Len(s) \in Nat
  OBVIOUS
<1>. QED  BY <1>1, EnsureCorrect, FillCorrect DEF AppendTo

\* readFd adds what readv delivered, over both areas, in order (Buffer.cpp:
\* 171-187).
LEMMA ReadCorrect ==
    ASSUME NEW b, WellFormed(b), NEW s \in Seq(Byte)
    PROVE  /\ WellFormed(ReadInto(b, s))
           /\ Content(ReadInto(b, s)) = Content(b) \o s
<1> DEFINE w == Writable(b)
           s1 == SubSeq(s, 1, w)
           s2 == SubSeq(s, w + 1, Len(s))
<1>1. w \in Nat /\ Len(s) \in Nat
  BY ContentType
<1>2. CASE Len(s) < w
  BY <1>1, <1>2, FillCorrect DEF ReadInto
<1>3. CASE Len(s) >= w
  <2>1. s1 \in Seq(Byte) /\ Len(s1) = w
    BY <1>1, <1>3
  <2>2. s2 \in Seq(Byte)
    BY <1>1, <1>3
  <2>3. ReadInto(b, s) = AppendTo(Fill(b, s1), s2)
    BY <1>1, <1>3 DEF ReadInto
  <2>4. s1 \o s2 = s
    <3>1. s1 \o s2 = SubSeq(s, 1, Len(s))
      <4>1. 1 \in 1 .. Len(s) + 1 /\ w \in 1 - 1 .. Len(s) /\ Len(s) \in w .. Len(s)
        BY <1>1, <1>3
      <4>. HIDE DEF w
      <4>. QED  BY <4>1, ConcatAdjacentSubSeq, Zenon
    <3>. QED  BY <3>1, SubSeqFull
  <2>. HIDE DEF s1, s2
  <2>5. /\ WellFormed(Fill(b, s1))
        /\ Content(Fill(b, s1)) = Content(b) \o s1
    BY <1>1, <2>1, FillCorrect
  <2>6. /\ WellFormed(ReadInto(b, s))
        /\ Content(ReadInto(b, s)) = (Content(b) \o s1) \o s2
    BY <2>2, <2>3, <2>5, AppendCorrect
  <2>7. Content(b) \in Seq(Byte)
    BY ContentType
  <2>8. (Content(b) \o s1) \o s2 = Content(b) \o (s1 \o s2)
    BY <2>1, <2>2, <2>7, ConcatAssociative
  <2>. QED  BY <2>4, <2>6, <2>8
<1>. QED  BY <1>1, <1>2, <1>3

\* retrieve drops a prefix of the content (Buffer.cpp:62-79).
LEMMA RetrieveCorrect ==
    ASSUME NEW b, WellFormed(b), NEW len \in Nat,
           NEW n \in 0 .. Readable(b),
           n = IF len < Readable(b) THEN len ELSE Readable(b)
    PROVE  /\ WellFormed(Retrieve(b, len))
           /\ Content(Retrieve(b, len)) =
                SubSeq(Content(b), n + 1, Len(Content(b)))
<1> DEFINE c == Retrieve(b, len)
<1>1. Readable(b) \in Nat /\ Len(Content(b)) = Readable(b)
  BY ContentType
<1>2. CASE len < Readable(b)
  <2>1. /\ n = len
        /\ c.mem = b.mem /\ c.size = b.size
        /\ c.reader = b.reader + len /\ c.writer = b.writer
    BY <1>2 DEF Retrieve, Buf
  <2>2. WellFormed(c)
    <3>. HIDE DEF c
    <3>1. b.reader + len \in Nat /\ b.reader + len <= b.writer
      BY <1>2 DEF WellFormed, Readable
    <3>2. Prepend <= b.reader + len
      BY SizesAssumption DEF WellFormed
    <3>. QED  BY <2>1, <3>1, <3>2 DEF WellFormed
  <2>3. Readable(c) = Readable(b) - n
    BY <2>1 DEF Readable, WellFormed
  <2>4. Content(c) = [i \in 1 .. Readable(b) - n |-> Content(b)[n + i]]
    <3>1. ASSUME NEW i \in 1 .. Readable(b) - n
          PROVE  b.mem[b.reader + n + i - 1] = Content(b)[n + i]
      <4>1. n + i \in 1 .. Readable(b)
        BY <1>1
      <4>2. Content(b)[n + i] = b.mem[b.reader + (n + i) - 1]
        BY <4>1, ContentType
      <4>. QED  BY <4>2 DEF WellFormed
    <3>. HIDE DEF c
    <3>. QED  BY <2>1, <2>3, <3>1 DEF Content
  <2>. QED  BY <1>1, <2>2, <2>4, ContentType
<1>3. CASE ~(len < Readable(b))
  <2>1. /\ n = Readable(b)
        /\ c.mem = b.mem /\ c.size = b.size
        /\ c.reader = Prepend /\ c.writer = Prepend
    BY <1>3 DEF Retrieve, RetrieveAll, Buf
  <2>2. WellFormed(c)
    <3>. HIDE DEF c
    <3>. QED  BY <2>1, SizesAssumption DEF WellFormed
  <2>3. Content(c) \in Seq(Byte) /\ Len(Content(c)) = 0
    <3>1. Readable(c) = 0
      BY <2>1, SizesAssumption DEF Readable
    <3>. QED  BY <2>2, <3>1, ContentType
  <2>4. Content(c) = <<>>
    <3>. HIDE DEF c
    <3>. QED  BY <2>3
  <2>5. SubSeq(Content(b), n + 1, Len(Content(b))) = <<>>
    BY <1>1, <2>1, ContentType
  <2>. QED  BY <2>2, <2>4, <2>5
<1>. QED  BY <1>2, <1>3

-----------------------------------------------------------------------------
(* The two theorems.                                                       *)

\* A new buffer is well formed and empty (Buffer.cpp:7-13).
LEMMA NewBufferCorrect == WellFormed(NewBuffer) /\ Content(NewBuffer) = <<>>
<1> DEFINE b == NewBuffer
<1>1. /\ b.mem = [i \in 0 .. InitialSize + Prepend - 1 |-> Zero]
      /\ b.size = InitialSize + Prepend
      /\ b.reader = Prepend /\ b.writer = Prepend
  BY DEF NewBuffer, Buf
<1>2. WellFormed(b)
  <2>. HIDE DEF b
  <2>. QED  BY <1>1, ByteAssumption, SizesAssumption DEF WellFormed
<1>3. Readable(b) = 0
  BY <1>1, SizesAssumption DEF Readable
<1>4. Content(b) \in Seq(Byte) /\ Len(Content(b)) = 0
  BY <1>2, <1>3, ContentType
<1>5. Content(b) = <<>>
  <2>. HIDE DEF b
  <2>. QED  BY <1>4
<1>. QED  BY <1>2, <1>5

\* The type invariant is preserved, and a step of the buffer is a step of
\* the queue.
LEMMA StepCorrect ==
    ASSUME TypeOK, [Next]_vars
    PROVE  TypeOK' /\ [Queue!Next]_<<Content(buf), last>>
<1> USE DEF TypeOK
<1>1. ASSUME NEW data \in Inputs, append(data) \/ readFd(data)
      PROVE  TypeOK' /\ Queue!Put(data)
  <2>1. data \in Seq(Byte)
    BY InputsAssumption
  <2>2. /\ WellFormed(buf')
        /\ Content(buf') = Content(buf) \o data
        /\ last' = data
    BY <1>1, <2>1, AppendCorrect, ReadCorrect DEF append, readFd
  <2>3. Content(buf)' = Content(buf')
    BY DEF Content, Readable
  <2>4. WellFormed(buf)'
    BY <2>2 DEF WellFormed
  <2>. QED  BY <2>1, <2>2, <2>3, <2>4 DEF Queue!Put
<1>2. ASSUME NEW len \in 0 .. MaxReadable + 1,
             retrieve(len) \/ retrieveAsString(len)
      PROVE  /\ TypeOK'
             /\ \E n \in 0 .. Len(Content(buf)) : Queue!Take(n) \/ Queue!Get(n)
  <2>1. len \in Nat /\ Readable(buf) \in Nat /\ Len(Content(buf)) = Readable(buf)
    BY SizesAssumption, ContentType
  <2> DEFINE n == IF len < Readable(buf) THEN len ELSE Readable(buf)
  <2>2. n \in 0 .. Readable(buf) /\ n = Available(buf, len)
    BY <2>1 DEF Available
  <2>3. /\ WellFormed(Retrieve(buf, len))
        /\ Content(Retrieve(buf, len)) =
             SubSeq(Content(buf), n + 1, Len(Content(buf)))
    BY <2>1, <2>2, RetrieveCorrect
  <2>4. /\ WellFormed(Retrieve(buf, n))
        /\ Content(Retrieve(buf, n)) =
             SubSeq(Content(buf), n + 1, Len(Content(buf)))
    <3>1. n \in Nat /\ n = IF n < Readable(buf) THEN n ELSE Readable(buf)
      BY <2>1
    <3>. HIDE DEF n
    <3>. QED  BY <2>2, <3>1, RetrieveCorrect
  <2>5. SubSeq(Content(buf), 1, n) \in Seq(Byte)
    BY <2>1, <2>2, ContentType
  <2>. HIDE DEF n
  <2>6. /\ WellFormed(buf')
        /\ Content(buf') = SubSeq(Content(buf), n + 1, Len(Content(buf)))
        /\ last' \in {last, SubSeq(Content(buf), 1, n)}
    BY <1>2, <2>2, <2>3, <2>4 DEF retrieve, retrieveAsString
  <2>7. Content(buf)' = Content(buf') /\ WellFormed(buf)'
    BY <2>6 DEF Content, Readable, WellFormed
  <2>8. Queue!Take(n) \/ Queue!Get(n)
    BY <2>6, <2>7 DEF Queue!Take, Queue!Get
  <2>. QED  BY <2>1, <2>2, <2>5, <2>6, <2>7, <2>8
<1>3. CASE UNCHANGED vars
  BY <1>3 DEF vars, WellFormed, Content, Readable
<1>. QED  BY <1>1, <1>2, <1>3 DEF Next, Queue!Next

\* Indices and vector stay consistent for every sequence of operations
\* (Buffer.cpp:62-187).
THEOREM TypeCorrect == Spec => []TypeOK
<1>1. Init => TypeOK
  BY NewBufferCorrect DEF Init, TypeOK
<1>2. TypeOK /\ [Next]_vars => TypeOK'
  BY StepCorrect
<1>. QED  BY <1>1, <1>2, PTL DEF Spec

\* The buffer implements the byte queue: no byte is lost, repeated or
\* reordered (Buffer.cpp:62-187).
THEOREM BufferIsQueue == Spec => ImplementsQueue
<1>1. Init => Queue!Init
  BY NewBufferCorrect DEF Init, Queue!Init
<1>2. TypeOK /\ [Next]_vars => [Queue!Next]_<<Content(buf), last>>
  BY StepCorrect
<1>. QED  BY <1>1, <1>2, TypeCorrect, PTL DEF Spec, ImplementsQueue, Queue!Spec
=============================================================================

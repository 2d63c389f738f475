--------------------------- MODULE FlattenProofs ---------------------------
(***************************************************************************)
(* What FlattenSeq of the community modules returns, for every sequence of *)
(* sequences.  The theorems on induction take an operator, which no prover *)
(* here can instantiate: the induction is on the least counterexample, a   *)
(* set of numbers.                                                         *)
(***************************************************************************)
EXTENDS SequencesExt, SequenceTheorems, WellFoundedInduction, TLAPS

\* A set of numbers that is not empty has a least one.
LEMMA LeastNumber ==
    ASSUME NEW T \in SUBSET Nat, T # {}
    PROVE  \E m \in T : \A k \in T : m <= k
<1>1. PICK m \in T : \A k \in T : ~ (<<k, m>> \in OpToRel(<, Nat))
  <2>1. IsWellFoundedOn(OpToRel(<, Nat), Nat)
    BY NatLessThanWellFounded
  <2>. QED  BY <2>1, WFMin
<1>2. \A k \in T : m <= k
  <2> TAKE k \in T
  <2>1. ~ (<<k, m>> \in OpToRel(<, Nat))
    BY <1>1
  <2>2. k \in Nat /\ m \in Nat
    OBVIOUS
  <2>3. ~(k < m)
    <3>1. SUFFICES ASSUME k < m  PROVE <<k, m>> \in OpToRel(<, Nat)
      BY <2>1
    <3>. QED  BY <2>2, <3>1 DEF OpToRel
  <2>. QED  BY <2>2, <2>3
<1>. QED  BY <1>2

\* g holds the concatenation of the first i members of seqs, i in 1 .. n
Accumulates(g, seqs, n) ==
    /\ g[1] = seqs[1]
    /\ \A i \in 2 .. n : g[i] = g[i - 1] \o seqs[i]

\* Every sequence of sequences has its prefixes concatenated by some function.
LEMMA AccumulationExists ==
    ASSUME NEW S, NEW seqs \in Seq(Seq(S)), seqs # <<>>
    PROVE  \E g \in [1 .. Len(seqs) -> Seq(S)] :
               Accumulates(g, seqs, Len(seqs))
<1> DEFINE Good(n) == \E g \in [1 .. n -> Seq(S)] : Accumulates(g, seqs, n)
           Bad == {n \in 1 .. Len(seqs) : ~Good(n)}
<1>1. Len(seqs) \in Nat \ {0} /\ \A i \in 1 .. Len(seqs) : seqs[i] \in Seq(S)
  OBVIOUS
<1>2. Bad \in SUBSET Nat
  OBVIOUS
<1>3. Good(1)
  <2> DEFINE g == [i \in 1 .. 1 |-> seqs[1]]
  <2>1. g \in [1 .. 1 -> Seq(S)]
    BY <1>1
  <2>2. Accumulates(g, seqs, 1)
    BY DEF Accumulates
  <2>. QED  BY <2>1, <2>2
<1>4. ASSUME NEW n \in 2 .. Len(seqs), Good(n - 1)  PROVE Good(n)
  <2>1. PICK f \in [1 .. n - 1 -> Seq(S)] : Accumulates(f, seqs, n - 1)
    BY <1>4
  <2> DEFINE g == [i \in 1 .. n |->
                       IF i = n THEN f[n - 1] \o seqs[n] ELSE f[i]]
  <2>2. n - 1 \in 1 .. n - 1 /\ n \in 1 .. Len(seqs) /\ n \in 1 .. n
    BY <1>1
  <2>3. f[n - 1] \in Seq(S) /\ seqs[n] \in Seq(S)
    BY <1>1, <2>2
  <2>4. f[n - 1] \o seqs[n] \in Seq(S)
    BY <2>3
  <2>5. g \in [1 .. n -> Seq(S)]
    BY <2>4
  <2>6. g[1] = seqs[1]
    BY <2>1 DEF Accumulates
  <2>7. ASSUME NEW i \in 2 .. n  PROVE g[i] = g[i - 1] \o seqs[i]
    <3>1. i - 1 \in 1 .. n /\ i - 1 # n /\ i \in 1 .. n
      OBVIOUS
    <3>2. g[i - 1] = f[i - 1]
      BY <3>1
    <3>3. CASE i = n
      <4>1. g[i] = f[n - 1] \o seqs[n]
        BY <3>1, <3>3
      <4>. QED  BY <3>2, <3>3, <4>1
    <3>4. CASE i # n
      <4>1. i \in 2 .. n - 1
        BY <3>4
      <4>2. f[i] = f[i - 1] \o seqs[i]
        BY <2>1, <4>1 DEF Accumulates
      <4>3. g[i] = f[i]
        BY <3>1, <3>4
      <4>. QED  BY <3>2, <4>2, <4>3
    <3>. QED  BY <3>3, <3>4
  <2>8. Accumulates(g, seqs, n)
    BY <2>6, <2>7 DEF Accumulates
  <2>. QED  BY <2>5, <2>8
<1>5. Bad = {}
  <2>1. SUFFICES ASSUME Bad # {}  PROVE FALSE
    OBVIOUS
  <2> HIDE DEF Bad
  <2>2. PICK n \in Bad : \A k \in Bad : n <= k
    BY <1>2, <2>1, LeastNumber
  <2> USE DEF Bad
  <2>3. n \in 1 .. Len(seqs) /\ ~Good(n)
    OBVIOUS
  <2> HIDE DEF Good
  <2>4. n \in 2 .. Len(seqs) /\ n - 1 \in 1 .. Len(seqs) /\ n - 1 \in Nat
    BY <1>1, <1>3, <2>3
  <2>5. n - 1 \notin Bad
    BY <2>2, <2>4
  <2>. QED  BY <1>4, <2>3, <2>4, <2>5
<1>6. Good(Len(seqs))
  <2>1. SUFFICES ASSUME ~Good(Len(seqs))  PROVE FALSE
    OBVIOUS
  <2> HIDE DEF Good
  <2>2. Len(seqs) \in 1 .. Len(seqs)
    BY <1>1
  <2>3. Len(seqs) \in Bad
    BY <2>1, <2>2, Zenon
  <2>. QED  BY <1>5, <2>3
<1>. QED  BY <1>6

\* Two such functions agree.
LEMMA AccumulationUnique ==
    ASSUME NEW seqs, NEW n \in Nat \ {0}, NEW f, NEW g,
           Accumulates(f, seqs, n), Accumulates(g, seqs, n)
    PROVE  f[n] = g[n]
<1> DEFINE Bad == {i \in 1 .. n : f[i] # g[i]}
<1>1. Bad \in SUBSET Nat
  OBVIOUS
<1>2. SUFFICES ASSUME Bad # {}  PROVE FALSE
  OBVIOUS
<1> HIDE DEF Bad
<1>3. PICK m \in Bad : \A k \in Bad : m <= k
  BY <1>1, <1>2, LeastNumber
<1> USE DEF Bad
<1>4. m # 1
  BY <1>3 DEF Accumulates
<1>5. m - 1 \in 1 .. n /\ m \in 2 .. n
  BY <1>3, <1>4
<1>6. f[m - 1] = g[m - 1]
  BY <1>3, <1>5
<1>7. f[m] = f[m - 1] \o seqs[m] /\ g[m] = g[m - 1] \o seqs[m]
  BY <1>5 DEF Accumulates
<1>. QED  BY <1>3, <1>6, <1>7

\* FlattenSeq is the last value of that function.
LEMMA FlattenIsLast ==
    ASSUME NEW S, NEW seqs \in Seq(Seq(S)), seqs # <<>>,
           NEW g \in [1 .. Len(seqs) -> Seq(S)],
           Accumulates(g, seqs, Len(seqs))
    PROVE  FlattenSeq(seqs) = g[Len(seqs)]
<1> DEFINE Rec(f) == [i \in 1 .. Len(seqs) |->
                    IF i = 1 THEN seqs[i] ELSE f[i - 1] \o seqs[i]]
           F == CHOOSE f : f = Rec(f)
<1>1. Len(seqs) \in Nat \ {0}
  OBVIOUS
<1>2. FlattenSeq(seqs) = F[Len(seqs)]
  BY <1>1 DEF FlattenSeq
<1>3. g = Rec(g)
  <2>1. ASSUME NEW i \in 1 .. Len(seqs)  PROVE g[i] = Rec(g)[i]
    <3>1. CASE i = 1
      BY <3>1 DEF Accumulates
    <3>2. CASE i # 1
      <4>1. i \in 2 .. Len(seqs)
        BY <1>1, <3>2
      <4>2. g[i] = g[i - 1] \o seqs[i]
        BY <4>1 DEF Accumulates
      <4>. QED  BY <3>2, <4>2
    <3>. QED  BY <3>1, <3>2
  <2> DEFINE R == Rec(g)
  <2>2. g = [i \in 1 .. Len(seqs) |-> g[i]] /\ DOMAIN R = 1 .. Len(seqs)
    OBVIOUS
  <2>3. R = [i \in 1 .. Len(seqs) |-> R[i]]
    OBVIOUS
  <2>4. \A i \in 1 .. Len(seqs) : g[i] = R[i]
    BY <2>1
  <2> HIDE DEF R
  <2>5. g = R
    BY <2>2, <2>3, <2>4
  <2>. QED  BY <2>5 DEF R
<1>4. F = Rec(F)
  <2> HIDE DEF Rec
  <2>1. \E f : f = Rec(f)
    BY <1>3
  <2>. QED  BY <2>1, Zenon
<1>5. Accumulates(F, seqs, Len(seqs))
  <2> HIDE DEF F
  <2>1. F[1] = seqs[1]
    BY <1>1, <1>4
  <2>2. ASSUME NEW i \in 2 .. Len(seqs)  PROVE F[i] = F[i - 1] \o seqs[i]
    <3>1. i \in 1 .. Len(seqs) /\ i # 1
      BY <1>1
    <3>. QED  BY <1>4, <3>1
  <2>. QED  BY <2>1, <2>2 DEF Accumulates
<1>6. F[Len(seqs)] = g[Len(seqs)]
  <2> HIDE DEF F
  <2>. QED  BY <1>1, <1>5, AccumulationUnique
<1>. QED  BY <1>2, <1>6, Zenon

-----------------------------------------------------------------------------
\* No sequence flattens to the empty one.
LEMMA FlattenEmpty == FlattenSeq(<<>>) = <<>>
BY DEF FlattenSeq

\* One sequence flattens to itself.
LEMMA FlattenSingle ==
    ASSUME NEW S, NEW s \in Seq(S)
    PROVE  FlattenSeq(<<s>>) = s
<1> DEFINE g == [i \in 1 .. 1 |-> s]
<1>1. <<s>> \in Seq(Seq(S)) /\ <<s>> # <<>> /\ Len(<<s>>) = 1
  OBVIOUS
<1>2. g \in [1 .. Len(<<s>>) -> Seq(S)] /\ Accumulates(g, <<s>>, 1)
  BY <1>1 DEF Accumulates
<1>3. FlattenSeq(<<s>>) = g[1]
  <2> HIDE DEF g
  <2>. QED  BY <1>1, <1>2, FlattenIsLast
<1>. QED  BY <1>3

\* Sequences over S flatten to a sequence over S.
LEMMA FlattenType ==
    ASSUME NEW S, NEW seqs \in Seq(Seq(S))
    PROVE  FlattenSeq(seqs) \in Seq(S)
<1>1. CASE seqs = <<>>
  BY <1>1, FlattenEmpty, EmptySeq
<1>2. CASE seqs # <<>>
  <2>1. PICK g \in [1 .. Len(seqs) -> Seq(S)] :
            Accumulates(g, seqs, Len(seqs))
    BY <1>2, AccumulationExists
  <2>2. FlattenSeq(seqs) = g[Len(seqs)]
    BY <1>2, <2>1, FlattenIsLast
  <2>3. Len(seqs) \in 1 .. Len(seqs)
    BY <1>2
  <2>. QED  BY <2>2, <2>3
<1>. QED  BY <1>1, <1>2

\* Concatenation under a name: the provers need it to be opaque where the
\* next lemma is used.
Cat(s, t) == s \o t

\* Concatenation is associative: ConcatAssociative, quantified.
LEMMA ConcatIsAssociative ==
    \A S : \A a, b, c \in Seq(S) : Cat(Cat(a, b), c) = Cat(a, Cat(b, c))
BY ConcatAssociative DEF Cat

\* Flattening a concatenation concatenates what its parts flatten to.
THEOREM FlattenConcat ==
    ASSUME NEW S, NEW s \in Seq(Seq(S)), NEW t \in Seq(Seq(S))
    PROVE  FlattenSeq(s \o t) = FlattenSeq(s) \o FlattenSeq(t)
<1>1. FlattenSeq(s) \in Seq(S) /\ FlattenSeq(t) \in Seq(S)
  BY FlattenType
<1>2. CASE s = <<>>
  <2>1. s \o t = t /\ <<>> \o FlattenSeq(t) = FlattenSeq(t)
    BY <1>1, <1>2, ConcatEmptySeq
  <2>. QED  BY <1>2, <2>1, FlattenEmpty
<1>3. CASE t = <<>>
  <2>1. s \o t = s /\ FlattenSeq(s) \o <<>> = FlattenSeq(s)
    BY <1>1, <1>3, ConcatEmptySeq
  <2>. QED  BY <1>3, <2>1, FlattenEmpty
<1>4. CASE s # <<>> /\ t # <<>>
  <2>1. PICK f \in [1 .. Len(s) -> Seq(S)] : Accumulates(f, s, Len(s))
    BY <1>4, AccumulationExists
  <2>2. PICK g \in [1 .. Len(t) -> Seq(S)] : Accumulates(g, t, Len(t))
    BY <1>4, AccumulationExists
  <2>3. FlattenSeq(s) = f[Len(s)] /\ FlattenSeq(t) = g[Len(t)]
    BY <1>4, <2>1, <2>2, FlattenIsLast
  <2> DEFINE m == Len(s)
             n == Len(s) + Len(t)
             st == s \o t
             H(i) == IF i <= m THEN f[i] ELSE f[m] \o g[i - m]
             h == [i \in 1 .. n |-> H(i)]
  <2>4. m \in Nat \ {0} /\ Len(t) \in Nat \ {0} /\ n = m + Len(t)
    BY <1>4
  <2>5. st \in Seq(Seq(S)) /\ Len(st) = n
    BY ConcatProperties
  <2>6. st # <<>>
    BY <2>4, <2>5
  <2>7. \A i \in 1 .. m : st[i] = s[i]
    BY <2>4, ConcatProperties
  <2>8. \A i \in 1 .. Len(t) : st[m + i] = t[i]
    <3> TAKE i \in 1 .. Len(t)
    <3>1. m + i \in 1 .. n /\ ~(m + i <= m) /\ m + i - m = i
      BY <2>4
    <3>2. st[m + i] = IF m + i <= m THEN s[m + i] ELSE t[m + i - m]
      BY <3>1, ConcatProperties
    <3>. QED  BY <3>1, <3>2
  <2>9. f[m] \in Seq(S) /\ \A i \in 1 .. Len(t) : g[i] \in Seq(S)
    <3>1. m \in 1 .. Len(s)
      BY <2>4
    <3>2. f[m] \in Seq(S)
      BY <2>1, <3>1
    <3>. QED  BY <2>2, <3>2
  <2>10. \A i \in 1 .. m : i \in 1 .. n /\ h[i] = f[i]
    BY <2>4
  <2>11. \A i \in 1 .. Len(t) : m + i \in 1 .. n /\ h[m + i] = f[m] \o g[i]
    <3> TAKE i \in 1 .. Len(t)
    <3>1. m + i \in 1 .. n /\ ~(m + i <= m) /\ (m + i) - m = i
      BY <2>4
    <3>2. h[m + i] = H(m + i)
      <4> HIDE DEF H
      <4>. QED  BY <3>1
    <3>3. H(m + i) = f[m] \o g[(m + i) - m]
      <4>1. ~(m + i <= m)
        BY <3>1
      <4>. QED  BY <4>1, Zenon
    <3> HIDE DEF m, n, h, H
    <3>. QED  BY <3>1, <3>2, <3>3, Zenon
  <2>12. \A i \in 1 .. n :
            i \in 1 .. m \/ \E k \in 1 .. Len(t) : i = m + k
    <3> SUFFICES ASSUME NEW i \in 1 .. n, i \notin 1 .. m
                 PROVE  \E k \in 1 .. Len(t) : i = m + k
      OBVIOUS
    <3>1. i - m \in 1 .. Len(t) /\ i = m + (i - m)
      BY <2>4
    <3>. QED  BY <3>1
  <2>13. h \in [1 .. n -> Seq(S)]
    <3>1. ASSUME NEW i \in 1 .. n  PROVE h[i] \in Seq(S)
      <4>1. CASE i \in 1 .. m
        <5>1. f[i] \in Seq(S) /\ h[i] = f[i]
          BY <2>1, <2>10, <4>1
        <5>. QED  BY <5>1
      <4>2. ASSUME NEW k \in 1 .. Len(t), i = m + k
            PROVE  h[i] \in Seq(S)
        <5>1. f[m] \o g[k] \in Seq(S)
          BY <2>9
        <5>2. h[i] = f[m] \o g[k]
          BY <2>11, <4>2
        <5>. QED  BY <5>1, <5>2
      <4>. QED  BY <2>12, <4>1, <4>2
    <3>2. h = [i \in 1 .. n |-> h[i]]
      OBVIOUS
    <3> HIDE DEF h, n
    <3>. QED  BY <3>1, <3>2
  <2> HIDE DEF h, st, n, m
  <2>14. h[1] = st[1]
    <3>1. 1 \in 1 .. m
      BY <2>4
    <3>2. f[1] = s[1]
      BY <2>1 DEF Accumulates
    <3>. QED  BY <2>7, <2>10, <3>1, <3>2
  <2>15. ASSUME NEW i \in 2 .. n  PROVE h[i] = h[i - 1] \o st[i]
    <3>1. CASE i \in 1 .. m
      <4>1. i \in 2 .. m /\ i - 1 \in 1 .. m
        BY <2>4, <3>1
      <4>2. f[i] = f[i - 1] \o s[i]
        BY <2>1, <4>1 DEF Accumulates, m
      <4>3. h[i] = f[i] /\ h[i - 1] = f[i - 1] /\ st[i] = s[i]
        BY <2>7, <2>10, <3>1, <4>1
      <4>. QED  BY <4>2, <4>3
    <3>2. ASSUME NEW k \in 1 .. Len(t), i = m + k
          PROVE  h[i] = h[i - 1] \o st[i]
      <4>1. h[i] = f[m] \o g[k] /\ st[i] = t[k]
        BY <2>8, <2>11, <3>2
      <4>2. CASE k = 1
        <5>1. h[i - 1] = f[m]
          <6>1. i - 1 = m /\ m \in 1 .. m
            BY <2>4, <3>2, <4>2
          <6>. QED  BY <2>10, <6>1
        <5>2. g[1] = t[1]
          BY <2>2 DEF Accumulates
        <5>. QED  BY <4>1, <4>2, <5>1, <5>2
      <4>3. CASE k # 1
        <5>1. k \in 2 .. Len(t) /\ k - 1 \in 1 .. Len(t) /\ i - 1 = m + (k - 1)
          BY <2>4, <3>2, <4>3
        <5>2. h[i - 1] = f[m] \o g[k - 1]
          BY <2>11, <5>1
        <5>3. g[k] = g[k - 1] \o t[k]
          BY <2>2, <5>1 DEF Accumulates
        <5>4. f[m] \in Seq(S) /\ g[k - 1] \in Seq(S) /\ t[k] \in Seq(S)
          BY <2>9, <5>1
        <5>5. (f[m] \o g[k - 1]) \o t[k] = f[m] \o (g[k - 1] \o t[k])
          <6>1. Cat(Cat(f[m], g[k - 1]), t[k]) = Cat(f[m], Cat(g[k - 1], t[k]))
            <7>1. \A a, b, c \in Seq(S) :
                      Cat(Cat(a, b), c) = Cat(a, Cat(b, c))
              BY ConcatIsAssociative
            <7>. QED  BY <5>4, <7>1, Zenon
          <6>. QED  BY <6>1 DEF Cat
        <5>. QED  BY <4>1, <5>2, <5>3, <5>5
      <4>. QED  BY <4>2, <4>3
    <3>3. i \in 1 .. n
      BY <2>4
    <3>. QED  BY <2>12, <3>1, <3>2, <3>3
  <2>16. Accumulates(h, st, n)
    BY <2>14, <2>15 DEF Accumulates
  <2>17. FlattenSeq(st) = h[n]
    BY <2>5, <2>6, <2>13, <2>16, FlattenIsLast
  <2>18. h[n] = f[m] \o g[Len(t)]
    <3>1. Len(t) \in 1 .. Len(t)
      BY <2>4
    <3>. QED  BY <2>4, <2>11, <3>1
  <2>. QED  BY <2>3, <2>17, <2>18 DEF st, m
<1>. QED  BY <1>2, <1>3, <1>4

\* What is appended comes last.
LEMMA FlattenAppend ==
    ASSUME NEW S, NEW seqs \in Seq(Seq(S)), NEW s \in Seq(S)
    PROVE  FlattenSeq(Append(seqs, s)) = FlattenSeq(seqs) \o s
<1>1. <<s>> \in Seq(Seq(S)) /\ Append(seqs, s) = seqs \o <<s>>
  BY AppendIsConcat
<1>2. FlattenSeq(<<s>>) = s
  BY FlattenSingle
<1>. QED  BY <1>1, <1>2, FlattenConcat

\* The head comes first.
LEMMA FlattenHeadTail ==
    ASSUME NEW S, NEW seqs \in Seq(Seq(S)), seqs # <<>>
    PROVE  FlattenSeq(seqs) = Head(seqs) \o FlattenSeq(Tail(seqs))
<1>1. Head(seqs) \in Seq(S) /\ Tail(seqs) \in Seq(Seq(S))
  BY HeadTailProperties
<1>2. <<Head(seqs)>> \in Seq(Seq(S))
  BY <1>1
<1>3. seqs = <<Head(seqs)>> \o Tail(seqs)
  OBVIOUS
<1>4. FlattenSeq(<<Head(seqs)>>) = Head(seqs)
  BY <1>1, FlattenSingle
<1>5. FlattenSeq(<<Head(seqs)>> \o Tail(seqs))
        = FlattenSeq(<<Head(seqs)>>) \o FlattenSeq(Tail(seqs))
  BY <1>1, <1>2, FlattenConcat
<1>. QED  BY <1>3, <1>4, <1>5
=============================================================================

---------------------------- MODULE SequenceLemmas ----------------------------
(***************************************************************************)
(* Induction over the natural numbers, and what FlattenSeq makes of a queue *)
(* of packets.                                                             *)
(***************************************************************************)
EXTENDS Naturals, Sequences, SequencesExt, WellFoundedInduction, TLAPS

(* Induction over the natural numbers, for a set rather than an operator.    *)

\* Every set of natural numbers that is not empty has a least element.
LEMMA LeastNat ==
    ASSUME NEW S \in SUBSET Nat, S # {}
    PROVE  \E n \in S : \A m \in S : ~(m < n)
<1> DEFINE R == {ss \in Nat \X Nat : ss[1] < ss[2]}
<1>1. IsWellFoundedOn(R, Nat)
  BY NatLessThanWellFounded DEF OpToRel
<1>2. \A x, y \in Nat : x < y => <<x, y>> \in R
  OBVIOUS
<1> HIDE DEF R
<1>3. PICK n \in S : \A m \in S : ~(<<m, n>> \in R)
  BY <1>1, WFMin, Zenon
<1> QED BY <1>2, <1>3, Zenon

\* A set with 0, and with the successor of each of its numbers, has them all.
LEMMA SetInduction ==
    ASSUME NEW S, 0 \in S, \A n \in Nat : n \in S => n + 1 \in S
    PROVE  \A n \in Nat : n \in S
<1> SUFFICES ASSUME Nat \ S # {} PROVE FALSE
  OBVIOUS
<1>1. PICK n \in Nat \ S : \A m \in Nat \ S : ~(m < n)
  BY LeastNat, Zenon
<1>2. n - 1 \in Nat /\ n - 1 < n /\ n - 1 + 1 = n
  BY <1>1
<1>3. n - 1 \in S
  BY <1>1, <1>2
<1> QED BY <1>1, <1>2, <1>3

\* Sequences are equal when their elements are.
LEMMA SeqEqual ==
    ASSUME NEW S, NEW a \in Seq(S), NEW b \in Seq(S), Len(a) = Len(b),
           \A i \in 1..Len(a) : a[i] = b[i]
    PROVE  a = b
OBVIOUS

-----------------------------------------------------------------------------
(* FlattenSeq: the bytes of a queue of packets.                              *)

\* f[i] is what the first i packets of q are together: the recursive function
\* in FlattenSeq.
Flattens(f, q) == f = [i \in 1..Len(q) |-> IF i = 1 THEN q[i] ELSE f[i - 1] \o q[i]]

\* There is such a function.
LEMMA FlattensExists ==
    ASSUME NEW S, NEW q \in Seq(Seq(S))
    PROVE  \E f \in [1..Len(q) -> Seq(S)] : Flattens(f, q)
<1> DEFINE Good(n, f) == \A i \in 1..n : f[i] = IF i = 1 THEN q[i] ELSE f[i - 1] \o q[i]
           N == {n \in Nat : n <= Len(q) => \E f \in [1..n -> Seq(S)] : Good(n, f)}
<1>1. 0 \in N
  <2>1. [i \in 1..0 |-> <<>>] \in [1..0 -> Seq(S)] /\ Good(0, [i \in 1..0 |-> <<>>])
    OBVIOUS
  <2> QED BY <2>1, Zenon
<1>2. ASSUME NEW n \in Nat, n \in N PROVE n + 1 \in N
  <2> SUFFICES ASSUME n + 1 <= Len(q)
               PROVE  \E f \in [1..(n + 1) -> Seq(S)] : Good(n + 1, f)
    <3>1. n + 1 \in Nat
      OBVIOUS
    <3> HIDE DEF Good
    <3> QED BY <3>1
  <2>1. n <= Len(q) /\ n + 1 \in 1..Len(q)
    <3>1. Len(q) \in Nat
      OBVIOUS
    <3> HIDE DEF N, Good
    <3> QED BY <3>1
  <2>2. PICK f \in [1..n -> Seq(S)] : Good(n, f)
    BY <1>2, <2>1, SMTT(30)
  <2>3. q[n + 1] \in Seq(S)
    BY <2>1
  <2> DEFINE last == IF n + 1 = 1 THEN q[n + 1] ELSE f[n] \o q[n + 1]
             g == [i \in 1..(n + 1) |-> IF i = n + 1 THEN last ELSE f[i]]
  <2>4. last \in Seq(S)
    <3>1. CASE n = 0
      BY <2>3, <3>1
    <3>2. CASE n # 0
      <4>1. f[n] \in Seq(S)
        BY <3>2
      <4>2. f[n] \o q[n + 1] \in Seq(S)
        BY <2>3, <4>1
      <4> QED BY <3>2, <4>2
    <3> QED BY <3>1, <3>2
  <2>5. g \in [1..(n + 1) -> Seq(S)]
    <3> HIDE DEF last
    <3> QED BY <2>4
  <2>6. ASSUME NEW i \in 1..(n + 1) PROVE g[i] = IF i = 1 THEN q[i] ELSE g[i - 1] \o q[i]
    <3>1. CASE i = n + 1
      BY <3>1
    <3>2. CASE i # n + 1
      <4>1. i \in 1..n /\ (i # 1 => i - 1 \in 1..n /\ i - 1 # n + 1 /\ i - 1 \in 1..(n + 1))
        BY <3>2
      <4>2. g[i] = f[i] /\ (i # 1 => g[i - 1] = f[i - 1])
        BY <3>2, <4>1
      <4> QED BY <2>2, <4>1, <4>2, Zenon
    <3> QED BY <3>1, <3>2
  <2> QED BY <2>5, <2>6, Zenon
<1>3. Len(q) \in Nat
  OBVIOUS
<1>4. Len(q) \in N
  <2> HIDE DEF N
  <2> QED BY <1>1, <1>2, <1>3, SetInduction, Zenon
<1>5. PICK f \in [1..Len(q) -> Seq(S)] : Good(Len(q), f)
  BY <1>3, <1>4
<1> QED BY <1>5, Zenon DEF Flattens

\* There is only one.
LEMMA FlattensUnique ==
    ASSUME NEW S, NEW q \in Seq(Seq(S)), NEW f, NEW g, Flattens(f, q), Flattens(g, q)
    PROVE  f = g
<1> DEFINE N == {n \in Nat : n \in 1..Len(q) => f[n] = g[n]}
<1>1. 0 \in N
  OBVIOUS
<1>2. ASSUME NEW n \in Nat, n \in N PROVE n + 1 \in N
  <2> SUFFICES ASSUME n + 1 \in 1..Len(q) PROVE f[n + 1] = g[n + 1]
    OBVIOUS
  <2>1. f[n + 1] = IF n + 1 = 1 THEN q[n + 1] ELSE f[(n + 1) - 1] \o q[n + 1]
    BY Zenon DEF Flattens
  <2>2. g[n + 1] = IF n + 1 = 1 THEN q[n + 1] ELSE g[(n + 1) - 1] \o q[n + 1]
    BY Zenon DEF Flattens
  <2>3. (n + 1) - 1 = n /\ (n + 1 # 1 => n \in 1..Len(q))
    OBVIOUS
  <2> QED BY <1>2, <2>1, <2>2, <2>3
<1>3. \A n \in Nat : n \in N
  <2> HIDE DEF N
  <2> QED BY <1>1, <1>2, SetInduction, Zenon
<1>4. \A n \in 1..Len(q) : f[n] = g[n]
  BY <1>3
<1>5. f = [i \in 1..Len(q) |-> f[i]] /\ g = [i \in 1..Len(q) |-> g[i]]
  BY DEF Flattens
<1> QED BY <1>4, <1>5

\* FlattenSeq is its last value.
LEMMA FlattenLast ==
    ASSUME NEW S, NEW q \in Seq(Seq(S)), q # <<>>, NEW f, Flattens(f, q)
    PROVE  FlattenSeq(q) = f[Len(q)]
<1>1. Len(q) # 0
  OBVIOUS
<1>2. FlattenSeq(q) = (CHOOSE g : Flattens(g, q))[Len(q)]
  BY <1>1, Zenon DEF FlattenSeq, Flattens
<1>3. Flattens(CHOOSE g : Flattens(g, q), q)
  BY Zenon
<1>4. f = CHOOSE g : Flattens(g, q)
  BY <1>3, FlattensUnique
<1> QED BY <1>2, <1>4

\* What is appended to a queue comes last.
LEMMA FlattenAppend ==
    ASSUME NEW S, NEW q \in Seq(Seq(S)), NEW d \in Seq(S)
    PROVE  /\ FlattenSeq(q) \in Seq(S)
           /\ FlattenSeq(Append(q, d)) = FlattenSeq(q) \o d
<1>1. PICK f \in [1..Len(q) -> Seq(S)] : Flattens(f, q)
  BY FlattensExists
<1>2. Append(q, d) \in Seq(Seq(S)) /\ Append(q, d) # <<>> /\ Len(Append(q, d)) = Len(q) + 1
  OBVIOUS
<1>3. PICK g \in [1..Len(Append(q, d)) -> Seq(S)] : Flattens(g, Append(q, d))
  BY <1>2, FlattensExists, Zenon
<1>4. FlattenSeq(Append(q, d)) = g[Len(q) + 1]
  BY <1>2, <1>3, FlattenLast, Zenon
<1>5. CASE q = <<>>
  <2>1. FlattenSeq(q) = <<>>
    BY <1>5 DEF FlattenSeq
  <2>2. g[1] = d
    BY <1>2, <1>3, <1>5 DEF Flattens
  <2>3. <<>> \o d = d
    OBVIOUS
  <2>4. Len(q) + 1 = 1
    BY <1>5
  <2> QED BY <1>4, <2>1, <2>2, <2>3, <2>4
<1>6. CASE q # <<>>
  <2>1. FlattenSeq(q) = f[Len(q)] /\ Len(q) \in 1..Len(q)
    BY <1>1, <1>6, FlattenLast
  <2> DEFINE h == [i \in 1..Len(q) |-> g[i]]
  <2>2. Flattens(h, q)
    <3>1. ASSUME NEW i \in 1..Len(q) PROVE h[i] = IF i = 1 THEN q[i] ELSE h[i - 1] \o q[i]
      <4>1. i \in 1..Len(Append(q, d)) /\ Append(q, d)[i] = q[i] /\ (i # 1 => i - 1 \in 1..Len(q))
        OBVIOUS
      <4>2. g[i] = IF i = 1 THEN Append(q, d)[i] ELSE g[i - 1] \o Append(q, d)[i]
        BY <1>3, <4>1, Zenon DEF Flattens
      <4> QED BY <4>1, <4>2, Zenon
    <3> QED BY <3>1, Zenon DEF Flattens
  <2>3. f = h
    BY <1>1, <2>2, FlattensUnique
  <2>4. g[Len(q) + 1] = g[Len(q)] \o d
    <3>1. Len(q) + 1 \in 1..Len(Append(q, d)) /\ Append(q, d)[Len(q) + 1] = d
          /\ Len(q) + 1 # 1 /\ (Len(q) + 1) - 1 = Len(q)
      BY <2>1
    <3> QED BY <1>3, <3>1, Zenon DEF Flattens
  <2> QED BY <1>1, <1>4, <2>1, <2>3, <2>4
<1> QED BY <1>5, <1>6

\* A sequence is its front with its last element appended.
LEMMA SeqLast ==
    ASSUME NEW S, NEW p \in Seq(S), NEW n \in Nat, Len(p) = n + 1
    PROVE  /\ Front(p) \in Seq(S) /\ Len(Front(p)) = n /\ Last(p) \in S
           /\ p = Append(Front(p), Last(p))
<1>1. Front(p) \in Seq(S) /\ Len(Front(p)) = n
  BY DEF Front
<1>2. Last(p) \in S /\ Last(p) = p[n + 1]
  BY DEF Last
<1>3. \A i \in 1..n : Front(p)[i] = p[i]
  BY DEF Front
<1>4. Append(Front(p), Last(p)) \in Seq(S) /\ Len(Append(Front(p), Last(p))) = n + 1
  BY <1>1, <1>2
<1>5. ASSUME NEW i \in 1..(n + 1) PROVE p[i] = Append(Front(p), Last(p))[i]
  BY <1>1, <1>2, <1>3
<1>6. p = Append(Front(p), Last(p))
  BY <1>4, <1>5, SeqEqual
<1> QED BY <1>1, <1>2, <1>6

\* The same for a sequence of sequences.
LEMMA PacketsLast ==
    ASSUME NEW S, NEW p \in Seq(Seq(S)), NEW n \in Nat, Len(p) = n + 1
    PROVE  /\ Front(p) \in Seq(Seq(S)) /\ Len(Front(p)) = n /\ Last(p) \in Seq(S)
           /\ p = Append(Front(p), Last(p))
BY SeqLast, Zenon

\* Append leaves the head alone.
LEMMA TailAppend ==
    ASSUME NEW S, NEW a \in Seq(S), NEW d \in S, a # <<>>
    PROVE  Head(Append(a, d)) = Head(a) /\ Tail(Append(a, d)) = Append(Tail(a), d)
<1>1. Head(Append(a, d)) = Head(a)
  OBVIOUS
<1>2. Tail(a) \in Seq(S) /\ Len(Tail(a)) = Len(a) - 1 /\ Len(a) \in Nat /\ Len(a) > 0
  OBVIOUS
<1>3. Append(Tail(a), d) \in Seq(S) /\ Len(Append(Tail(a), d)) = Len(a)
  BY <1>2
<1>4. Tail(Append(a, d)) \in Seq(S) /\ Len(Tail(Append(a, d))) = Len(a)
  OBVIOUS
<1>5. ASSUME NEW i \in 1..Len(a) PROVE Tail(Append(a, d))[i] = Append(Tail(a), d)[i]
  <2>1. Tail(Append(a, d))[i] = Append(a, d)[i + 1]
    OBVIOUS
  <2>2. CASE i = Len(a)
    BY <1>2, <2>1, <2>2
  <2>3. CASE i # Len(a)
    <3>0. i \in 1..Len(Tail(a))
      <4>1. i \in 1..(Len(a) - 1)
        BY <2>3
      <4> QED BY <1>2, <4>1, Zenon
    <3>1. Tail(a)[i] = a[i + 1]
      BY <3>0
    <3>2. Append(Tail(a), d)[i] = Tail(a)[i]
      BY <1>2, <3>0
    <3>3. Append(a, d)[i + 1] = a[i + 1]
      BY <2>3
    <3> QED BY <2>1, <3>1, <3>2, <3>3
  <2> QED BY <2>2, <2>3
<1> QED BY <1>1, <1>3, <1>4, <1>5, SeqEqual, Zenon

\* Concatenation is associative.
LEMMA ConcatAssociative ==
    ASSUME NEW S, NEW x \in Seq(S), NEW y \in Seq(S), NEW z \in Seq(S)
    PROVE  (x \o y) \o z = x \o (y \o z)
OBVIOUS

\* The empty sequence is the unit of concatenation.
LEMMA ConcatUnit ==
    ASSUME NEW S, NEW x \in Seq(S)
    PROVE  x \o <<>> = x /\ <<>> \o x = x
OBVIOUS

\* No packets, no bytes; one packet, its bytes.
LEMMA FlattenFew ==
    ASSUME NEW S, NEW d \in Seq(S)
    PROVE  FlattenSeq(<<>>) = <<>> /\ FlattenSeq(Append(<<>>, d)) = d
<1>1. FlattenSeq(<<>>) = <<>>
  BY DEF FlattenSeq
<1>2. <<>> \in Seq(Seq(S))
  OBVIOUS
<1>3. FlattenSeq(Append(<<>>, d)) = FlattenSeq(<<>>) \o d
  BY <1>2, FlattenAppend, Zenon
<1> QED BY <1>1, <1>3, ConcatUnit

\* The bytes of the oldest packet come first.
LEMMA FlattenHead ==
    ASSUME NEW S, NEW q \in Seq(Seq(S)), q # <<>>
    PROVE  FlattenSeq(q) = Head(q) \o FlattenSeq(Tail(q))
<1> DEFINE Holds(p) == FlattenSeq(p) = Head(p) \o FlattenSeq(Tail(p))
           N == {n \in Nat : \A p \in Seq(Seq(S)) : Len(p) = n + 1 => Holds(p)}
<1>1. ASSUME NEW p \in Seq(Seq(S)), Len(p) = 0 + 1 PROVE Holds(p)
  <2> HIDE DEF N
  <2> DEFINE a == Front(p)
             d == Last(p)
  <2> HIDE DEF a, d
  <2>1. a \in Seq(Seq(S)) /\ d \in Seq(S) /\ Len(a) = 0 /\ p = Append(a, d)
    <3>1. 0 \in Nat
      OBVIOUS
    <3> HIDE DEF Holds
    <3> QED BY <1>1, <3>1, PacketsLast, Zenon DEF a, d
  <2>2. a = <<>>
    BY <2>1
  <2>3. Head(Append(<<>>, d)) = d /\ Tail(Append(<<>>, d)) = <<>>
    <3>1. Head(Append(<<>>, d)) = d
      OBVIOUS
    <3>2. <<>> \in Seq(Seq(S)) /\ Append(<<>>, d) \in Seq(Seq(S)) /\ Len(Append(<<>>, d)) = 0 + 1
      BY <2>1
    <3>3. Tail(Append(<<>>, d)) \in Seq(Seq(S)) /\ Len(Tail(Append(<<>>, d))) = 0
      BY <3>2
    <3> QED BY <3>1, <3>3
  <2>4. d \o <<>> = d
    BY <2>1, ConcatUnit
  <2> QED BY <2>1, <2>2, <2>3, <2>4, FlattenFew, Zenon
<1>2. ASSUME NEW n \in Nat, n \in N, NEW p \in Seq(Seq(S)), Len(p) = (n + 1) + 1 PROVE Holds(p)
  <2> DEFINE a == Front(p)
             d == Last(p)
  <2> HIDE DEF a, d
  <2>1. a \in Seq(Seq(S)) /\ d \in Seq(S) /\ Len(a) = n + 1 /\ p = Append(a, d)
    <3>1. n + 1 \in Nat
      OBVIOUS
    <3> HIDE DEF N, Holds
    <3> QED BY <1>2, <3>1, PacketsLast, Zenon DEF a, d
  <2>2. Holds(a)
    BY <1>2, <2>1, Zenon
  <2> HIDE DEF N
  <2>3. a # <<>> /\ Head(a) \in Seq(S) /\ Tail(a) \in Seq(Seq(S))
    BY <2>1
  <2>4. Head(p) = Head(a) /\ Tail(p) = Append(Tail(a), d)
    BY <2>1, <2>3, TailAppend
  <2>5. FlattenSeq(p) = FlattenSeq(a) \o d
    BY <2>1, FlattenAppend, Zenon
  <2>6. FlattenSeq(Tail(a)) \in Seq(S) /\ FlattenSeq(Tail(p)) = FlattenSeq(Tail(a)) \o d
    BY <2>1, <2>3, <2>4, FlattenAppend, Zenon
  <2>7. (Head(a) \o FlattenSeq(Tail(a))) \o d = Head(a) \o (FlattenSeq(Tail(a)) \o d)
    <3>1. ASSUME NEW x \in Seq(S), NEW y \in Seq(S), NEW z \in Seq(S)
          PROVE  (x \o y) \o z = x \o (y \o z)
      BY ConcatAssociative, SMTT(30)
    <3> QED BY <2>1, <2>3, <2>6, <3>1, Zenon
  <2> QED BY <2>2, <2>4, <2>5, <2>6, <2>7, Zenon
<1>3. 0 \in N
  <2> HIDE DEF Holds
  <2> QED BY <1>1
<1>4. ASSUME NEW n \in Nat, n \in N PROVE n + 1 \in N
  <2>1. n + 1 \in Nat
    OBVIOUS
  <2>2. \A p \in Seq(Seq(S)) : Len(p) = (n + 1) + 1 => Holds(p)
    BY <1>2, <1>4, Zenon
  <2> HIDE DEF Holds
  <2> QED BY <2>1, <2>2
<1>5. \A n \in Nat : n \in N
  <2> HIDE DEF N
  <2> QED BY <1>3, <1>4, SetInduction, Zenon
<1>6. PICK n \in Nat : Len(q) = n + 1
  <2> HIDE DEF N
  <2>1. Len(q) \in Nat /\ Len(q) # 0
    OBVIOUS
  <2>2. Len(q) - 1 \in Nat /\ Len(q) = (Len(q) - 1) + 1
    BY <2>1
  <2> QED BY <2>2, Zenon
<1>7. n \in N
  BY <1>5
<1> QED
  <2> HIDE DEF Holds
  <2>1. Holds(q)
    BY <1>6, <1>7
  <2> QED BY <2>1 DEF Holds

\* The first n elements of p \o f, and the others, when p has n.
LEMMA ConcatCut ==
    ASSUME NEW S, NEW p \in Seq(S), NEW f \in Seq(S), NEW n \in 0..Len(p)
    PROVE  /\ n \in 0..Len(p \o f)
           /\ SubSeq(p \o f, 1, n) = SubSeq(p, 1, n)
           /\ SubSeq(p \o f, n + 1, Len(p \o f)) = SubSeq(p, n + 1, Len(p)) \o f
<1> DEFINE pf == p \o f
           a == SubSeq(pf, n + 1, Len(pf))
           r == SubSeq(p, n + 1, Len(p))
<1>1. /\ pf \in Seq(S) /\ Len(pf) = Len(p) + Len(f) /\ Len(p) \in Nat /\ Len(f) \in Nat /\ n \in Nat
      /\ \A i \in 1..Len(pf) : pf[i] = IF i <= Len(p) THEN p[i] ELSE f[i - Len(p)]
  OBVIOUS
<1> HIDE DEF pf
<1>2. n \in 0..Len(pf)
  BY <1>1
<1>3. SubSeq(pf, 1, n) = SubSeq(p, 1, n)
  BY <1>1
<1>4. /\ a \in Seq(S) /\ Len(a) = Len(pf) - n
      /\ \A i \in 1..Len(a) : a[i] = pf[n + i]
  BY <1>1
<1>5. /\ r \in Seq(S) /\ Len(r) = Len(p) - n
      /\ \A i \in 1..Len(r) : r[i] = p[n + i]
  BY <1>1
<1> HIDE DEF a, r
<1>6. /\ r \o f \in Seq(S) /\ Len(r \o f) = Len(r) + Len(f)
      /\ \A i \in 1..(Len(r) + Len(f)) : (r \o f)[i] = IF i <= Len(r) THEN r[i] ELSE f[i - Len(r)]
  BY <1>5
<1>7. Len(a) = Len(r \o f)
  BY <1>1, <1>4, <1>5, <1>6
<1>8. ASSUME NEW i \in 1..Len(a) PROVE a[i] = (r \o f)[i]
  <2>1. a[i] = pf[n + i] /\ n + i \in 1..Len(pf) /\ i \in 1..(Len(r) + Len(f))
    BY <1>1, <1>4, <1>5
  <2>2. CASE i <= Len(r)
    <3>1. n + i <= Len(p) /\ i \in 1..Len(r)
      BY <1>1, <1>5, <2>1, <2>2
    <3> QED BY <1>1, <1>5, <1>6, <2>1, <2>2, <3>1
  <2>3. CASE ~(i <= Len(r))
    <3>1. ~(n + i <= Len(p)) /\ (n + i) - Len(p) = i - Len(r)
      BY <1>1, <1>5, <2>1, <2>3
    <3> QED BY <1>1, <1>6, <2>1, <2>3, <3>1, SMTT(30)
  <2> QED BY <2>2, <2>3, Zenon
<1>9. a = r \o f
  BY <1>4, <1>6, <1>7, <1>8, SeqEqual, Zenon
<1> QED BY <1>2, <1>3, <1>9, Zenon DEF a, r, pf
=============================================================================

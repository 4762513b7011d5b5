------------------------ MODULE VirtualAllocatorLemmas ------------------------
(***************************************************************************)
(* What a list of nodes is to the proofs about VirtualAllocator, for an    *)
(* address space of any size, and what a splice does to such a list:       *)
(* valloc_alloc, valloc_reserve and valloc_release change the list by      *)
(* putting one to three nodes in the place of a few neighbours.            *)
(***************************************************************************)
EXTENDS VirtualAllocator, SequenceTheorems, TLAPS

Nodes == [is_free: BOOLEAN, start_addr: 0 .. Pages, size_pages: 1 .. Pages]

\* The nodes of s cover the pages a .. b - 1, in order and without a gap.
Tiling(s, a, b) ==
  /\ s \in Seq(Nodes) /\ Len(s) >= 1
  /\ s[1].start_addr = a /\ End(s[Len(s)]) = b
  /\ \A i \in 1 .. Len(s) - 1: s[i + 1].start_addr = End(s[i])
  /\ \A i, j \in 1 .. Len(s): i < j => End(s[i]) =< s[j].start_addr
  /\ \A x \in a .. b - 1: \E i \in 1 .. Len(s): InNode(s[i], x)

\* No two neighbours are free.
Merged(s) == \A i \in 1 .. Len(s) - 1: ~(s[i].is_free /\ s[i + 1].is_free)

RegionOf(node) == [start |-> node.start_addr, size |-> node.size_pages]
Held(s) == {RegionOf(s[i]): i \in {j \in 1 .. Len(s): ~s[j].is_free}}

\* Orders of naturals compose.
LEMMA Chain ==
  \A a, b, c \in Nat:
     /\ a < b /\ b =< c => a =< c
     /\ a =< b /\ b =< c => a =< c
     /\ a < b /\ b =< c => a < c
OBVIOUS

\* The places of a concatenation.
LEMMA ConcatAt ==
  ASSUME NEW S, NEW s \in Seq(S), NEW t \in Seq(S)
  PROVE  /\ s \o t \in Seq(S) /\ Len(s \o t) = Len(s) + Len(t)
         /\ \A i \in 1 .. Len(s): (s \o t)[i] = s[i]
         /\ \A i \in 1 .. Len(t): (s \o t)[Len(s) + i] = t[i]
<1> DEFINE u == s \o t
<1>1. /\ u \in Seq(S) /\ Len(u) = Len(s) + Len(t)
      /\ \A i \in 1 .. Len(s) + Len(t): u[i] = IF i <= Len(s) THEN s[i] ELSE t[i - Len(s)]
  BY ConcatProperties, Zenon
<1>2. Len(s) \in Nat /\ Len(t) \in Nat
  OBVIOUS
<1> HIDE DEF u
<1>3. \A i \in 1 .. Len(s): u[i] = s[i]
  BY <1>1, <1>2
<1>4. ASSUME NEW i \in 1 .. Len(t) PROVE u[Len(s) + i] = t[i]
  <2>1. Len(s) + i \in 1 .. Len(s) + Len(t) /\ ~(Len(s) + i <= Len(s)) /\ Len(s) + i - Len(s) = i
    BY <1>2
  <2> QED BY <1>1, <2>1
<1> QED BY <1>1, <1>3, <1>4 DEF u

\* r is s with new in place of the elements first .. last.
Spliced(r, s, first, last, new) ==
  /\ Len(r) = first - 1 + Len(new) + Len(s) - last
  /\ \A i \in 1 .. first - 1: r[i] = s[i]
  /\ \A i \in 1 .. Len(new): r[first - 1 + i] = new[i]
  /\ \A i \in last + 1 .. Len(s): r[first - 1 + Len(new) + i - last] = s[i]

\* What Splice leaves at each place of the list.
LEMMA SpliceAt ==
  ASSUME NEW S, list \in Seq(S), NEW first \in 1 .. Len(list), NEW last \in first .. Len(list),
         NEW new \in Seq(S)
  PROVE  /\ Splice(first, last, new) \in Seq(S)
         /\ Spliced(Splice(first, last, new), list, first, last, new)
<1> DEFINE A == SubSeq(list, 1, first - 1)
           B == SubSeq(list, last + 1, Len(list))
           r == Splice(first, last, new)
<1>0. Len(list) \in Nat /\ Len(new) \in Nat /\ first \in Int /\ last \in Int
  OBVIOUS
<1>1. A \in Seq(S) /\ Len(A) = first - 1 /\ \A i \in 1 .. first - 1: A[i] = list[i]
  OBVIOUS
<1>2. /\ B \in Seq(S) /\ Len(B) = Len(list) - last
      /\ \A i \in 1 .. Len(list) - last: B[i] = list[last + i]
  OBVIOUS
<1>3. r = (A \o new) \o B
  BY Zenon DEF Splice
<1> HIDE DEF A, B
<1>4. /\ A \o new \in Seq(S) /\ Len(A \o new) = first - 1 + Len(new)
      /\ \A i \in 1 .. first - 1: (A \o new)[i] = list[i]
      /\ \A i \in 1 .. Len(new): (A \o new)[first - 1 + i] = new[i]
  <2>1. /\ A \o new \in Seq(S) /\ Len(A \o new) = Len(A) + Len(new)
        /\ \A i \in 1 .. Len(A): (A \o new)[i] = A[i]
        /\ \A i \in 1 .. Len(new): (A \o new)[Len(A) + i] = new[i]
    <3>1. A \in Seq(S) /\ new \in Seq(S)
      BY <1>1
    <3> QED BY <3>1, ConcatAt, SMTT(20)
  <2> DEFINE D == A \o new
  <2> HIDE DEF D
  <2>2. /\ D \in Seq(S) /\ Len(D) = Len(A) + Len(new)
        /\ \A i \in 1 .. Len(A): D[i] = A[i]
        /\ \A i \in 1 .. Len(new): D[Len(A) + i] = new[i]
    BY <2>1 DEF D
  <2>3. /\ D \in Seq(S) /\ Len(D) = first - 1 + Len(new)
        /\ \A i \in 1 .. first - 1: D[i] = list[i]
        /\ \A i \in 1 .. Len(new): D[first - 1 + i] = new[i]
    BY <1>0, <1>1, <2>2
  <2> QED BY <2>3 DEF D
<1> DEFINE C == A \o new
<1> HIDE DEF C
<1>5. /\ C \in Seq(S) /\ Len(C) = first - 1 + Len(new)
      /\ \A i \in 1 .. first - 1: C[i] = list[i]
      /\ \A i \in 1 .. Len(new): C[first - 1 + i] = new[i]
  BY SMTT(30), <1>4 DEF C
<1>6. /\ C \o B \in Seq(S) /\ Len(C \o B) = Len(C) + Len(B)
      /\ \A i \in 1 .. Len(C): (C \o B)[i] = C[i]
      /\ \A i \in 1 .. Len(B): (C \o B)[Len(C) + i] = B[i]
  <2>1. C \in Seq(S) /\ B \in Seq(S)
    BY <1>2, <1>5
  <2> QED BY <2>1, ConcatAt, SMTT(20)
<1>7. r = C \o B
  BY <1>3 DEF C
<1> HIDE DEF r
<1>8. r \in Seq(S) /\ Len(r) = first - 1 + Len(new) + Len(list) - last
  BY <1>0, <1>2, <1>5, <1>6, <1>7
<1>9. \A i \in 1 .. first - 1: r[i] = list[i]
  BY <1>0, <1>5, <1>6, <1>7
<1>10. \A i \in 1 .. Len(new): r[first - 1 + i] = new[i]
  <2> TAKE i \in 1 .. Len(new)
  <2>1. first - 1 + i \in 1 .. Len(C)
    BY <1>0, <1>5
  <2> QED BY <1>5, <1>6, <1>7, <2>1
<1>11. \A i \in last + 1 .. Len(list): r[first - 1 + Len(new) + i - last] = list[i]
  <2> TAKE i \in last + 1 .. Len(list)
  <2>1. i - last \in 1 .. Len(B) /\ last + (i - last) = i
    BY <1>0, <1>2
  <2>2. r[Len(C) + (i - last)] = list[i]
    BY <1>2, <1>6, <1>7, <2>1
  <2>3. Len(C) + (i - last) = first - 1 + Len(new) + i - last
    BY <1>0, <1>5
  <2> QED BY <2>2, <2>3
<1> QED BY <1>8, <1>9, <1>10, <1>11 DEF r, Spliced

\* The fields of nodes.
LEMMA NodeFields ==
  ASSUME PagesAssumption, NEW s \in Seq(Nodes)
  PROVE  /\ Len(s) \in Nat
         /\ \A i \in 1 .. Len(s):
              /\ s[i] \in Nodes /\ s[i].is_free \in BOOLEAN
              /\ s[i].start_addr \in Nat /\ s[i].size_pages \in Nat /\ s[i].size_pages >= 1
              /\ End(s[i]) \in Nat /\ End(s[i]) = s[i].start_addr + s[i].size_pages
              /\ s[i].start_addr < End(s[i])
<1>1. Len(s) \in Nat /\ \A i \in 1 .. Len(s): s[i] \in Nodes
  OBVIOUS
<1>2. \A node \in Nodes:
         /\ node.is_free \in BOOLEAN
         /\ node.start_addr \in Nat /\ node.size_pages \in Nat /\ node.size_pages >= 1
  BY DEF Nodes, PagesAssumption
<1> QED BY <1>1, <1>2 DEF End

\* Where the element i of the spliced list comes from.
Origin(r, s, first, last, new, i) ==
  \/ i \in 1 .. first - 1 /\ r[i] = s[i]
  \/ i - first + 1 \in 1 .. Len(new) /\ r[i] = new[i - first + 1]
  \/ /\ i - first + 1 - Len(new) + last \in last + 1 .. Len(s)
     /\ r[i] = s[i - first + 1 - Len(new) + last]

\* Each element of the spliced list is one of the list or one of the new ones.
LEMMA SplicePlaces ==
  ASSUME NEW r, NEW s, NEW new, Len(s) \in Nat, Len(new) \in Nat,
         NEW first \in 1 .. Len(s), NEW last \in first .. Len(s),
         Spliced(r, s, first, last, new),
         NEW i \in 1 .. Len(r)
  PROVE  Origin(r, s, first, last, new, i)
<1> DEFINE n == Len(new)
           m == Len(s)
           f == first - 1
<1>1. /\ Len(r) = f + n + m - last
      /\ \A j \in 1 .. f: r[j] = s[j]
      /\ \A j \in 1 .. n: r[f + j] = new[j]
      /\ \A j \in last + 1 .. m: r[f + n + j - last] = s[j]
  BY DEF Spliced
<1>2. m \in Nat /\ n \in Nat /\ f \in Nat /\ last \in Nat /\ f < last /\ last <= m /\ f = first - 1
  OBVIOUS
<1> SUFFICES \/ i \in 1 .. f /\ r[i] = s[i]
             \/ i - f \in 1 .. n /\ r[i] = new[i - f]
             \/ i - f - n + last \in last + 1 .. m /\ r[i] = s[i - f - n + last]
  <2>1. i - f = i - first + 1 /\ i - f - n + last = i - first + 1 - n + last
    BY <1>2
  <2> QED BY <2>1 DEF Origin
<1> HIDE DEF f, n, m
<1>3. CASE i <= f
  BY <1>1, <1>2, <1>3
<1>4. CASE f < i /\ i <= f + n
  <2>1. i - f \in 1 .. n /\ f + (i - f) = i
    BY <1>1, <1>2, <1>4
  <2> QED BY <1>1, <2>1
<1>5. CASE f + n < i
  <2>1. i - f - n + last \in last + 1 .. m /\ f + n + (i - f - n + last) - last = i
    BY <1>1, <1>2, <1>5
  <2> QED BY <1>1, <2>1
<1> QED BY <1>1, <1>2, <1>3, <1>4, <1>5

\* Nodes that tile the place of the nodes they replace leave a tiling.
LEMMA SpliceTiles ==
  ASSUME PagesAssumption, NEW s, Tiling(s, 0, Pages), NEW r \in Seq(Nodes), NEW new,
         NEW first \in 1 .. Len(s), NEW last \in first .. Len(s),
         Tiling(new, s[first].start_addr, End(s[last])),
         Spliced(r, s, first, last, new)
  PROVE  Tiling(r, 0, Pages)
<1> DEFINE n == Len(new)
           m == Len(s)
           f == first - 1
<1>1. s \in Seq(Nodes) /\ new \in Seq(Nodes) /\ n >= 1
  BY DEF Tiling
<1>2. /\ m \in Nat /\ n \in Nat /\ Len(r) \in Nat /\ first \in Nat /\ last \in Nat /\ f \in Nat
      /\ 1 <= first /\ first <= last /\ last <= m /\ f + 1 = first /\ 1 <= n
  BY <1>1, NodeFields
<1>3. /\ \A i \in 1 .. m: s[i].start_addr \in Nat /\ End(s[i]) \in Nat /\ s[i].start_addr < End(s[i])
      /\ \A i \in 1 .. n: new[i].start_addr \in Nat /\ End(new[i]) \in Nat
                            /\ new[i].start_addr < End(new[i])
      /\ \A i \in 1 .. Len(r): r[i].start_addr \in Nat /\ End(r[i]) \in Nat
  <2>1. \A i \in 1 .. m: s[i].start_addr \in Nat /\ End(s[i]) \in Nat /\ s[i].start_addr < End(s[i])
    BY <1>1, NodeFields, Zenon
  <2>2. \A i \in 1 .. n: new[i].start_addr \in Nat /\ End(new[i]) \in Nat
                            /\ new[i].start_addr < End(new[i])
    BY <1>1, NodeFields, Zenon
  <2>3. \A i \in 1 .. Len(r): r[i].start_addr \in Nat /\ End(r[i]) \in Nat
    BY NodeFields, Zenon
  <2> QED BY <2>1, <2>2, <2>3
<1>4. /\ Len(r) = f + n + m - last
      /\ \A i \in 1 .. f: r[i] = s[i]
      /\ \A i \in 1 .. n: r[f + i] = new[i]
      /\ \A i \in last + 1 .. m: r[f + n + i - last] = s[i]
  BY DEF Spliced
<1>5. \A i \in 1 .. Len(r):
         \/ i \in 1 .. f /\ r[i] = s[i]
         \/ i - f \in 1 .. n /\ r[i] = new[i - f]
         \/ i - f - n + last \in last + 1 .. m /\ r[i] = s[i - f - n + last]
  <2> TAKE i \in 1 .. Len(r)
  <2>1. \/ i \in 1 .. f /\ r[i] = s[i]
        \/ i - first + 1 \in 1 .. n /\ r[i] = new[i - first + 1]
        \/ /\ i - first + 1 - n + last \in last + 1 .. m
           /\ r[i] = s[i - first + 1 - n + last]
    <3>1. Origin(r, s, first, last, new, i)
      BY Zenon, <1>2, SplicePlaces
    <3> QED BY Zenon, <3>1 DEF Origin
  <2>2. i \in Int /\ first \in Int /\ last \in Int /\ n \in Int /\ f = first - 1
    BY <1>2
  <2> HIDE DEF f, n
  <2>3. i - f = i - first + 1 /\ i - f - n + last = i - first + 1 - n + last
    BY <2>2
  <2> QED BY <2>1, <2>3
<1>6. /\ s[1].start_addr = 0 /\ End(s[m]) = Pages
      /\ \A i \in 1 .. m - 1: s[i + 1].start_addr = End(s[i])
      /\ \A i, j \in 1 .. m: i < j => End(s[i]) =< s[j].start_addr
      /\ \A x \in 0 .. Pages - 1: \E i \in 1 .. m: s[i].start_addr =< x /\ x < End(s[i])
  BY DEF Tiling, InNode
<1>7. /\ new[1].start_addr = s[first].start_addr /\ End(new[n]) = End(s[last])
      /\ \A i \in 1 .. n - 1: new[i + 1].start_addr = End(new[i])
      /\ \A i, j \in 1 .. n: i < j => End(new[i]) =< new[j].start_addr
      /\ \A x \in s[first].start_addr .. End(s[last]) - 1:
           \E i \in 1 .. n: new[i].start_addr =< x /\ x < End(new[i])
  BY DEF Tiling, InNode
<1> HIDE DEF n, m, f
<1>8. ASSUME NEW k \in 1 .. n
      PROVE  s[first].start_addr =< new[k].start_addr /\ End(new[k]) =< End(s[last])
  <2>0. /\ 1 \in 1 .. n /\ n \in 1 .. n /\ k \in Nat /\ 1 <= k /\ k <= n
        /\ {new[1].start_addr, new[k].start_addr, new[n].start_addr} \subseteq Nat
        /\ {End(new[1]), End(new[k]), End(new[n])} \subseteq Nat
        /\ new[1].start_addr < End(new[1]) /\ new[n].start_addr < End(new[n])
    BY <1>2, <1>3
  <2>1. new[1].start_addr =< new[k].start_addr
    <3>1. CASE k = 1
      BY <2>0, <3>1
    <3>2. CASE 1 < k
      <4>1. End(new[1]) =< new[k].start_addr
        BY <1>7, <2>0, <3>2
      <4>2. /\ new[1].start_addr \in Nat /\ End(new[1]) \in Nat /\ new[k].start_addr \in Nat
            /\ new[1].start_addr < End(new[1])
        BY Zenon, <1>3, <2>0
      <4> QED BY <4>1, <4>2
    <3> QED BY <2>0, <3>1, <3>2
  <2>2. End(new[k]) =< End(new[n])
    <3>1. CASE k = n
      BY <2>0, <3>1
    <3>2. CASE k < n
      <4>1. End(new[k]) =< new[n].start_addr
        BY Zenon, <1>7, <2>0, <3>2
      <4>2. /\ new[n].start_addr \in Nat /\ End(new[n]) \in Nat /\ End(new[k]) \in Nat
            /\ new[n].start_addr < End(new[n])
        BY Zenon, <1>3, <2>0
      <4> QED BY <4>1, <4>2
    <3> QED BY <1>2, <2>0, <3>1, <3>2
  <2> QED BY <1>7, <2>1, <2>2
<1>9. r[1].start_addr = 0
  <2>1. CASE f = 0
    BY <1>1, <1>2, <1>4, <1>6, <1>7, <2>1
  <2>2. CASE f # 0
    BY <1>2, <1>4, <1>6, <2>2
  <2> QED BY <2>1, <2>2
<1>10. Len(r) >= 1 /\ End(r[Len(r)]) = Pages
  <2>1. CASE last = m
    <3>1. Len(r) = f + n
      BY <1>2, <1>4, <2>1
    <3> QED BY <1>1, <1>2, <1>4, <1>6, <1>7, <2>1, <3>1
  <2>2. CASE last # m
    <3>1. m \in last + 1 .. m /\ f + n + m - last = Len(r) /\ Len(r) >= 1
      BY <1>1, <1>2, <1>4, <2>2
    <3> QED BY <1>4, <1>6, <3>1
  <2> QED BY <2>1, <2>2
<1>11. ASSUME NEW i \in 1 .. Len(r) - 1 PROVE r[i + 1].start_addr = End(r[i])
  <2>1. CASE i + 1 <= f
    <3>1. i \in 1 .. f /\ i + 1 \in 1 .. f /\ i \in 1 .. m - 1
      BY <1>2, <2>1
    <3>2. r[i] = s[i] /\ r[i + 1] = s[i + 1] /\ s[i + 1].start_addr = End(s[i])
      BY Zenon, <1>4, <1>6, <3>1
    <3> QED BY Zenon, <3>2
  <2>2. CASE i = f
    <3>0. i \in 1 .. f /\ 1 \in 1 .. n
      BY <1>2, <2>2
    <3>1. r[i] = s[i] /\ r[i + 1] = new[1]
      BY <1>4, <2>2, <3>0
    <3>2. s[i + 1].start_addr = End(s[i]) /\ i + 1 = first
      BY <1>2, <1>6, <2>2
    <3> QED BY <1>7, <3>1, <3>2
  <2>3. CASE f < i /\ i < f + n
    <3>0. i \in Int /\ f \in Int /\ n \in Int
      BY <1>2
    <3>1. i - f \in 1 .. n - 1 /\ f + (i - f) = i /\ f + ((i - f) + 1) = i + 1
      BY <2>3, <3>0
    <3>2. i - f \in 1 .. n /\ (i - f) + 1 \in 1 .. n
      BY <1>2, <3>1
    <3>3. r[i] = new[i - f] /\ r[i + 1] = new[(i - f) + 1]
      BY SMTT(30), <1>4, <3>1, <3>2
    <3> QED BY <1>7, <3>1, <3>3
  <2>4. CASE i = f + n
    <3>1. r[i] = new[n]
      BY <1>1, <1>2, <1>4, <2>4
    <3>2. last + 1 \in last + 1 .. m /\ f + n + (last + 1) - last = i + 1 /\ last \in 1 .. m - 1
      BY <1>2, <1>4, <2>4
    <3>3. r[i + 1] = s[last + 1]
      BY <1>4, <3>2
    <3> QED BY <1>6, <1>7, <3>1, <3>2, <3>3
  <2>5. CASE f + n < i
    <3> DEFINE j == i - f - n + last
    <3>1. /\ j \in last + 1 .. m /\ j + 1 \in last + 1 .. m /\ j \in 1 .. m - 1
          /\ f + n + j - last = i /\ f + n + (j + 1) - last = i + 1
      BY <1>2, <1>4, <2>5
    <3> HIDE DEF j
    <3>2. r[i] = s[j] /\ r[i + 1] = s[j + 1]
      BY SMTT(30), <1>4, <3>1
    <3> QED BY <1>6, <3>1, <3>2
  <2> QED BY <1>2, <1>4, <2>1, <2>2, <2>3, <2>4, <2>5
<1>12. ASSUME NEW i \in 1 .. Len(r), NEW j \in 1 .. Len(r), i < j
       PROVE  End(r[i]) =< r[j].start_addr
  <2> DEFINE p == i - f - n + last
             q == j - f - n + last
  <2>1. CASE i \in 1 .. f /\ r[i] = s[i]
    <3>1. i \in 1 .. m /\ i < first /\ End(s[i]) =< s[first].start_addr
      BY <1>2, <1>6, <2>1
    <3>2. CASE j \in 1 .. f /\ r[j] = s[j]
      BY <1>2, <1>6, <2>1, <3>2, i < j
    <3>3. CASE j - f \in 1 .. n /\ r[j] = new[j - f]
      <4>1. s[first].start_addr =< new[j - f].start_addr
        BY <1>8, <3>3
      <4>2. {End(s[i]), s[first].start_addr, new[j - f].start_addr} \subseteq Nat /\ first \in 1 .. m
        BY <1>2, <1>3, <3>1, <3>3
      <4>3. End(s[i]) =< new[j - f].start_addr
        BY SMTT(30), <3>1, <4>1, <4>2
      <4> QED BY <2>1, <3>3, <4>3
    <3>4. CASE q \in last + 1 .. m /\ r[j] = s[q]
      <4>1. i < q /\ q \in 1 .. m
        BY <1>2, <3>1, <3>4
      <4> QED BY <1>6, <2>1, <3>1, <3>4, <4>1
    <3> QED BY <1>5, <3>2, <3>3, <3>4
  <2>2. CASE i - f \in 1 .. n /\ r[i] = new[i - f]
    <3>1. ~(j \in 1 .. f)
      BY <1>2, <2>2, i < j
    <3>2. CASE j - f \in 1 .. n /\ r[j] = new[j - f]
      <4>1. i - f < j - f
        BY <1>2, i < j
      <4> QED BY <1>7, <2>2, <3>2, <4>1
    <3>3. CASE q \in last + 1 .. m /\ r[j] = s[q]
      <4>1. last \in 1 .. m /\ q \in 1 .. m /\ last < q
        BY <1>2, <3>3
      <4>2. End(new[i - f]) =< End(s[last]) /\ End(s[last]) =< s[q].start_addr
        BY <1>6, <1>8, <2>2, <4>1
      <4>3. {End(new[i - f]), End(s[last]), s[q].start_addr} \subseteq Nat
        BY SMTT(30), <1>3, <2>2, <4>1
      <4>4. End(new[i - f]) =< s[q].start_addr
        BY <4>2, <4>3
      <4> QED BY <2>2, <3>3, <4>4
    <3> QED BY <1>5, <3>1, <3>2, <3>3
  <2>3. CASE p \in last + 1 .. m /\ r[i] = s[p]
    <3>1. j > f + n
      BY <1>2, <2>3, i < j, SMTT(30)
    <3>2. ~(j \in 1 .. f) /\ ~(j - f \in 1 .. n)
      BY <1>2, <3>1
    <3>3. q \in last + 1 .. m /\ r[j] = s[q]
      BY <1>5, <3>2
    <3>4. p < q /\ p \in 1 .. m /\ q \in 1 .. m
      BY <1>2, <2>3, <3>3, i < j
    <3> QED BY SMTT(30), <1>6, <2>3, <3>3, <3>4
  <2> QED BY <1>5, <2>1, <2>2, <2>3
<1>13. ASSUME NEW x \in 0 .. Pages - 1
       PROVE  \E i \in 1 .. Len(r): r[i].start_addr =< x /\ x < End(r[i])
  <2>1. PICK i \in 1 .. m: s[i].start_addr =< x /\ x < End(s[i])
    BY <1>6
  <2>2. CASE i <= f
    <3>1. i \in 1 .. Len(r) /\ r[i] = s[i]
      BY <1>2, <1>4, <2>2
    <3> QED BY <2>1, <3>1
  <2>3. CASE i > last
    <3>1. /\ f + n + i - last \in 1 .. Len(r) /\ r[f + n + i - last] = s[i]
      BY <1>2, <1>4, <2>3
    <3> QED BY <2>1, <3>1
  <2>4. CASE first <= i /\ i <= last
    <3>0. /\ first \in 1 .. m /\ last \in 1 .. m /\ i \in Nat
          /\ s[first].start_addr \in Nat /\ s[i].start_addr \in Nat /\ s[last].start_addr \in Nat
          /\ End(s[first]) \in Nat /\ End(s[i]) \in Nat /\ End(s[last]) \in Nat
          /\ s[first].start_addr < End(s[first]) /\ s[last].start_addr < End(s[last])
      BY <1>2, <1>3
    <3>1. s[first].start_addr =< s[i].start_addr
      <4>1. CASE first = i
        BY <3>0, <4>1
      <4>2. CASE first < i
        <5>1. End(s[first]) =< s[i].start_addr
          BY <1>6, <3>0, <4>2
        <5> QED BY Zenon, <3>0, <5>1, Chain
      <4> QED BY <1>2, <2>4, <3>0, <4>1, <4>2
    <3>2. End(s[i]) =< End(s[last])
      <4>1. CASE i = last
        BY <3>0, <4>1
      <4>2. CASE i < last
        <5>1. End(s[i]) =< s[last].start_addr
          BY <1>6, <3>0, <4>2
        <5> QED BY <3>0, <5>1
      <4> QED BY <1>2, <2>4, <3>0, <4>1, <4>2
    <3>3. s[first].start_addr =< x /\ x < End(s[last])
      <4>1. x \in Nat
        BY PagesAssumption DEF PagesAssumption
      <4> QED BY Zenon, <2>1, <3>0, <3>1, <3>2, <4>1, Chain
    <3>4. PICK k \in 1 .. n: new[k].start_addr =< x /\ x < End(new[k])
      <4>1. x \in s[first].start_addr .. End(s[last]) - 1
        BY <3>0, <3>3, PagesAssumption DEF PagesAssumption
      <4> QED BY <1>7, <4>1
    <3>5. f + k \in 1 .. Len(r) /\ r[f + k] = new[k]
      <4>1. k \in Nat /\ 1 <= k /\ k <= n
        BY <1>2
      <4>2. f + k \in 1 .. Len(r)
        BY <1>2, <1>4, <4>1
      <4> QED BY <1>4, <4>2
    <3> QED BY <3>4, <3>5
  <2> QED BY <1>2, <2>2, <2>3, <2>4
<1> QED BY <1>9, <1>10, <1>11, <1>12, <1>13 DEF Tiling, InNode

\* Free nodes stay apart when the new ones are, from each other and from the
\* neighbours of their place.
LEMMA SpliceMerged ==
  ASSUME NEW r, NEW s, NEW new, Len(s) \in Nat, Len(new) \in Nat, Len(new) >= 1,
         NEW first \in 1 .. Len(s), NEW last \in first .. Len(s),
         Spliced(r, s, first, last, new), Merged(s), Merged(new),
         first > 1 => ~(s[first - 1].is_free /\ new[1].is_free),
         last < Len(s) => ~(new[Len(new)].is_free /\ s[last + 1].is_free)
  PROVE  Merged(r)
<1> DEFINE n == Len(new)
           m == Len(s)
           f == first - 1
<1>1. /\ m \in Nat /\ n \in Nat /\ first \in Nat /\ last \in Nat /\ f \in Nat
      /\ 1 <= first /\ first <= last /\ last <= m /\ f + 1 = first /\ 1 <= n
  OBVIOUS
<1>2. /\ Len(r) = f + n + m - last
      /\ \A i \in 1 .. f: r[i] = s[i]
      /\ \A i \in 1 .. n: r[f + i] = new[i]
      /\ \A i \in last + 1 .. m: r[f + n + i - last] = s[i]
  BY DEF Spliced
<1>3. /\ \A i \in 1 .. m - 1: ~(s[i].is_free /\ s[i + 1].is_free)
      /\ \A i \in 1 .. n - 1: ~(new[i].is_free /\ new[i + 1].is_free)
      /\ f >= 1 => ~(s[f].is_free /\ new[1].is_free)
      /\ last < m => ~(new[n].is_free /\ s[last + 1].is_free)
  BY DEF Merged
<1> HIDE DEF n, m, f
<1>4. ASSUME NEW i \in 1 .. Len(r) - 1 PROVE ~(r[i].is_free /\ r[i + 1].is_free)
  <2>0. i \in Int /\ f \in Int /\ n \in Int /\ m \in Int /\ last \in Int /\ 1 <= i /\ i + 1 <= Len(r)
    BY <1>1, <1>2
  <2>1. CASE i + 1 <= f
    <3>1. i \in 1 .. f /\ i + 1 \in 1 .. f /\ i \in 1 .. m - 1
      BY <1>1, <2>0, <2>1
    <3>2. r[i] = s[i] /\ r[i + 1] = s[i + 1] /\ ~(s[i].is_free /\ s[i + 1].is_free)
      BY Zenon, <1>2, <1>3, <3>1
    <3> QED BY Zenon, <3>2
  <2>2. CASE i = f
    <3>1. i \in 1 .. f /\ 1 \in 1 .. n /\ f >= 1
      BY <1>1, <2>0, <2>2
    <3>2. r[i] = s[f] /\ r[i + 1] = new[1]
      BY Zenon, <1>2, <2>2, <3>1
    <3> QED BY Zenon, <1>3, <3>1, <3>2
  <2>3. CASE f < i /\ i < f + n
    <3> DEFINE j == i - f
    <3>1. /\ j \in 1 .. n - 1 /\ j \in 1 .. n /\ j + 1 \in 1 .. n
          /\ f + j = i /\ f + (j + 1) = i + 1
      BY <2>0, <2>3
    <3> HIDE DEF j
    <3>2. r[i] = new[j] /\ r[i + 1] = new[j + 1]
      BY Zenon, <1>2, <3>1
    <3> QED BY Zenon, <1>3, <3>1, <3>2
  <2>4. CASE i = f + n
    <3>1. /\ n \in 1 .. n /\ last + 1 \in last + 1 .. m /\ f + n + (last + 1) - last = i + 1
          /\ last < m
      BY <1>1, <1>2, <2>0, <2>4
    <3>2. r[i] = new[n] /\ r[i + 1] = s[last + 1]
      BY Zenon, <1>2, <2>4, <3>1
    <3> QED BY Zenon, <1>3, <3>1, <3>2
  <2>5. CASE f + n < i
    <3> DEFINE j == i - f - n + last
    <3>1. /\ j \in last + 1 .. m /\ j + 1 \in last + 1 .. m /\ j \in 1 .. m - 1
          /\ f + n + j - last = i /\ f + n + (j + 1) - last = i + 1
      BY <1>1, <1>2, <2>0, <2>5
    <3> HIDE DEF j
    <3>2. r[i] = s[j] /\ r[i + 1] = s[j + 1]
      BY Zenon, <1>2, <3>1
    <3> QED BY Zenon, <1>3, <3>1, <3>2
  <2> QED BY <2>0, <2>1, <2>2, <2>3, <2>4, <2>5
<1> QED BY <1>4 DEF Merged

\* The regions of the reserved nodes of s before first and after last.
HeldOutside(s, first, last) ==
  {RegionOf(s[i]): i \in {j \in 1 .. Len(s): (j < first \/ last < j) /\ ~s[j].is_free}}

\* The regions held after a splice are those of the nodes beside it and of the
\* new ones.
LEMMA SpliceHeld ==
  ASSUME NEW r, NEW s, NEW new, Len(s) \in Nat, Len(new) \in Nat,
         NEW first \in 1 .. Len(s), NEW last \in first .. Len(s),
         Spliced(r, s, first, last, new)
  PROVE  Held(r) = Held(new) \cup HeldOutside(s, first, last)
<1> DEFINE n == Len(new)
           m == Len(s)
           f == first - 1
           Beside == {RegionOf(s[i]): i \in {j \in 1 .. m: (j < first \/ last < j) /\ ~s[j].is_free}}
<1>1. /\ m \in Nat /\ n \in Nat /\ first \in Nat /\ last \in Nat /\ f \in Nat
      /\ 1 <= first /\ first <= last /\ last <= m /\ f + 1 = first
  OBVIOUS
<1>2. /\ Len(r) = f + n + m - last
      /\ \A i \in 1 .. f: r[i] = s[i]
      /\ \A i \in 1 .. n: r[f + i] = new[i]
      /\ \A i \in last + 1 .. m: r[f + n + i - last] = s[i]
  BY DEF Spliced
<1>3. ASSUME NEW i \in 1 .. Len(r), ~r[i].is_free
      PROVE  RegionOf(r[i]) \in Held(new) \cup Beside
  <2>1. \/ i \in 1 .. f /\ r[i] = s[i]
        \/ \E j \in 1 .. n: r[i] = new[j]
        \/ \E j \in last + 1 .. m: r[i] = s[j]
    <3>1. Origin(r, s, first, last, new, i)
      BY Zenon, SplicePlaces
    <3> QED BY Zenon, <3>1 DEF Origin
  <2>2. CASE i \in 1 .. f /\ r[i] = s[i]
    <3>1. i \in 1 .. m /\ i < first
      BY <1>1, <2>2
    <3> QED BY Zenon, <1>3, <2>2, <3>1
  <2>3. CASE \E j \in 1 .. n: r[i] = new[j]
    BY Zenon, <1>3, <2>3 DEF Held
  <2>4. CASE \E j \in last + 1 .. m: r[i] = s[j]
    <3>1. PICK j \in last + 1 .. m: r[i] = s[j]
      BY <2>4
    <3>2. j \in 1 .. m /\ last < j
      BY <1>1, <3>1
    <3> QED BY Zenon, <1>3, <3>1, <3>2
  <2> QED BY Zenon, <2>1, <2>2, <2>3, <2>4
<1>4. ASSUME NEW i \in 1 .. n, ~new[i].is_free PROVE RegionOf(new[i]) \in Held(r)
  <2>1. i \in Nat /\ 1 <= i /\ i <= n
    BY <1>1
  <2> HIDE DEF n, m, f
  <2>2. f + i \in 1 .. Len(r)
    BY <1>1, <1>2, <2>1
  <2>3. r[f + i] = new[i]
    BY Zenon, <1>2
  <2> QED BY Zenon, <1>4, <2>2, <2>3 DEF Held
<1>5. ASSUME NEW i \in 1 .. m, i < first \/ last < i, ~s[i].is_free PROVE RegionOf(s[i]) \in Held(r)
  <2>1. CASE i < first
    <3>1. i \in 1 .. f /\ i \in 1 .. Len(r)
      BY <1>1, <1>2, <2>1
    <3>2. r[i] = s[i]
      BY Zenon, <1>2, <3>1
    <3> QED BY Zenon, <1>5, <3>1, <3>2 DEF Held
  <2>2. CASE last < i
    <3>1. i \in last + 1 .. m /\ f + n + i - last \in 1 .. Len(r)
      BY <1>1, <1>2, <2>2
    <3>2. r[f + n + i - last] = s[i]
      BY Zenon, <1>2, <3>1
    <3> QED BY Zenon, <1>5, <3>1, <3>2 DEF Held
  <2> QED BY Zenon, <1>5, <2>1, <2>2
<1>6. Held(r) \subseteq Held(new) \cup Beside
  BY Zenon, <1>3 DEF Held
<1>7. Held(new) \subseteq Held(r)
  BY Zenon, <1>4 DEF Held
<1>8. Beside \subseteq Held(r)
  BY Zenon, <1>5
<1> QED BY Zenon, <1>6, <1>7, <1>8 DEF HeldOutside

\* A node alone tiles its own place, and holds its region when it is reserved.
LEMMA OnePiece ==
  ASSUME PagesAssumption, NEW t \in Nodes
  PROVE  /\ <<t>> \in Seq(Nodes) /\ Len(<<t>>) = 1 /\ <<t>>[1] = t
         /\ Tiling(<<t>>, t.start_addr, End(t)) /\ Merged(<<t>>)
         /\ t.is_free => Held(<<t>>) = {}
         /\ ~t.is_free => Held(<<t>>) = {RegionOf(t)}
<1>1. <<t>> \in Seq(Nodes) /\ Len(<<t>>) = 1 /\ <<t>>[1] = t
  OBVIOUS
<1>2. \A i \in 1 .. Len(<<t>>): i = 1
  BY <1>1
<1>3. Len(<<t>>) >= 1 /\ 1 \in 1 .. Len(<<t>>) /\ 1 .. Len(<<t>>) - 1 = {} /\ ~(1 < 1)
  BY <1>1
<1>4. \A x \in t.start_addr .. End(t) - 1: InNode(t, x)
  BY DEF InNode, End, Nodes, PagesAssumption
<1>5. Tiling(<<t>>, t.start_addr, End(t))
  BY Zenon, <1>1, <1>2, <1>3, <1>4 DEF Tiling
<1>6. Merged(<<t>>)
  BY Zenon, <1>3 DEF Merged
<1>7. t.is_free => Held(<<t>>) = {}
  BY Zenon, <1>1, <1>2 DEF Held
<1>8. ~t.is_free => Held(<<t>>) = {RegionOf(t)}
  BY Zenon, <1>1, <1>2, <1>3 DEF Held
<1> QED BY Zenon, <1>1, <1>5, <1>6, <1>7, <1>8

\* A free and a reserved node, in either order, tile what they cover and hold
\* the region of the reserved one.
LEMMA TwoPieces ==
  ASSUME PagesAssumption, NEW t \in Nodes, NEW u \in Nodes, u.start_addr = End(t),
         t.is_free # u.is_free
  PROVE  /\ <<t, u>> \in Seq(Nodes)
         /\ Tiling(<<t, u>>, t.start_addr, End(u)) /\ Merged(<<t, u>>)
         /\ Held(<<t, u>>) = {RegionOf(IF t.is_free THEN u ELSE t)}
<1>1. <<t, u>> \in Seq(Nodes) /\ Len(<<t, u>>) = 2 /\ <<t, u>>[1] = t /\ <<t, u>>[2] = u
  OBVIOUS
<1> DEFINE s == <<t, u>>
<1>2. s \in Seq(Nodes) /\ Len(s) = 2 /\ s[1] = t /\ s[2] = u
  BY <1>1
<1>3. /\ t.start_addr \in Nat /\ End(t) \in Nat /\ u.start_addr \in Nat /\ End(u) \in Nat
      /\ t.is_free \in BOOLEAN /\ u.is_free \in BOOLEAN
      /\ End(t) =< u.start_addr
  BY DEF Nodes, End, PagesAssumption
<1> HIDE DEF s
<1>4. /\ \A i \in 1 .. Len(s): i = 1 \/ i = 2
      /\ \A i \in 1 .. Len(s) - 1: i = 1 /\ i + 1 = 2
      /\ Len(s) >= 1 /\ 1 \in 1 .. Len(s) /\ 2 \in 1 .. Len(s)
      /\ ~(1 < 1) /\ ~(2 < 1) /\ ~(2 < 2)
  BY <1>2
<1>5. \A x \in t.start_addr .. End(u) - 1: InNode(s[1], x) \/ InNode(s[2], x)
  BY <1>2, <1>3 DEF InNode
<1>6. \A i, j \in 1 .. Len(s): i < j => End(s[i]) =< s[j].start_addr
  BY Zenon, <1>2, <1>3, <1>4
<1>7. Tiling(s, t.start_addr, End(u))
  BY Zenon, <1>2, <1>4, <1>5, <1>6 DEF Tiling
<1>8. Merged(s)
  BY Zenon, <1>2, <1>3, <1>4 DEF Merged
<1>9. Held(s) = {RegionOf(IF t.is_free THEN u ELSE t)}
  <2>1. CASE t.is_free
    BY Zenon, <1>2, <1>3, <1>4, <2>1 DEF Held
  <2>2. CASE ~t.is_free
    BY Zenon, <1>2, <1>3, <1>4, <2>2 DEF Held
  <2> QED BY Zenon, <2>1, <2>2
<1> QED BY Zenon, <1>1, <1>7, <1>8, <1>9 DEF s

\* So do a reserved node and the free ones on both sides of it.
LEMMA ThreePieces ==
  ASSUME PagesAssumption, NEW t \in Nodes, NEW u \in Nodes, NEW v \in Nodes,
         u.start_addr = End(t), v.start_addr = End(u), t.is_free, ~u.is_free, v.is_free
  PROVE  /\ <<t, u, v>> \in Seq(Nodes)
         /\ Tiling(<<t, u, v>>, t.start_addr, End(v)) /\ Merged(<<t, u, v>>)
         /\ Held(<<t, u, v>>) = {RegionOf(u)}
<1> DEFINE s == <<t, u, v>>
<1>2. s \in Seq(Nodes) /\ Len(s) = 3 /\ s[1] = t /\ s[2] = u /\ s[3] = v
  OBVIOUS
<1>3. /\ t.start_addr \in Nat /\ End(t) \in Nat /\ u.start_addr \in Nat /\ End(u) \in Nat
      /\ v.start_addr \in Nat /\ End(v) \in Nat
      /\ End(t) =< u.start_addr /\ End(u) =< v.start_addr /\ End(t) =< v.start_addr
  BY DEF Nodes, End, PagesAssumption
<1>a. s = <<t, u, v>>
  OBVIOUS
<1> HIDE DEF s
<1>4. /\ \A i \in 1 .. Len(s): i = 1 \/ i = 2 \/ i = 3
      /\ \A i \in 1 .. Len(s) - 1: (i = 1 /\ i + 1 = 2) \/ (i = 2 /\ i + 1 = 3)
      /\ Len(s) >= 1 /\ 1 \in 1 .. Len(s) /\ 2 \in 1 .. Len(s) /\ 3 \in 1 .. Len(s)
      /\ ~(1 < 1) /\ ~(2 < 1) /\ ~(2 < 2) /\ ~(3 < 1) /\ ~(3 < 2) /\ ~(3 < 3)
  BY <1>2
<1>5. \A x \in t.start_addr .. End(v) - 1: InNode(s[1], x) \/ InNode(s[2], x) \/ InNode(s[3], x)
  BY <1>2, <1>3 DEF InNode
<1>6. \A i, j \in 1 .. Len(s): i < j => End(s[i]) =< s[j].start_addr
  BY Zenon, <1>2, <1>3, <1>4
<1>7. Tiling(s, t.start_addr, End(v))
  BY Zenon, <1>2, <1>4, <1>5, <1>6 DEF Tiling
<1>8. Merged(s)
  BY Zenon, <1>2, <1>4 DEF Merged
<1>9. Held(s) = {RegionOf(u)}
  BY Zenon, <1>2, <1>4 DEF Held
<1> QED BY Zenon, <1>2, <1>7, <1>8, <1>9, <1>a

\* The nodes of a list that tiles the space end inside it, and no two overlap.
LEMMA Apart ==
  ASSUME PagesAssumption, NEW s, Tiling(s, 0, Pages), NEW i \in 1 .. Len(s)
  PROVE  /\ End(s[i]) =< Pages
         /\ \A j \in 1 .. Len(s): j # i =>
              End(s[i]) =< s[j].start_addr \/ End(s[j]) =< s[i].start_addr
<1>1. /\ s \in Seq(Nodes) /\ Len(s) >= 1 /\ End(s[Len(s)]) = Pages
      /\ \A j, k \in 1 .. Len(s): j < k => End(s[j]) =< s[k].start_addr
  BY Zenon DEF Tiling
<1>2. /\ Len(s) \in Nat /\ Len(s) \in 1 .. Len(s)
      /\ \A j \in 1 .. Len(s): End(s[j]) \in Nat /\ s[j].start_addr \in Nat
                               /\ s[j].start_addr < End(s[j])
  BY <1>1, NodeFields
<1>3. End(s[i]) =< Pages
  <2>1. CASE i = Len(s)
    BY <1>1, <1>2, <2>1
  <2>2. CASE i < Len(s)
    <3>1. End(s[i]) =< s[Len(s)].start_addr
      BY Zenon, <1>1, <1>2, <2>2
    <3>2. s[Len(s)].start_addr < Pages /\ s[Len(s)].start_addr \in Nat /\ End(s[i]) \in Nat
      BY Zenon, <1>1, <1>2
    <3> QED BY <3>1, <3>2 DEF PagesAssumption
  <2> QED BY <1>2, <2>1, <2>2
<1>4. \A j \in 1 .. Len(s): j # i => i < j \/ j < i
  BY <1>2
<1> QED BY Zenon, <1>1, <1>3, <1>4

\* A node of a list that tiles the space is found by the page it starts at.
LEMMA StartsOnce ==
  ASSUME PagesAssumption, NEW s, Tiling(s, 0, Pages), NEW i \in 1 .. Len(s),
         NEW j \in 1 .. Len(s), s[i].start_addr = s[j].start_addr
  PROVE  i = j
<1>1. /\ s[i].start_addr \in Nat /\ s[i].start_addr < End(s[i]) /\ End(s[i]) \in Nat
      /\ s[j].start_addr < End(s[j]) /\ End(s[j]) \in Nat
  BY NodeFields DEF Tiling
<1>2. j # i => End(s[i]) =< s[j].start_addr \/ End(s[j]) =< s[i].start_addr
  BY Zenon, Apart
<1> QED BY <1>1, <1>2
=============================================================================

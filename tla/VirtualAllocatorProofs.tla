------------------------ MODULE VirtualAllocatorProofs ------------------------
(***************************************************************************)
(* The calls of virtual_allocator.c keep their list sound for an address   *)
(* space of any size, find every gap, and implement Regions.               *)
(***************************************************************************)
EXTENDS VirtualAllocatorLemmas

\* The inductive invariant.  That neighbours are never both free is what makes
\* a gap lie in one node; that the nodes tile the space is what makes a release
\* find its node and the merged node cover its neighbours.
IInv ==
  /\ Tiling(list, 0, Pages) /\ Merged(list)
  /\ live = Held(list)
  /\ halted \in BOOLEAN

\* Taking the region of t out of the free node i keeps the invariant, and is a
\* call that Regions allows.
LEMMA TakeRegion ==
  ASSUME PagesAssumption, IInv, NEW i \in 1 .. Len(list), list[i].is_free,
         NEW new, Tiling(new, list[i].start_addr, End(list[i])), Merged(new),
         NEW t \in Nodes, list[i].start_addr =< t.start_addr, End(t) =< End(list[i]),
         Held(new) = {RegionOf(t)},
         list' = Splice(i, i, new), live' = live \cup {RegionOf(t)}, halted' = halted
  PROVE  IInv' /\ Promise!Call
<1>1. /\ list \in Seq(Nodes) /\ new \in Seq(Nodes) /\ Len(list) \in Nat /\ Len(new) \in Nat
      /\ Len(new) >= 1 /\ i \in i .. Len(list) /\ Tiling(list, 0, Pages) /\ Merged(list)
      /\ live = Held(list) /\ halted \in BOOLEAN
  BY NodeFields DEF IInv, Tiling
<1>2. list' \in Seq(Nodes) /\ Spliced(list', list, i, i, new)
  BY Zenon, <1>1, SpliceAt
<1>3. Tiling(list', 0, Pages)
  BY Zenon, <1>1, <1>2, SpliceTiles
<1>4. Merged(list')
  <2>1. i > 1 => ~list[i - 1].is_free
    <3> SUFFICES ASSUME i > 1 PROVE ~list[i - 1].is_free
      OBVIOUS
    <3>1. i - 1 \in 1 .. Len(list) - 1 /\ i - 1 + 1 = i
      BY <1>1
    <3> QED BY <1>1, <3>1 DEF Merged
  <2>2. i < Len(list) => ~list[i + 1].is_free
    <3> SUFFICES ASSUME i < Len(list) PROVE ~list[i + 1].is_free
      OBVIOUS
    <3>1. i \in 1 .. Len(list) - 1
      BY <1>1
    <3> QED BY Zenon, <1>1, <3>1 DEF Merged
  <2> QED BY Zenon, <1>1, <1>2, <2>1, <2>2, SpliceMerged
<1>5. \A j \in 1 .. Len(list): (j < i \/ i < j) /\ ~list[j].is_free <=> ~list[j].is_free
  BY <1>1
<1>6. Held(list') = Held(new) \cup HeldOutside(list, i, i)
  BY <1>1, <1>2, SpliceHeld
<1>7. HeldOutside(list, i, i) = Held(list)
  BY Zenon, <1>5 DEF Held, HeldOutside
<1>8. IInv'
  BY Zenon, <1>1, <1>3, <1>4, <1>6, <1>7 DEF IInv
<1>9. /\ list[i].start_addr \in Nat /\ End(list[i]) \in Nat /\ End(list[i]) =< Pages
      /\ RegionOf(t).start = t.start_addr /\ RegionOf(t).size = t.size_pages
      /\ t.start_addr \in 0 .. Pages /\ t.size_pages \in 1 .. Pages
      /\ t.start_addr \in Nat /\ t.size_pages \in Nat /\ Pages \in Nat
      /\ End(t) = t.start_addr + t.size_pages /\ RegionOf(t) \in Promise!Region
  <2>1. list[i].start_addr \in Nat /\ End(list[i]) \in Nat
    BY Zenon, <1>1, NodeFields
  <2>2. End(list[i]) =< Pages
    BY Zenon, <1>1, Apart
  <2>3. t.start_addr \in 0 .. Pages /\ t.size_pages \in 1 .. Pages
    BY DEF Nodes
  <2> QED BY <2>1, <2>2, <2>3 DEF RegionOf, End, Promise!Region, PagesAssumption
<1>10. ASSUME NEW r \in live PROVE Promise!Disjoint(RegionOf(t), r)
  <2>1. PICK j \in 1 .. Len(list): ~list[j].is_free /\ r = RegionOf(list[j])
    BY Zenon, <1>1 DEF Held
  <2>2. End(list[i]) =< list[j].start_addr \/ End(list[j]) =< list[i].start_addr
    BY Zenon, <1>1, <2>1, Apart
  <2>3. /\ list[j].start_addr \in Nat /\ list[j].size_pages \in Nat
        /\ End(list[j]) = list[j].start_addr + list[j].size_pages
    BY Zenon, <1>1, NodeFields
  <2>4. r.start = list[j].start_addr /\ r.size = list[j].size_pages
    BY <2>1 DEF RegionOf
  <2> QED BY SMTT(30), <1>9, <2>2, <2>3, <2>4 DEF Promise!Disjoint
<1>11. Promise!Grantable(RegionOf(t), live)
  BY <1>9, <1>10 DEF Promise!Grantable
<1>12. Promise!AtMostOne(live' \ live) /\ Promise!AtMostOne(live \ live')
  BY Zenon DEF Promise!AtMostOne
<1>13. \A r \in live' \ live: Promise!Grantable(r, live)
  BY Zenon, <1>11
<1> QED BY Zenon, <1>8, <1>12, <1>13 DEF Promise!Call

\* The numbers of a node of the list.
LEMMA NodeAt ==
  ASSUME PagesAssumption, IInv, NEW i \in DOMAIN list
  PROVE  /\ i \in 1 .. Len(list) /\ list[i] \in Nodes
         /\ list[i].start_addr \in Nat /\ list[i].size_pages \in Nat /\ list[i].size_pages >= 1
         /\ End(list[i]) = list[i].start_addr + list[i].size_pages /\ End(list[i]) =< Pages
<1>1. list \in Seq(Nodes) /\ Tiling(list, 0, Pages)
  BY Zenon DEF IInv, Tiling
<1>2. i \in 1 .. Len(list)
  BY <1>1
<1>3. End(list[i]) =< Pages
  BY Zenon, <1>1, <1>2, Apart
<1> QED BY Zenon, <1>1, <1>2, <1>3, NodeFields

\* What Node builds, for a region inside the space: a free node,
LEMMA FreeNode ==
  ASSUME PagesAssumption, NEW start \in Nat, NEW size \in Nat, size >= 1, start + size =< Pages
  PROVE  /\ Node(TRUE, start, size) \in Nodes /\ Node(TRUE, start, size).is_free
         /\ Node(TRUE, start, size).start_addr = start
         /\ End(Node(TRUE, start, size)) = start + size
<1>1. start \in 0 .. Pages /\ size \in 1 .. Pages
  BY DEF PagesAssumption
<1> QED BY <1>1 DEF Node, Nodes, End

\* or a reserved one.
LEMMA ReservedNode ==
  ASSUME PagesAssumption, NEW start \in Nat, NEW size \in Nat, size >= 1, start + size =< Pages
  PROVE  /\ Node(FALSE, start, size) \in Nodes /\ ~Node(FALSE, start, size).is_free
         /\ Node(FALSE, start, size).start_addr = start
         /\ End(Node(FALSE, start, size)) = start + size
         /\ RegionOf(Node(FALSE, start, size)) = [start |-> start, size |-> size]
<1>1. start \in 0 .. Pages /\ size \in 1 .. Pages
  BY DEF PagesAssumption
<1> QED BY <1>1 DEF Node, Nodes, End, RegionOf

\* Sequences of one element, put together.
LEMMA Joined ==
  ASSUME NEW S, NEW x \in S, NEW y \in S, NEW z \in S
  PROVE  /\ <<x>> \o <<y>> \o <<>> = <<x, y>> /\ <<>> \o <<x>> \o <<y>> = <<x, y>>
         /\ <<x>> \o <<y>> \o <<z>> = <<x, y, z>>
<1>1. /\ <<x>> \in Seq(S) /\ <<y>> \in Seq(S) /\ <<z>> \in Seq(S)
      /\ <<x, y>> \in Seq(S) /\ <<x, y, z>> \in Seq(S)
  OBVIOUS
<1>2. <<x>> \o <<y>> = <<x, y>>
  <2>1. <<x>> \o <<y>> \in Seq(S) /\ Len(<<x>> \o <<y>>) = 2 /\ Len(<<x, y>>) = 2
    OBVIOUS
  <2>2. ASSUME NEW i \in 1 .. 2 PROVE (<<x>> \o <<y>>)[i] = <<x, y>>[i]
    <3>1. i = 1 \/ i = 2
      OBVIOUS
    <3> QED BY <3>1
  <2> QED BY Zenon, <1>1, <2>1, <2>2, SeqEqual
<1>3. <<x, y>> \o <<z>> = <<x, y, z>>
  <2>1. <<x, y>> \o <<z>> \in Seq(S) /\ Len(<<x, y>> \o <<z>>) = 3 /\ Len(<<x, y, z>>) = 3
    OBVIOUS
  <2>2. ASSUME NEW i \in 1 .. 3 PROVE (<<x, y>> \o <<z>>)[i] = <<x, y, z>>[i]
    <3>1. i = 1 \/ i = 2 \/ i = 3
      OBVIOUS
    <3> QED BY <3>1
  <2> QED BY Zenon, <1>1, <2>1, <2>2, SeqEqual
<1>4. <<x, y>> \o <<>> = <<x, y>> /\ <<>> \o <<x>> = <<x>>
  BY <1>1, ConcatEmptySeq, Zenon
<1> QED BY Zenon, <1>2, <1>3, <1>4

\* valloc_alloc keeps the invariant and hands out a region that is free.
LEMMA AllocStep ==
  ASSUME PagesAssumption, IInv, NEW size \in 1 .. Pages, NEW i \in DOMAIN list,
         Fits(i, size), AllocAt(i, size)
  PROVE  IInv' /\ Promise!Call
<1> DEFINE start == list[i].start_addr
           whole == list[i].size_pages
           taken == Node(FALSE, start, size)
           rest == Node(TRUE, start + size, whole - size)
<1>1. /\ i \in 1 .. Len(list) /\ list[i].is_free /\ start \in Nat /\ whole \in Nat
      /\ End(list[i]) = start + whole /\ start + whole =< Pages
      /\ size \in Nat /\ size >= 1 /\ size =< whole /\ Pages \in Nat
  BY NodeAt DEF Fits, PagesAssumption
<1>2. /\ list' = Splice(i, i, IF size = whole THEN <<taken>> ELSE <<taken, rest>>)
      /\ live' = live \cup {[start |-> start, size |-> size]} /\ halted' = halted
  BY Zenon DEF AllocAt
<1> HIDE DEF start, whole, taken, rest
<1>3. start + size =< Pages
  BY <1>1
<1>4. /\ taken \in Nodes /\ ~taken.is_free /\ taken.start_addr = start
      /\ End(taken) = start + size /\ RegionOf(taken) = [start |-> start, size |-> size]
  BY Zenon, <1>1, <1>3, ReservedNode DEF taken
<1>5. list[i].start_addr = start /\ start =< start /\ start + size =< start + whole
  BY <1>1 DEF start
<1>6. CASE size = whole
  <2>1. list' = Splice(i, i, <<taken>>)
    BY Zenon, <1>2, <1>6
  <2>2. Tiling(<<taken>>, start, start + whole) /\ Merged(<<taken>>) /\ Held(<<taken>>) = {RegionOf(taken)}
    BY Zenon, <1>4, <1>6, OnePiece
  <2> QED BY Zenon, <1>1, <1>2, <1>4, <1>5, <2>1, <2>2, TakeRegion
<1>7. CASE size # whole
  <2>1. list' = Splice(i, i, <<taken, rest>>)
    BY Zenon, <1>2, <1>7
  <2>2. /\ start + size \in Nat /\ whole - size \in Nat /\ whole - size >= 1
        /\ start + size + (whole - size) = start + whole
    BY <1>1, <1>7
  <2>3. /\ rest \in Nodes /\ rest.is_free /\ rest.start_addr = start + size
        /\ End(rest) = start + whole
    BY Zenon, <1>1, <2>2, FreeNode DEF rest
  <2>4. /\ Tiling(<<taken, rest>>, start, start + whole) /\ Merged(<<taken, rest>>)
        /\ Held(<<taken, rest>>) = {RegionOf(taken)}
    BY Zenon, <1>4, <2>3, TwoPieces
  <2> QED BY Zenon, <1>1, <1>2, <1>4, <1>5, <2>1, <2>4, TakeRegion
<1> QED BY Zenon, <1>6, <1>7

\* valloc_reserve keeps the invariant and hands out a region that is free.
LEMMA ReserveStep ==
  ASSUME PagesAssumption, IInv, NEW size \in 1 .. Pages, NEW vaddr \in 0 .. Pages, NEW i \in DOMAIN list,
         InNode(list[i], vaddr), ~ReserveRefused(i, vaddr, size), ReserveIn(i, vaddr, size)
  PROVE  IInv' /\ Promise!Call
<1> DEFINE start == list[i].start_addr
           end == End(list[i])
           before == Node(TRUE, start, vaddr - start)
           taken == Node(FALSE, vaddr, size)
           after == Node(TRUE, vaddr + size, end - (vaddr + size))
           head == IF vaddr > start THEN <<before>> ELSE <<>>
           tail == IF vaddr + size < end THEN <<after>> ELSE <<>>
<1>1. /\ i \in 1 .. Len(list) /\ list[i].is_free /\ start \in Nat /\ end \in Nat /\ end =< Pages
      /\ vaddr \in Nat /\ start =< vaddr /\ vaddr + size =< end
      /\ size \in Nat /\ size >= 1 /\ Pages \in Nat
  BY NodeAt DEF ReserveRefused, InNode, PagesAssumption
<1>2. /\ list' = Splice(i, i, head \o <<taken>> \o tail)
      /\ live' = live \cup {[start |-> vaddr, size |-> size]} /\ halted' = halted
  BY Zenon DEF ReserveIn
<1>3. list[i].start_addr = start /\ End(list[i]) = end
  OBVIOUS
<1> HIDE DEF start, end, before, taken, after
<1>4. vaddr + size =< Pages /\ vaddr + size \in Nat
  BY <1>1
<1>5. /\ taken \in Nodes /\ ~taken.is_free /\ taken.start_addr = vaddr
      /\ End(taken) = vaddr + size /\ RegionOf(taken) = [start |-> vaddr, size |-> size]
  BY Zenon, <1>1, <1>4, ReservedNode DEF taken
<1>6. vaddr > start => /\ before \in Nodes /\ before.is_free
                       /\ before.start_addr = start /\ End(before) = vaddr
  <2> SUFFICES ASSUME vaddr > start
               PROVE  /\ before \in Nodes /\ before.is_free
                      /\ before.start_addr = start /\ End(before) = vaddr
    OBVIOUS
  <2>1. vaddr - start \in Nat /\ vaddr - start >= 1 /\ start + (vaddr - start) = vaddr /\ vaddr =< Pages
    BY <1>1
  <2> QED BY Zenon, <1>1, <2>1, FreeNode DEF before
<1>7. vaddr + size < end => /\ after \in Nodes /\ after.is_free
                            /\ after.start_addr = vaddr + size /\ End(after) = end
  <2> SUFFICES ASSUME vaddr + size < end
               PROVE  /\ after \in Nodes /\ after.is_free
                      /\ after.start_addr = vaddr + size /\ End(after) = end
    OBVIOUS
  <2>1. /\ end - (vaddr + size) \in Nat /\ end - (vaddr + size) >= 1
        /\ vaddr + size + (end - (vaddr + size)) = end
    BY <1>1, <1>4
  <2> QED BY Zenon, <1>1, <1>4, <2>1, FreeNode DEF after
<1> DEFINE Fine(new) == /\ Tiling(new, start, end) /\ Merged(new) /\ Held(new) = {RegionOf(taken)}
<1>8. Fine(head \o <<taken>> \o tail)
  <2>1. CASE ~(vaddr > start) /\ ~(vaddr + size < end)
    <3>1. head \o <<taken>> \o tail = <<taken>>
      BY <1>5, <2>1
    <3>2. vaddr = start /\ vaddr + size = end
      BY <1>1, <2>1
    <3>3. Fine(<<taken>>)
      BY Zenon, <1>5, <3>2, OnePiece
    <3> QED BY Zenon, <3>1, <3>3
  <2>2. CASE vaddr > start /\ ~(vaddr + size < end)
    <3>1. head \o <<taken>> \o tail = <<before, taken>>
      BY <1>5, <1>6, <2>2, Joined
    <3>2. vaddr + size = end
      BY <1>1, <2>2
    <3>3. Fine(<<before, taken>>)
      BY Zenon, <1>5, <1>6, <2>2, <3>2, TwoPieces
    <3> QED BY Zenon, <3>1, <3>3
  <2>3. CASE ~(vaddr > start) /\ vaddr + size < end
    <3>1. head \o <<taken>> \o tail = <<taken, after>>
      BY <1>5, <1>7, <2>3, Joined
    <3>2. vaddr = start
      BY <1>1, <2>3
    <3>3. Fine(<<taken, after>>)
      BY Zenon, <1>5, <1>7, <2>3, <3>2, TwoPieces
    <3> QED BY Zenon, <3>1, <3>3
  <2>4. CASE vaddr > start /\ vaddr + size < end
    <3>1. head \o <<taken>> \o tail = <<before, taken, after>>
      BY <1>5, <1>6, <1>7, <2>4, Joined
    <3>2. Fine(<<before, taken, after>>)
      BY Zenon, <1>5, <1>6, <1>7, <2>4, ThreePieces
    <3> QED BY Zenon, <3>1, <3>2
  <2> QED BY Zenon, <2>1, <2>2, <2>3, <2>4
<1> HIDE DEF head, tail
<1> QED BY Zenon, <1>1, <1>2, <1>3, <1>5, <1>8, TakeRegion

\* Releasing the reserved node i: first and last are the ends of the run of
\* nodes that become one.
LEMMA ReleaseNode ==
  ASSUME PagesAssumption, IInv, NEW i \in 1 .. Len(list), ~list[i].is_free,
         NEW first \in 1 .. i, NEW last \in i .. Len(list),
         first = IF i > 1 /\ list[i - 1].is_free THEN i - 1 ELSE i,
         last = IF i < Len(list) /\ list[i + 1].is_free THEN i + 1 ELSE i,
         list' = Splice(first, last,
                        <<Node(TRUE, list[first].start_addr, End(list[last]) - list[first].start_addr)>>)
  PROVE  /\ Tiling(list', 0, Pages) /\ Merged(list')
         /\ Held(list') = Held(list) \ {RegionOf(list[i])}
<1> DEFINE start == list[first].start_addr
           end == End(list[last])
           node == Node(TRUE, start, end - start)
<1>1. /\ list \in Seq(Nodes) /\ Len(list) \in Nat /\ Tiling(list, 0, Pages) /\ Merged(list)
      /\ \A j, k \in 1 .. Len(list): j < k => End(list[j]) =< list[k].start_addr
  BY NodeFields, Zenon DEF IInv, Tiling
<1>2. /\ first \in 1 .. Len(list) /\ last \in 1 .. Len(list) /\ last \in first .. Len(list)
      /\ i \in Nat /\ first \in Nat /\ last \in Nat /\ first =< i /\ i =< last
      /\ first = last \/ first < last
  BY <1>1
<1>3. start \in Nat /\ end \in Nat /\ start < end /\ end =< Pages
  <2>1. /\ start \in Nat /\ End(list[first]) \in Nat /\ start < End(list[first])
        /\ end \in Nat /\ list[last].start_addr \in Nat /\ list[last].start_addr < end
    BY Zenon, <1>1, <1>2, NodeFields
  <2>2. end =< Pages
    BY Zenon, <1>1, <1>2, Apart
  <2>3. first < last => End(list[first]) =< list[last].start_addr
    BY Zenon, <1>1, <1>2
  <2>4. first = last => start < end
    BY Zenon, <2>1
  <2> HIDE DEF start, end
  <2> QED BY SMTT(30), <1>2, <2>1, <2>2, <2>3, <2>4
<1>4. list' = Splice(first, last, <<node>>)
  OBVIOUS
<1>5. /\ node \in Nodes /\ node.is_free /\ node.start_addr = start /\ End(node) = end
  <2> HIDE DEF start, end
  <2>1. end - start \in Nat /\ end - start >= 1 /\ start + (end - start) = end
    BY <1>3
  <2> QED BY Zenon, <1>3, <2>1, FreeNode
<1>a. list[first].start_addr = start /\ End(list[last]) = end
  OBVIOUS
<1> HIDE DEF start, end, node
<1> DEFINE new == <<node>>
<1>6. /\ new \in Seq(Nodes) /\ Len(new) = 1 /\ new[1] = node
      /\ Tiling(new, start, end) /\ Merged(new) /\ Held(new) = {}
      /\ list' = Splice(first, last, new)
  BY Zenon, <1>4, <1>5, OnePiece
<1> HIDE DEF new
<1>7. list' \in Seq(Nodes) /\ Spliced(list', list, first, last, new)
  <2>1. /\ Splice(first, last, new) \in Seq(Nodes)
        /\ Spliced(Splice(first, last, new), list, first, last, new)
    BY SMTT(30), <1>1, <1>2, <1>6, SpliceAt
  <2> QED BY Zenon, <1>6, <2>1
<1>8. Tiling(list', 0, Pages)
  BY Zenon, <1>1, <1>2, <1>6, <1>7, <1>a, SpliceTiles
<1>9. Merged(list')
  <2>1. first > 1 => ~list[first - 1].is_free
    <3> SUFFICES ASSUME first > 1 PROVE ~list[first - 1].is_free
      OBVIOUS
    <3>1. CASE i > 1 /\ list[i - 1].is_free
      <4>1. first = i - 1
        BY <3>1
      <4>2. first - 1 \in 1 .. Len(list) - 1 /\ first - 1 + 1 = first /\ list[first].is_free
        BY <1>1, <1>2, <3>1, <4>1
      <4> QED BY <1>1, <4>2 DEF Merged
    <3>2. CASE ~(i > 1 /\ list[i - 1].is_free)
      BY <3>2
    <3> QED BY Zenon, <3>1, <3>2
  <2>2. last < Len(list) => ~list[last + 1].is_free
    <3> SUFFICES ASSUME last < Len(list) PROVE ~list[last + 1].is_free
      OBVIOUS
    <3>1. CASE i < Len(list) /\ list[i + 1].is_free
      <4>1. last = i + 1
        BY <3>1
      <4>2. last \in 1 .. Len(list) - 1 /\ list[last].is_free
        BY <1>1, <1>2, <3>1, <4>1
      <4> QED BY Zenon, <1>1, <4>2 DEF Merged
    <3>2. CASE ~(i < Len(list) /\ list[i + 1].is_free)
      BY <3>2
    <3> QED BY Zenon, <3>1, <3>2
  <2>3. Len(new) \in Nat /\ Len(new) >= 1
    BY <1>6
  <2> QED BY ZenonT(30), <1>1, <1>2, <1>6, <1>7, <2>1, <2>2, <2>3, SpliceMerged
<1>10. Held(list') = HeldOutside(list, first, last)
  <2>1. Len(new) \in Nat
    BY <1>6
  <2>a. /\ Len(list) \in Nat /\ first \in 1 .. Len(list) /\ last \in first .. Len(list)
        /\ Spliced(list', list, first, last, new)
    BY Zenon, <1>1, <1>2, <1>7
  <2>2. Held(list') = Held(new) \cup HeldOutside(list, first, last)
    BY SMTT(30), <2>1, <2>a, SpliceHeld
  <2> QED BY Zenon, <1>6, <2>2
<1>11. \A j \in 1 .. Len(list): ~list[j].is_free /\ j # i => j < first \/ last < j
  <2>1. \A j \in 1 .. Len(list): ~(j < first \/ last < j) => j = i \/ j = i - 1 \/ j = i + 1
    BY <1>2
  <2>2. i - 1 \in 1 .. Len(list) /\ ~(i - 1 < first) => list[i - 1].is_free
    BY <1>2
  <2>3. i + 1 \in 1 .. Len(list) /\ ~(last < i + 1) => list[i + 1].is_free
    BY <1>2
  <2> QED BY Zenon, <2>1, <2>2, <2>3
<1>12. \A j \in 1 .. Len(list): j < first \/ last < j => j # i
  BY <1>2
<1>13. \A j \in 1 .. Len(list): RegionOf(list[j]) = RegionOf(list[i]) => j = i
  <2> SUFFICES ASSUME NEW j \in 1 .. Len(list), RegionOf(list[j]) = RegionOf(list[i])
               PROVE  j = i
    OBVIOUS
  <2>1. list[j].start_addr = list[i].start_addr
    BY DEF RegionOf
  <2> QED BY Zenon, <1>1, <2>1, StartsOnce
<1>14. Held(list') \subseteq Held(list) \ {RegionOf(list[i])}
  <2> SUFFICES ASSUME NEW r \in HeldOutside(list, first, last)
               PROVE  r \in Held(list) /\ r # RegionOf(list[i])
    BY Zenon, <1>10
  <2>1. PICK j \in 1 .. Len(list): (j < first \/ last < j) /\ ~list[j].is_free /\ r = RegionOf(list[j])
    BY Zenon DEF HeldOutside
  <2>2. j # i
    BY Zenon, <1>12, <2>1
  <2> QED BY Zenon, <1>13, <2>1, <2>2 DEF Held
<1>15. Held(list) \ {RegionOf(list[i])} \subseteq Held(list')
  BY Zenon, <1>10, <1>11 DEF Held, HeldOutside
<1> QED BY Zenon, <1>8, <1>9, <1>14, <1>15

\* valloc_release of a region that is held keeps the invariant and gives back
\* that region and no other.
LEMMA ReleaseStep ==
  ASSUME PagesAssumption, IInv, NEW region \in live, valloc_release(region)
  PROVE  IInv' /\ Promise!Call
<1>1. list \in Seq(Nodes) /\ Len(list) \in Nat /\ Tiling(list, 0, Pages) /\ live = Held(list)
      /\ halted \in BOOLEAN /\ DOMAIN list = 1 .. Len(list)
  BY NodeFields DEF IInv, Tiling
<1>2. PICK k \in 1 .. Len(list): ~list[k].is_free /\ region = RegionOf(list[k])
  BY Zenon, <1>1 DEF Held
<1>3. region.start = list[k].start_addr
  BY <1>2 DEF RegionOf
<1>4. live' = live \ {region} /\ halted' = halted
  BY Zenon DEF valloc_release
<1>5. PICK i \in 1 .. Len(list): list[i].start_addr = region.start /\ ReleaseAt(i)
  BY Zenon, <1>1, <1>3 DEF valloc_release
<1>6. i = k
  BY Zenon, <1>1, <1>3, <1>5, StartsOnce
<1> DEFINE first == IF i > 1 /\ list[i - 1].is_free THEN i - 1 ELSE i
           last == IF i < Len(list) /\ list[i + 1].is_free THEN i + 1 ELSE i
<1>7. first \in 1 .. i /\ last \in i .. Len(list)
  BY <1>1
<1>8. list' = Splice(first, last,
                     <<Node(TRUE, list[first].start_addr, End(list[last]) - list[first].start_addr)>>)
  BY Zenon, <1>5 DEF ReleaseAt
<1>9. ~list[i].is_free /\ region = RegionOf(list[i])
  BY Zenon, <1>2, <1>6
<1>a. /\ first = IF i > 1 /\ list[i - 1].is_free THEN i - 1 ELSE i
      /\ last = IF i < Len(list) /\ list[i + 1].is_free THEN i + 1 ELSE i
  OBVIOUS
<1> HIDE DEF first, last
<1>10. Tiling(list', 0, Pages) /\ Merged(list') /\ Held(list') = Held(list) \ {RegionOf(list[i])}
  BY Zenon, <1>7, <1>8, <1>9, <1>a, ReleaseNode
<1>11. IInv'
  BY Zenon, <1>1, <1>4, <1>9, <1>10 DEF IInv
<1>12. Promise!Call
  BY Zenon, <1>4 DEF Promise!Call, Promise!AtMostOne
<1> QED BY Zenon, <1>11, <1>12

\* valloc_init leaves one free node, the whole space.
LEMMA Fresh ==
  ASSUME PagesAssumption
  PROVE  Tiling(valloc_init, 0, Pages) /\ Merged(valloc_init) /\ Held(valloc_init) = {}
<1>1. 0 \in Nat /\ Pages \in Nat /\ Pages >= 1 /\ 0 + Pages = Pages /\ 0 + Pages =< Pages
  BY DEF PagesAssumption
<1> DEFINE node == Node(TRUE, 0, Pages)
<1>2. node \in Nodes /\ node.is_free /\ node.start_addr = 0 /\ End(node) = Pages
  BY Zenon, <1>1, FreeNode
<1>3. valloc_init = <<node>>
  BY DEF valloc_init
<1> HIDE DEF node
<1>4. Tiling(<<node>>, 0, Pages) /\ Merged(<<node>>) /\ Held(<<node>>) = {}
  BY Zenon, <1>2, OnePiece
<1> QED BY Zenon, <1>3, <1>4

\* Every step keeps the invariant and is a step of Regions, or leaves what is
\* held alone.
LEMMA NextStep ==
  ASSUME PagesAssumption, IInv, [Next]_vars
  PROVE  IInv' /\ [Promise!Next]_live
<1>1. CASE list' = list /\ live' = live /\ halted' \in BOOLEAN
  BY Zenon, <1>1 DEF IInv
<1>2. CASE UNCHANGED vars
  <2>1. halted \in BOOLEAN
    BY Zenon DEF IInv
  <2> QED BY Zenon, <1>1, <1>2, <2>1 DEF vars
<1>3. Halt => list' = list /\ live' = live /\ halted' \in BOOLEAN
  BY Zenon DEF Halt
<1>4. ASSUME NEW size \in 1 .. Pages, valloc_alloc(size) PROVE IInv' /\ [Promise!Next]_live
  <2>1. CASE Halt
    BY Zenon, <1>1, <1>3, <2>1
  <2>2. CASE \E i \in DOMAIN list: Fits(i, size) /\ AllocAt(i, size)
    BY Zenon, <2>2, AllocStep DEF Promise!Next
  <2> QED BY Zenon, <1>4, <2>1, <2>2 DEF valloc_alloc
<1>5. ASSUME NEW size \in 1 .. Pages, NEW vaddr \in 0 .. Pages, NEW aligned \in BOOLEAN,
             valloc_reserve(vaddr, aligned, size)
      PROVE  IInv' /\ [Promise!Next]_live
  <2>1. CASE Halt
    BY Zenon, <1>1, <1>3, <2>1
  <2>2. CASE \E i \in DOMAIN list: /\ InNode(list[i], vaddr) /\ ~ReserveRefused(i, vaddr, size)
                                   /\ ReserveIn(i, vaddr, size)
    BY Zenon, <2>2, ReserveStep DEF Promise!Next
  <2> QED BY Zenon, <1>2, <1>5, <2>1, <2>2 DEF valloc_reserve
<1>6. ASSUME NEW region \in live, valloc_release(region) PROVE IInv' /\ [Promise!Next]_live
  BY Zenon, <1>6, ReleaseStep DEF Promise!Next
<1>7. CASE valloc_free
  <2>1. list' = valloc_init /\ live' = {} /\ halted' = halted /\ halted \in BOOLEAN
    BY Zenon, <1>7 DEF valloc_free, IInv
  <2> QED BY Zenon, <2>1, Fresh DEF IInv, Promise!Next, Promise!Reset
<1>8. CASE Halted
  BY Zenon, <1>2, <1>8 DEF Halted
<1> QED BY Zenon, <1>2, <1>4, <1>5, <1>6, <1>7, <1>8 DEF Next

\* In every reachable state the list tiles the space in order, no two
\* neighbours are free, and the reserved nodes are the regions held.
THEOREM Invariance ==
  ASSUME PagesAssumption
  PROVE  Spec => []IInv
<1>1. Init => IInv
  BY Zenon, Fresh DEF Init, IInv
<1>2. IInv /\ [Next]_vars => IInv'
  BY Zenon, NextStep
<1> QED BY <1>1, <1>2, PTL DEF Spec

\* What the invariant says of a state.
LEMMA Consequences ==
  ASSUME PagesAssumption, IInv
  PROVE  TypeOK /\ Tiles /\ LiveExact
<1>1. /\ list \in Seq(Nodes) /\ Len(list) \in Nat /\ Len(list) >= 1 /\ DOMAIN list = 1 .. Len(list)
      /\ list[1].start_addr = 0 /\ End(list[Len(list)]) = Pages
      /\ \A i \in 1 .. Len(list) - 1: list[i + 1].start_addr = End(list[i])
      /\ live = Held(list) /\ halted \in BOOLEAN
  BY NodeFields DEF IInv, Tiling
<1>2. Held(list) \subseteq [start: 0 .. Pages, size: 1 .. Pages]
  <2> SUFFICES ASSUME NEW i \in 1 .. Len(list)
               PROVE  RegionOf(list[i]) \in [start: 0 .. Pages, size: 1 .. Pages]
    BY Zenon DEF Held
  <2>1. list[i] \in Nodes
    BY Zenon, <1>1, NodeFields
  <2>2. list[i].start_addr \in 0 .. Pages /\ list[i].size_pages \in 1 .. Pages
    BY <2>1 DEF Nodes
  <2> QED BY <2>2 DEF RegionOf
<1>3. TypeOK
  BY Zenon, <1>1, <1>2 DEF TypeOK, Nodes
<1>4. list # <<>>
  BY <1>1
<1>5. Tiles
  BY Zenon, <1>1, <1>4 DEF Tiles
<1>6. LiveExact
  BY Zenon, <1>1 DEF LiveExact, Held, RegionOf
<1> QED BY Zenon, <1>3, <1>5, <1>6

\* The list always tiles the address space and its reserved nodes are exactly
\* the regions that callers hold.
THEOREM ListIsExact ==
  ASSUME PagesAssumption
  PROVE  Spec => [](TypeOK /\ Tiles /\ LiveExact)
<1>1. IInv => TypeOK /\ Tiles /\ LiveExact
  BY Zenon, Consequences
<1> QED BY <1>1, Invariance, PTL

\* A run of pages that nobody holds always lies in one free node, so that
\* valloc_alloc halts the kernel only when no gap is large enough.
THEOREM GapsAreFound ==
  ASSUME PagesAssumption
  PROVE  Spec => []GapIsFound
<1>1. ASSUME IInv PROVE GapIsFound
  <2> SUFFICES ASSUME NEW start \in 0 .. Pages - 1, NEW size \in 1 .. Pages, start + size =< Pages,
                      \A r \in live: start + size =< r.start \/ r.start + r.size =< start
               PROVE  \E i \in DOMAIN list: Fits(i, size)
    BY Zenon DEF GapIsFound
  <2>1. /\ list \in Seq(Nodes) /\ Len(list) \in Nat /\ DOMAIN list = 1 .. Len(list)
        /\ End(list[Len(list)]) = Pages /\ Merged(list) /\ live = Held(list)
        /\ \A i \in 1 .. Len(list) - 1: list[i + 1].start_addr = End(list[i])
        /\ \A x \in 0 .. Pages - 1: \E i \in 1 .. Len(list): InNode(list[i], x)
    BY <1>1, NodeFields DEF IInv, Tiling
  <2>2. start \in Nat /\ size \in Nat /\ size >= 1 /\ Pages \in Nat
    BY DEF PagesAssumption
  <2>3. PICK i \in 1 .. Len(list): InNode(list[i], start)
    BY Zenon, <2>1
  <2>4. ASSUME NEW j \in 1 .. Len(list)
        PROVE  /\ list[j].start_addr \in Nat /\ list[j].size_pages \in Nat /\ list[j].size_pages >= 1
               /\ End(list[j]) \in Nat /\ End(list[j]) = list[j].start_addr + list[j].size_pages
               /\ ~list[j].is_free => start + size =< list[j].start_addr \/ End(list[j]) =< start
    <3>1. /\ list[j].start_addr \in Nat /\ list[j].size_pages \in Nat /\ list[j].size_pages >= 1
          /\ End(list[j]) \in Nat /\ End(list[j]) = list[j].start_addr + list[j].size_pages
      BY Zenon, <2>1, NodeFields
    <3>2. ~list[j].is_free => RegionOf(list[j]) \in live
      BY Zenon, <2>1 DEF Held
    <3>3. RegionOf(list[j]).start = list[j].start_addr /\ RegionOf(list[j]).size = list[j].size_pages
      BY DEF RegionOf
    <3> QED BY Zenon, <3>1, <3>2, <3>3
  <2>5. list[i].start_addr =< start /\ start < End(list[i])
    BY <2>3 DEF InNode
  <2>6. list[i].is_free
    <3>1. /\ list[i].start_addr \in Nat /\ End(list[i]) \in Nat
          /\ ~list[i].is_free => start + size =< list[i].start_addr \/ End(list[i]) =< start
      BY Zenon, <2>4
    <3> QED BY <2>2, <2>5, <3>1
  <2>7. start + size =< End(list[i])
    <3> SUFFICES ASSUME ~(start + size =< End(list[i])) PROVE FALSE
      OBVIOUS
    <3>1. i # Len(list) /\ Len(list) \in Nat
      BY Zenon, <2>1
    <3>2. i \in 1 .. Len(list) - 1 /\ i + 1 \in 1 .. Len(list)
      BY <3>1
    <3>3. list[i + 1].start_addr = End(list[i]) /\ ~list[i + 1].is_free
      BY Zenon, <2>1, <2>6, <3>2 DEF Merged
    <3>4. /\ start + size =< list[i + 1].start_addr \/ End(list[i + 1]) =< start
          /\ End(list[i + 1]) = list[i + 1].start_addr + list[i + 1].size_pages
          /\ list[i + 1].size_pages \in Nat
      BY Zenon, <2>4, <3>2, <3>3
    <3>5. End(list[i]) \in Nat
      BY Zenon, <2>4
    <3> QED BY <2>2, <2>5, <3>3, <3>4, <3>5
  <2>8. list[i].size_pages >= size
    BY <2>2, <2>4, <2>5, <2>7
  <2> QED BY Zenon, <2>1, <2>6, <2>8 DEF Fits
<1> QED BY <1>1, Invariance, PTL

\* The allocator implements Regions: what valloc_alloc and valloc_reserve hand
\* out lies in the space, overlaps nothing that is held, and stays held until
\* valloc_release is called for it or the context is freed.
THEOREM ImplementsRegions ==
  ASSUME PagesAssumption
  PROVE  Spec => Promise!Spec
<1>1. Init => Promise!Init
  BY DEF Init, Promise!Init
<1>2. IInv /\ [Next]_vars => [Promise!Next]_live
  BY Zenon, NextStep
<1> QED BY <1>1, <1>2, Invariance, PTL DEF Spec, Promise!Spec
=============================================================================

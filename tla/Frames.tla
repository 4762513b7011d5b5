--------------------------------- MODULE Frames ---------------------------------
(***************************************************************************)
(* The allocator of page frames: a bitmap with a bit for each frame of the    *)
(* allocation region, and allocations that hold frames one by one, in a row,  *)
(* or frames outside of the region.  A call is not interrupted.  Addresses    *)
(* are counted in frames.                                                    *)
(***************************************************************************)
EXTENDS Integers, Sequences, SequencesExt, FiniteSets

CONSTANTS
  Start,        \* allocation_region_start
  Available,    \* bitmap_available_pages
  Bits,         \* the bits of the bitmap: 8 * bitmap_size
  WordBits,     \* 64: the bits of an element of the bitmap
  IntBits,      \* 32: the bits of the constant that is shifted
  MaxSize,      \* bound: frames of an allocation
  MaxPallocs,   \* bound: allocations that are alive, and tables
  MaxFrees      \* bound: allocations that are freed

FramesAssumption ==
  /\ {Start, Available, WordBits, IntBits} \subseteq Nat \ {0}
  /\ Bits >= Available /\ Bits % WordBits = 0
  /\ WordBits % IntBits = 0 /\ IntBits < WordBits

VARIABLES
  bits,         \* the indices of the bits that are set
  pallocs,      \* the allocations that are alive
  tables,       \* frames that were reserved for tables, and are never freed
  frees,        \* the number of allocations that were freed
  result,       \* of the last call of bitmap_free
  mode          \* "ok", or "outside" when bits behind the bitmap were used

vars == <<bits, pallocs, tables, frees, result, mode>>

paging_bitmap_init ==
  /\ bits = {}
  /\ pallocs = <<>> /\ tables = {} /\ frees = 0
  /\ result = "ok" /\ mode = "ok"

-----------------------------------------------------------------------------
\* 0b1 << (index % 64) shifts an int.  The processor takes the distance modulo
\* the width of an int, and a bit in the place of the sign is extended to all
\* higher bits of the word.
Mask(index) ==
  LET word == (index \div WordBits) * WordBits
      shift == index % IntBits
  IN  IF shift = IntBits - 1 THEN word + shift .. word + WordBits - 1 ELSE {word + shift}

paging_bitmap_get_index(b, index) == index \in b

\* Bug: the constant has no sign.
paging_bitmap_set_index_unsigned(b, index) ==
  b \cup {(index \div WordBits) * WordBits + (index % IntBits)}

paging_bitmap_set_index(b, index) == b \cup Mask(index)
paging_bitmap_clear_index(b, index) == b \ Mask(index)

\* Bug: the bit after the last one is looked at.
bitmap_reserve_past(b) ==
  LET free == {i \in 0 .. Available: ~paging_bitmap_get_index(b, i)} IN
  IF free = {} THEN -1 ELSE CHOOSE i \in free: \A j \in free: i =< j

\* The first frame that is free, or -1.
bitmap_reserve(b) ==
  LET free == {i \in 0 .. Available - 1: ~paging_bitmap_get_index(b, i)} IN
  IF free = {} THEN -1 ELSE CHOOSE i \in free: \A j \in free: i =< j

Address(i) == IF i = -1 THEN 0 ELSE Start + i

\* bitmap_reserve n times: the bitmap and the addresses.
Reserved(n) ==
  LET one(s, x) == LET i == bitmap_reserve(s.bits) IN
                   [bits |-> IF i = -1 THEN s.bits ELSE paging_bitmap_set_index(s.bits, i),
                    paddrs |-> Append(s.paddrs, Address(i))]
  IN  FoldLeft(one, [bits |-> bits, paddrs |-> <<>>], [x \in 1 .. n |-> x])

RowAt(i, n) == i < Available /\ \A j \in 0 .. n - 1: ~paging_bitmap_get_index(bits, i + j)

\* The first row of n free frames, which may go on behind the last frame.  What is
\* found in memory behind the bitmap counts as free, and the call that looked there
\* ends in mode "outside".
bitmap_reserve_contiguous(n) ==
  LET rows == {i \in 0 .. Available - 1: RowAt(i, n)} IN
  IF rows = {} THEN -1 ELSE CHOOSE i \in rows: \A j \in rows: i =< j

SetRow(i, n) == FoldLeft(paging_bitmap_set_index, bits, [j \in 1 .. n |-> i + j - 1])

\* Each index is the address, and not its distance from Start.
bitmap_free(b, addresses) ==
  [bits |-> FoldLeft(paging_bitmap_clear_index, b, addresses),
   result |-> IF \A x \in 1 .. Len(addresses):
                   paging_bitmap_get_index(
                     FoldLeft(paging_bitmap_clear_index, b, SubSeq(addresses, 1, x - 1)),
                     addresses[x])
              THEN "ok" ELSE "ERROR_BITMAP_NOT_ALLOCATED"]

-----------------------------------------------------------------------------
Room == mode = "ok" /\ Len(pallocs) < MaxPallocs

palloc_alloc(n) ==
  /\ Room
  /\ bits' = Reserved(n).bits
  /\ pallocs' = Append(pallocs, [type |-> "PALLOC_ALLOC", paddrs |-> Reserved(n).paddrs])
  /\ UNCHANGED <<tables, frees, result, mode>>

palloc_alloc_contiguous(n) ==
  /\ Room
  /\ LET i == bitmap_reserve_contiguous(n) IN
       /\ bits' = IF i = -1 THEN bits ELSE SetRow(i, n)
       /\ pallocs' = Append(pallocs, [type |-> "PALLOC_CONTIGUOUS_ALLOC",
                                      paddrs |-> [x \in 1 .. n |-> Address(i) + x - 1]])
       /\ mode' = IF i + n > Bits THEN "outside" ELSE mode
  /\ UNCHANGED <<tables, frees, result>>

\* The frames of a device, outside of the region.
palloc_map(n) ==
  /\ Room
  /\ pallocs' = Append(pallocs, [type |-> "PALLOC_CONTIGUOUS_MAP",
                                 paddrs |-> [x \in 1 .. n |-> -x]])
  /\ UNCHANGED <<bits, tables, frees, result, mode>>

palloc_free(a) ==
  /\ mode = "ok" /\ frees < MaxFrees
  /\ pallocs' = RemoveAt(pallocs, a)
  /\ IF pallocs[a].type = "PALLOC_CONTIGUOUS_MAP" THEN UNCHANGED <<bits, result, frees, mode>>
     ELSE LET r == bitmap_free(bits, pallocs[a].paddrs) IN
          /\ bits' = r.bits /\ result' = r.result
          /\ frees' = frees + 1
          /\ mode' = IF \E x \in ToSet(pallocs[a].paddrs): x >= Bits THEN "outside" ELSE mode
  /\ UNCHANGED tables

\* Frames for the page tables, the heap and the table of translations.
ReserveTable ==
  /\ mode = "ok"
  /\ LET i == bitmap_reserve(bits) IN
       /\ i # -1 /\ Cardinality(tables) < MaxPallocs
       /\ bits' = paging_bitmap_set_index(bits, i)
       /\ tables' = tables \cup {Address(i)}
  /\ UNCHANGED <<pallocs, frees, result, mode>>

\* The bitmap is no longer known, or a bound is reached.
Stopped ==
  /\ mode # "ok" \/ (Len(pallocs) = MaxPallocs /\ frees = MaxFrees)
  /\ UNCHANGED vars

Next ==
  \/ \E n \in 1 .. MaxSize: palloc_alloc(n) \/ palloc_alloc_contiguous(n) \/ palloc_map(n)
  \/ \E a \in DOMAIN pallocs: palloc_free(a)
  \/ ReserveTable
  \/ Stopped

Spec == paging_bitmap_init /\ [][Next]_vars

-----------------------------------------------------------------------------
\* The bitmap holds bits of its own words only, until bits behind it are used.
TypeOK ==
  /\ mode = "ok" => bits \subseteq 0 .. Bits - 1
  /\ Len(pallocs) =< MaxPallocs /\ frees =< MaxFrees
  /\ tables \subseteq Start .. Start + Available - 1

\* In every word, the bits that the shift of an int cannot reach have the value of
\* the bit in the place of the sign, whatever was reserved and freed: this is what
\* makes the bitmap work at all, at the price of half of the frames.
UpperBitsFollow ==
  mode = "ok" => \A i \in 0 .. Bits - 1:
    i % WordBits >= IntBits
      => ((i \in bits) = ((i \div WordBits) * WordBits + IntBits - 1 \in bits))

FramesOf(a) == {x \in ToSet(pallocs[a].paddrs): x >= Start}

\* As long as nothing was freed no frame is in two allocations, or in one of them
\* and a table, and no frame is in an allocation twice.  An allocation that fails
\* has the address 0 and holds no frame.
NoFrameTwice ==
  mode = "ok" /\ frees = 0 =>
    /\ \A a, b \in 1 .. Len(pallocs): a # b => FramesOf(a) \cap FramesOf(b) = {}
    /\ \A a \in 1 .. Len(pallocs): FramesOf(a) \cap tables = {}
    /\ \A a \in 1 .. Len(pallocs): \A x, y \in 1 .. Len(pallocs[a].paddrs):
         x # y /\ pallocs[a].paddrs[x] >= Start => pallocs[a].paddrs[x] # pallocs[a].paddrs[y]

\* bitmap_free finds every frame of an allocation allocated.
FreeFindsFrames == result # "ERROR_BITMAP_NOT_ALLOCATED"
=============================================================================

----------------------------- MODULE MCAllocators -----------------------------
(***************************************************************************)
(* The four allocators of the kernel: virtual addresses, the heap, physical *)
(* frames, and the layout of the frames' bitmap.  They share no state, so   *)
(* that a behaviour of the kernel is, for each of them, a behaviour of that  *)
(* one alone; the first state chooses which one a behaviour is about, and    *)
(* the variables of the others are not used.                                 *)
(***************************************************************************)
EXTENDS Integers, Sequences

VARIABLES
  which,                                    \* the allocator of this behaviour
  list, halted,                             \* VirtualAllocator
  tag, alloc_size,                          \* Heap
  live,                                     \* VirtualAllocator and Heap
  bits, pallocs, tables, frees, result,     \* Frames
  mode,                                     \* Heap and Frames
  size                                      \* FrameLayout

vars == <<which, list, halted, tag, alloc_size, live, bits, pallocs, tables, frees, result, mode,
          size>>

V == INSTANCE VirtualAllocator WITH Pages <- 8
H == INSTANCE Heap WITH TagSize <- 2, HeapSize <- 24, Request <- {0, 1, 2, 4}
F == INSTANCE Frames WITH Start <- 3, Available <- 9, Bits <- 12, WordBits <- 4, IntBits <- 2,
                          MaxSize <- 3, MaxPallocs <- 3, MaxFrees <- 1

\* Sizes around the multiples of 128 MB, which is 32768 frames of 4096 bytes.
L == INSTANCE FrameLayout WITH
       RegionSizes <- (16 .. 600) \cup {32768 * k + d: k \in 1 .. 12, d \in -80 .. 80},
       PageSize <- 4096

ASSUME Constants ==
  V!PagesAssumption /\ H!HeapAssumption /\ F!FramesAssumption /\ L!LayoutAssumption

Unused == "unused"

Init ==
  \/ /\ which = "addresses" /\ V!Init
     /\ tag = Unused /\ alloc_size = Unused /\ bits = Unused /\ pallocs = Unused
     /\ tables = Unused /\ frees = Unused /\ result = Unused /\ mode = Unused /\ size = Unused
  \/ /\ which = "heap" /\ H!Init
     /\ list = Unused /\ halted = Unused /\ bits = Unused /\ pallocs = Unused
     /\ tables = Unused /\ frees = Unused /\ result = Unused /\ size = Unused
  \/ /\ which = "frames" /\ F!paging_bitmap_init
     /\ list = Unused /\ halted = Unused /\ tag = Unused /\ alloc_size = Unused
     /\ live = Unused /\ size = Unused
  \/ /\ which = "layout" /\ L!paging_bitmap_init
     /\ list = Unused /\ halted = Unused /\ tag = Unused /\ alloc_size = Unused
     /\ live = Unused /\ bits = Unused /\ pallocs = Unused /\ tables = Unused
     /\ frees = Unused /\ result = Unused /\ mode = Unused

Next ==
  \/ /\ which = "addresses" /\ V!Next
     /\ UNCHANGED <<which, tag, alloc_size, bits, pallocs, tables, frees, result, mode, size>>
  \/ /\ which = "heap" /\ H!Next
     /\ UNCHANGED <<which, list, halted, bits, pallocs, tables, frees, result, size>>
  \/ /\ which = "frames" /\ F!Next
     /\ UNCHANGED <<which, list, halted, tag, alloc_size, live, size>>
  \/ which = "layout" /\ UNCHANGED vars

Spec == Init /\ [][Next]_vars

-----------------------------------------------------------------------------
\* The lists agree with what callers hold, through every sequence of calls.  The
\* nodes of virtual_allocator.c tile the address space, and the reserved ones are
\* those that callers hold.  The tags of the heap lead from one to the next and
\* back, the reserved blocks are those that callers hold, alloc_size is their
\* sum, and free blocks are merged: heap_check and heap_free never panic.
ListsExact ==
  /\ which = "addresses" => V!TypeOK /\ V!Tiles /\ V!LiveExact
  /\ which = "heap" => H!TypeOK /\ H!TagsAgree /\ H!LiveExact /\ H!UsageExact /\ H!FreeMerged

\* Releases in any order merge, so that a run of pages that nobody holds can be
\* allocated: valloc_alloc halts the kernel only when there is no gap of the
\* size asked for.
GapIsFound == which = "addresses" => V!GapIsFound

\* valloc and the heap implement Regions: a region handed out by valloc_alloc,
\* valloc_reserve, heap_alloc or heap_realloc overlaps no other that is held, and
\* stays with its holder until the holder gives it back.
KeepsPromise ==
  [][/\ which = "addresses" => V!Promise!Next \/ UNCHANGED live
     /\ which = "heap" => H!Promise!Next \/ UNCHANGED live]_vars

\* As long as nothing was freed no frame is in two allocations, or in one of them
\* and a table, also though paging_bitmap_set_index shifts an int: the bits that
\* it cannot reach follow the bit in the place of the sign.
NoFrameTwice ==
  which = "frames" => F!TypeOK /\ F!UpperBitsFollow /\ F!NoFrameTwice

\* paging_bitmap_init leaves each frame a bit in the bitmap's own frames, but for
\* the sizes FrameLayout names, and the frames it counts reach behind the end of
\* the region by exactly the bitmap's own.
EveryFrameHasABit == which = "layout" => L!EveryFrameHasABit /\ L!FramesBehindEnd

\* bitmap_free finds every frame of an allocation allocated, as its error code
\* ERROR_BITMAP_NOT_ALLOCATED and the callers that ignore it suppose.
FreeFindsFrames == which = "frames" => F!FreeFindsFrames
=============================================================================

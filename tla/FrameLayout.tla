------------------------------- MODULE FrameLayout -------------------------------
(***************************************************************************)
(* How paging_bitmap_init divides the region of memory it is given: tables   *)
(* that map the bitmap, the bitmap, and the frames it describes.  One state  *)
(* for each size of the region, which is counted in frames.                   *)
(***************************************************************************)
EXTENDS Integers

CONSTANTS
  RegionSizes,  \* the sizes of the region
  PageSize      \* 4096, in bytes

LayoutAssumption == RegionSizes \subseteq Nat \ {0} /\ PageSize \in Nat \ {0}

VARIABLE size   \* paging_region_size / PAGE_SIZE

DivUp(a, b) == (a + b - 1) \div b

\* Bug: the bits are rounded down to whole bytes of whole words.
bitmap_size_down == ((size \div 8) \div 8) * 8

\* In bytes; each bit is a frame, and the bitmap has whole words of 64 bits.
bitmap_size == DivUp(size \div 8, 8) * 8

pt_count == DivUp(bitmap_size, PageSize * 512)
pdt_count == DivUp(bitmap_size, PageSize * 512 * 512)

\* Bug: the tables are taken for the bitmap's first frames.
bitmap_start_low == pt_count

\* bitmap_paddr, allocation_region_start and the number of frames the bitmap describes,
\* counted in frames from the start of the region.
bitmap_start == pt_count + pdt_count
allocation_start == DivUp(bitmap_start * PageSize + bitmap_size, PageSize)
bitmap_available_pages == size - pt_count - pdt_count

paging_bitmap_init == size \in RegionSizes
Spec == paging_bitmap_init /\ [][UNCHANGED size]_size

-----------------------------------------------------------------------------
\* The bits that lie between the start of the bitmap and the first frame.
RoomForBits == (allocation_start - bitmap_start) * PageSize * 8

\* A region whose size leaves no room for the bits of its last frames: one to five
\* frames have a bit in the first frame that is given out.
Unlucky == size % (PageSize * 8) \in 3 .. 7 /\ size > PageSize * 8

\* Every frame the allocator may give out has a bit in the bitmap's own frames, so
\* that the content of no frame is taken for bits: for every size but the unlucky ones.
EveryFrameHasABit == (bitmap_available_pages =< RoomForBits) = ~Unlucky

\* The bitmap ends before the first frame, and the frames it describes reach behind
\* the end of the region by exactly the frames the bitmap itself takes, which
\* paging_bitmap_init does not subtract.
FramesBehindEnd ==
  /\ bitmap_start * PageSize + bitmap_size =< allocation_start * PageSize
  /\ allocation_start + bitmap_available_pages - size = DivUp(bitmap_size, PageSize)
=============================================================================

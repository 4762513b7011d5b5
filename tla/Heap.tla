--------------------------------- MODULE Heap ---------------------------------
(***************************************************************************)
(* The kernel heap, src/util/heap: blocks separated by tags, each tag with  *)
(* the size of the block before it, the size of the block after it and     *)
(* whether that one is reserved.                                           *)
(*                                                                         *)
(* Memory is counted in bytes from the head tag; `tag` holds the tags that *)
(* the walk from the head tag meets.  Calls are atomic: the kernel is not  *)
(* preempted, and no interrupt handler allocates while a call is under way.*)
(***************************************************************************)
EXTENDS Integers, FiniteSets, FiniteSetsExt

CONSTANTS
  TagSize,      \* sizeof(heap_tag_t)
  HeapSize,     \* HEAP_INITIAL_SIZE
  Request       \* the sizes that callers ask for

HeapAssumption ==
  /\ TagSize \in Nat \ {0}
  /\ HeapSize \in Nat
  /\ HeapSize > 2 * TagSize
  /\ Request \subseteq Nat

VARIABLES
  tag,          \* address of a tag -> the tag
  alloc_size,
  live,         \* what the callers hold: the address of the block, the size asked for
  mode          \* "running", "panic", or "undefined" once memory is overwritten

vars == <<tag, alloc_size, live, mode>>

Tag(reserved, prev, next) == [next_reserved |-> reserved, prev_size |-> prev, next_size |-> next]

head_tag == 0
sector_size == HeapSize - 2 * TagSize
tail_tag == sector_size + TagSize

heap_init ==
  [a \in {head_tag, tail_tag} |->
     IF a = head_tag THEN Tag(FALSE, 0, sector_size) ELSE Tag(FALSE, sector_size, 0)]

Init ==
  /\ tag = heap_init
  /\ alloc_size = 0
  /\ live = {}
  /\ mode = "running"

Following(t, a) == a + t[a].next_size + TagSize
Preceding(t, a) == a - t[a].prev_size - TagSize

Block(a, size) == [start |-> a + TagSize, size |-> size]
TagOf(block) == block.start - TagSize

-----------------------------------------------------------------------------
\* heap_alloc

Fits(a, size) ==
  /\ a # tail_tag
  /\ ~tag[a].next_reserved
  /\ tag[a].next_size > size + TagSize + 1 \/ tag[a].next_size = size

\* Bug: the tag behind the remainder keeps the size of the whole block.
Reserve_stale(t, a, size) ==
  IF t[a].next_size = size
  THEN [t EXCEPT ![a].next_reserved = TRUE]
  ELSE LET mid == a + size + TagSize
       IN  [b \in DOMAIN t \cup {mid} |->
              CASE b = a -> Tag(TRUE, t[a].prev_size, size)
                [] b = mid -> Tag(FALSE, size, t[a].next_size - size - TagSize)
                [] OTHER -> t[b]]

\* The tags after a block of `size` bytes is reserved behind the tag a.
Reserve(t, a, size) ==
  IF t[a].next_size = size
  THEN [t EXCEPT ![a].next_reserved = TRUE]
  ELSE LET mid == a + size + TagSize
           remaining == t[a].next_size - size - TagSize
       IN  [b \in DOMAIN t \cup {mid} |->
              CASE b = a -> Tag(TRUE, t[a].prev_size, size)
                [] b = mid -> Tag(FALSE, size, remaining)
                [] b = Following(t, a) -> [t[b] EXCEPT !.prev_size = remaining]
                [] OTHER -> t[b]]

Panic == mode' = "panic" /\ UNCHANGED <<tag, alloc_size, live>>

heap_alloc(size) ==
  /\ mode = "running"
  /\ \/ size = 0 /\ Panic
     \/ /\ size > 0
        /\ \/ \E a \in DOMAIN tag:
                /\ Fits(a, size)
                /\ \A b \in DOMAIN tag: b < a => ~Fits(b, size)
                /\ tag' = Reserve(tag, a, size)
                /\ live' = live \cup {Block(a, size)}
                /\ alloc_size' = alloc_size + size
                /\ UNCHANGED mode
           \/ /\ \A a \in DOMAIN tag: ~Fits(a, size)
              /\ Panic

-----------------------------------------------------------------------------
\* heap_free

\* Bug: the block before is not merged.
Free_forward(t, a) ==
  LET next == Following(t, a)
      forward == ~t[next].next_reserved /\ t[next].next_size # 0
      end == IF forward THEN Following(t, next) ELSE next
      gone == IF forward THEN {next} ELSE {}
      size == end - a - TagSize
  IN  [b \in DOMAIN t \ gone |->
         CASE b = a -> Tag(FALSE, t[b].prev_size, size)
           [] b = end -> [t[b] EXCEPT !.prev_size = size]
           [] OTHER -> t[b]]

\* The block behind the tag a and the free blocks beside it become one.
Free(t, a) ==
  LET next == Following(t, a)
      forward == ~t[next].next_reserved /\ t[next].next_size # 0
      end == IF forward THEN Following(t, next) ELSE next
      backward == t[a].prev_size # 0 /\ ~t[Preceding(t, a)].next_reserved
      begin == IF backward THEN Preceding(t, a) ELSE a
      gone == (IF forward THEN {next} ELSE {}) \cup (IF backward THEN {a} ELSE {})
      size == end - begin - TagSize
  IN  [b \in DOMAIN t \ gone |->
         CASE b = begin -> Tag(FALSE, t[b].prev_size, size)
           [] b = end -> [t[b] EXCEPT !.prev_size = size]
           [] OTHER -> t[b]]

\* What heap_free checks before it changes anything but alloc_size.
Verified(a) ==
  /\ tag[a].next_reserved
  /\ tag[a].next_size = tag[Following(tag, a)].prev_size

\* Bug: the size is subtracted after the block has grown.
heap_free_late(block) ==
  /\ mode = "running"
  /\ block \in live
  /\ LET a == TagOf(block)
         after == Free(tag, a) IN
       /\ tag' = after
       /\ alloc_size' = alloc_size - (IF a \in DOMAIN after THEN after[a].next_size ELSE 0)
       /\ live' = live \ {block}
       /\ UNCHANGED mode

heap_free(block) ==
  /\ mode = "running"
  /\ block \in live
  /\ LET a == TagOf(block) IN
       \/ /\ Verified(a)
          /\ tag' = Free(tag, a)
          /\ alloc_size' = alloc_size - tag[a].next_size
          /\ live' = live \ {block}
          /\ UNCHANGED mode
       \/ ~Verified(a) /\ Panic

-----------------------------------------------------------------------------
\* Bug: the old block is freed before the new one is allocated.
heap_realloc_early(block, size) ==
  /\ mode = "running"
  /\ block \in live
  /\ size > 0
  /\ LET freed == Free(tag, TagOf(block))
         Room == {a \in DOMAIN freed: /\ a # tail_tag
                                      /\ ~freed[a].next_reserved
                                      /\ \/ freed[a].next_size > size + TagSize + 1
                                         \/ freed[a].next_size = size}
     IN  IF Room = {} THEN Panic
         ELSE /\ tag' = Reserve(freed, Min(Room), size)
              /\ live' = (live \ {block}) \cup {Block(Min(Room), size)}
              /\ alloc_size' = alloc_size + size - block.size
              /\ UNCHANGED mode

\* heap_realloc copies as many bytes as the old block has, so a smaller new
\* block is overrun, and the tag behind it overwritten with what the old block
\* held.
heap_realloc(block, size) ==
  /\ mode = "running"
  /\ block \in live
  /\ size > 0
  /\ \/ \E a \in DOMAIN tag:
          /\ Fits(a, size)
          /\ \A b \in DOMAIN tag: b < a => ~Fits(b, size)
          /\ IF size < block.size
             THEN mode' = "undefined" /\ UNCHANGED <<tag, alloc_size, live>>
             ELSE /\ tag' = Free(Reserve(tag, a, size), TagOf(block))
                  /\ live' = (live \ {block}) \cup {Block(a, size)}
                  /\ alloc_size' = alloc_size + size - tag[TagOf(block)].next_size
                  /\ UNCHANGED mode
     \/ /\ \A a \in DOMAIN tag: ~Fits(a, size)
        /\ Panic

\* After a panic, and once memory is overwritten, nothing is claimed.
Stopped == mode # "running" /\ UNCHANGED vars

Next ==
  \/ \E size \in Request: heap_alloc(size)
  \/ \E block \in live: heap_free(block)
  \/ \E block \in live, size \in Request: heap_realloc(block, size)
  \/ Stopped

Spec == Init /\ [][Next]_vars

-----------------------------------------------------------------------------
\* Tags, counters and holders have their types.
TypeOK ==
  /\ DOMAIN tag \subseteq 0 .. tail_tag
  /\ \A a \in DOMAIN tag:
        tag[a] \in [next_reserved: BOOLEAN, prev_size: 0 .. sector_size, next_size: 0 .. sector_size]
  /\ alloc_size \in Nat
  /\ live \subseteq [start: 0 .. HeapSize, size: 1 .. sector_size]
  /\ mode \in {"running", "panic", "undefined"}

\* heap_check never panics: from the head tag each tag leads to the next one,
\* which has the same size for the block between them, and the last is the
\* tail tag.
TagsAgree ==
  /\ {head_tag, tail_tag} \subseteq DOMAIN tag
  /\ \A a \in DOMAIN tag \ {tail_tag}:
        /\ Following(tag, a) \in DOMAIN tag
        /\ tag[Following(tag, a)].prev_size = tag[a].next_size
        /\ \A b \in DOMAIN tag: ~(a < b /\ b < Following(tag, a))
  /\ tag[tail_tag].next_size = 0

\* The reserved blocks are exactly the ones that callers hold, so no block is
\* lost, and heap_free never fails its checks.
LiveExact ==
  {Block(a, tag[a].next_size): a \in {b \in DOMAIN tag: tag[b].next_reserved}} = live

\* alloc_size is the number of bytes held, which is what heap_usage computes
\* by walking the tags.
UsageExact == alloc_size = MapThenSumSet(LAMBDA block: block.size, live)

\* Blocks freed in any order merge: no two free blocks are neighbours.
FreeMerged ==
  \A a \in DOMAIN tag:
     (a # tail_tag /\ ~tag[a].next_reserved /\ Following(tag, a) # tail_tag)
        => tag[Following(tag, a)].next_reserved

\* The heap keeps the promise of Regions: a block stays with its holder until
\* it is freed, and heap_realloc holds both blocks while it copies.
Promise == INSTANCE Regions WITH Limit <- HeapSize
=============================================================================

--------------------------- MODULE VirtualAllocator ---------------------------
(***************************************************************************)
(* The allocator of virtual addresses of one paging context,               *)
(* src/paging/virtual_allocator.c: a list of regions, free and reserved,   *)
(* that tiles the address space.                                           *)
(*                                                                         *)
(* Addresses and sizes are counted in pages.  Calls are atomic: they run   *)
(* in the kernel, which is not preempted, and block nowhere.               *)
(***************************************************************************)
EXTENDS Integers, Sequences

CONSTANT Pages      \* VALLOC_REGION_SIZE / VALLOC_PAGE_SIZE

PagesAssumption == Pages \in Nat \ {0}

VARIABLES
  list,     \* the nodes between valloc->head and valloc->tail
  live,     \* what the callers hold: the address returned, the size asked for
  halted    \* kernel_entry_error was called

vars == <<list, live, halted>>

Node(free, start, size) == [is_free |-> free, start_addr |-> start, size_pages |-> size]

valloc_init == <<Node(TRUE, 0, Pages)>>

Init ==
  /\ list = valloc_init
  /\ live = {}
  /\ halted = FALSE

End(node) == node.start_addr + node.size_pages

\* The nodes `new` in place of the nodes first .. last.
Splice(first, last, new) ==
  SubSeq(list, 1, first - 1) \o new \o SubSeq(list, last + 1, Len(list))

-----------------------------------------------------------------------------
\* The first free node that is large enough.
Fits(i, size_pages) == list[i].is_free /\ list[i].size_pages >= size_pages

\* Bug: a node of the right size is split as well.
AllocAt_split(i, size_pages) ==
  LET node == list[i]
  IN  /\ list' = Splice(i, i, <<Node(FALSE, node.start_addr, size_pages),
                               Node(TRUE, node.start_addr + size_pages, node.size_pages - size_pages)>>)
      /\ live' = live \cup {[start |-> node.start_addr, size |-> size_pages]}
      /\ UNCHANGED halted

AllocAt(i, size_pages) ==
  LET node == list[i]
      rest == Node(TRUE, node.start_addr + size_pages, node.size_pages - size_pages)
      taken == Node(FALSE, node.start_addr, size_pages)
  IN  /\ list' = Splice(i, i, IF size_pages = node.size_pages THEN <<taken>> ELSE <<taken, rest>>)
      /\ live' = live \cup {[start |-> node.start_addr, size |-> size_pages]}
      /\ UNCHANGED halted

Halt == halted' = TRUE /\ UNCHANGED <<list, live>>

valloc_alloc(size_pages) ==
  /\ ~halted
  /\ \/ \E i \in DOMAIN list:
          /\ Fits(i, size_pages)
          /\ \A j \in 1 .. i - 1: ~Fits(j, size_pages)
          /\ AllocAt(i, size_pages)
     \/ /\ \A i \in DOMAIN list: ~Fits(i, size_pages)
        /\ Halt

-----------------------------------------------------------------------------
InNode(node, vaddr) == node.start_addr =< vaddr /\ vaddr < End(node)

ReserveIn(i, vaddr, size_pages) ==
  LET node == list[i]
      before == Node(TRUE, node.start_addr, vaddr - node.start_addr)
      taken == Node(FALSE, vaddr, size_pages)
      after == Node(TRUE, vaddr + size_pages, End(node) - (vaddr + size_pages))
  IN  /\ list' = Splice(i, i, (IF vaddr > node.start_addr THEN <<before>> ELSE <<>>)
                              \o <<taken>>
                              \o (IF vaddr + size_pages < End(node) THEN <<after>> ELSE <<>>))
      /\ live' = live \cup {[start |-> vaddr, size |-> size_pages]}
      /\ UNCHANGED halted

\* Bug: the end of the request is not compared with the end of the node.
ReserveRefused_unbounded(i, vaddr, size_pages) == ~list[i].is_free

\* An address that is not a multiple of the page size, that is taken, or whose
\* node is too short, yields NULL; one outside the address space halts.
ReserveRefused(i, vaddr, size_pages) ==
  \/ ~list[i].is_free
  \/ vaddr + size_pages > End(list[i])

valloc_reserve(vaddr, aligned, size_pages) ==
  /\ ~halted
  /\ \/ ~aligned /\ UNCHANGED vars
     \/ /\ aligned
        /\ \/ /\ \A i \in DOMAIN list: ~InNode(list[i], vaddr)
              /\ Halt
           \/ \E i \in DOMAIN list:
                /\ InNode(list[i], vaddr)
                /\ \/ ReserveRefused(i, vaddr, size_pages) /\ UNCHANGED vars
                   \/ ~ReserveRefused(i, vaddr, size_pages) /\ ReserveIn(i, vaddr, size_pages)

-----------------------------------------------------------------------------
\* Bug: only the following node is merged.
ReleaseAt_forward(i) ==
  LET last == IF i < Len(list) /\ list[i + 1].is_free THEN i + 1 ELSE i
  IN  list' = Splice(i, last,
                     <<Node(TRUE, list[i].start_addr, End(list[last]) - list[i].start_addr)>>)

\* The node and the free nodes beside it become one free node.
ReleaseAt(i) ==
  LET first == IF i > 1 /\ list[i - 1].is_free THEN i - 1 ELSE i
      last == IF i < Len(list) /\ list[i + 1].is_free THEN i + 1 ELSE i
  IN  list' = Splice(first, last,
                     <<Node(TRUE, list[first].start_addr, End(list[last]) - list[first].start_addr)>>)

\* A caller releases an address that it was given.
valloc_release(region) ==
  /\ ~halted
  /\ region \in live
  /\ \/ \E i \in DOMAIN list:
          /\ list[i].start_addr = region.start
          /\ \A j \in 1 .. i - 1: list[j].start_addr # region.start
          /\ ReleaseAt(i)
     \/ /\ \A i \in DOMAIN list: list[i].start_addr # region.start
        /\ UNCHANGED list
  /\ live' = live \ {region}
  /\ UNCHANGED halted

\* The context is freed, and its memory initialised again for another one.
valloc_free ==
  /\ ~halted
  /\ list' = valloc_init
  /\ live' = {}
  /\ UNCHANGED halted

\* A halted kernel does nothing more.
Halted == halted /\ UNCHANGED vars

Next ==
  \/ \E size_pages \in 1 .. Pages:
        \/ valloc_alloc(size_pages)
        \/ \E vaddr \in 0 .. Pages, aligned \in BOOLEAN: valloc_reserve(vaddr, aligned, size_pages)
  \/ \E region \in live: valloc_release(region)
  \/ valloc_free
  \/ Halted

Spec == Init /\ [][Next]_vars

-----------------------------------------------------------------------------
\* Nodes, holders and the halt flag have their types.
TypeOK ==
  /\ list \in Seq([is_free: BOOLEAN, start_addr: 0 .. Pages, size_pages: 1 .. Pages])
  /\ live \subseteq [start: 0 .. Pages, size: 1 .. Pages]
  /\ halted \in BOOLEAN

\* The list tiles the address space in order: the first node starts at 0, each
\* node starts where the one before it ends, the last ends with the space.
\* valloc_reserve finds the node of an address by this, and halts otherwise.
Tiles ==
  /\ list # <<>>
  /\ list[1].start_addr = 0
  /\ \A i \in 1 .. Len(list) - 1: list[i + 1].start_addr = End(list[i])
  /\ End(list[Len(list)]) = Pages

\* The reserved nodes are exactly the regions that callers hold, with the
\* sizes they asked for: nothing is lost, nothing is handed out twice.
LiveExact ==
  {[start |-> list[i].start_addr, size |-> list[i].size_pages]:
      i \in {j \in DOMAIN list: ~list[j].is_free}} = live

\* Releases in any order merge, so that a run of pages that nobody holds can be
\* allocated: valloc_alloc halts the kernel only when there is no gap of the
\* size asked for.
GapIsFound ==
  \A start \in 0 .. Pages - 1, size \in 1 .. Pages:
     (/\ start + size =< Pages
      /\ \A r \in live: start + size =< r.start \/ r.start + r.size =< start)
        => \E i \in DOMAIN list: Fits(i, size)

\* The allocator keeps the promise of Regions to the callers of valloc_alloc,
\* valloc_reserve and valloc_release.
Promise == INSTANCE Regions WITH Limit <- Pages
=============================================================================

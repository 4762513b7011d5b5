---------------------------- MODULE MCPageManager ----------------------------
EXTENDS PageManager, TLC

CONSTANTS p1, p2, p3  \* processes

\* Processes that can be forked are alike.
Symmetry == Permutations(Process \ {init})

Marked == {r \in Root : mem.contents[r] # 0}
Written == Marked # {}
Reading == \E p \in Process : buffer[p] # Absent

\* Bound: while somebody reads, and once something was written in a page, processes
\* have three pages, which are the kernel's, the program and one stack; nobody begins
\* a read after a write; two pages at most hold something, and no page that is free.
ReadOrWrite ==
    /\ Reading \/ Written => \A p \in Process : 1 \notin mem.reserved[p]
    /\ ~ (Reading /\ Written)
    /\ Cardinality(Marked) <= 2 /\ \A r \in Marked : mem.references[r] # 0
=============================================================================

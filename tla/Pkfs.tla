--------------------------------- MODULE Pkfs ---------------------------------
(***************************************************************************)
(* The disc filesystem, modules/pkfs: directories, files and the pages they *)
(* are made of, and what the kernel keeps of them in memory.               *)
(*                                                                         *)
(* A call is not preempted, but it writes the disc one page at a time, and  *)
(* the machine may be switched off between two writes: each disc write is a *)
(* step.  What the data pages hold is the subject of OpenFile.               *)
(***************************************************************************)
EXTENDS Integers, Sequences, SequencesExt

CONSTANTS
  LastPage,     \* the disc has the pages 0 .. LastPage; page 0 is the boot sector
  Children,     \* FILESYSTEM_DIRECTORY_INDEX_CHILDREN_SIZE
  Name,
  NoName

ASSUME PkfsAssumption ==
  /\ NoName \notin Name
  /\ LastPage \in Nat /\ LastPage > 7
  /\ Children \in Nat \ {0}

VARIABLES
  disc,         \* the pages, without the root page
  first_free,   \* the field of the root page
  nodes,        \* pkfs_fs_node_t in memory: file_page -> how it is held
  entries,      \* directory in memory -> the names in its list
  op,           \* the call under way
  mode          \* "running"; "torn" after a deletion that a crash cut off;
                \* "undefined" once garbage is used as a page

vars == <<disc, first_free, nodes, entries, op, mode>>

Root == 1           \* FILESYSTEM_ROOT_ADDRESS
RootDirectory == 2  \* root_directory_address

Page(type, down) ==
  [in_use |-> TRUE, type |-> type, name |-> NoName, parent |-> 0, down |-> down,
   next |-> 0, children |-> <<>>]

Blank == [Page("none", 0) EXCEPT !.in_use = FALSE]

\* A disc image: the root directory, its index, and a file of two data pages.
Formatted(name) ==
  [p \in 0 .. LastPage |->
     CASE p = Root -> Page("root", RootDirectory)
       [] p = RootDirectory -> Page("directory", 3)
       [] p = 3 -> [Page("index", 0) EXCEPT !.children = <<4>>]
       [] p = 4 -> [Page("file", 5) EXCEPT !.name = name, !.parent = RootDirectory]
       [] p = 5 -> [Page("data", 0) EXCEPT !.next = 6]
       [] p = 6 -> Page("data", 0)
       [] OTHER -> Blank]

Idle == [kind |-> "idle"]

\* How a node is held: a node made by create keeps a reference for good.
Loaded == [pinned |-> FALSE, deleted |-> FALSE]
Created == [pinned |-> TRUE, deleted |-> FALSE]

-----------------------------------------------------------------------------
index_of(d) == disc[d].down

\* The children that a directory iterator yields, in order.
iterator(d) == disc[index_of(d)].children

names_on_disc(d) == {disc[iterator(d)[i]].name: i \in DOMAIN iterator(d)}

\* The iterator runs on from a full index into the page at next_index_address,
\* which is 0 for every index.
overruns(d) == Len(iterator(d)) = Children

Init ==
  /\ \E name \in Name:
        /\ disc = Formatted(name)
        /\ entries = [d \in {RootDirectory} |-> {name}]
  /\ first_free = 7
  /\ op = Idle
  /\ mode = "running"
  /\ nodes = [p \in {RootDirectory} |-> Created]

\* Bug: the next page is taken for free.
scan_unchecked(p) == IF p < LastPage THEN p + 1 ELSE 0

\* The first page behind p that is not in use, 0 if the disc ends before.
scan(p) ==
  LET free == {q \in p + 1 .. LastPage: ~disc[q].in_use}
  IN  IF free = {} THEN 0 ELSE CHOOSE q \in free: \A r \in free: q =< r

Calling == mode = "running" /\ op = Idle

Write(p, page) == disc' = [disc EXCEPT ![p] = page]

-----------------------------------------------------------------------------
\* list and lookup

child(d, n) == iterator(d)[CHOOSE i \in DOMAIN iterator(d):
                              /\ disc[iterator(d)[i]].name = n
                              /\ \A j \in 1 .. i - 1: disc[iterator(d)[j]].name # n]

list(d) ==
  \/ ~overruns(d) /\ UNCHANGED mode
  \/ overruns(d) /\ mode' \in {"running", "undefined"}

lookup(d, n) ==
  /\ Calling
  /\ d \in DOMAIN entries
  /\ n \in entries[d] \cap names_on_disc(d)
  /\ LET p == child(d, n) IN
       /\ p \notin DOMAIN nodes
       /\ nodes' = [q \in DOMAIN nodes \cup {p} |-> IF q = p THEN Loaded ELSE nodes[q]]
       /\ \/ /\ disc[p].type = "directory"
             /\ entries' = [e \in DOMAIN entries \cup {p} |->
                              IF e = p THEN names_on_disc(p) ELSE entries[e]]
             /\ list(p)
          \/ disc[p].type = "file" /\ UNCHANGED <<entries, mode>>
  /\ UNCHANGED <<disc, first_free, op>>

\* The last reference to a node goes: its parent's entry has none for it then.
free_node(p) ==
  /\ Calling
  /\ p \in DOMAIN nodes
  /\ nodes[p] = Loaded
  /\ \A q \in DOMAIN nodes: disc[q].parent # p
  /\ nodes' = [q \in DOMAIN nodes \ {p} |-> nodes[q]]
  /\ entries' = [d \in DOMAIN entries \ {p} |-> entries[d]]
  /\ UNCHANGED <<disc, first_free, op, mode>>

\* fs_remove: the name is gone at once, the file when its last reference goes.
remove(p) ==
  /\ Calling
  /\ p \in DOMAIN nodes
  /\ disc[p].type = "file"
  /\ ~nodes[p].deleted
  /\ nodes' = [nodes EXCEPT ![p].deleted = TRUE]
  /\ entries' = [entries EXCEPT ![disc[p].parent] = @ \ {disc[p].name}]
  /\ UNCHANGED <<disc, first_free, op, mode>>

-----------------------------------------------------------------------------
\* create: create_file or create_dir, the entry in memory, link_node

create(d, n, type) ==
  /\ Calling
  /\ d \in DOMAIN entries
  /\ n \notin entries[d]
  /\ op' = [kind |-> "create", step |-> IF scan(first_free) = 0 THEN "link" ELSE "node",
            dir |-> d, name |-> n, type |-> type,
            file |-> IF scan(first_free) = 0 THEN 0 ELSE first_free,
            data |-> scan(first_free)]
  /\ UNCHANGED <<disc, first_free, nodes, entries, mode>>

Creating(step) == mode = "running" /\ op.kind = "create" /\ op.step = step

CreateNode ==
  /\ Creating("node")
  /\ Write(op.file, Page(op.type, op.data))
  /\ op' = [op EXCEPT !.step = "data"]
  /\ UNCHANGED <<first_free, nodes, entries, mode>>

CreateData ==
  /\ Creating("data")
  /\ Write(op.data, Page(IF op.type = "file" THEN "data" ELSE "index", 0))
  /\ op' = [op EXCEPT !.step = "root"]
  /\ UNCHANGED <<first_free, nodes, entries, mode>>

\* Bug: first_free is the data page.
CreateRoot_behind ==
  /\ Creating("root")
  /\ first_free' = op.data
  /\ op' = [op EXCEPT !.step = "link"]
  /\ UNCHANGED <<disc, nodes, entries, mode>>

\* Bug: the search for a free page starts again when it has found none.
CreateRoot_again ==
  /\ Creating("root")
  /\ scan(op.data) # 0
  /\ first_free' = scan(op.data)
  /\ op' = [op EXCEPT !.step = "link"]
  /\ UNCHANGED <<disc, nodes, entries, mode>>

\* Without a free page behind the data page the call gives up, and returns 0.
CreateRoot ==
  /\ Creating("root")
  /\ \/ /\ scan(op.data) # 0
        /\ first_free' = scan(op.data)
        /\ op' = [op EXCEPT !.step = "link"]
     \/ /\ scan(op.data) = 0
        /\ op' = [op EXCEPT !.step = "link", !.file = 0]
        /\ UNCHANGED first_free
  /\ UNCHANGED <<disc, nodes, entries, mode>>

\* The directory entry in memory, whatever becomes of the link.
remember ==
  /\ nodes' = [p \in DOMAIN nodes \cup {op.file} |-> IF p = op.file THEN Created ELSE nodes[p]]
  /\ entries' = [d \in DOMAIN entries \cup (IF op.type = "directory" THEN {op.file} \ {0} ELSE {}) |->
                   IF d = op.dir THEN entries[d] \cup {op.name}
                   ELSE IF d = op.file THEN {} ELSE entries[d]]

\* Bug: the index is written before the page of the file.
LinkNode_late ==
  /\ Creating("link")
  /\ \/ /\ overruns(op.dir)
        /\ op' = Idle
        /\ UNCHANGED disc
     \/ /\ ~overruns(op.dir)
        /\ disc' = [disc EXCEPT ![index_of(op.dir)].children =
                                   IF op.file = 0 THEN @ ELSE Append(@, op.file)]
        /\ op' = [op EXCEPT !.step = "index"]
  /\ remember
  /\ UNCHANGED <<first_free, mode>>

\* The name goes to the page of the file first; a full index takes no more.
LinkNode ==
  /\ Creating("link")
  /\ \/ /\ overruns(op.dir)
        /\ op' = Idle
        /\ UNCHANGED disc
     \/ /\ ~overruns(op.dir)
        /\ Write(op.file, [disc[op.file] EXCEPT !.name = op.name, !.parent = op.dir])
        /\ op' = [op EXCEPT !.step = "index"]
  /\ remember
  /\ UNCHANGED <<first_free, mode>>

\* Writing a 0 into the index leaves it as it was.
LinkIndex ==
  /\ Creating("index")
  /\ Write(index_of(op.dir), [disc[index_of(op.dir)] EXCEPT
                                !.children = IF op.file = 0 THEN @ ELSE Append(@, op.file)])
  /\ op' = Idle
  /\ UNCHANGED <<first_free, nodes, entries, mode>>

-----------------------------------------------------------------------------
\* write_file

Writable(p) == p \in DOMAIN nodes /\ disc[p].type = "file"

\* An offset behind the first page is never reached: the call goes from page
\* to page, and to a new page after the last one, for ever.
write_file_beyond(p) ==
  /\ Calling
  /\ Writable(p)
  /\ op' = [kind |-> "write", step |-> "read", at |-> disc[p].down]
  /\ UNCHANGED <<disc, first_free, nodes, entries, mode>>

Writing(step) == mode = "running" /\ op.kind = "write" /\ op.step = step

\* alloc_page: the root page is written before the page is used.
WriteAlloc ==
  /\ Writing("read")
  /\ \/ /\ disc[op.at].next # 0
        /\ op' = [op EXCEPT !.at = disc[op.at].next]
        /\ UNCHANGED first_free
     \/ /\ disc[op.at].next = 0
        /\ \/ /\ scan(first_free) # 0
              /\ first_free' = scan(first_free)
              /\ op' = [kind |-> "write", step |-> "page", at |-> first_free]
           \/ /\ scan(first_free) = 0
              /\ op' = [kind |-> "write", step |-> "page", at |-> 0]
              /\ UNCHANGED first_free
  /\ UNCHANGED <<disc, nodes, entries, mode>>

\* The page before is not written again, so nothing leads to the new one.
WritePage ==
  /\ Writing("page")
  /\ Write(op.at, Page("data", 0))
  /\ op' = [op EXCEPT !.step = "read"]
  /\ UNCHANGED <<first_free, nodes, entries, mode>>

\* The boot sector read as a file is garbage.
UseBootSector ==
  /\ Calling
  /\ 0 \in DOMAIN nodes
  /\ mode' = "undefined"
  /\ UNCHANGED <<disc, first_free, nodes, entries, op>>

-----------------------------------------------------------------------------
\* delete_file, when the last reference to a removed file goes

delete(p) ==
  /\ Calling
  /\ p \in DOMAIN nodes
  /\ nodes[p].deleted /\ ~nodes[p].pinned
  /\ op' = [kind |-> "delete", step |-> "data", file |-> p, at |-> disc[p].down,
            first |-> first_free]
  /\ UNCHANGED <<disc, first_free, nodes, entries, mode>>

Deleting(step) == mode = "running" /\ op.kind = "delete" /\ op.step = step

Lower(a, b) == IF a < b THEN a ELSE b

DeleteData ==
  /\ Deleting("data")
  /\ Write(op.at, [disc[op.at] EXCEPT !.in_use = FALSE])
  /\ op' = [op EXCEPT !.at = disc[op.at].next,
                      !.step = IF disc[op.at].next = 0 THEN "index" ELSE "data",
                      !.first = Lower(@, op.at)]
  /\ UNCHANGED <<first_free, nodes, entries, mode>>

\* The page of the file is marked in memory only, and not written.
DeleteIndex ==
  /\ Deleting("index")
  /\ LET index == index_of(disc[op.file].parent) IN
       Write(index, [disc[index] EXCEPT !.children = SelectSeq(@, LAMBDA c: c # op.file)])
  /\ op' = [op EXCEPT !.step = "root", !.first = Lower(@, op.file)]
  /\ UNCHANGED <<first_free, nodes, entries, mode>>

DeleteRoot ==
  /\ Deleting("root")
  /\ first_free' = op.first
  /\ nodes' = [q \in DOMAIN nodes \ {op.file} |-> nodes[q]]
  /\ op' = Idle
  /\ UNCHANGED <<disc, entries, mode>>

-----------------------------------------------------------------------------
mount ==
  /\ nodes' = [p \in {RootDirectory} |-> Created]
  /\ entries' = [d \in {RootDirectory} |-> names_on_disc(RootDirectory)]

\* The machine is switched off, started again, and the disc mounted.
Crash ==
  /\ mode = "running"
  /\ op' = Idle
  /\ mount
  /\ IF op.kind = "delete" THEN mode' = "torn" ELSE list(RootDirectory)
  /\ UNCHANGED <<disc, first_free>>

\* Nothing is claimed of what follows: a file whose deletion was cut off has
\* lost its pages, another file may take them, and a second deletion free them.
Lost == mode # "running" /\ UNCHANGED vars

CallStep ==
  \/ CreateNode
  \/ CreateData
  \/ CreateRoot
  \/ LinkNode
  \/ LinkIndex
  \/ WriteAlloc
  \/ WritePage
  \/ DeleteData
  \/ DeleteIndex
  \/ DeleteRoot

Next ==
  \/ \E d \in DOMAIN entries, n \in Name:
        lookup(d, n) \/ create(d, n, "file") \/ create(d, n, "directory")
  \/ \E p \in DOMAIN nodes:
        free_node(p) \/ remove(p) \/ delete(p) \/ write_file_beyond(p)
  \/ CallStep
  \/ UseBootSector
  \/ Crash
  \/ Lost

Spec == Init /\ [][Next]_vars

\* The kernel goes on with the call it is in.
FairSpec == Spec /\ WF_vars(CallStep)

-----------------------------------------------------------------------------
\* Pages, nodes and entries have their types.
TypeOK ==
  /\ \A p \in 0 .. LastPage:
        /\ disc[p].in_use \in BOOLEAN
        /\ disc[p].type \in {"none", "root", "directory", "index", "file", "data"}
        /\ disc[p].name \in Name \cup {NoName}
        /\ {disc[p].parent, disc[p].down, disc[p].next} \subseteq 0 .. LastPage
        /\ Len(disc[p].children) =< Children
  /\ first_free \in 1 .. LastPage
  /\ DOMAIN entries \subseteq DOMAIN nodes
  /\ DOMAIN nodes \subseteq 0 .. LastPage
  /\ mode \in {"running", "torn", "undefined"}

\* The pages that a page leads to.
LeadsTo(p) ==
  IF disc[p].type = "index" THEN ToSet(disc[p].children)
  ELSE {disc[p].down, disc[p].next} \ {0}

\* The pages that a path leads to, from the root directory.
Reached ==
  LET within[n \in 0 .. LastPage] ==
        IF n = 0 THEN {RootDirectory}
        ELSE LET before == within[n - 1]
             IN  before \cup UNION {LeadsTo(p): p \in before}
  IN  within[LastPage]

\* The file that is being deleted, and is part of the tree no more.
Dying ==
  IF op.kind # "delete" THEN {}
  ELSE {op.file} \cup LeadsTo(op.file) \cup UNION {LeadsTo(p): p \in LeadsTo(op.file)}

\* What a directory lists is complete: a page has its name and the page below
\* it, and both are marked as in use.
EntriesComplete ==
  \A p \in Reached \ Dying:
     /\ disc[p].in_use
     /\ disc[p].type = "index" =>
          \A c \in ToSet(disc[p].children) \ Dying:
             /\ disc[c].name \in Name
             /\ disc[index_of(disc[c].parent)] = disc[p]
             /\ disc[disc[c].down].type = (IF disc[c].type = "file" THEN "data" ELSE "index")

\* No page is part of two files or directories.
PagesExclusive == \A p, q \in Reached: p # q => LeadsTo(p) \cap LeadsTo(q) = {}

\* The tree on the disc is sound after every sequence of creations, writes,
\* deletions and crashes at any of their disc writes, but for a crash in the
\* middle of a deletion: what a directory lists is complete, and no page is part
\* of two files.
TreeSound == TypeOK /\ (mode = "running" => EntriesComplete /\ PagesExclusive)

\* The page that the next call will take is part of nothing: not of the tree,
\* and not of a file that is open although it was removed.
FirstFreeIsFree ==
  Calling =>
     first_free \notin Reached \cup {p \in DOMAIN nodes: p # 0}
                       \cup UNION {LeadsTo(p): p \in DOMAIN nodes \ {0}}

\* A creation and a deletion return, also on a full disc: the search for a free
\* page and the walks over the pages of a file end.
CallReturns == (op.kind \in {"create", "delete"}) ~> (op = Idle)
=============================================================================

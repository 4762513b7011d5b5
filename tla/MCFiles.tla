-------------------------------- MODULE MCFiles --------------------------------
(***************************************************************************)
(* The filesystem in memory (Vfs), with the calls of one process and with   *)
(* two processes that fork, and the bytes of one file (OpenFile).  Vfs knows *)
(* files by name and count of references, OpenFile one of them by its bytes: *)
(* neither reads what the other holds, so that a behaviour is about one of   *)
(* them, chosen in the first state.                                          *)
(***************************************************************************)
EXTENDS Integers, Sequences, TLC

CONSTANTS
  n1,       \* a name
  p1, p2,   \* processes
  f1, f2    \* open files of one file

VARIABLES
  which,                                                      \* "calls", "forks" or "bytes"
  ent, tree, process,                                         \* Vfs
  fs, pages, options, offset, regular, wanted, start, got,    \* OpenFile
  mode                                                        \* both

bytes_vars == <<fs, pages, options, offset, regular, wanted, start, got>>
vars == <<which, ent, tree, process, bytes_vars, mode>>

Calls == INSTANCE Vfs WITH
  Name <- {n1}, Process <- {p1}, First <- p1, MaxFd <- 1, MaxReferences <- 4, MaxSlack <- 2,
  RootReferences <- 2, LastEntry <- 3, LastFile <- 3

Forks == INSTANCE Vfs WITH
  Name <- {n1}, Process <- {p1, p2}, First <- p1, MaxFd <- 0, MaxReferences <- 3, MaxSlack <- 1,
  RootReferences <- 2, LastEntry <- 3, LastFile <- 3

File == INSTANCE OpenFile WITH
  File <- {f1, f2}, PageSize <- 3, HeapMax <- 3, Word <- 6, MaxSize <- 2

ASSUME Constants == Calls!VfsAssumption /\ Forks!VfsAssumption /\ File!OpenFileAssumption

\* The two open files are alike.
Symmetry == Permutations({f1, f2})

Unused == "unused"

Init ==
  \/ /\ \/ which = "calls" /\ Calls!Init
        \/ which = "forks" /\ Forks!Init
     /\ fs = Unused /\ pages = Unused /\ options = Unused /\ offset = Unused
     /\ regular = Unused /\ wanted = Unused /\ start = Unused /\ got = Unused
  \/ /\ which = "bytes" /\ File!Init
     /\ ent = Unused /\ tree = Unused /\ process = Unused

Next ==
  \/ which = "calls" /\ Calls!Next /\ UNCHANGED <<which, bytes_vars>>
  \/ which = "forks" /\ Forks!Next /\ UNCHANGED <<which, bytes_vars>>
  \/ which = "bytes" /\ File!Next /\ UNCHANGED <<which, ent, tree, process>>

Spec == Init /\ [][Next]_vars

-----------------------------------------------------------------------------
\* Every reference that a directory entry counts is held by an open file, a
\* working directory or an entry below it, but for those that the kernel is known
\* to keep for good or to hand out uncounted: no other call loses or repeats one,
\* whatever the order of opens, copies, forks, removals and exits.
ReferencesExact ==
  /\ which = "calls" => Calls!TypeOK /\ Calls!ReferencesExact
  /\ which = "forks" => Forks!TypeOK /\ Forks!ReferencesExact




=============================================================================

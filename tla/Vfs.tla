---------------------------------- MODULE Vfs ----------------------------------
(***************************************************************************)
(* The virtual filesystem in memory: directory entries and their reference *)
(* counts, the file tables and working directories of processes, and the    *)
(* system calls that go from one to the other.                               *)
(*                                                                         *)
(* A system call is not preempted here, so it is one action.  A call works  *)
(* on a record S of the entries, the files on the disc and the mode, which  *)
(* the operators below take and return.  The kernel hands out some           *)
(* references without counting them and keeps some for good: "slack" says,  *)
(* for every entry, how many more references it counts than someone holds.   *)
(***************************************************************************)
EXTENDS Integers, Sequences, FiniteSets, SequencesExt, TLC

CONSTANTS
  Name, Process,
  First,            \* the process that the kernel starts
  MaxFd,            \* descriptors are 0 .. MaxFd
  MaxReferences,    \* a bound on every reference count
  MaxSlack,         \* a bound on the references that are kept for good
  RootReferences,   \* the references of fs_root when the first process starts
  LastEntry,        \* at most so many entries besides fs_root
  LastFile          \* at most so many files and directories on the disc

VfsAssumption ==
  /\ First \in Process
  /\ MaxFd \in Nat
  /\ {MaxSlack, MaxReferences, RootReferences, LastEntry, LastFile} \subseteq Nat \ {0}

VARIABLES
  ent,        \* live directory entries, by address
  tree,       \* the files on the disc: type, directory, name
  mode,       \* "running", or why the kernel does not go on
  process     \* alive, working_dir and files

vars == <<ent, tree, mode, process>>

Root == 0     \* fs_root; also the number of the root directory on the disc
Nil == -1
Up == ".."

Fd == 0 .. MaxFd
Entry(S) == DOMAIN S.ent
State == [ent |-> ent, tree |-> tree, mode |-> mode]

Least(s) == CHOOSE x \in s: \A y \in s: x =< y

\* The same function with another value, for a new or an old argument.
With(f, x, v) == [y \in DOMAIN f \cup {x} |-> IF y = x THEN v ELSE f[y]]
Without(f, x) == [y \in DOMAIN f \ {x} |-> f[y]]

Fail(S, why) == [S EXCEPT !.mode = IF @ = "running" THEN why ELSE @]

names_on_disc(t, file) == {t[i].name: i \in {j \in DOMAIN t: t[j].dir = file}}

\* A directory entry as fs_directory_entry_create and list leave it.
entry_create(S, file, type, parent, name) ==
  [file |-> file, type |-> type, parent |-> parent, name |-> name,
   references |-> 1, slack |-> 0, delete |-> FALSE,
   children |-> [n \in (IF type = "directory" THEN names_on_disc(S.tree, file) ELSE {}) |-> Nil]]

Init ==
  LET a == CHOOSE n \in Name: TRUE
      t == (1 :> [type |-> "directory", dir |-> Root, name |-> a])
             @@ (2 :> [type |-> "file", dir |-> 1, name |-> a])
  IN  /\ tree = t
      /\ mode = "running"
      /\ ent = (Root :> [entry_create([tree |-> t], Root, "directory", Nil, a) EXCEPT
                           !.references = RootReferences,
                           !.slack = RootReferences - 1])
      /\ process = [p \in Process |-> [alive |-> p = First, working_dir |-> Root,
                                       files |-> [fd \in Fd |-> Nil]]]

-----------------------------------------------------------------------------
\* References

add_reference(S, d) == [S EXCEPT !.ent[d].references = @ + 1]
Slack(S, d, n) == IF d \in Entry(S) THEN [S EXCEPT !.ent[d].slack = @ + n] ELSE S

\* Bug: the entry in the directory keeps the address of the freed entry.
forget_not(S, d) == S

\* The directory has the name, but no entry for it any more.
forget(S, d) ==
  [S EXCEPT !.ent[S.ent[d].parent].children[S.ent[d].name] = Nil]

\* fs_node_release: the node of an entry has one reference, from the entry.
node_release(S, d) ==
  IF S.ent[d].type = "pipe" THEN Fail(S, "null")
  ELSE IF S.ent[d].delete THEN [S EXCEPT !.tree = Without(@, S.ent[d].file)]
  ELSE S

RECURSIVE release(_, _)

\* The last reference: the directory is released, the node, and the entry.
\* Nothing is claimed after an entry is freed that someone still refers to.
release(S, d) ==
  IF S.mode # "running" THEN S
  ELSE IF S.ent[d].references > 1 THEN [S EXCEPT !.ent[d].references = @ - 1]
  ELSE IF d = Root \/ S.ent[d].slack < 0 THEN Fail(S, "overdrawn")
  ELSE LET parent == S.ent[d].parent
           up == IF parent = Nil THEN S ELSE release(forget(S, d), parent)
           done == node_release(up, d)
       IN  IF done.mode # "running" THEN done
           ELSE [done EXCEPT !.ent = Without(@, d)]

-----------------------------------------------------------------------------
\* Paths

Fresh(S) == Least(1 .. LastEntry + 2 \ Entry(S))

\* Bug: an entry is looked up again each time.
node_enter_again(S, d, n) ==
  LET new == Fresh(S)
      file == CHOOSE i \in DOMAIN S.tree: S.tree[i].dir = S.ent[d].file /\ S.tree[i].name = n
      loaded == entry_create(S, file, S.tree[file].type, d, n)
      T == [add_reference(S, d) EXCEPT !.ent = With(@, new, loaded)]
  IN  [s |-> [T EXCEPT !.ent[d].children[n] = new], at |-> new]

\* Bug: a directory is not kept while an entry of it is in memory.
node_enter_uncounted(S, d, n) ==
  IF S.ent[d].children[n] # Nil
  THEN [s |-> add_reference(S, S.ent[d].children[n]), at |-> S.ent[d].children[n]]
  ELSE LET new == Fresh(S)
           file == CHOOSE i \in DOMAIN S.tree:
                      S.tree[i].dir = S.ent[d].file /\ S.tree[i].name = n
           loaded == entry_create(S, file, S.tree[file].type, d, n)
           T == [S EXCEPT !.ent = With(@, new, loaded)]
       IN  [s |-> [T EXCEPT !.ent[d].children[n] = new], at |-> new]

\* fs_directory_node_enter: the entry in memory, or one made by lookup and list.
node_enter(S, d, n) ==
  IF S.ent[d].children[n] # Nil
  THEN [s |-> add_reference(S, S.ent[d].children[n]), at |-> S.ent[d].children[n]]
  ELSE LET new == Fresh(S)
           file == CHOOSE i \in DOMAIN S.tree:
                      S.tree[i].dir = S.ent[d].file /\ S.tree[i].name = n
           loaded == entry_create(S, file, S.tree[file].type, d, n)
           T == [add_reference(S, d) EXCEPT !.ent = With(@, new, loaded)]
       IN  [s |-> [T EXCEPT !.ent[d].children[n] = new], at |-> new]

enter(S, d, n) ==
  IF n \in DOMAIN S.ent[d].children THEN node_enter(S, d, n) ELSE [s |-> S, at |-> Nil]

\* One segment of a path; make_path does not count the reference to a parent.
step(S, cur, segment, counted) ==
  IF segment = Up
  THEN LET parent == S.ent[cur].parent IN
       IF parent = Nil THEN [s |-> S, at |-> cur]
       ELSE [s |-> release(IF counted THEN add_reference(S, parent) ELSE Slack(S, parent, -1), cur),
             at |-> parent]
  ELSE LET r == enter(S, cur, segment) IN [s |-> release(r.s, cur), at |-> r.at]

RECURSIVE walk(_, _, _, _)
walk(S, cur, segments, counted) ==
  IF segments = <<>> \/ cur = Nil \/ S.mode # "running" THEN [s |-> S, at |-> cur]
  ELSE LET r == step(S, cur, Head(segments), counted)
       IN  walk(r.s, r.at, Tail(segments), counted)

fs_open_path(S, root, segments) == walk(add_reference(S, root), root, segments, TRUE)

\* fs_make: create on an existing name dereferences NULL, and in a file it
\* takes the data for an index.  The new entry has a reference for the caller
\* and one that nobody gives back.
fs_make(S, d, n, type) ==
  IF n \in DOMAIN S.ent[d].children THEN [s |-> Fail(S, "null"), at |-> Nil]
  ELSE IF S.ent[d].type # "directory" THEN [s |-> Fail(S, "garbage"), at |-> Nil]
  ELSE LET new == Fresh(S)
           file == Least(1 .. LastFile + 1 \ DOMAIN S.tree)
           made == [entry_create(S, file, type, d, n) EXCEPT !.references = 2, !.slack = 1]
           T == [add_reference(S, d) EXCEPT
                   !.ent = With(@, new, made),
                   !.tree = With(@, file, [type |-> type, dir |-> S.ent[d].file, name |-> n])]
       IN  [s |-> [T EXCEPT !.ent[d].children = With(@, n, new)], at |-> new]

\* All segments but the last are walked, and the last one is made.
fs_make_path(S, root, segments, type) ==
  LET r == walk(add_reference(S, root), root, Front(segments), FALSE)
      m == fs_make(r.s, r.at, Last(segments), type)
  IN  IF r.at = Nil \/ r.s.mode # "running" THEN r
      ELSE [s |-> release(m.s, r.at), at |-> m.at]

Path ==
  {<<n>>: n \in Name} \cup {<<n, m>>: n, m \in Name} \cup {<<Up, n>>: n \in Name}
    \cup {<<n, Up>>: n \in Name} \cup {<<Up>>}

\* Both together do nothing that one of them does not.
Options == {{}, {"O_CREAT"}, {"O_WR"}}

Base(p) == {Root, process[p].working_dir}

-----------------------------------------------------------------------------
\* Files

files(p) == process[p].files
FreeFd(p) == {fd \in Fd: files(p)[fd] = Nil}

Commit(S) == ent' = S.ent /\ tree' = S.tree /\ mode' = S.mode

SetFile(p, fd, d) == process' = [process EXCEPT ![p].files[fd] = d]

\* file_table_set: what the descriptor was open on is closed.
file_table_set(S, p, fd) ==
  IF files(p)[fd] = Nil THEN S ELSE release(S, files(p)[fd])

\* file_init refuses to write to a directory, and the reference is kept.
Refused(d, S, wr) == wr /\ S.ent[d].type = "directory"

\* The reference that the call leaves in the file: none for "/".
Opened(p, r, fd, wr, counted) ==
  IF Refused(r.at, r.s, wr)
  THEN Commit(IF counted THEN Slack(r.s, r.at, 1) ELSE r.s) /\ UNCHANGED process
  ELSE /\ Commit(file_table_set(IF counted THEN r.s ELSE Slack(r.s, r.at, -1), p, fd))
       /\ SetFile(p, fd, r.at)

Running(p) == mode = "running" /\ process[p].alive

\* syscall_open and syscall_openat, of a path; a name that cannot be made is
\* opened all the same.
syscall_open(p, path, fd, options) ==
  /\ Running(p)
  /\ \E root \in Base(p):
       LET found == fs_open_path(State, root, path)
           made == fs_make_path(found.s, root, path, "file")
           creat == "O_CREAT" \in options
           r == IF found.at = Nil /\ creat THEN made ELSE found
       IN  /\ Last(path) = Up => ~creat
           /\ IF r.s.mode # "running" THEN Commit(r.s) /\ UNCHANGED process
              ELSE IF r.at # Nil THEN Opened(p, r, fd, "O_WR" \in options, TRUE)
              ELSE Commit(IF creat THEN Fail(r.s, "null") ELSE r.s) /\ UNCHANGED process

\* The path "/" is fs_root itself.
syscall_open_root(p, fd, wr) ==
  /\ Running(p)
  /\ Opened(p, [s |-> State, at |-> Root], fd, wr, FALSE)

syscall_close(p, fd) ==
  /\ Running(p)
  /\ files(p)[fd] # Nil
  /\ Commit(release(State, files(p)[fd]))
  /\ SetFile(p, fd, Nil)


syscall_dup(p, dst, src) ==
  /\ Running(p)
  /\ files(p)[src] # Nil
  /\ Commit(file_table_set(add_reference(State, files(p)[src]), p, dst))
  /\ SetFile(p, dst, files(p)[src])

\* Two descriptors, and one reference.
syscall_pipe(p) ==
  /\ Running(p)
  /\ Cardinality(FreeFd(p)) > 1
  /\ LET new == Fresh(State)
         pipe == [entry_create(State, Nil, "pipe", Nil, Nil) EXCEPT !.slack = -1]
         w == Least(FreeFd(p))
         r == Least(FreeFd(p) \ {w})
     IN  /\ Commit([State EXCEPT !.ent = With(@, new, pipe)])
         /\ process' = [process EXCEPT ![p].files[w] = new, ![p].files[r] = new]

-----------------------------------------------------------------------------
\* Directories

syscall_chdir(p, path) ==
  /\ Running(p)
  /\ \E root \in Base(p):
       LET r == fs_open_path(State, root, path)
       IN  IF r.s.mode # "running" \/ r.at = Nil THEN Commit(r.s) /\ UNCHANGED process
           ELSE IF r.s.ent[r.at].type # "directory"
           THEN Commit(release(r.s, r.at)) /\ UNCHANGED process
           ELSE /\ Commit(release(r.s, process[p].working_dir))
                /\ process' = [process EXCEPT ![p].working_dir = r.at]

syscall_chdir_root(p) ==
  /\ Running(p)
  /\ Commit(release(Slack(State, Root, -1), process[p].working_dir))
  /\ process' = [process EXCEPT ![p].working_dir = Root]

syscall_mkdir(p, path) ==
  /\ Running(p)
  /\ Last(path) # Up
  /\ \E root \in Base(p):
       LET r == fs_make_path(State, root, path, "directory")
       IN  Commit(IF r.at = Nil THEN r.s ELSE release(r.s, r.at))
  /\ UNCHANGED process

\* fs_root is released, although nothing was referenced.
syscall_mkdir_root(p) ==
  /\ Running(p)
  /\ Commit(release(Slack(State, Root, -1), Root))
  /\ UNCHANGED process


\* fs_remove of a file: the name goes at once, without the reference that the
\* entry has to the directory.
fs_remove(S, d) ==
  LET parent == S.ent[d].parent
  IN  release([Slack(S, parent, 1) EXCEPT
                  !.ent[parent].children = Without(@, S.ent[d].name),
                  !.ent[d] = [@ EXCEPT !.delete = TRUE, !.parent = Nil]], d)

syscall_remove(p, path) ==
  /\ Running(p)
  /\ \E root \in Base(p):
       LET r == fs_open_path(State, root, path)
       IN  Commit(IF r.s.mode # "running" \/ r.at = Nil THEN r.s
                  ELSE IF r.s.ent[r.at].type = "directory" THEN Slack(r.s, r.at, 1)
                  ELSE fs_remove(r.s, r.at))
  /\ UNCHANGED process

\* file_readdir: an entry of the directory is entered for its type, and left.
syscall_readdir(p, fd, n) ==
  /\ Running(p)
  /\ files(p)[fd] # Nil
  /\ ent[files(p)[fd]].type = "directory"
  /\ n \in DOMAIN ent[files(p)[fd]].children
  /\ LET r == node_enter(State, files(p)[fd], n) IN Commit(release(r.s, r.at))
  /\ UNCHANGED process

-----------------------------------------------------------------------------
\* Processes

RECURSIVE releases(_, _), references(_, _)
releases(S, ds) == IF ds = <<>> \/ S.mode # "running" THEN S
                   ELSE releases(release(S, Head(ds)), Tail(ds))
references(S, ds) == IF ds = <<>> THEN S ELSE references(add_reference(S, Head(ds)), Tail(ds))

\* The entries of the files of a process, in the order of the descriptors.
OpenOf(p) == SelectSeq([i \in 1 .. MaxFd + 1 |-> files(p)[i - 1]], LAMBDA d: d # Nil)

\* Bug: the child shares the working directory without a reference.
process_fork_shared(parent, child) ==
  /\ Running(parent)
  /\ ~process[child].alive
  /\ Commit(references(State, OpenOf(parent)))
  /\ process' = [process EXCEPT ![child] = process[parent]]

\* file_table_clone, and the working directory.
process_fork(parent, child) ==
  /\ Running(parent)
  /\ ~process[child].alive
  /\ Commit(references(State, Append(OpenOf(parent), process[parent].working_dir)))
  /\ process' = [process EXCEPT ![child] = process[parent]]

process_free(p) ==
  /\ Running(p)
  /\ Commit(releases(State, Append(OpenOf(p), process[p].working_dir)))
  /\ process' = [process EXCEPT ![p] = [alive |-> FALSE, working_dir |-> Root,
                                        files |-> [fd \in Fd |-> Nil]]]

Live == {p \in Process: process[p].alive}

Stopped == (mode # "running" \/ Live = {}) /\ UNCHANGED vars

\* The bounds of the model.
Bounded ==
  /\ DOMAIN ent' \subseteq 0 .. LastEntry
  /\ DOMAIN tree' \subseteq 1 .. LastFile
  /\ \A d \in DOMAIN ent': ent'[d].references =< MaxReferences /\ ent'[d].slack =< MaxSlack

Call(p) ==
  \/ \E path \in Path:
        \/ \E fd \in Fd, options \in Options: syscall_open(p, path, fd, options)
        \/ syscall_chdir(p, path)
        \/ syscall_mkdir(p, path)
        \/ syscall_remove(p, path)
  \/ \E fd \in Fd, wr \in BOOLEAN: syscall_open_root(p, fd, wr)
  \/ \E fd \in Fd: syscall_close(p, fd)
  \/ \E dst, src \in Fd: syscall_dup(p, dst, src)
  \/ \E fd \in Fd, n \in Name: syscall_readdir(p, fd, n)
  \/ syscall_pipe(p)
  \/ syscall_chdir_root(p)
  \/ syscall_mkdir_root(p)
  \/ \E child \in Process: process_fork(p, child)
  \/ process_free(p)

Next ==
  \/ \E p \in Process: Call(p) /\ Bounded
  \/ Stopped

Spec == Init /\ [][Next]_vars

-----------------------------------------------------------------------------
\* Entries, names and descriptors have their types.
TypeOK ==
  /\ \A d \in DOMAIN ent:
        /\ ent[d].type \in {"directory", "file", "pipe"}
        /\ ent[d].references \in 0 .. MaxReferences
        /\ DOMAIN ent[d].children \subseteq Name
        /\ ent[d].type # "directory" => DOMAIN ent[d].children = {}
  /\ \A i \in DOMAIN tree: tree[i].dir \in DOMAIN tree \cup {Root}
  /\ mode \in {"running", "null", "garbage", "overdrawn"}

\* Who refers to an entry: open files, working directories, and the entries of
\* a directory that are in memory.
Holders(d) ==
  Cardinality({<<p, fd>> \in Live \X Fd: files(p)[fd] = d})
    + Cardinality({p \in Live: process[p].working_dir = d})
    + Cardinality({c \in DOMAIN ent: ent[c].parent = d})

\* Every reference that an entry counts is held by an open file, a working
\* directory or an entry below it, but for those that the kernel is known to
\* keep for good or to hand out uncounted: no other call loses or repeats one,
\* whatever the order of opens, copies, forks, removals and exits.
ReferencesExact ==
  mode = "running" => \A d \in DOMAIN ent: ent[d].references = Holders(d) + ent[d].slack


\* There is one entry in memory for a file on the disc, so that everyone who
\* opens it sees the same node; a name that was removed does not come back
\* while the file is open.
OneEntryPerFile ==
  mode = "running" => \A d, e \in DOMAIN ent:
     d # e /\ ent[d].type # "pipe" => ent[d].file # ent[e].file

\* A file is deleted from the disc only after its name was removed and nobody
\* has it open.
DeletesUnused ==
  \A i \in DOMAIN tree \ DOMAIN tree':
     /\ \A d \in DOMAIN ent': ent'[d].file # i
     /\ tree[i].type = "file"
=============================================================================

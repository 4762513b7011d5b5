----------------------------- MODULE PageManager -----------------------------
(***************************************************************************)
(* Memory of user processes: src/paging/manager.c with its callers in      *)
(* src/process, src/prog_loader and the system calls.                      *)
(*                                                                         *)
(* Memory belongs to root mappings, kept in the kernel's context and       *)
(* counted.  A process sees a root through a SHARED mapping, or, after a   *)
(* fork, through a BORROWED one that is never writable: the first write    *)
(* faults, and pman_context_prepare_write gives the process memory of its  *)
(* own.                                                                    *)
(*                                                                         *)
(* The kernel runs with interrupts off, so nothing happens between the     *)
(* iterations of a loop over mappings, each of which is a step here.       *)
(* Mappings have one page.  A mapping is its fields: what its list adds is *)
(* an order, which matters only to mappings that overlap.                  *)
(***************************************************************************)
EXTENDS Naturals, FiniteSets, Sequences

CONSTANTS
    Process,     \* process_t objects
    init,        \* init_process of main.c
    Root,        \* bound: root mappings, numbered as the page bitmap finds them
    Segment,     \* the page that programs are loaded to
    Value,       \* contents of a page
    MaxThreads,  \* bound: threads of a process
    MaxReads,    \* bound: reads in progress
    Absent

\* The executable of the kernel: mapped in every process, above all else.
KernelRoot == 0
KernelStart == Segment + 1

\* Pages of a process. Page 0 is also the address NULL.
Vaddr == 0 .. KernelStart

ASSUME PageAssumption ==
    /\ init \in Process /\ IsFiniteSet(Process)
    /\ Segment \in Nat \ {0}
    /\ Root \subseteq Nat \ {0}
    /\ {1, 2} \subseteq Root
    /\ MaxThreads \in Nat /\ MaxReads \in Nat
    /\ Absent \notin [root : Root \cup {KernelRoot}, write : BOOLEAN]

\* EXECUTE is left out: it changes nothing that is modelled.
Flag == {"WRITE", "SHARED"}

Mapping == [context : Process, type : {"BORROWED", "SHARED"},
            protection : SUBSET Flag, vaddr : Vaddr,
            lender : Root \cup {KernelRoot}]

VARIABLES
    mem,     \* what the memory of the kernel holds, see boot
    kernel,  \* the loop over mappings that the kernel is in
    buffer   \* the root that a blocked read of the process will store to

vars == <<mem, kernel, buffer>>

User == [op |-> "user"]
Forking(p, c, left) == [op |-> "fork", parent |-> p, child |-> c, left |-> left]
Freeing(p) == [op |-> "free", process |-> p]

mappings_of(m, p) == {x \in m.mappings : x.context = p}

-----------------------------------------------------------------------------
(* Virtual addresses and page tables.                                      *)

\* valloc_alloc returns the first free page; valloc_reserve the page asked
\* for, or NULL when it is taken.
valloc(m, p, vaddr) ==
    IF vaddr = 0
    THEN CHOOSE s \in Vaddr \ m.reserved[p] :
            \A t \in Vaddr \ m.reserved[p] : s <= t
    ELSE IF vaddr \in m.reserved[p] THEN 0 ELSE vaddr

valloc_taken(m, p, vaddr) ==
    IF vaddr \in m.reserved[p] /\ vaddr # 0
    THEN m.reserved[p]
    ELSE m.reserved[p] \cup {valloc(m, p, vaddr)}

\* bound: valloc_alloc finds a page below the program
roomy(m, p) == \E s \in 0 .. Segment - 1 : s \notin m.reserved[p]

-----------------------------------------------------------------------------
(* Mappings.  An operator maps the memory before a call to the one after.  *)

\* bound: a root is left
root_left(m) == \E r \in Root : m.references[r] = 0

free_root(m) ==
    CHOOSE r \in Root : /\ m.references[r] = 0
                        /\ \A q \in Root : m.references[q] = 0 => r <= q

\* Pages of the physical allocator keep what their last owner left in them.
pman_context_add_alloc(m) == [m EXCEPT !.references[free_root(m)] = 1]

pman_add_reference(m, r) == [m EXCEPT !.references[r] = @ + 1]

pman_context_unmap_root(m, r) == [m EXCEPT !.references[r] = @ - 1]

\* The mapping that an add returns.
added(m, type, p, prot, r, vaddr) ==
    [context |-> p, type |-> type, protection |-> prot,
     vaddr |-> valloc(m, p, vaddr), lender |-> r]

\* paging_map_ex stops the core at a page that is present already.
add_mapping(m, x, taken) ==
    IF m.table[x.context][x.vaddr] # Absent
    THEN [m EXCEPT !.halted = TRUE]
    ELSE [m EXCEPT
            !.references[x.lender] = @ + 1,
            !.reserved[x.context] = taken,
            !.table[x.context][x.vaddr] =
                [root |-> x.lender,
                 write |-> x.type = "SHARED" /\ "WRITE" \in x.protection],
            !.mappings = @ \cup {x}]

pman_context_add_borrowed(m, p, prot, r, vaddr) ==
    add_mapping(m, added(m, "BORROWED", p, prot, r, vaddr), valloc_taken(m, p, vaddr))

pman_context_add_shared(m, p, prot, r, vaddr) ==
    add_mapping(m, added(m, "SHARED", p, prot, r, vaddr), valloc_taken(m, p, vaddr))

\* Mutant: the page table keeps the entry.
pman_context_unmap_entry(m, x) ==
    [pman_context_unmap_root(m, x.lender) EXCEPT
        !.mappings = @ \ {x},
        !.reserved[x.context] = @ \ {x.vaddr}]

pman_context_unmap(m, x) ==
    [pman_context_unmap_root(m, x.lender) EXCEPT
        !.mappings = @ \ {x},
        !.reserved[x.context] = @ \ {x.vaddr},
        !.table[x.context][x.vaddr] = Absent]

process_remap(m, p, old, new) ==
    [m EXCEPT !.stack_mapping[p] =
        [i \in DOMAIN @ |-> IF @[i] = old THEN new ELSE @[i]]]

\* New memory: allocated in the kernel, shared with the process, and left to
\* the process alone.
process_create_segment(m, p, vaddr, prot) ==
    LET r == free_root(m)
    IN  pman_context_unmap_root(
            pman_context_add_shared(pman_context_add_alloc(m), p, prot, r, vaddr), r)

\* Mutant: the kernel keeps its reference.
replace_leak(m, x, r) ==
    pman_context_add_shared(pman_context_unmap(m, x),
                            x.context, x.protection, r, x.vaddr)

\* Mapping x is replaced by a SHARED one of root r, on which the kernel holds
\* a reference in the meantime.
replace(m, x, r) ==
    pman_context_unmap_root(
        pman_context_add_shared(pman_context_unmap(m, x),
                                x.context, x.protection, r, x.vaddr), r)

replaced(m, x, r) ==
    added(pman_context_unmap(m, x), "SHARED", x.context, x.protection, r, x.vaddr)

\* A new root with the contents of root r.
copy(m, r) ==
    [pman_context_add_alloc(m) EXCEPT !.contents[free_root(m)] = m.contents[r]]

\* Mutant: one more process may borrow the root.
pman_context_prepare_write_two(m, x) ==
    LET alone == m.references[x.lender] <= 2
        r == IF alone THEN x.lender ELSE free_root(m)
        held == IF alone THEN pman_add_reference(m, r) ELSE copy(m, x.lender)
    IN  IF x.type = "BORROWED"
        THEN process_remap(replace(held, x, r), x.context, x, replaced(held, x, r))
        ELSE m

\* Mutant: a root of a single borrower is left as it is.
pman_context_prepare_write_alone(m, x) ==
    IF x.type = "BORROWED" /\ m.references[x.lender] # 1
    THEN process_remap(replace(copy(m, x.lender), x, free_root(m)), x.context, x,
                       replaced(copy(m, x.lender), x, free_root(m)))
    ELSE m

pman_context_prepare_write(m, x) ==
    LET alone == m.references[x.lender] = 1
        r == IF alone THEN x.lender ELSE free_root(m)
        held == IF alone THEN pman_add_reference(m, r) ELSE copy(m, x.lender)
    IN  IF x.type = "BORROWED"
        THEN process_remap(replace(held, x, r), x.context, x, replaced(held, x, r))
        ELSE m

\* The stack mappings of threads are not told.
pman_context_resize(m, x) ==
    IF x.type = "BORROWED"
    THEN replace(copy(m, x.lender), x, free_root(m))
    ELSE [m EXCEPT !.halted = TRUE]

-----------------------------------------------------------------------------
(* Initially init has a stack and a program.                               *)

boot ==
    [alive |-> {init},
     mappings |-> {},
     reserved |-> [p \in Process |-> {}],
     table |-> [p \in Process |-> [s \in Vaddr |-> Absent]],
     references |-> [r \in Root \cup {KernelRoot} |-> IF r = KernelRoot THEN 1 ELSE 0],
     contents |-> [r \in Root |-> CHOOSE v \in Value : TRUE],
     stack_mapping |-> [p \in Process |-> <<>>],
     halted |-> FALSE]

thread_create_user(m, p) ==
    [process_create_segment(m, p, 0, {"WRITE"}) EXCEPT
        !.stack_mapping[p] =
            Append(@, added(m, "SHARED", p, {"WRITE"}, free_root(m), 0))]

Init ==
    /\ mem = process_create_segment(
                thread_create_user(
                    pman_context_add_shared(boot, init, {"SHARED"}, KernelRoot, KernelStart),
                    init),
                init, Segment, {"WRITE"})
    /\ kernel = User
    /\ buffer = [p \in Process |-> Absent]

\* A thread of p runs, in user mode.  One that reads does not.
runs(p) ==
    /\ kernel = User /\ ~ mem.halted /\ p \in mem.alive
    /\ buffer[p] # Absent => Len(mem.stack_mapping[p]) > 1

SyscallMap(p, vaddr, prot) ==
    /\ runs(p)
    /\ root_left(mem) /\ (vaddr = 0 => roomy(mem, p))
    /\ mem' = process_create_segment(mem, p, vaddr, prot)
    /\ UNCHANGED <<kernel, buffer>>

SyscallThread(p) ==
    /\ runs(p)
    /\ root_left(mem) /\ roomy(mem, p)
    /\ Len(mem.stack_mapping[p]) < MaxThreads
    /\ mem' = thread_create_user(mem, p)
    /\ UNCHANGED <<kernel, buffer>>

-----------------------------------------------------------------------------
(* Fork: one step for each mapping of the parent.                          *)

SyscallFork(p, c) ==
    /\ runs(p)
    /\ c \notin mem.alive
    /\ mem' = [mem EXCEPT !.alive = @ \cup {c}]
    /\ kernel' = Forking(p, c, mappings_of(mem, p))
    /\ UNCHANGED buffer

\* Mutant: the parent keeps its own mapping.
fork_mapping_oneway(m, p, c, x) ==
    pman_context_add_borrowed(m, c, x.protection, x.lender, x.vaddr)

\* Mutant: the threads of the parent are not told.
fork_mapping_untold(m, p, c, x) ==
    LET lent == pman_context_unmap(
                    pman_context_add_borrowed(m, c, x.protection, x.lender, x.vaddr), x)
    IN  IF "SHARED" \in x.protection
        THEN pman_context_add_shared(m, c, x.protection, x.lender, x.vaddr)
        ELSE pman_context_add_borrowed(lent, p, x.protection, x.lender, x.vaddr)


\* Mutant: memory that is not writable is not lent.
fork_mapping_writable(m, p, c, x) ==
    LET lent == pman_context_unmap(
                    pman_context_add_borrowed(m, c, x.protection, x.lender, x.vaddr), x)
    IN  IF "SHARED" \in x.protection
        THEN pman_context_add_shared(m, c, x.protection, x.lender, x.vaddr)
        ELSE IF "WRITE" \in x.protection
        THEN process_remap(
                pman_context_add_borrowed(lent, p, x.protection, x.lender, x.vaddr),
                p, x, added(lent, "BORROWED", p, x.protection, x.lender, x.vaddr))
        ELSE m

fork_mapping(m, p, c, x) ==
    LET lent == pman_context_unmap(
                    pman_context_add_borrowed(m, c, x.protection, x.lender, x.vaddr), x)
    IN  IF "SHARED" \in x.protection
        THEN IF x.type = "SHARED"
             THEN pman_context_add_shared(m, c, x.protection, x.lender, x.vaddr)
             ELSE m
        ELSE process_remap(
                pman_context_add_borrowed(lent, p, x.protection, x.lender, x.vaddr),
                p, x, added(lent, "BORROWED", p, x.protection, x.lender, x.vaddr))

ForkMapping ==
    /\ kernel.op = "fork" /\ ~ mem.halted
    /\ \E x \in kernel.left :
        /\ mem' = fork_mapping(mem, kernel.parent, kernel.child, x)
        /\ kernel' = [kernel EXCEPT !.left = @ \ {x}]
    /\ UNCHANGED buffer

pman_context_get_vaddr(m, p, vaddr) ==
    CHOOSE x \in mappings_of(m, p) : x.vaddr = vaddr

thread_create_fork(m, c, target) ==
    [m EXCEPT !.stack_mapping[c] = <<pman_context_get_vaddr(m, c, target.vaddr)>>]

ForkReturns ==
    /\ kernel.op = "fork" /\ ~ mem.halted
    /\ kernel.left = {}
    /\ mem' = thread_create_fork(mem, kernel.child, mem.stack_mapping[kernel.parent][1])
    /\ kernel' = User
    /\ UNCHANGED buffer

-----------------------------------------------------------------------------
(* Exit: one step for each mapping.                                        *)

ProcessKill(p) ==
    /\ runs(p)
    /\ mem' = [mem EXCEPT !.alive = @ \ {p}, !.stack_mapping[p] = <<>>]
    /\ kernel' = Freeing(p)
    /\ UNCHANGED buffer

FreeMapping ==
    /\ kernel.op = "free"
    /\ \E x \in mappings_of(mem, kernel.process) : mem' = pman_context_unmap(mem, x)
    /\ UNCHANGED <<kernel, buffer>>

FreeReturns ==
    /\ kernel.op = "free"
    /\ mappings_of(mem, kernel.process) = {}
    /\ mem' = [mem EXCEPT !.reserved[kernel.process] = {}]
    /\ kernel' = User
    /\ UNCHANGED buffer

-----------------------------------------------------------------------------
(* Accesses to memory.                                                     *)

\* An instruction of p writes to a page that its table lets it write to.
UserWrite(p, s, v) ==
    /\ runs(p)
    /\ mem.table[p][s] # Absent /\ mem.table[p][s].write
    /\ mem' = [mem EXCEPT !.contents[mem.table[p][s].root] = v]
    /\ UNCHANGED <<kernel, buffer>>

\* An instruction of p writes to a page that is mapped, but not for writing.
PageFault(p, s) ==
    /\ runs(p)
    /\ \E x \in mappings_of(mem, p) : x.vaddr = s
    /\ ~ (mem.table[p][s] # Absent /\ mem.table[p][s].write)
    /\ root_left(mem) \/ mem.references[pman_context_get_vaddr(mem, p, s).lender] = 1
    /\ mem' = pman_context_prepare_write(mem, pman_context_get_vaddr(mem, p, s))
    /\ UNCHANGED <<kernel, buffer>>

\* The kernel writes to memory of a process through the root, at the address
\* process_user_to_kernel returns.
kernel_write(m, r, v) == IF m.halted THEN m ELSE [m EXCEPT !.contents[r] = v]

\* read, and any other system call with a result in user memory, looks up the
\* buffer first.  The buffer is in memory of the program, not of the kernel.
SyscallRead(p, s) ==
    /\ runs(p) /\ buffer[p] = Absent
    /\ Cardinality({q \in Process : buffer[q] # Absent}) < MaxReads
    /\ s < KernelStart
    /\ \E x \in mappings_of(mem, p) :
        /\ x.vaddr = s
        /\ buffer' = [buffer EXCEPT ![p] = x.lender]
    /\ UNCHANGED <<mem, kernel>>

\* It stores when there is something to read, however late, and whether or
\* not its process has been killed since.  If the root has been freed, the
\* kernel's access to it faults, and the handler halts.
ReadReturns(p, v) ==
    /\ kernel = User /\ ~ mem.halted
    /\ buffer[p] # Absent
    /\ mem' = IF mem.references[buffer[p]] = 0
              THEN [mem EXCEPT !.halted = TRUE]
              ELSE kernel_write(mem, buffer[p], v)
    /\ buffer' = [buffer EXCEPT ![p] = Absent]
    /\ UNCHANGED kernel

-----------------------------------------------------------------------------
(* Exec.                                                                   *)

push_main_args(m, p, v) == kernel_write(m, m.stack_mapping[p][1].lender, v)

process_push_args(m, p, argc, v) ==
    LET args == kernel_write(process_create_segment(m, p, 0, {}), free_root(m), v)
    IN  push_main_args(IF argc = 0 THEN m ELSE args, p, v)

load_program(m, p, memsz, prot, v) ==
    LET here == {x \in mappings_of(m, p) : x.vaddr = Segment}
        x == pman_context_get_vaddr(m, p, Segment)
    IN  IF memsz = 0
        THEN IF here = {} THEN m ELSE pman_context_unmap(m, x)
        ELSE kernel_write(IF here = {} THEN process_create_segment(m, p, Segment, prot)
                                       ELSE pman_context_resize(m, x),
                          free_root(m), v)

\* bound: room for the arguments and the program
exec_room(p, argc) ==
    /\ Cardinality({r \in Root : mem.references[r] = 0}) > argc
    /\ argc > 0 => roomy(mem, p)

SyscallExec(p, argc, memsz, prot, v) ==
    /\ runs(p) /\ exec_room(p, argc)
    /\ mem' = push_main_args(load_program(process_push_args(mem, p, argc, v),
                                          p, memsz, prot, v), p, v)
    /\ UNCHANGED <<kernel, buffer>>

\* The file is a directory or no program, which load_program finds out last.
SyscallExecFails(p, argc, v) ==
    /\ runs(p) /\ exec_room(p, argc)
    /\ mem' = process_push_args(mem, p, argc, v)
    /\ UNCHANGED <<kernel, buffer>>

-----------------------------------------------------------------------------
Protection == {{}, {"WRITE"}}

Exec(p) ==
    \/ \E argc \in {0, 1}, memsz \in {0, 1}, prot \in Protection, v \in Value :
            SyscallExec(p, argc, memsz, prot, v)
    \/ \E argc \in {0, 1}, v \in Value : SyscallExecFails(p, argc, v)

Next ==
    \/ \E p \in Process :
        \/ \E s \in 0 .. Segment, prot \in Protection : SyscallMap(p, s, prot)
        \/ SyscallThread(p)
        \/ Exec(p)
        \/ \E c \in Process : SyscallFork(p, c)
        \/ ProcessKill(p)
        \/ \E s \in Vaddr : PageFault(p, s) \/ SyscallRead(p, s)
        \/ \E s \in Vaddr, v \in Value : UserWrite(p, s, v)
        \/ \E v \in Value : ReadReturns(p, v)
    \/ ForkMapping \/ ForkReturns
    \/ FreeMapping \/ FreeReturns

Spec == Init /\ [][Next]_vars

-----------------------------------------------------------------------------
(* Properties.                                                             *)

Entry == [root : Root \cup {KernelRoot}, write : BOOLEAN]

\* Fields have values their C types are used for; counts never wrap.
TypeOK ==
    /\ mem.alive \subseteq Process
    /\ mem.mappings \subseteq Mapping
    /\ mem.reserved \in [Process -> SUBSET Vaddr]
    /\ mem.table \in [Process -> [Vaddr -> Entry \cup {Absent}]]
    /\ mem.references \in [Root \cup {KernelRoot} -> Nat]
    /\ mem.contents \in [Root -> Value]
    /\ mem.stack_mapping \in [Process -> Seq(Mapping)]
    /\ mem.halted \in BOOLEAN
    /\ buffer \in [Process -> Root \cup {Absent}]
    /\ \/ kernel = User
       \/ \E p, c \in Process, left \in SUBSET mem.mappings : kernel = Forking(p, c, left)
       \/ \E p \in Process : kernel = Freeing(p)

borrowers(r) == {x \in mem.mappings : x.lender = r}

\* The reference count of a root is the number of mappings that lead to it:
\* memory is given back when, and only when, the last process lets go of it,
\* through any sequence of forks, copies, execs and exits.
ReferencesExact ==
    TypeOK /\ (~ mem.halted =>
        /\ \A r \in Root : mem.references[r] = Cardinality(borrowers(r))
        /\ mem.references[KernelRoot] = Cardinality(borrowers(KernelRoot)) + 1)

\* Memory that two mappings lead to, other than the kernel's, is BORROWED by
\* both, so that neither process can write it without a fault.
CopyOnWrite ==
    \A x, y \in mem.mappings :
        x # y /\ x.lender = y.lender /\ x.lender # KernelRoot => x.type = "BORROWED"

\* The list of mappings, the allocator of virtual addresses and the page
\* table of a process agree on which pages it has, on the memory behind each
\* and on whether it may be written: no entry outlives its mapping, and memory
\* of two processes is writable for neither.
TableAgrees ==
    CopyOnWrite /\ (~ mem.halted => \A p \in Process :
        /\ \A x, y \in mappings_of(mem, p) : x.vaddr = y.vaddr => x = y
        /\ {x.vaddr : x \in mappings_of(mem, p)} = mem.reserved[p]
        /\ {s \in Vaddr : mem.table[p][s] # Absent} = mem.reserved[p]
        /\ \A x \in mappings_of(mem, p) : mem.table[p][x.vaddr] =
                [root |-> x.lender, write |-> x.type = "SHARED" /\ "WRITE" \in x.protection])

\* The stack mapping of every thread is a mapping of its process: fork and
\* the page fault replace mappings, and must tell the threads.
StacksMapped ==
    ~ mem.halted => \A p \in mem.alive : \A i \in DOMAIN mem.stack_mapping[p] :
        mem.stack_mapping[p][i] \in mappings_of(mem, p)

\* What a process reads in its pages.
View(m, p) ==
    [s \in 0 .. Segment |-> IF m.table[p][s] = Absent THEN Absent
                            ELSE m.contents[m.table[p][s].root]]

\* A step of p that may change what p reads.
OwnStep(p) ==
    \/ \E s \in 0 .. Segment, prot \in Protection : SyscallMap(p, s, prot)
    \/ SyscallThread(p)
    \/ Exec(p)
    \/ \E s \in Vaddr, v \in Value : UserWrite(p, s, v)
    \/ \E v \in Value : ReadReturns(p, v)

\* The kernel stores for p in a root that others have too: the buffer of a
\* read, or the stack, where exec leaves the arguments.
StoresBorrowed(p) ==
    \/ /\ \E v \in Value : ReadReturns(p, v)
       /\ \E x \in mem.mappings : x.lender = buffer[p] /\ x.context # p
    \/ /\ Exec(p)
       /\ mem.stack_mapping[p][1].type = "BORROWED"

\* What a process reads changes by its own writes and calls only: not by a
\* write, page fault, map, thread, fork, exec or exit of another process.
\* Except where the kernel stores through a BORROWED mapping, or in a buffer
\* that it looked up before the memory changed hands: that goes to the root,
\* past copy on write.  A child is a process once it has a thread, and reads
\* then what its parent reads, page for page.
Isolation ==
    [][/\ \A q \in mem.alive \cap mem'.alive :
            \/ mem.stack_mapping[q] = <<>>
            \/ View(mem', q) = View(mem, q)
            \/ mem'.halted
            \/ OwnStep(q)
            \/ \E p \in Process : StoresBorrowed(p)
       /\ ForkReturns => View(mem', kernel.child) = View(mem, kernel.parent)]_vars

\* The handler of a page fault makes a page that may be written writable, so
\* that the instruction that faulted does not fault for ever.
FaultResolves ==
    \A x \in mem.mappings :
        /\ runs(x.context)
        /\ "WRITE" \in x.protection
        /\ root_left(mem) \/ mem.references[x.lender] = 1
        => pman_context_prepare_write(mem, x).table[x.context][x.vaddr].write

=============================================================================

------------------------------ MODULE Scheduler ------------------------------
(***************************************************************************)
(* Threads, processes, events, signals and timers of the kernel on its one *)
(* core: src/scheduler, src/process/{thread,process}.c, src/signal,        *)
(* src/timer as far as they decide who runs, and the system calls and      *)
(* interrupt handlers that drive them.                                     *)
(*                                                                         *)
(* Every user thread has a kernel twin that executes its system calls.     *)
(* Kernel code runs with interrupts disabled (resume_tsr_kernel clears IF, *)
(* the gates are interrupt gates), so an interrupt is taken only in user   *)
(* mode or in the idle loop.  mode says which piece of code the core is in;*)
(* a kernel path that the source runs without giving up the core is one    *)
(* step, or a chain of steps during which no other action is enabled.      *)
(*                                                                         *)
(* Every thread is created with TP_MEDIUM and nothing changes a priority,  *)
(* so the TP_COUNT run queues are one queue.  No code calls                *)
(* scheduler_await_interruptable, so TS_INTERRUPTABLE_WAIT and             *)
(* TS_INTERRUPTED, and with them thread_interrupt, are never reached.      *)
(***************************************************************************)
EXTENDS Naturals, Sequences, FiniteSets

CONSTANTS
    UserThread,        \* thread_t objects of level TL_USER
    KernelThread,      \* thread_t objects of level TL_KERNEL
    twin,              \* twin_thread: each user thread and its kernel thread
    Pid,               \* process ids; current_pid only counts up: none is reused
    Device,            \* devices whose interrupt handler invokes read_ready
    HandledSignal,     \* bound: signals for which processes install handlers
    SIGNAL_QUEUE_SIZE, \* capacity of a process's signal queue
    MaxAlarms,         \* bound: pending alarm timers of one process
    NULL

Thread == UserThread \cup KernelThread

\* The events threads wait for: child_finished of a process, read_ready of a
\* device, and the private event that syscall_nanosleep makes for its thread.
Event == Pid \cup Device \cup KernelThread

ASSUME TwinAssumption ==
    /\ UserThread \cap KernelThread = {}
    /\ NULL \notin Thread
    /\ twin \in [Thread -> Thread]
    /\ \A u \in UserThread : twin[u] \in KernelThread /\ twin[twin[u]] = u
    /\ \A k \in KernelThread : twin[k] \in UserThread /\ twin[twin[k]] = k

ASSUME EventAssumption ==
    /\ Pid \cap Device = {} /\ Pid \cap KernelThread = {}
    /\ Device \cap KernelThread = {}
    /\ NULL \notin Pid

ASSUME BoundAssumption ==
    /\ SIGNAL_QUEUE_SIZE \in Nat \ {0}
    /\ MaxAlarms \in Nat
    /\ HandledSignal \subseteq {"SIG_ALARM", "SIG_PAGE", "SIG_CHILD"}

VARIABLES
    mode,          \* which code the core executes (see Mode)
    current,       \* current_core->current_thread
    queue,         \* the run queue, head first
    state,         \* thread->state; "FREE" when the thread_t is not allocated
    process,       \* thread->process; a kernel twin keeps a stale pointer
    pc,            \* where a kernel thread resumes: entry of a call, or an await
    pstate,        \* is the process_t of a pid unused, allocated, or freed
    parent_id,
    threads,       \* process->threads, as a set
    has_signal,    \* event->has_signal
    waiters,       \* event->waiter_head .. waiter_tail
    signal_queue,  \* process->signal_table.signal_queue, oldest first
    user_handler,  \* signals of a process that have a user handler
    sleepers,      \* kernel threads with a pending nanosleep timer
    alarms         \* number of pending alarm timers per process

sched_vars  == <<mode, current, queue>>
thread_vars == <<state, process, pc>>
proc_vars   == <<pstate, parent_id, threads>>
event_vars  == <<has_signal, waiters>>
signal_vars == <<signal_queue, user_handler>>
timer_vars  == <<sleepers, alarms>>
vars == <<sched_vars, thread_vars, proc_vars, event_vars, signal_vars, timer_vars>>

\* The states a thread is ever in; TS_STOPPED is what a twin without a call has.
ThreadState == {"FREE", "RUNNING", "STOPPED", "WAITING", "UNINTERRUPTABLE_WAIT", "DEAD"}

Signal == {"SIG_ALARM", "SIG_PAGE", "SIG_CHILD"}

\* signal_defaults: the signals whose default action is ACT_TERMINATE.
Terminates == {"SIG_ALARM", "SIG_PAGE"}

\* user, idle: interrupts enabled.  kernel: a twin executes its system call.
\* return: scheduler_return_twin1.  yield, pick: scheduler_yield before and in
\* its loop.  resume: signal_table_resume on the way to user mode.  timers:
\* timers_update.  undefined: memory of a freed process_t was used, after
\* which the model says nothing.  double_free: process_free on a freed process.
Mode == {"user", "kernel", "return", "yield", "pick", "resume", "idle",
         "timers", "undefined", "double_free"}

\* entry: the call has not begun.  await: blocked, and returns when woken.
\* accept: blocked, and uses its process when woken.
Pc == {"entry", "await", "accept"}

TypeOK ==
    /\ mode \in Mode
    /\ current \in Thread \cup {NULL}
    /\ queue \in Seq(Thread)
    /\ state \in [Thread -> ThreadState]
    /\ process \in [Thread -> Pid \cup {NULL}]
    /\ pc \in [KernelThread -> Pc]
    /\ pstate \in [Pid -> {"UNUSED", "ALIVE", "FREED"}]
    /\ parent_id \in [Pid -> Pid]
    /\ threads \in [Pid -> SUBSET UserThread]
    /\ has_signal \in [Event -> BOOLEAN]
    /\ waiters \in [Event -> Seq(KernelThread)]
    /\ signal_queue \in [Pid -> Seq(Signal)]
    /\ \A p \in Pid : Len(signal_queue[p]) <= SIGNAL_QUEUE_SIZE
    /\ user_handler \in [Pid -> SUBSET Signal]
    /\ sleepers \in SUBSET KernelThread
    /\ alarms \in [Pid -> 0..MaxAlarms]

\* kernel_main: the init process has one thread, which thread_run has queued.
\* Its pid is 0, and so is the parent_id every process_create begins with.
Init ==
    \E p \in Pid, u \in UserThread :
        /\ mode = "yield" /\ current = NULL /\ queue = <<u>>
        /\ state = [t \in Thread |-> CASE t = u       -> "RUNNING"
                                       [] t = twin[u] -> "STOPPED"
                                       [] OTHER       -> "FREE"]
        /\ process = [t \in Thread |-> IF t \in {u, twin[u]} THEN p ELSE NULL]
        /\ pc = [k \in KernelThread |-> "entry"]
        /\ pstate = [q \in Pid |-> IF q = p THEN "ALIVE" ELSE "UNUSED"]
        /\ parent_id = [q \in Pid |-> p]
        /\ threads = [q \in Pid |-> IF q = p THEN {u} ELSE {}]
        /\ has_signal = [e \in Event |-> FALSE]
        /\ waiters = [e \in Event |-> <<>>]
        /\ signal_queue = [q \in Pid |-> <<>>]
        /\ user_handler = [q \in Pid |-> {}]
        /\ sleepers = {} /\ alarms = [q \in Pid |-> 0]

-----------------------------------------------------------------------------
(* Building blocks.  Each returns the new value of one variable.             *)

\* scheduler_queue: only a RUNNING or a DEAD thread is linked into the queue.
scheduler_queue(q, st, t) ==
    IF st[t] \in {"RUNNING", "DEAD"} THEN Append(q, t) ELSE q

\* thread_run: nothing happens to a thread that is RUNNING already.
thread_run_state(st, t) == [st EXCEPT ![t] = "RUNNING"]

thread_run_queue(q, st, t) ==
    IF st[t] # "RUNNING" THEN scheduler_queue(q, thread_run_state(st, t), t) ELSE q

\* thread_kill for the threads of p: the call to scheduler_queue comes before
\* the state becomes DEAD.
thread_kill_state(p) ==
    [t \in Thread |-> IF t \in threads[p] THEN "DEAD" ELSE state[t]]

\* The elements of S, once each, in some order.
Listing(S) ==
    CHOOSE s \in [1..Cardinality(S) -> S] : \A i, j \in DOMAIN s : s[i] = s[j] => i = j

\* Mutant: thread_kill sets the state before it calls scheduler_queue.
thread_kill_queue_late(p) ==
    queue \o Listing({t \in threads[p] : state[t] # "RUNNING"})

thread_kill_queue(p) ==
    LET q == {t \in threads[p] : state[t] # "RUNNING" /\ state[t] \in {"RUNNING", "DEAD"}}
    IN IF q = {} THEN queue ELSE queue \o Listing(q)

\* event_invoke: the oldest waiter is unlinked and run, or the signal is kept.
event_invoke_state(e, st) ==
    IF waiters[e] = <<>> THEN st ELSE thread_run_state(st, Head(waiters[e]))

event_invoke_queue(e, st, q) ==
    IF waiters[e] = <<>> THEN q ELSE thread_run_queue(q, st, Head(waiters[e]))

event_invoke(e) ==
    IF waiters[e] = <<>>
    THEN has_signal' = [has_signal EXCEPT ![e] = TRUE] /\ UNCHANGED waiters
    ELSE waiters' = [waiters EXCEPT ![e] = Tail(@)] /\ UNCHANGED has_signal

\* Mutant: signal_table_invoke does not look at signal_queue_size.
signal_table_invoke_unbounded(p, sig, sq) == [sq EXCEPT ![p] = Append(@, sig)]

\* signal_table_invoke: a full queue loses the signal.
signal_table_invoke(p, sig, sq) ==
    IF Len(sq[p]) = SIGNAL_QUEUE_SIZE THEN sq ELSE [sq EXCEPT ![p] = Append(@, sig)]

\* process_lookup of the parent, from which process_free has unlinked p.
parent_alive(p) == /\ parent_id[p] # p
                   /\ pstate[parent_id[p]] = "ALIVE"

\* process_kill and the process_free it ends with: the threads are detached
\* and DEAD, the parent gets SIG_CHILD and child_finished.  The signal table
\* goes with the process_t.
process_kill(p) ==
    LET sq == [signal_queue EXCEPT ![p] = <<>>] IN
    /\ process' = [t \in Thread |-> IF t \in threads[p] THEN NULL ELSE process[t]]
    /\ pstate' = [pstate EXCEPT ![p] = "FREED"]
    /\ threads' = [threads EXCEPT ![p] = {}]
    /\ IF parent_alive(p)
       THEN /\ state' = event_invoke_state(parent_id[p], thread_kill_state(p))
            /\ queue' = event_invoke_queue(parent_id[p], thread_kill_state(p),
                                           thread_kill_queue(p))
            /\ event_invoke(parent_id[p])
            /\ signal_queue' = signal_table_invoke(parent_id[p], "SIG_CHILD", sq)
       ELSE /\ state' = thread_kill_state(p)
            /\ queue' = thread_kill_queue(p)
            /\ signal_queue' = sq
            /\ UNCHANGED event_vars
    /\ user_handler' = [user_handler EXCEPT ![p] = {}]
    /\ UNCHANGED <<parent_id, pc, timer_vars>>
-----------------------------------------------------------------------------
(* scheduler_yield and the return to a thread.                               *)

\* The head of scheduler_yield: the current thread goes to the tail.
YieldCurrent ==
    /\ mode = "yield"
    /\ mode' = "pick"
    /\ queue' = IF current # NULL THEN scheduler_queue(queue, state, current) ELSE queue
    /\ current' = NULL
    /\ UNCHANGED <<thread_vars, proc_vars, event_vars, signal_vars, timer_vars>>

\* wait_for_interrupt when every queue is empty.
YieldIdle ==
    /\ mode = "pick" /\ queue = <<>>
    /\ mode' = "idle"
    /\ UNCHANGED <<current, queue, thread_vars, proc_vars, event_vars, signal_vars, timer_vars>>


\* The oldest queued thread is runnable: thread_resume.
YieldResume ==
    /\ mode = "pick" /\ queue # <<>> /\ state[Head(queue)] = "RUNNING"
    /\ queue' = Tail(queue)
    /\ current' = Head(queue)
    /\ mode' = IF Head(queue) \in KernelThread THEN "kernel" ELSE "resume"
    /\ UNCHANGED <<thread_vars, proc_vars, event_vars, signal_vars, timer_vars>>

\* waiter_free of the waiter of t, wherever it is linked.
waiter_free(w, t) == [e \in Event |-> SelectSeq(w[e], LAMBDA k : k # t)]

\* The oldest queued thread is DEAD: thread_free, which frees the twin first.
YieldFree ==
    /\ mode = "pick" /\ queue # <<>> /\ state[Head(queue)] = "DEAD"
    /\ queue' = Tail(queue)
    /\ LET t == Head(queue) IN
        /\ state' = [state EXCEPT ![t] = "FREE", ![twin[t]] = "FREE"]
        /\ waiters' = IF state[twin[t]] = "UNINTERRUPTABLE_WAIT"
                      THEN waiter_free(waiters, twin[t]) ELSE waiters
        /\ process' = [process EXCEPT ![t] = NULL, ![twin[t]] = NULL]
    /\ UNCHANGED <<mode, current, pc, proc_vars, has_signal, signal_vars, timer_vars>>

\* signal_table_resume: at most one signal is taken.  A signal that terminates
\* kills the process of the thread being resumed, and yields again.
ResumeKilled ==
    /\ mode = "resume"
    /\ signal_queue[process[current]] # <<>>
    /\ LET p == process[current]  sig == Head(signal_queue[process[current]]) IN
        /\ sig \in Terminates \ user_handler[p]
        /\ process_kill(p)
    /\ mode' = "yield"
    /\ UNCHANGED current

\* Otherwise the thread continues in user mode, in its handler if it has one.
ResumeUser ==
    /\ mode = "resume"
    /\ LET p == process[current] IN
        /\ signal_queue[p] # <<>> => Head(signal_queue[p]) \notin Terminates \ user_handler[p]
        /\ signal_queue' = IF signal_queue[p] = <<>> THEN signal_queue
                           ELSE [signal_queue EXCEPT ![p] = Tail(@)]
    /\ mode' = "user"
    /\ UNCHANGED <<current, queue, thread_vars, proc_vars, event_vars, user_handler, timer_vars>>

-----------------------------------------------------------------------------
(* User mode: system call entry, faults, interrupts.                         *)

\* Mutant: scheduler_start_twin leaves the user thread runnable.
SyscallEntry_running ==
    /\ mode = "user"
    /\ state' = thread_run_state(state, twin[current])
    /\ queue' = thread_run_queue(queue, state, twin[current])
    /\ pc' = [pc EXCEPT ![twin[current]] = "entry"]
    /\ current' = NULL
    /\ mode' = "yield"
    /\ UNCHANGED <<process, proc_vars, event_vars, signal_vars, timer_vars>>

\* syscall_handler_wrapper and scheduler_start_twin.
SyscallEntry ==
    /\ mode = "user"
    /\ LET k == twin[current]  st == [state EXCEPT ![current] = "WAITING"] IN
        /\ state' = thread_run_state(st, k)
        /\ queue' = thread_run_queue(queue, st, k)
        /\ pc' = [pc EXCEPT ![k] = "entry"]
    /\ current' = NULL
    /\ mode' = "yield"
    /\ UNCHANGED <<process, proc_vars, event_vars, signal_vars, timer_vars>>

\* pman_page_fault_handler, no mapping at the address.
PageFaultBadAddress ==
    /\ mode = "user"
    /\ signal_queue' = signal_table_invoke(process[current], "SIG_PAGE", signal_queue)
    /\ mode' = "yield"
    /\ UNCHANGED <<current, queue, thread_vars, proc_vars, event_vars, user_handler, timer_vars>>

\* pman_page_fault_handler, the mapping may not be written.
PageFaultUnwritable ==
    /\ mode = "user"
    /\ process_kill(process[current])
    /\ mode' = "yield"
    /\ UNCHANGED current

\* An interrupt or fault whose handler leaves threads alone (a page fault that
\* prepare_write resolves, an unregistered interrupt, a key that wakes nobody).
OtherInterrupt ==
    /\ mode \in {"user", "idle"}
    /\ mode' = "yield"
    /\ UNCHANGED <<current, queue, thread_vars, proc_vars, event_vars, signal_vars, timer_vars>>

\* The interrupt of a device whose handler invokes its read_ready event.
DeviceInterrupt(d) ==
    /\ mode \in {"user", "idle"}
    /\ state' = event_invoke_state(d, state)
    /\ queue' = event_invoke_queue(d, state, queue)
    /\ event_invoke(d)
    /\ mode' = "yield"
    /\ UNCHANGED <<current, process, pc, proc_vars, signal_vars, timer_vars>>

TimerInterrupt ==
    /\ mode \in {"user", "idle"}
    /\ mode' = "timers"
    /\ UNCHANGED <<current, queue, thread_vars, proc_vars, event_vars, signal_vars, timer_vars>>

-----------------------------------------------------------------------------
(* timers_update.  Tick counts are abstracted: on a tick any of the pending  *)
(* timers may expire, in any order.                                          *)

\* Mutant: the timer is not removed when it has expired.
SleepExpires_rearmed(k) ==
    /\ mode = "timers" /\ k \in sleepers
    /\ state' = event_invoke_state(k, state)
    /\ queue' = event_invoke_queue(k, state, queue)
    /\ event_invoke(k)
    /\ UNCHANGED <<mode, current, process, pc, proc_vars, signal_vars, timer_vars>>


\* nanosleep_timer_handler.
SleepExpires(k) ==
    /\ mode = "timers" /\ k \in sleepers
    /\ state' = event_invoke_state(k, state)
    /\ queue' = event_invoke_queue(k, state, queue)
    /\ event_invoke(k)
    /\ sleepers' = sleepers \ {k}
    /\ UNCHANGED <<mode, current, process, pc, proc_vars, signal_vars, alarms>>

\* alarm_timer_handler: the cookie is the process_t, freed or not.
AlarmExpires(p) ==
    /\ mode = "timers" /\ alarms[p] > 0
    /\ alarms' = [alarms EXCEPT ![p] = @ - 1]
    /\ IF pstate[p] = "FREED"
       THEN mode' = "undefined" /\ UNCHANGED signal_queue
       ELSE signal_queue' = signal_table_invoke(p, "SIG_ALARM", signal_queue) /\ UNCHANGED mode
    /\ UNCHANGED <<current, queue, thread_vars, proc_vars, event_vars, user_handler, sleepers>>

TimersDone ==
    /\ mode = "timers"
    /\ mode' = "yield"
    /\ UNCHANGED <<current, queue, thread_vars, proc_vars, event_vars, signal_vars, timer_vars>>
-----------------------------------------------------------------------------
(* System calls, executed by the kernel twin.                                *)

\* A twin begins a system call.  Which call it is was fixed by the user
\* thread, but nothing reads it before this point.
Dispatch(k) == mode = "kernel" /\ current = k /\ pc[k] = "entry"

\* ... and its process has not been freed since the call was made.
DispatchLive(k) == Dispatch(k) /\ pstate[process[k]] = "ALIVE"

\* A call that touches its process_t after another thread had it freed.
SyscallStale(k) ==
    /\ Dispatch(k) /\ pstate[process[k]] = "FREED"
    /\ mode' = "undefined"
    /\ UNCHANGED <<current, queue, thread_vars, proc_vars, event_vars, signal_vars, timer_vars>>

\* syscall_exit in the same situation: process_kill frees what is free.
SyscallExitStale(k) ==
    /\ Dispatch(k) /\ pstate[process[k]] = "FREED"
    /\ mode' = "double_free"
    /\ UNCHANGED <<current, queue, thread_vars, proc_vars, event_vars, signal_vars, timer_vars>>

\* A call that neither blocks nor changes who may run, or that fails.
SyscallOther(k) ==
    /\ Dispatch(k)
    /\ mode' = "return"
    /\ UNCHANGED <<current, queue, thread_vars, proc_vars, event_vars, signal_vars, timer_vars>>

SyscallExit(k) ==
    /\ DispatchLive(k)
    /\ process_kill(process[k])
    /\ mode' = "return"
    /\ UNCHANGED current

\* syscall_kill looks the target up, and does not use the caller's process.
SyscallKill(k, p) ==
    /\ Dispatch(k)
    /\ pstate[p] = "ALIVE"
    /\ process_kill(p)
    /\ mode' = "return"
    /\ UNCHANGED current

\* Mutant: process_add_thread is not called.
CreateThread_unlisted(u, p) ==
    /\ state[u] = "FREE" /\ state[twin[u]] = "FREE"
    /\ state' = [state EXCEPT ![u] = "RUNNING", ![twin[u]] = "STOPPED"]
    /\ queue' = Append(queue, u)
    /\ process' = [process EXCEPT ![u] = p, ![twin[u]] = p]
    /\ pc' = [pc EXCEPT ![twin[u]] = "entry"]
    /\ UNCHANGED threads

\* A pair of thread_t, fresh from the heap, run as a thread of process p.
CreateThread(u, p) ==
    /\ state[u] = "FREE" /\ state[twin[u]] = "FREE"
    /\ LET st == [state EXCEPT ![u] = "STOPPED", ![twin[u]] = "STOPPED"] IN
        /\ state' = thread_run_state(st, u)
        /\ queue' = thread_run_queue(queue, st, u)
    /\ process' = [process EXCEPT ![u] = p, ![twin[u]] = p]
    /\ pc' = [pc EXCEPT ![twin[u]] = "entry"]
    /\ threads' = [threads EXCEPT ![p] = @ \cup {u}]

\* syscall_fork: the child gets the next pid, an event and a signal table of
\* its own, and one thread.
SyscallFork(k, c, u) ==
    /\ DispatchLive(k)
    /\ pstate[c] = "UNUSED"
    /\ CreateThread(u, c)
    /\ pstate' = [pstate EXCEPT ![c] = "ALIVE"]
    /\ parent_id' = [parent_id EXCEPT ![c] = process[k]]
    /\ mode' = "return"
    /\ UNCHANGED <<current, event_vars, signal_vars, timer_vars>>

SyscallThread(k, u) ==
    /\ DispatchLive(k)
    /\ CreateThread(u, process[k])
    /\ mode' = "return"
    /\ UNCHANGED <<current, pstate, parent_id, event_vars, signal_vars, timer_vars>>

become_waiter(k, resume) ==
    /\ state' = [state EXCEPT ![k] = "UNINTERRUPTABLE_WAIT"]
    /\ pc' = [pc EXCEPT ![k] = resume]
    /\ mode' = "yield"

\* Mutant: scheduler_await blocks without looking at has_signal.
scheduler_await_blind(k, e, resume) ==
    /\ become_waiter(k, resume)
    /\ waiters' = [waiters EXCEPT ![e] = Append(@, k)]
    /\ UNCHANGED has_signal

\* scheduler_await: take the signal and go on, or become a waiter and yield.
scheduler_await(k, e, resume) ==
    IF has_signal[e]
    THEN /\ has_signal' = [has_signal EXCEPT ![e] = FALSE]
         /\ mode' = "return"
         /\ UNCHANGED <<state, waiters, pc>>
    ELSE /\ become_waiter(k, resume)
         /\ waiters' = [waiters EXCEPT ![e] = Append(@, k)]
         /\ UNCHANGED has_signal

SyscallWait(k) ==
    /\ DispatchLive(k)
    /\ scheduler_await(k, process[k], "await")
    /\ UNCHANGED <<current, queue, process, proc_vars, signal_vars, timer_vars>>

\* A read of a device (tty_read, keyboard_read): it does not use the process_t
\* once it has blocked.
SyscallRead(k, d) ==
    /\ DispatchLive(k)
    /\ scheduler_await(k, d, "await")
    /\ UNCHANGED <<current, queue, process, proc_vars, signal_vars, timer_vars>>

\* syscall_accept: the awaited socket event is one of Device here; after it the
\* descriptor is opened in the file table of the process.
SyscallAccept(k, d) ==
    /\ DispatchLive(k)
    /\ scheduler_await(k, d, "accept")
    /\ UNCHANGED <<current, queue, process, proc_vars, signal_vars, timer_vars>>

\* syscall_nanosleep: a timer, and the wait for a new event, without a signal,
\* that the timer will invoke.  The event is freed when the thread wakes.
SyscallNanosleep(k) ==
    /\ Dispatch(k)
    /\ sleepers' = sleepers \cup {k}
    /\ has_signal' = [has_signal EXCEPT ![k] = FALSE]
    /\ waiters' = [waiters EXCEPT ![k] = <<k>>]
    /\ become_waiter(k, "await")
    /\ UNCHANGED <<current, queue, process, proc_vars, signal_vars, alarms>>

SyscallAlarm(k) ==
    /\ DispatchLive(k)
    /\ alarms[process[k]] < MaxAlarms
    /\ alarms' = [alarms EXCEPT ![process[k]] = @ + 1]
    /\ mode' = "return"
    /\ UNCHANGED <<current, queue, thread_vars, proc_vars, event_vars, signal_vars, sleepers>>

\* syscall_signal: a handler, or NULL to go back to the default action.
SyscallSignal(k, sig, handler) ==
    /\ DispatchLive(k)
    /\ user_handler' = [user_handler EXCEPT ![process[k]] =
                            IF handler THEN @ \cup {sig} ELSE @ \ {sig}]
    /\ mode' = "return"
    /\ UNCHANGED <<current, queue, thread_vars, proc_vars, event_vars, signal_queue, timer_vars>>

\* syscall_signalret does not go through scheduler_return_twin1.  Of a killed
\* thread it follows the process pointer that process_kill set to NULL.
SyscallSignalret(k) ==
    /\ Dispatch(k)
    /\ IF process[twin[k]] = NULL
       THEN mode' = "undefined" /\ UNCHANGED <<state, queue>>
       ELSE LET st == [state EXCEPT ![k] = "STOPPED"] IN
            /\ state' = thread_run_state(st, twin[k])
            /\ queue' = thread_run_queue(queue, st, twin[k])
            /\ mode' = "yield"
    /\ UNCHANGED <<current, process, pc, proc_vars, event_vars, signal_vars, timer_vars>>

\* A twin that was woken goes on after its scheduler_await.
AwaitReturns(k) ==
    /\ mode = "kernel" /\ current = k /\ pc[k] # "entry"
    /\ mode' = IF pc[k] = "accept" /\ pstate[process[k]] = "FREED"
               THEN "undefined" ELSE "return"
    /\ pc' = [pc EXCEPT ![k] = "entry"]
    /\ UNCHANGED <<current, queue, state, process, proc_vars, event_vars, signal_vars, timer_vars>>

\* Mutant: scheduler_return_twin1 does not look for TS_DEAD.
ReturnTwin_revive ==
    /\ mode = "return"
    /\ LET st == [state EXCEPT ![current] = "STOPPED"] IN
        /\ state' = thread_run_state(st, twin[current])
        /\ queue' = thread_run_queue(queue, st, twin[current])
    /\ current' = NULL
    /\ mode' = "yield"
    /\ UNCHANGED <<process, pc, proc_vars, event_vars, signal_vars, timer_vars>>


\* scheduler_return_twin1: back to the user thread, or to the queue so that
\* scheduler_yield frees it.
ReturnTwin ==
    /\ mode = "return"
    /\ LET u == twin[current]  st == [state EXCEPT ![current] = "STOPPED"] IN
        IF state[u] = "DEAD"
        THEN state' = st /\ queue' = scheduler_queue(queue, st, u)
        ELSE /\ state' = thread_run_state(st, u)
             /\ queue' = thread_run_queue(queue, st, u)
    /\ current' = NULL
    /\ mode' = "yield"
    /\ UNCHANGED <<process, pc, proc_vars, event_vars, signal_vars, timer_vars>>

Syscall(k) ==
    \/ SyscallStale(k) \/ SyscallExitStale(k) \/ SyscallOther(k)
    \/ SyscallExit(k)
    \/ \E p \in Pid : SyscallKill(k, p)
    \/ \E c \in Pid, u \in UserThread : SyscallFork(k, c, u)
    \/ \E u \in UserThread : SyscallThread(k, u)
    \/ SyscallWait(k)
    \/ \E d \in Device : SyscallRead(k, d) \/ SyscallAccept(k, d)
    \/ SyscallNanosleep(k) \/ SyscallAlarm(k)
    \/ \E sig \in HandledSignal, handler \in BOOLEAN : SyscallSignal(k, sig, handler)
    \/ SyscallSignalret(k)

\* What the core does by itself once it is in the kernel.
Kernel ==
    \/ YieldCurrent \/ YieldIdle \/ YieldResume \/ YieldFree
    \/ ResumeKilled \/ ResumeUser \/ ReturnTwin \/ TimersDone
    \/ \E k \in KernelThread : Syscall(k) \/ AwaitReturns(k)

Next ==
    \/ Kernel
    \/ SyscallEntry \/ PageFaultBadAddress \/ PageFaultUnwritable
    \/ OtherInterrupt \/ TimerInterrupt
    \/ \E d \in Device : DeviceInterrupt(d)
    \/ \E k \in KernelThread : SleepExpires(k)
    \/ \E p \in Pid : AlarmExpires(p)

Spec == Init /\ [][Next]_vars

\* The core never stops in the kernel.  The tick of the interval timer stays
\* pending while interrupts are off and is taken at the next chance; every tick
\* counts every timer down, so a pending timer expires on some tick.
Fairness ==
    /\ WF_vars(Kernel)
    /\ SF_vars(TimerInterrupt)
    /\ \A k \in KernelThread : SF_vars(SleepExpires(k))

FairSpec == Spec /\ Fairness
-----------------------------------------------------------------------------
(* Properties.                                                               *)

\* x is an element of the list s; s links no element twice.
Linked(s, x) == \E i \in 1..Len(s) : s[i] = x

NoDuplicate(s) == \A i, j \in 1..Len(s) : s[i] = s[j] => i = j

\* A thread is linked into the run queue at most once (the queue is intrusive,
\* so a second scheduler_queue would corrupt it), it is never queued while it
\* is the current thread, and it is RUNNING exactly if it is queued or current
\* and not DEAD: thread_run, scheduler_yield and thread_kill agree.
QueueExact ==
    /\ NoDuplicate(queue)
    /\ \A t \in Thread : Linked(queue, t) => t # current /\ state[t] \in {"RUNNING", "DEAD"}
    /\ \A t \in Thread : state[t] = "RUNNING" => Linked(queue, t) \/ t = current

\* A user thread and the twin that executes its system call never both may
\* run: scheduler_start_twin, scheduler_return_twin1 and syscall_signalret hand
\* the one thread of control over.
TwinExclusion ==
    \A u \in UserThread :
        /\ state[u] = "RUNNING" => state[twin[u]] = "STOPPED"
        /\ state[u] = "WAITING" => state[twin[u]] \in {"RUNNING", "UNINTERRUPTABLE_WAIT"}

\* What thread_free has freed is referenced nowhere: not in the run queue, not
\* as the current thread, not by a waiter of any event, a timer or a process.
FreedUnreferenced ==
    \A t \in Thread : state[t] = "FREE" =>
        /\ ~Linked(queue, t) /\ t # current /\ t \notin sleepers
        /\ state[twin[t]] = "FREE"
        /\ \A e \in Event : ~Linked(waiters[e], t)
        /\ \A p \in Pid : t \notin threads[p]

\* A DEAD thread reaches the queue only after its twin finished the system call
\* it was in, so scheduler_yield never frees a twin that is runnable or linked
\* as a waiter (the TS_UNINTERRUPTABLE_WAIT branch of thread_free is not taken).
ReapedAfterCall ==
    \A u \in UserThread : state[u] = "DEAD" =>
        ((Linked(queue, u) \/ current = u) <=> state[twin[u]] = "STOPPED")

\* Waiters and states agree: a thread waits for one event, once, exactly while
\* it is in TS_UNINTERRUPTABLE_WAIT; and an event that has kept a signal has no
\* waiter (scheduler_await and event_invoke never leave both).
WaitersExact ==
    /\ \A k \in KernelThread :
          state[k] = "UNINTERRUPTABLE_WAIT" <=> \E e \in Event : Linked(waiters[e], k)
    /\ \A e, f \in Event, k \in KernelThread :
          Linked(waiters[e], k) /\ Linked(waiters[f], k) => e = f
    /\ \A e \in Event : NoDuplicate(waiters[e])
    /\ \A e \in Event : has_signal[e] => waiters[e] = <<>>

\* A nanosleep timer is pending exactly while its thread, and nobody else, waits
\* for the timer's event: the wake-up of nanosleep cannot be lost.
SleepArmed ==
    \A k \in KernelThread :
        /\ k \in sleepers <=> Linked(waiters[k], k)
        /\ \A j \in KernelThread : Linked(waiters[k], j) => j = k

\* The threads of a live process are the user threads that point to it, none
\* is DEAD, and there is at least one; a DEAD thread has been detached, and its
\* twin is left with a pointer to a freed process.
ProcessOwnsThreads ==
    /\ \A p \in Pid : pstate[p] = "ALIVE" <=> threads[p] # {}
    /\ \A u \in UserThread :
          /\ state[u] \in {"RUNNING", "WAITING"} =>
                 /\ process[u] \in Pid /\ process[twin[u]] = process[u]
                 /\ \A p \in Pid : u \in threads[p] <=> p = process[u]
          /\ state[u] \in {"DEAD", "FREE"} => \A p \in Pid : u \notin threads[p]
          /\ state[u] = "DEAD" =>
                 /\ process[u] = NULL
                 /\ process[twin[u]] \in Pid /\ pstate[process[twin[u]]] = "FREED"

\* Code that runs in user mode, or on its way there, belongs to a live process
\* (thread_resume follows thread->process without a check).
UserModeIsLive ==
    mode \in {"user", "resume"} =>
        current \in UserThread /\ process[current] \in Pid /\ pstate[process[current]] = "ALIVE"

\* Waiters, wait states and kept signals agree for every event, and an armed
\* nanosleep has its one waiter: no wake-up of scheduler_await is lost.
WaitingExact == WaitersExact /\ SleepArmed

\* Threads and processes point to each other as long as both live, and code in
\* user mode belongs to a live process.
OwnershipExact == ProcessOwnsThreads /\ UserModeIsLive

\* A killed thread never runs again in user mode: from DEAD it is only freed.
DeadStaysDead ==
    [][\A u \in UserThread : state[u] = "DEAD" => state'[u] \in {"DEAD", "FREE"}]_vars


\* Memory of a freed process has been used: nothing is claimed from then on.
Broken == mode \in {"undefined", "double_free"}




-----------------------------------------------------------------------------
(* The inductive invariant.                                                  *)

\* What the current thread is in each mode.
CurrentByMode ==
    /\ mode \in {"user", "resume"} => current \in UserThread /\ state[current] = "RUNNING"
    /\ mode \in {"kernel", "return"} => current \in KernelThread /\ state[current] = "RUNNING"
    /\ mode \in {"pick", "idle"} => current = NULL
    /\ mode = "timers" /\ current # NULL =>
          current \in UserThread /\ state[current] = "RUNNING"
    /\ mode \in {"undefined", "double_free"} => current = NULL \/ state[current] = "RUNNING"
    /\ mode = "yield" =>
          \/ current = NULL
          \/ current \in UserThread /\ state[current] \in {"RUNNING", "DEAD"}
          \/ current \in KernelThread /\ state[current] \in {"UNINTERRUPTABLE_WAIT", "STOPPED"}

\* The states of a user thread and of its twin.
TwinStates ==
    /\ TwinExclusion
    /\ \A u \in UserThread :
          /\ state[u] \in {"FREE", "RUNNING", "WAITING", "DEAD"}
          /\ state[twin[u]] \in {"FREE", "STOPPED", "RUNNING", "UNINTERRUPTABLE_WAIT"}
          /\ state[u] = "FREE" <=> state[twin[u]] = "FREE"

IInv ==
    /\ TypeOK /\ CurrentByMode /\ TwinStates /\ QueueExact /\ ReapedAfterCall
    /\ ProcessOwnsThreads /\ WaitersExact /\ SleepArmed
=============================================================================

--------------------------- MODULE SchedulerProofs ---------------------------
(***************************************************************************)
(* Proofs about Scheduler, for any number of threads, processes, devices     *)
(* and any signal queue size.                                                *)
(***************************************************************************)
EXTENDS SchedulerSteps

(* Creation of threads and processes.                                        *)

\* A fresh pair of threads joins a process that is alive or about to be.
LEMMA CreatePreserves ==
    ASSUME IInv, NEW u \in UserThread, NEW p \in Pid, CreateThread(u, p),
           mode = "kernel", mode' = "return", current' = current,
           pstate[p] # "FREED", pstate' = [pstate EXCEPT ![p] = "ALIVE"],
           parent_id' \in [Pid -> Pid],
           UNCHANGED <<event_vars, signal_vars, timer_vars>>
    PROVE  IInv'
<1> USE TwinAssumption
<1> USE DEF event_vars, signal_vars, timer_vars
<1>1. PICK k \in KernelThread : k = twin[u] /\ twin[k] = u /\ k # u /\ k \in Thread /\ u \in Thread
  BY DEF Thread
<1>2. state[u] = "FREE" /\ state[k] = "FREE"
  BY <1>1 DEF CreateThread
<1>3. state' = [[state EXCEPT ![u] = "STOPPED", ![k] = "STOPPED"] EXCEPT ![u] = "RUNNING"]
  BY <1>1 DEF CreateThread, thread_run_state
<1>4. \A t \in Thread : state'[t] = IF t = u THEN "RUNNING" ELSE IF t = k THEN "STOPPED" ELSE state[t]
  BY <1>1, <1>3 DEF IInv, TypeOK
<1>5. queue' = Append(queue, u)
  <2>1. [state EXCEPT ![u] = "STOPPED", ![k] = "STOPPED"][u] = "STOPPED" /\ state'[u] = "RUNNING"
    BY <1>1, <1>4 DEF IInv, TypeOK
  <2> QED BY <1>1, <1>3, <2>1 DEF CreateThread, thread_run_queue, thread_run_state, scheduler_queue
<1>6. ~Linked(queue, u) /\ current # u /\ current # k /\ ~Linked(queue, k)
  BY <1>1, <1>2 DEF IInv, QueueExact, CurrentByMode
<1>7. NoDuplicate(queue') /\ queue' \in Seq(Thread)
      /\ \A y : Linked(queue', y) <=> Linked(queue, y) \/ y = u
  BY <1>1, <1>5, <1>6, AppendLinks DEF IInv, TypeOK, QueueExact
<1>8. /\ process' = [process EXCEPT ![u] = p, ![k] = p]
      /\ threads' = [threads EXCEPT ![p] = threads[p] \cup {u}]
      /\ pc' \in [KernelThread -> Pc]
  BY <1>1 DEF CreateThread, IInv, TypeOK, Pc
<1>9. TypeOK'
  <2>1. state' \in [Thread -> ThreadState]
    BY Zenon, <1>3 DEF IInv, TypeOK, ThreadState
  <2>2. process' \in [Thread -> Pid \cup {NULL}] /\ threads' \in [Pid -> SUBSET UserThread]
        /\ pstate' \in [Pid -> {"UNUSED", "ALIVE", "FREED"}]
    BY ZenonT(120), <1>8 DEF IInv, TypeOK
  <2> QED BY Zenon, <1>7, <1>8, <2>1, <2>2 DEF IInv, TypeOK, Mode
<1>10. CurrentByMode'
  BY <1>4, <1>6 DEF IInv, CurrentByMode, Thread
<1>11. TwinStates'
  BY <1>1, <1>4 DEF IInv, TwinStates, TwinExclusion, Thread
<1>12. QueueExact'
  BY <1>1, <1>4, <1>6, <1>7 DEF IInv, QueueExact
<1>13. ReapedAfterCall'
  <2> SUFFICES ASSUME NEW v \in UserThread, state'[v] = "DEAD"
               PROVE  (Linked(queue', v) \/ current' = v) <=> state'[twin[v]] = "STOPPED"
    BY DEF ReapedAfterCall
  <2>1. v \in Thread /\ v # u /\ twin[v] \in Thread /\ twin[v] \notin {u, k}
    BY <1>1, <1>4 DEF Thread
  <2>2. state[v] = "DEAD" /\ state'[twin[v]] = state[twin[v]]
    BY <1>1, <1>4, <2>1
  <2> QED BY <1>7, <2>1, <2>2 DEF IInv, ReapedAfterCall
<1>14. ProcessOwnsThreads'
  <2>1. \A q \in Pid : threads'[q] = IF q = p THEN threads[p] \cup {u} ELSE threads[q]
    BY <1>8 DEF IInv, TypeOK
  <2>2. \A t \in Thread : process'[t] = IF t \in {u, k} THEN p ELSE process[t]
    BY <1>1, <1>8 DEF IInv, TypeOK
  <2>3. \A q \in Pid : pstate'[q] = IF q = p THEN "ALIVE" ELSE pstate[q]
    BY DEF IInv, TypeOK
  <2>4. \A q \in Pid : pstate'[q] = "ALIVE" <=> threads'[q] # {}
    BY <2>1, <2>3 DEF IInv, ProcessOwnsThreads
  <2>5. ASSUME NEW v \in UserThread
        PROVE  /\ state'[v] \in {"RUNNING", "WAITING"} =>
                     /\ process'[v] \in Pid /\ process'[twin[v]] = process'[v]
                     /\ \A q \in Pid : v \in threads'[q] <=> q = process'[v]
               /\ state'[v] \in {"DEAD", "FREE"} => \A q \in Pid : v \notin threads'[q]
               /\ state'[v] = "DEAD" =>
                     /\ process'[v] = NULL
                     /\ process'[twin[v]] \in Pid /\ pstate'[process'[twin[v]]] = "FREED"
    <3>1. CASE v = u
      <4>1. \A q \in Pid : u \notin threads[q]
        BY <1>2 DEF IInv, ProcessOwnsThreads
      <4> QED BY <1>1, <1>4, <2>1, <2>2, <3>1, <4>1
    <3>2. CASE v # u
      <4>1. v \in Thread /\ twin[v] \in Thread /\ v # k /\ twin[v] \notin {u, k}
        BY <1>1, <3>2 DEF Thread
      <4>2. /\ state'[v] = state[v] /\ process'[v] = process[v]
            /\ process'[twin[v]] = process[twin[v]]
            /\ \A q \in Pid : v \in threads'[q] <=> v \in threads[q]
        BY <1>4, <2>1, <2>2, <3>2, <4>1
      <4>3. \A q \in Pid : pstate[q] = "FREED" => pstate'[q] = "FREED"
        BY <2>3
      <4> QED BY <4>2, <4>3 DEF IInv, ProcessOwnsThreads
    <3> QED BY <3>1, <3>2
  <2> QED BY <2>4, <2>5 DEF ProcessOwnsThreads
<1>15. WaitersExact' /\ SleepArmed'
  <2>1. \A j \in KernelThread : state'[j] = "UNINTERRUPTABLE_WAIT" <=> state[j] = "UNINTERRUPTABLE_WAIT"
    BY <1>1, <1>2, <1>4 DEF Thread
  <2> QED BY <2>1, FrameWaiters
<1> QED BY <1>9, <1>10, <1>11, <1>12, <1>13, <1>14, <1>15 DEF IInv

\* syscall_fork and syscall_thread.
LEMMA CreateSyscallIInv ==
    ASSUME NEW k \in KernelThread, NEW u \in UserThread
    PROVE  IInv /\ (SyscallThread(k, u) \/ \E c \in Pid : SyscallFork(k, c, u)) => IInv'
<1> SUFFICES ASSUME IInv, SyscallThread(k, u) \/ \E c \in Pid : SyscallFork(k, c, u) PROVE IInv'
  OBVIOUS
<1>1. /\ mode = "kernel" /\ current' = current /\ mode' = "return"
      /\ UNCHANGED <<event_vars, signal_vars, timer_vars>>
      /\ current = k /\ pstate[process[k]] = "ALIVE"
  BY DEF SyscallThread, SyscallFork, DispatchLive, Dispatch
<1>2. process[k] \in Pid
  BY <1>1, ProcessOfRunning DEF IInv, CurrentByMode
<1>3. CASE SyscallThread(k, u)
  <2>1. PICK p \in Pid : p = process[k]
    BY <1>2
  <2>2. CreateThread(u, p)
    BY <1>3, <2>1 DEF SyscallThread, CreateThread
  <2>3. pstate' = [pstate EXCEPT ![p] = "ALIVE"] /\ parent_id' \in [Pid -> Pid]
    BY <1>1, <1>3, <2>1 DEF SyscallThread, IInv, TypeOK
  <2> QED BY Zenon, <1>1, <2>1, <2>2, <2>3, CreatePreserves
<1>4. ASSUME NEW c \in Pid, SyscallFork(k, c, u) PROVE IInv'
  <2>1. parent_id' \in [Pid -> Pid]
    BY <1>2, <1>4 DEF SyscallFork, IInv, TypeOK
  <2>2. CreateThread(u, c) /\ pstate[c] # "FREED" /\ pstate' = [pstate EXCEPT ![c] = "ALIVE"]
    BY <1>4 DEF SyscallFork
  <2> QED BY Zenon, <1>1, <2>1, <2>2, CreatePreserves
<1> QED BY <1>3, <1>4
-----------------------------------------------------------------------------
(* System calls that wait.                                                   *)

\* The current twin stops running in order to wait.
LEMMA BlockThreads ==
    ASSUME IInv, NEW k \in KernelThread, mode = "kernel", current = k, current' = current,
           queue' = queue,
           \A t \in Thread : state'[t] = IF t = k THEN "UNINTERRUPTABLE_WAIT" ELSE state[t]
    PROVE  TwinStates' /\ QueueExact' /\ ReapedAfterCall'
<1> USE TwinAssumption
<1>1. k \in Thread /\ state[k] = "RUNNING" /\ TwinStates /\ QueueExact /\ ReapedAfterCall
  BY DEF IInv, CurrentByMode, Thread
<1>2. state[twin[k]] \in {"WAITING", "DEAD"} /\ twin[k] \in UserThread /\ twin[twin[k]] = k
  BY <1>1, ProcessOfRunning
<1>3. \A u \in UserThread : u \in Thread /\ state'[u] = state[u] /\ twin[u] \in Thread
  BY DEF Thread
<1>4. TwinStates'
  BY <1>1, <1>2, <1>3 DEF TwinStates, TwinExclusion
<1>5. QueueExact'
  BY <1>1 DEF QueueExact
<1>6. ReapedAfterCall'
  BY <1>1, <1>3 DEF ReapedAfterCall
<1> QED BY <1>4, <1>5, <1>6

\* The current twin becomes a waiter of e, an event that holds no signal.
LEMMA BlockPreserves ==
    ASSUME IInv, NEW k \in KernelThread, NEW e \in Event, NEW resume \in Pc,
           mode = "kernel", current = k, current' = current,
           become_waiter(k, resume),
           waiters' \in [Event -> Seq(KernelThread)], NoDuplicate(waiters'[e]),
           \A y \in KernelThread : Linked(waiters'[e], y) <=> Linked(waiters[e], y) \/ y = k,
           \A f \in Event : f # e => waiters'[f] = waiters[f],
           has_signal' \in [Event -> BOOLEAN], ~has_signal'[e],
           \A f \in Event : f # e => has_signal'[f] = has_signal[f],
           sleepers' \in SUBSET KernelThread,
           UNCHANGED <<queue, process, proc_vars, signal_vars, alarms>>
    PROVE  /\ TypeOK' /\ CurrentByMode' /\ TwinStates' /\ QueueExact' /\ ReapedAfterCall'
           /\ ProcessOwnsThreads' /\ WaitersExact'
<1> USE TwinAssumption
<1> USE DEF proc_vars, signal_vars
<1>1. k \in Thread /\ state[k] = "RUNNING"
  BY DEF IInv, CurrentByMode, Thread
<1>2. /\ mode' = "yield" /\ pc' \in [KernelThread -> Pc] /\ state' \in [Thread -> ThreadState]
      /\ \A t \in Thread : state'[t] = IF t = k THEN "UNINTERRUPTABLE_WAIT" ELSE state[t]
  <2>1. /\ mode' = "yield" /\ pc' = [pc EXCEPT ![k] = resume]
        /\ state' = [state EXCEPT ![k] = "UNINTERRUPTABLE_WAIT"]
    BY DEF become_waiter
  <2>2. state \in [Thread -> ThreadState] /\ pc \in [KernelThread -> Pc]
    BY DEF IInv, TypeOK
  <2>3. pc' \in [KernelThread -> Pc]
    BY <2>1, <2>2, Zenon
  <2>4. state' \in [Thread -> ThreadState]
    <3>1. "UNINTERRUPTABLE_WAIT" \in ThreadState
      BY DEF ThreadState
    <3> QED BY <2>1, <2>2, <3>1, Zenon
  <2>5. \A t \in Thread : state'[t] = IF t = k THEN "UNINTERRUPTABLE_WAIT" ELSE state[t]
    BY <2>1, <2>2, SMT
  <2> QED BY <2>1, <2>3, <2>4, <2>5, Zenon
<1>3. TypeOK'
  BY <1>2 DEF IInv, TypeOK, Mode
<1>4. CurrentByMode'
  BY ZenonT(120), <1>1, <1>2 DEF CurrentByMode
<1>5. TwinStates' /\ QueueExact' /\ ReapedAfterCall'
  BY <1>2, BlockThreads
<1>6. \A u \in UserThread : u \in Thread /\ state'[u] = state[u]
  BY <1>2 DEF Thread
<1>10. ProcessOwnsThreads'
  <2>1. ProcessOwnsThreads /\ process' = process /\ threads' = threads /\ pstate' = pstate
    BY DEF IInv
  <2> QED BY SMTT(40), <1>6, <2>1 DEF ProcessOwnsThreads
<1>11. WaitersExact'
  <2>1. \A f \in Event : ~Linked(waiters[f], k)
    BY <1>1 DEF IInv, WaitersExact
  <2>2. \A f \in Event, y \in KernelThread :
           Linked(waiters'[f], y) <=> Linked(waiters[f], y) \/ (f = e /\ y = k)
    OBVIOUS
  <2>3. \A j \in KernelThread :
           state'[j] = "UNINTERRUPTABLE_WAIT" <=> \E f \in Event : Linked(waiters'[f], j)
    BY ZenonT(120), <1>2, <2>2 DEF IInv, WaitersExact, Thread
  <2>4. \A f, g \in Event, j \in KernelThread :
           Linked(waiters'[f], j) /\ Linked(waiters'[g], j) => f = g
    BY <2>1, <2>2 DEF IInv, WaitersExact
  <2>5. \A f \in Event : NoDuplicate(waiters'[f])
    BY DEF IInv, WaitersExact
  <2>6. \A f \in Event : has_signal'[f] => waiters'[f] = <<>>
    BY ZenonT(120) DEF IInv, WaitersExact
  <2> QED BY <2>3, <2>4, <2>5, <2>6 DEF WaitersExact
<1> QED BY <1>3, <1>4, <1>5, <1>10, <1>11

\* scheduler_await, on an event that is not a nanosleep's.
LEMMA AwaitPreserves ==
    ASSUME IInv, NEW k \in KernelThread, NEW e \in Event, e \notin KernelThread, NEW resume \in Pc,
           mode = "kernel", current = k, scheduler_await(k, e, resume),
           UNCHANGED <<current, queue, process, proc_vars, signal_vars, timer_vars>>
    PROVE  IInv'
<1> USE DEF proc_vars, signal_vars, timer_vars
<1>1. CASE has_signal[e]
  <2>1. /\ has_signal' = [has_signal EXCEPT ![e] = FALSE]
        /\ mode' = "return" /\ state' = state /\ waiters' = waiters /\ pc' = pc
    BY <1>1 DEF scheduler_await
  <2>2. has_signal' \in [Event -> BOOLEAN] /\ \A f \in Event : has_signal'[f] => has_signal[f]
    BY <2>1 DEF IInv, TypeOK
  <2>3. TypeOK' /\ CurrentByMode'
    BY ZenonT(120), <2>1, <2>2 DEF IInv, TypeOK, Mode, CurrentByMode
  <2>4. WaitersExact'
    BY <2>1, <2>2 DEF IInv, WaitersExact
  <2> QED BY <2>1, <2>3, <2>4 DEF IInv, TwinStates, TwinExclusion, QueueExact, ReapedAfterCall,
               ProcessOwnsThreads, SleepArmed
<1>2. CASE ~has_signal[e]
  <2>1. /\ become_waiter(k, resume) /\ has_signal' = has_signal
        /\ waiters' = [waiters EXCEPT ![e] = Append(waiters[e], k)]
    BY <1>2 DEF scheduler_await
  <2>2. waiters[e] \in Seq(KernelThread) /\ NoDuplicate(waiters[e]) /\ ~Linked(waiters[e], k)
    <3>1. state[k] = "RUNNING"
      BY DEF IInv, CurrentByMode
    <3> QED BY Zenon, <3>1 DEF IInv, TypeOK, WaitersExact
  <2>3. /\ Append(waiters[e], k) \in Seq(KernelThread)
        /\ NoDuplicate(Append(waiters[e], k))
        /\ \A y : Linked(Append(waiters[e], k), y) <=> Linked(waiters[e], y) \/ y = k
    BY <2>2, AppendLinks
  <2>4. /\ waiters' \in [Event -> Seq(KernelThread)]
        /\ waiters'[e] = Append(waiters[e], k)
        /\ \A f \in Event : f # e => waiters'[f] = waiters[f]
    BY <2>1, <2>3 DEF IInv, TypeOK
  <2>5. /\ TypeOK' /\ CurrentByMode' /\ TwinStates' /\ QueueExact' /\ ReapedAfterCall'
        /\ ProcessOwnsThreads' /\ WaitersExact'
    <3>1. /\ NoDuplicate(waiters'[e])
          /\ \A y \in KernelThread : Linked(waiters'[e], y) <=> Linked(waiters[e], y) \/ y = k
      BY <2>3, <2>4
    <3>2. /\ has_signal' \in [Event -> BOOLEAN] /\ ~has_signal'[e]
          /\ \A f \in Event : f # e => has_signal'[f] = has_signal[f]
          /\ sleepers' \in SUBSET KernelThread
      BY ZenonT(120), <1>2, <2>1 DEF IInv, TypeOK
    <3> QED BY <2>1, <2>4, <3>1, <3>2, BlockPreserves
  <2>6. SleepArmed'
    <3>1. \A j \in KernelThread : j \in Event /\ waiters'[j] = waiters[j]
      BY <2>4 DEF Event
    <3> QED BY ZenonT(120), <3>1 DEF IInv, SleepArmed
  <2> QED BY <2>5, <2>6 DEF IInv
<1> QED BY <1>1, <1>2

\* syscall_wait, reads of a device, and syscall_accept.
LEMMA WaitSyscallIInv ==
    ASSUME NEW k \in KernelThread
    PROVE  IInv /\ (SyscallWait(k) \/ \E d \in Device : SyscallRead(k, d) \/ SyscallAccept(k, d)) => IInv'
<1> SUFFICES ASSUME IInv, SyscallWait(k) \/ \E d \in Device : SyscallRead(k, d) \/ SyscallAccept(k, d)
             PROVE  IInv'
  OBVIOUS
<1>1. /\ mode = "kernel" /\ current = k
      /\ UNCHANGED <<current, queue, process, proc_vars, signal_vars, timer_vars>>
  BY DEF SyscallWait, SyscallRead, SyscallAccept, DispatchLive, Dispatch
<1>2. \E e \in Event, resume \in Pc : e \notin KernelThread /\ scheduler_await(k, e, resume)
  <2>1. CASE SyscallWait(k)
    <3>1. process[k] \in Pid
      BY <1>1, ProcessOfRunning DEF IInv, CurrentByMode
    <3>2. PICK e : e = process[k]
      BY ZenonT(120)
    <3>3. scheduler_await(k, e, "await") /\ e \in Event /\ e \notin KernelThread
      BY <2>1, <3>1, <3>2, EventAssumption DEF SyscallWait, scheduler_await, Event
    <3> QED BY <3>3 DEF Pc
  <2>2. CASE \E d \in Device : SyscallRead(k, d) \/ SyscallAccept(k, d)
    BY <2>2, EventAssumption DEF SyscallRead, SyscallAccept, Event, Pc
  <2> QED BY <2>1, <2>2
<1> QED BY <1>1, <1>2, AwaitPreserves

\* syscall_nanosleep: the event is new, so it has neither signal nor waiter.
LEMMA SyscallNanosleepIInv ==
    ASSUME NEW k \in KernelThread PROVE IInv /\ SyscallNanosleep(k) => IInv'
<1> SUFFICES ASSUME IInv, SyscallNanosleep(k) PROVE IInv'
  OBVIOUS
<1>1. /\ mode = "kernel" /\ current = k /\ k \in Event /\ current' = current
      /\ become_waiter(k, "await") /\ "await" \in Pc
      /\ sleepers' = sleepers \cup {k} /\ sleepers' \in SUBSET KernelThread
      /\ UNCHANGED <<queue, process, proc_vars, signal_vars, alarms>>
  BY DEF SyscallNanosleep, Dispatch, Event, Pc, IInv, TypeOK
<1>2. /\ has_signal' \in [Event -> BOOLEAN] /\ ~has_signal'[k]
      /\ \A f \in Event : f # k => has_signal'[f] = has_signal[f]
  BY <1>1 DEF SyscallNanosleep, IInv, TypeOK
<1>3. <<k>> \in Seq(KernelThread)
  OBVIOUS
<1>4. /\ waiters' \in [Event -> Seq(KernelThread)] /\ waiters'[k] = <<k>>
      /\ \A f \in Event : f # k => waiters'[f] = waiters[f]
  BY <1>1, <1>3 DEF SyscallNanosleep, IInv, TypeOK
<1>5. \A y \in KernelThread : ~Linked(waiters[k], y)
  <2>1. state[k] = "RUNNING"
    BY <1>1 DEF IInv, CurrentByMode
  <2>2. ~Linked(waiters[k], k)
    BY <1>1, <2>1 DEF IInv, WaitersExact
  <2> QED BY <2>2 DEF IInv, SleepArmed
<1>6. /\ NoDuplicate(waiters'[k])
      /\ \A y \in KernelThread : Linked(waiters'[k], y) <=> Linked(waiters[k], y) \/ y = k
  BY SMTT(40), <1>4, <1>5, SingletonLinks
<1>7. /\ TypeOK' /\ CurrentByMode' /\ TwinStates' /\ QueueExact' /\ ReapedAfterCall'
      /\ ProcessOwnsThreads' /\ WaitersExact'
  BY <1>1, <1>2, <1>4, <1>6, BlockPreserves
<1>8. SleepArmed'
  <2>1. \A j \in KernelThread : j # k => waiters'[j] = waiters[j]
    BY <1>4 DEF Event
  <2> QED BY <1>1, <1>5, <1>6, <2>1 DEF IInv, SleepArmed
<1> QED BY <1>7, <1>8 DEF IInv

-----------------------------------------------------------------------------
(* The theorems.                                                             *)

\* Every step of the kernel preserves the invariant.
LEMMA NextIInv == IInv /\ [Next]_vars => IInv'
<1> SUFFICES ASSUME IInv, [Next]_vars PROVE IInv'
  OBVIOUS
<1>1. ASSUME NEW k \in KernelThread, Syscall(k) PROVE IInv'
  BY <1>1, QuietSyscallIInv, KillSyscallIInv, CreateSyscallIInv, WaitSyscallIInv,
     SyscallNanosleepIInv, SyscallSignalretIInv DEF Syscall
<1>2. CASE Kernel
  BY <1>1, <1>2, YieldCurrentIInv, YieldIdleIInv, YieldResumeIInv, YieldFreeIInv, KillCurrentIInv,
     ResumeUserIInv, ReturnTwinIInv, InterruptIInv, QuietSyscallIInv DEF Kernel
<1>3. CASE SyscallEntry \/ PageFaultBadAddress \/ PageFaultUnwritable
           \/ OtherInterrupt \/ TimerInterrupt
  BY <1>3, SyscallEntryIInv, PageFaultBadAddressIInv, KillCurrentIInv, InterruptIInv
<1>4. CASE \E d \in Device : DeviceInterrupt(d)
  BY <1>4, DeviceInterruptIInv
<1>5. CASE \E k \in KernelThread : SleepExpires(k)
  BY <1>5, SleepExpiresIInv
<1>6. CASE \E p \in Pid : AlarmExpires(p)
  BY <1>6, AlarmExpiresIInv
<1>7. CASE UNCHANGED vars
  <2>1. TypeOK' /\ CurrentByMode'
    BY <1>7 DEF IInv, TypeOK, CurrentByMode, vars, sched_vars, thread_vars, proc_vars,
                event_vars, signal_vars, timer_vars
  <2> QED BY ZenonT(120), <1>7, <2>1, FrameIInv DEF vars, sched_vars, thread_vars, proc_vars, event_vars,
                signal_vars, timer_vars
<1> QED BY <1>2, <1>3, <1>4, <1>5, <1>6, <1>7 DEF Next

\* The inductive invariant of the scheduler holds in every reachable state.
THEOREM Invariance == Spec => []IInv
BY InitIInv, NextIInv, PTL DEF Spec

\* Every variable of the kernel keeps its type; no signal queue exceeds
\* SIGNAL_QUEUE_SIZE.
THEOREM TypeCorrect == Spec => []TypeOK
<1>1. IInv => TypeOK
  BY DEF IInv
<1> QED BY <1>1, Invariance, PTL

\* A thread is in the run queue at most once, and exactly the runnable threads
\* are in it or current.
THEOREM QueueCorrect == Spec => []QueueExact
<1>1. IInv => QueueExact
  BY DEF IInv
<1> QED BY <1>1, Invariance, PTL

\* A user thread and its kernel twin never both may run.
THEOREM TwinsExclude == Spec => []TwinExclusion
<1>1. IInv => TwinExclusion
  BY DEF IInv, TwinStates
<1> QED BY <1>1, Invariance, PTL

\* A killed thread is queued for thread_free only when its twin has finished.
THEOREM ReapingCorrect == Spec => []ReapedAfterCall
<1>1. IInv => ReapedAfterCall
  BY DEF IInv
<1> QED BY <1>1, Invariance, PTL

\* A thread is linked to one event, once, exactly while it waits, and an event
\* never holds both a signal and a waiter; an armed nanosleep has its waiter.
THEOREM WaitersCorrect == Spec => []WaitingExact
<1>1. IInv => WaitingExact
  BY DEF IInv, WaitingExact
<1> QED BY <1>1, Invariance, PTL

\* thread_free leaves no reference to what it frees.
THEOREM FreeingCorrect == Spec => []FreedUnreferenced
<1>1. ASSUME IInv PROVE FreedUnreferenced
  <2> USE TwinAssumption
  <2> SUFFICES ASSUME NEW t \in Thread, state[t] = "FREE"
               PROVE  /\ ~Linked(queue, t) /\ t # current /\ t \notin sleepers
                      /\ state[twin[t]] = "FREE"
                      /\ \A e \in Event : ~Linked(waiters[e], t)
                      /\ \A p \in Pid : t \notin threads[p]
    BY DEF FreedUnreferenced
  <2>0. TypeOK /\ CurrentByMode /\ TwinStates /\ QueueExact /\ ProcessOwnsThreads
        /\ WaitersExact /\ SleepArmed
    BY <1>1 DEF IInv
  <2>1. ~Linked(queue, t)
    BY <2>0 DEF QueueExact
  <2>2. t # current
    <3>1. NULL \notin Thread
      OBVIOUS
    <3> QED BY <2>0, <3>1 DEF CurrentByMode, TypeOK, Mode
  <2>3. state[twin[t]] = "FREE"
    BY <2>0 DEF TwinStates, Thread
  <2>4. \A e \in Event : ~Linked(waiters[e], t)
    <3>1. CASE t \in KernelThread
      BY <2>0, <3>1 DEF WaitersExact
    <3>2. CASE t \in UserThread
      <4>1. \A e \in Event : waiters[e] \in Seq(KernelThread)
        BY <2>0 DEF TypeOK
      <4>2. t \notin KernelThread
        BY <3>2
      <4> QED BY <4>1, <4>2, EmptyLinks
    <3> QED BY <3>1, <3>2 DEF Thread
  <2>5. t \notin sleepers
    BY <2>0, <2>4 DEF SleepArmed, TypeOK, Event
  <2>6. \A p \in Pid : t \notin threads[p]
    BY <2>0 DEF ProcessOwnsThreads, TypeOK, Thread
  <2> QED BY <2>1, <2>2, <2>3, <2>4, <2>5, <2>6
<1> QED BY <1>1, Invariance, PTL

\* The threads of a live process are the threads that point to it; code in user
\* mode belongs to a live process.
THEOREM OwnershipCorrect == Spec => []OwnershipExact
<1>1. IInv => ProcessOwnsThreads /\ UserModeIsLive
  BY ZenonT(120), ProcessOfRunning DEF IInv, CurrentByMode, UserModeIsLive
<1>2. IInv => OwnershipExact
  BY <1>1 DEF OwnershipExact
<1> QED BY <1>2, Invariance, PTL

\* No step takes a killed user thread anywhere but to thread_free.
LEMMA NextDead ==
    ASSUME IInv, Next, NEW u \in UserThread, state[u] = "DEAD"
    PROVE  state'[u] \in {"DEAD", "FREE"}
<1> USE TwinAssumption
<1> USE DEF thread_vars, thread_run_state, Dispatch, DispatchLive
<1>1. TypeOK /\ u \in Thread /\ state \in [Thread -> ThreadState]
  BY DEF IInv, TypeOK, Thread
<1>2. ASSUME NEW e \in Event, state' = event_invoke_state(e, state)
      PROVE  state'[u] = "DEAD"
  <2>1. CASE waiters[e] = <<>>
    BY <1>2, <2>1 DEF event_invoke_state
  <2>2. CASE waiters[e] # <<>>
    <3>1. Head(waiters[e]) \in KernelThread
      BY <1>1, <2>2 DEF TypeOK
    <3> QED BY <1>1, <1>2, <2>2, <3>1 DEF event_invoke_state
  <2> QED BY <2>1, <2>2
<1>3. ASSUME NEW p \in Pid, pstate[p] = "ALIVE", process_kill(p),
             mode \in {"user", "kernel", "resume"}, mode' \in Mode, current' = current
      PROVE  state'[u] = "DEAD"
  BY <1>3, KillPreserves
<1>4. CASE ResumeKilled \/ PageFaultUnwritable
  <2>1. /\ mode \in {"user", "kernel", "resume"} /\ mode' \in Mode
        /\ current' = current /\ current \in UserThread /\ state[current] = "RUNNING"
        /\ process_kill(process[current])
    BY <1>4 DEF IInv, CurrentByMode, ResumeKilled, PageFaultUnwritable, Mode
  <2>2. PICK p \in Pid : p = process[current] /\ pstate[p] = "ALIVE"
    BY ZenonT(120), <2>1, ProcessOfRunning
  <2>3. process_kill(p)
    BY ZenonT(120), <2>1, <2>2 DEF process_kill, thread_kill_state, thread_kill_queue, parent_alive,
         event_invoke, event_invoke_state, event_invoke_queue
  <2> QED BY <1>3, <2>1, <2>2, <2>3
<1>5. ASSUME NEW k \in KernelThread, SyscallExit(k) \/ \E p \in Pid : SyscallKill(k, p)
      PROVE  state'[u] = "DEAD"
  <2>1. /\ mode \in {"user", "kernel", "resume"} /\ mode' \in Mode
        /\ current' = current /\ current = k /\ state[k] = "RUNNING"
    BY <1>5 DEF IInv, CurrentByMode, SyscallExit, SyscallKill, Mode
  <2>2. CASE SyscallExit(k)
    <3>1. PICK p \in Pid : p = process[k] /\ pstate[p] = "ALIVE"
      BY ZenonT(120), <2>1, <2>2, ProcessOfRunning DEF SyscallExit
    <3>2. process_kill(p)
      BY ZenonT(120), <2>2, <3>1 DEF SyscallExit, process_kill, thread_kill_state, thread_kill_queue, parent_alive,
           event_invoke, event_invoke_state, event_invoke_queue
    <3> QED BY <1>3, <2>1, <3>1, <3>2
  <2>3. ASSUME NEW p \in Pid, SyscallKill(k, p) PROVE state'[u] = "DEAD"
    BY <1>3, <2>1, <2>3 DEF SyscallKill
  <2> QED BY <1>5, <2>2, <2>3
<1>6. CASE YieldFree
  <2>1. Head(queue) \in Thread /\ twin[Head(queue)] \in Thread
    BY <1>1, <1>6 DEF TypeOK, YieldFree
  <2> QED BY <1>1, <1>6, <2>1 DEF YieldFree
<1>7. CASE SyscallEntry
  <2>1. current \in UserThread /\ state[current] = "RUNNING" /\ twin[current] \in KernelThread
    BY <1>7 DEF SyscallEntry, IInv, CurrentByMode
  <2> QED BY ZenonT(120), <1>1, <1>7, <2>1 DEF SyscallEntry
<1>8. CASE ReturnTwin
  <2>1. current \in KernelThread /\ twin[current] \in UserThread
    BY <1>8 DEF ReturnTwin, IInv, CurrentByMode
  <2>2. CASE u = twin[current]
    BY <1>1, <1>8, <2>1, <2>2 DEF ReturnTwin
  <2>3. CASE u # twin[current]
    BY <1>1, <1>8, <2>1, <2>3 DEF ReturnTwin
  <2> QED BY ZenonT(120), <2>2, <2>3
<1>9. ASSUME NEW k \in KernelThread, SyscallSignalret(k) PROVE state'[u] = "DEAD"
  <2>1. twin[k] \in UserThread /\ (u = twin[k] => process[twin[k]] = NULL)
    BY DEF IInv, ProcessOwnsThreads
  <2>2. CASE process[twin[k]] = NULL
    BY <1>9, <2>2 DEF SyscallSignalret
  <2>3. CASE process[twin[k]] # NULL
    BY <1>1, <1>9, <2>1, <2>3 DEF SyscallSignalret
  <2> QED BY <2>2, <2>3
<1>10. ASSUME NEW k \in KernelThread, NEW v \in UserThread,
              SyscallThread(k, v) \/ \E c \in Pid : SyscallFork(k, c, v)
       PROVE  state'[u] = "DEAD"
  <2>1. state[v] = "FREE" /\ twin[v] \in KernelThread
        /\ state' = [[state EXCEPT ![v] = "STOPPED", ![twin[v]] = "STOPPED"] EXCEPT ![v] = "RUNNING"]
    BY <1>10 DEF SyscallThread, SyscallFork, CreateThread
  <2> QED BY <1>1, <2>1
<1>11. ASSUME NEW k \in KernelThread,
              \/ SyscallWait(k) \/ SyscallNanosleep(k)
              \/ \E d \in Device : SyscallRead(k, d) \/ SyscallAccept(k, d)
       PROVE  state'[u] = "DEAD"
  <2>1. state' = state \/ state' = [state EXCEPT ![k] = "UNINTERRUPTABLE_WAIT"]
    BY ZenonT(120), <1>11 DEF SyscallWait, SyscallNanosleep, SyscallRead, SyscallAccept, scheduler_await, become_waiter
  <2> QED BY ZenonT(120), <1>1, <2>1
<1>12. ASSUME NEW d \in Device, DeviceInterrupt(d) PROVE state'[u] = "DEAD"
  BY ZenonT(120), <1>2, <1>12 DEF DeviceInterrupt, Event
<1>13. ASSUME NEW k \in KernelThread, SleepExpires(k) PROVE state'[u] = "DEAD"
  BY ZenonT(120), <1>2, <1>13 DEF SleepExpires, Event
<1>14. ASSUME NEW k \in KernelThread, Syscall(k) \/ AwaitReturns(k) PROVE state'[u] = "DEAD"
  BY Zenon, <1>5, <1>9, <1>10, <1>11, <1>14 DEF Syscall, SyscallStale, SyscallExitStale, SyscallOther,
       SyscallAlarm, SyscallSignal, AwaitReturns
<1> QED
  BY ZenonT(120), <1>4, <1>6, <1>7, <1>8, <1>12, <1>13, <1>14 DEF Next, Kernel, YieldCurrent, YieldIdle,
     YieldResume, ResumeUser, TimersDone, PageFaultBadAddress, OtherInterrupt, TimerInterrupt,
     AlarmExpires

\* A killed thread never runs again: from DEAD it is only freed.
THEOREM DeadForGood == Spec => DeadStaysDead
<1>1. ASSUME IInv, [Next]_vars
      PROVE  [\A u \in UserThread : state[u] = "DEAD" => state'[u] \in {"DEAD", "FREE"}]_vars
  BY <1>1, NextDead
<1> QED BY <1>1, Invariance, PTL DEF Spec, DeadStaysDead
=============================================================================

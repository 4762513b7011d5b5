--------------------------- MODULE SchedulerSteps ----------------------------
(***************************************************************************)
(* The inductive invariant of Scheduler is preserved by the steps that       *)
(* resume, interrupt, kill, wake and hand over threads.                      *)
(***************************************************************************)
EXTENDS SchedulerLemmas

(* Steps that only change mode, program counters, signals or alarms.         *)

\* A thread in user mode, or on its way there, has a live process; a kernel
\* twin that runs has one that is live or was freed during its call.
LEMMA ProcessOfRunning ==
    ASSUME IInv
    PROVE  /\ \A u \in UserThread : state[u] = "RUNNING" =>
                  process[u] \in Pid /\ pstate[process[u]] = "ALIVE"
           /\ \A k \in KernelThread : state[k] = "RUNNING" =>
                  process[k] \in Pid /\ state[twin[k]] \in {"WAITING", "DEAD"}
<1> USE TwinAssumption
<1>1. TypeOK /\ TwinStates /\ ProcessOwnsThreads
  BY DEF IInv
<1>2. \A u \in UserThread : state[u] = "RUNNING" =>
         process[u] \in Pid /\ pstate[process[u]] = "ALIVE"
  BY <1>1 DEF ProcessOwnsThreads
<1>3. ASSUME NEW k \in KernelThread, state[k] = "RUNNING"
      PROVE  process[k] \in Pid /\ state[twin[k]] \in {"WAITING", "DEAD"}
  <2>1. twin[k] \in UserThread /\ twin[twin[k]] = k
    OBVIOUS
  <2>2. state[twin[k]] \in {"WAITING", "DEAD"}
    BY <1>1, <1>3, <2>1 DEF TwinStates, TwinExclusion
  <2> QED BY <1>1, <2>1, <2>2 DEF ProcessOwnsThreads
<1> QED BY <1>2, <1>3

\* signal_table_resume without a terminating signal.
LEMMA ResumeUserIInv == IInv /\ ResumeUser => IInv'
<1> SUFFICES ASSUME IInv, ResumeUser PROVE IInv'
  OBVIOUS
<1> USE DEF thread_vars, proc_vars, event_vars, signal_vars, timer_vars
<1>1. current \in UserThread /\ process[current] \in Pid
  BY ProcessOfRunning DEF ResumeUser, IInv, CurrentByMode
<1>2. signal_queue' \in [Pid -> Seq(Signal)]
      /\ \A q \in Pid : Len(signal_queue'[q]) <= SIGNAL_QUEUE_SIZE
  <2> DEFINE p == process[current]
  <2>1. CASE signal_queue[p] = <<>>
    BY <2>1 DEF ResumeUser, IInv, TypeOK
  <2>2. CASE signal_queue[p] # <<>>
    <3>1. signal_queue[p] \in Seq(Signal) /\ Len(signal_queue[p]) <= SIGNAL_QUEUE_SIZE
      BY <1>1 DEF IInv, TypeOK
    <3>2. Tail(signal_queue[p]) \in Seq(Signal) /\ Len(Tail(signal_queue[p])) <= SIGNAL_QUEUE_SIZE
      BY <2>2, <3>1, BoundAssumption
    <3>3. signal_queue' = [signal_queue EXCEPT ![p] = Tail(signal_queue[p])]
      BY <2>2 DEF ResumeUser
    <3> QED BY Zenon, <3>2, <3>3 DEF IInv, TypeOK
  <2> QED BY <2>1, <2>2
<1>3. TypeOK'
  BY <1>2 DEF ResumeUser, IInv, TypeOK, Mode
<1>4. CurrentByMode'
  BY DEF ResumeUser, IInv, CurrentByMode
<1> QED BY <1>3, <1>4, FrameIInv DEF ResumeUser

\* A page fault without a mapping queues SIG_PAGE.
LEMMA PageFaultBadAddressIInv == IInv /\ PageFaultBadAddress => IInv'
<1> SUFFICES ASSUME IInv, PageFaultBadAddress PROVE IInv'
  OBVIOUS
<1> USE DEF thread_vars, proc_vars, event_vars, signal_vars, timer_vars
<1>1. process[current] \in Pid /\ "SIG_PAGE" \in Signal
  BY ProcessOfRunning DEF PageFaultBadAddress, IInv, CurrentByMode, Signal
<1>2. signal_queue' \in [Pid -> Seq(Signal)]
      /\ \A q \in Pid : Len(signal_queue'[q]) <= SIGNAL_QUEUE_SIZE
  BY Zenon, <1>1, SignalBounded DEF PageFaultBadAddress, IInv, TypeOK
<1>3. TypeOK'
  BY <1>2 DEF PageFaultBadAddress, IInv, TypeOK, Mode
<1>4. CurrentByMode'
  BY DEF PageFaultBadAddress, IInv, CurrentByMode
<1> QED BY <1>3, <1>4, FrameIInv DEF PageFaultBadAddress

\* Interrupts that leave the threads alone.
LEMMA InterruptIInv ==
    IInv /\ (OtherInterrupt \/ TimerInterrupt \/ TimersDone) => IInv'
<1> SUFFICES ASSUME IInv, OtherInterrupt \/ TimerInterrupt \/ TimersDone PROVE IInv'
  OBVIOUS
<1> USE DEF thread_vars, proc_vars, event_vars, signal_vars, timer_vars,
            OtherInterrupt, TimerInterrupt, TimersDone
<1>1. TypeOK'
  BY DEF IInv, TypeOK, Mode
<1>2. CurrentByMode'
  BY DEF IInv, CurrentByMode
<1> QED BY <1>1, <1>2, FrameIInv

\* alarm_timer_handler.
LEMMA AlarmExpiresIInv == ASSUME NEW p \in Pid PROVE IInv /\ AlarmExpires(p) => IInv'
<1> SUFFICES ASSUME IInv, AlarmExpires(p) PROVE IInv'
  OBVIOUS
<1> USE DEF thread_vars, proc_vars, event_vars, signal_vars, timer_vars
<1>1. signal_queue' \in [Pid -> Seq(Signal)]
      /\ \A q \in Pid : Len(signal_queue'[q]) <= SIGNAL_QUEUE_SIZE
  <2>1. "SIG_ALARM" \in Signal
    BY DEF Signal
  <2>2. /\ signal_queue \in [Pid -> Seq(Signal)]
        /\ \A q \in Pid : Len(signal_queue[q]) <= SIGNAL_QUEUE_SIZE
    BY DEF IInv, TypeOK
  <2>3. \/ signal_queue' = signal_queue
        \/ signal_queue' = signal_table_invoke(p, "SIG_ALARM", signal_queue)
    BY DEF AlarmExpires
  <2> QED BY <2>1, <2>2, <2>3, SignalBounded
<1>2. alarms' \in [Pid -> 0..MaxAlarms]
  <2>1. alarms[p] - 1 \in 0..MaxAlarms
    BY BoundAssumption DEF AlarmExpires, IInv, TypeOK
  <2> QED BY <2>1 DEF AlarmExpires, IInv, TypeOK
<1>3. TypeOK'
  BY <1>1, <1>2 DEF AlarmExpires, IInv, TypeOK, Mode
<1>4. CurrentByMode'
  BY DEF AlarmExpires, IInv, CurrentByMode
<1> QED BY <1>3, <1>4, FrameIInv DEF AlarmExpires

\* The system calls that neither block nor touch a thread.
LEMMA QuietSyscallIInv ==
    ASSUME NEW k \in KernelThread
    PROVE  IInv /\ (\/ SyscallStale(k) \/ SyscallExitStale(k) \/ SyscallOther(k) \/ SyscallAlarm(k)
                    \/ AwaitReturns(k)
                    \/ \E sig \in HandledSignal, h \in BOOLEAN : SyscallSignal(k, sig, h)) => IInv'
<1> SUFFICES ASSUME IInv,
                    \/ SyscallStale(k) \/ SyscallExitStale(k) \/ SyscallOther(k) \/ SyscallAlarm(k)
                    \/ AwaitReturns(k)
                    \/ \E sig \in HandledSignal, h \in BOOLEAN : SyscallSignal(k, sig, h)
             PROVE  IInv'
  OBVIOUS
<1> USE BoundAssumption
<1> USE DEF thread_vars, proc_vars, event_vars, signal_vars, timer_vars, Dispatch, DispatchLive
<1>0. mode = "kernel" /\ current = k /\ process[k] \in Pid
  BY ZenonT(120), ProcessOfRunning DEF IInv, CurrentByMode, SyscallStale, SyscallExitStale, SyscallOther,
       SyscallAlarm, AwaitReturns, SyscallSignal
<1>1. CASE SyscallStale(k) \/ SyscallExitStale(k) \/ SyscallOther(k)
  <2>1. TypeOK' /\ CurrentByMode'
    BY <1>1 DEF IInv, TypeOK, Mode, CurrentByMode, SyscallStale, SyscallExitStale, SyscallOther
  <2> QED BY <1>1, <2>1, FrameIInv DEF SyscallStale, SyscallExitStale, SyscallOther
<1>2. CASE SyscallAlarm(k)
  <2>1. alarms' \in [Pid -> 0..MaxAlarms]
    <3>1. alarms[process[k]] + 1 \in 0..MaxAlarms
      BY <1>0, <1>2 DEF SyscallAlarm, IInv, TypeOK
    <3> QED BY Zenon, <1>2, <3>1 DEF SyscallAlarm, IInv, TypeOK
  <2>2. TypeOK' /\ CurrentByMode'
    BY ZenonT(120), <1>2, <2>1 DEF IInv, TypeOK, Mode, CurrentByMode, SyscallAlarm
  <2> QED BY <1>2, <2>2, FrameIInv DEF SyscallAlarm
<1>3. CASE AwaitReturns(k)
  <2>1. TypeOK' /\ CurrentByMode'
    BY ZenonT(120), <1>3 DEF IInv, TypeOK, Mode, Pc, CurrentByMode, AwaitReturns
  <2> QED BY <1>3, <2>1, FrameIInv DEF AwaitReturns
<1>4. ASSUME NEW sig \in HandledSignal, NEW h \in BOOLEAN, SyscallSignal(k, sig, h) PROVE IInv'
  <2>1. user_handler' \in [Pid -> SUBSET Signal]
    BY Zenon, <1>0, <1>4 DEF SyscallSignal, IInv, TypeOK, Signal
  <2>2. TypeOK' /\ CurrentByMode'
    BY <1>4, <2>1 DEF IInv, TypeOK, Mode, CurrentByMode, SyscallSignal
  <2> QED BY <1>4, <2>2, FrameIInv DEF SyscallSignal
<1> QED BY <1>1, <1>2, <1>3, <1>4
-----------------------------------------------------------------------------
(* Steps that kill a process or invoke an event.                             *)

\* process_kill of the process of the thread being resumed, or of the one that
\* faulted; the killed thread is still the current one.
LEMMA KillCurrentIInv == IInv /\ (ResumeKilled \/ PageFaultUnwritable) => IInv'
<1> SUFFICES ASSUME IInv, ResumeKilled \/ PageFaultUnwritable PROVE IInv'
  OBVIOUS
<1>1. /\ mode \in {"user", "kernel", "resume"} /\ mode' = "yield" /\ mode' \in Mode
      /\ current' = current /\ current \in UserThread /\ state[current] = "RUNNING"
      /\ process_kill(process[current])
  BY DEF IInv, CurrentByMode, ResumeKilled, PageFaultUnwritable, Mode
<1>2. PICK p \in Pid : p = process[current] /\ pstate[p] = "ALIVE"
  BY ZenonT(120), <1>1, ProcessOfRunning
<1>3. process_kill(p)
  BY <1>1, <1>2 DEF process_kill, thread_kill_state, thread_kill_queue, parent_alive,
       event_invoke, event_invoke_state, event_invoke_queue
<1>4. /\ TypeOK' /\ TwinStates' /\ QueueExact' /\ ReapedAfterCall'
      /\ ProcessOwnsThreads' /\ WaitersExact' /\ SleepArmed'
      /\ \A u \in UserThread : state'[u] = IF u \in threads[p] THEN "DEAD" ELSE state[u]
  BY <1>1, <1>2, <1>3, KillPreserves
<1>5. CurrentByMode'
  BY <1>1, <1>4 DEF CurrentByMode
<1> QED BY <1>4, <1>5 DEF IInv

\* syscall_exit and syscall_kill; the twin that called is still the current
\* thread, and returns.
LEMMA KillSyscallIInv ==
    ASSUME NEW k \in KernelThread
    PROVE  IInv /\ (SyscallExit(k) \/ \E p \in Pid : SyscallKill(k, p)) => IInv'
<1> SUFFICES ASSUME IInv, SyscallExit(k) \/ \E p \in Pid : SyscallKill(k, p) PROVE IInv'
  OBVIOUS
<1>1. /\ mode \in {"user", "kernel", "resume"} /\ mode' = "return" /\ mode' \in Mode
      /\ current' = current /\ current = k /\ state[k] = "RUNNING"
  BY DEF IInv, CurrentByMode, SyscallExit, SyscallKill, Mode, Dispatch, DispatchLive
<1>2. PICK p \in Pid : pstate[p] = "ALIVE" /\ process_kill(p)
  <2>1. CASE \E p \in Pid : SyscallKill(k, p)
    BY <2>1 DEF SyscallKill
  <2>2. CASE SyscallExit(k)
    <3>1. process[k] \in Pid /\ pstate[process[k]] = "ALIVE" /\ process_kill(process[k])
      BY <1>1, <2>2, ProcessOfRunning DEF SyscallExit, DispatchLive
    <3>2. PICK p \in Pid : p = process[k]
      BY ZenonT(120), <3>1
    <3>3. pstate[p] = "ALIVE" /\ process_kill(p)
      BY ZenonT(120), <3>1, <3>2 DEF process_kill, thread_kill_state, thread_kill_queue, parent_alive,
           event_invoke, event_invoke_state, event_invoke_queue
    <3> QED BY <3>3
  <2> QED BY <2>1, <2>2
<1>4. /\ TypeOK' /\ TwinStates' /\ QueueExact' /\ ReapedAfterCall'
      /\ ProcessOwnsThreads' /\ WaitersExact' /\ SleepArmed'
      /\ \A j \in KernelThread : state[j] = "RUNNING" => state'[j] = "RUNNING"
  BY <1>1, <1>2, KillPreserves
<1>5. CurrentByMode'
  BY <1>1, <1>4 DEF CurrentByMode
<1> QED BY <1>4, <1>5 DEF IInv

\* The handler of a device interrupt or of a nanosleep timer invokes an event.
LEMMA InvokePreserves ==
    ASSUME IInv, NEW e \in Event,
           state' = event_invoke_state(e, state),
           queue' = event_invoke_queue(e, state, queue),
           event_invoke(e),
           mode \in {"user", "idle", "timers"}, mode' \in {"yield", "timers"}, current' = current,
           mode' = "timers" => mode = "timers",
           sleepers' \in SUBSET KernelThread,
           UNCHANGED <<process, pc, proc_vars, signal_vars, alarms>>
    PROVE  /\ TypeOK' /\ CurrentByMode' /\ TwinStates' /\ QueueExact' /\ ReapedAfterCall'
           /\ ProcessOwnsThreads' /\ WaitersExact'
           /\ \A f \in Event : f # e => waiters'[f] = waiters[f]
<1> USE TwinAssumption
<1> USE DEF proc_vars, signal_vars
<1>1. Wakes({}, e)
  BY InvokeWakes
<1>2. /\ state' \in [Thread -> ThreadState] /\ queue' \in Seq(Thread)
      /\ waiters' \in [Event -> Seq(KernelThread)] /\ has_signal' \in [Event -> BOOLEAN]
      /\ TwinStates' /\ QueueExact' /\ ReapedAfterCall' /\ WaitersExact'
      /\ \A u \in UserThread : state'[u] = state[u]
      /\ \A f \in Event : f # e => waiters'[f] = waiters[f]
  <2>1. mode \in {"user", "idle", "kernel", "resume", "timers"}
    OBVIOUS
  <2>2. PICK D \in SUBSET UserThread : D = {}
    BY Zenon
  <2>3. Wakes(D, e) /\ \A u \in D : state[u] \in {"RUNNING", "WAITING"}
    BY <1>1, <2>2
  <2> QED BY <2>1, <2>2, <2>3, WakesPreserves DEF Wakes
<1>3. TypeOK'
  BY <1>2 DEF IInv, TypeOK, Mode
<1>4. CurrentByMode'
  BY <1>2 DEF IInv, CurrentByMode
<1>5. ProcessOwnsThreads'
  BY <1>2 DEF IInv, ProcessOwnsThreads
<1> QED BY <1>2, <1>3, <1>4, <1>5

\* A device interrupt.
LEMMA DeviceInterruptIInv == ASSUME NEW d \in Device PROVE IInv /\ DeviceInterrupt(d) => IInv'
<1> SUFFICES ASSUME IInv, DeviceInterrupt(d) PROVE IInv'
  OBVIOUS
<1> USE EventAssumption
<1> USE DEF timer_vars
<1>1. d \in Event /\ \A k \in KernelThread : k \in Event /\ k # d
  BY DEF Event
<1>2. /\ TypeOK' /\ CurrentByMode' /\ TwinStates' /\ QueueExact' /\ ReapedAfterCall'
      /\ ProcessOwnsThreads' /\ WaitersExact'
      /\ \A f \in Event : f # d => waiters'[f] = waiters[f]
  BY <1>1, InvokePreserves DEF DeviceInterrupt, IInv, TypeOK
<1>3. SleepArmed'
  BY <1>1, <1>2 DEF DeviceInterrupt, IInv, SleepArmed
<1> QED BY <1>2, <1>3 DEF IInv

\* nanosleep_timer_handler: the one waiter of the timer's event is unlinked.
LEMMA SleepExpiresIInv == ASSUME NEW k \in KernelThread PROVE IInv /\ SleepExpires(k) => IInv'
<1> SUFFICES ASSUME IInv, SleepExpires(k) PROVE IInv'
  OBVIOUS
<1>1. \A j \in KernelThread : j \in Event
  BY DEF Event
<1>2. /\ TypeOK' /\ CurrentByMode' /\ TwinStates' /\ QueueExact' /\ ReapedAfterCall'
      /\ ProcessOwnsThreads' /\ WaitersExact'
      /\ \A f \in Event : f # k => waiters'[f] = waiters[f]
  <2>1. sleepers' \in SUBSET KernelThread
    BY DEF SleepExpires, IInv, TypeOK
  <2> QED BY <1>1, <2>1, InvokePreserves DEF SleepExpires
<1>3. waiters[k] \in Seq(KernelThread) /\ NoDuplicate(waiters[k]) /\ Linked(waiters[k], k)
      /\ \A j \in KernelThread : Linked(waiters[k], j) => j = k
  BY <1>1 DEF IInv, TypeOK, WaitersExact, SleepArmed, SleepExpires
<1>4. waiters[k] # <<>>
  BY <1>3, EmptyLinks
<1>5. Head(waiters[k]) = k /\ \A j \in KernelThread : ~Linked(Tail(waiters[k]), j)
  BY <1>3, <1>4, TailUnlinks
<1>6. waiters'[k] = Tail(waiters[k])
  BY Zenon, <1>1, <1>4 DEF SleepExpires, event_invoke, IInv, TypeOK
<1>7. SleepArmed'
  <2>1. \A j \in KernelThread : ~Linked(waiters'[k], j)
    BY <1>5, <1>6
  <2>2. sleepers' = sleepers \ {k}
    BY DEF SleepExpires
  <2>3. \A j \in KernelThread : j # k => waiters'[j] = waiters[j]
    BY <1>1, <1>2
  <2> QED BY <2>1, <2>2, <2>3 DEF IInv, SleepArmed
<1> QED BY <1>2, <1>7 DEF IInv
-----------------------------------------------------------------------------
(* Steps that hand control from one twin to the other.                       *)

\* scheduler_start_twin: the user thread waits, its twin is queued.
LEMMA SyscallEntryIInv == IInv /\ SyscallEntry => IInv'
<1> SUFFICES ASSUME IInv, SyscallEntry PROVE IInv'
  OBVIOUS
<1> USE TwinAssumption
<1> USE DEF proc_vars, event_vars, signal_vars, timer_vars
<1>1. PICK u \in UserThread : u = current /\ state[u] = "RUNNING" /\ u \in Thread
  BY DEF SyscallEntry, IInv, CurrentByMode, Thread
<1>2. PICK k \in KernelThread : k = twin[u] /\ k \in Thread /\ twin[k] = u /\ k # u
  BY DEF Thread
<1>3. state[k] = "STOPPED"
  BY <1>1, <1>2 DEF IInv, TwinStates, TwinExclusion
<1>4. state' = [[state EXCEPT ![u] = "WAITING"] EXCEPT ![k] = "RUNNING"]
  BY <1>1, <1>2 DEF SyscallEntry, thread_run_state
<1>5. \A t \in Thread : state'[t] = IF t = k THEN "RUNNING" ELSE IF t = u THEN "WAITING" ELSE state[t]
  BY <1>4 DEF IInv, TypeOK
<1>6. queue' = Append(queue, k)
  BY ZenonT(120), <1>1, <1>2, <1>3, <1>4, <1>5
     DEF SyscallEntry, thread_run_queue, scheduler_queue, thread_run_state, IInv, TypeOK
<1>7. ~Linked(queue, k) /\ ~Linked(queue, u)
  BY <1>1, <1>2, <1>3 DEF IInv, QueueExact
<1>8. NoDuplicate(queue') /\ queue' \in Seq(Thread)
      /\ \A y : Linked(queue', y) <=> Linked(queue, y) \/ y = k
  BY <1>2, <1>6, <1>7, AppendLinks DEF IInv, TypeOK, QueueExact
<1>9. current' = NULL /\ mode' = "yield"
      /\ UNCHANGED <<process, proc_vars, event_vars, signal_vars, timer_vars>>
      /\ pc' \in [KernelThread -> Pc]
  BY Zenon DEF SyscallEntry, IInv, TypeOK, Pc
<1>10. TypeOK'
  <2>1. state' \in [Thread -> ThreadState]
    BY Zenon, <1>4 DEF IInv, TypeOK, ThreadState
  <2> QED BY <1>8, <1>9, <2>1 DEF IInv, TypeOK, Mode
<1>11. CurrentByMode'
  BY <1>9 DEF CurrentByMode
<1>12. TwinStates'
  BY <1>2, <1>5 DEF IInv, TwinStates, TwinExclusion, Thread
<1>13. QueueExact'
  BY <1>1, <1>5, <1>7, <1>8, <1>9 DEF IInv, QueueExact
<1>14. ReapedAfterCall'
  <2> SUFFICES ASSUME NEW v \in UserThread, state'[v] = "DEAD"
               PROVE  (Linked(queue', v) \/ current' = v) <=> state'[twin[v]] = "STOPPED"
    BY DEF ReapedAfterCall
  <2>1. v \in Thread /\ v # u /\ v # k /\ twin[v] \in Thread /\ twin[v] \notin {u, k}
    BY <1>2, <1>5 DEF Thread
  <2>2. state[v] = "DEAD" /\ state'[twin[v]] = state[twin[v]]
    BY ZenonT(120), <1>5, <2>1
  <2> QED BY <1>1, <1>8, <1>9, <2>1, <2>2 DEF IInv, ReapedAfterCall
<1>15. ProcessOwnsThreads'
  <2>1. \A v \in UserThread : /\ state'[v] \in {"RUNNING", "WAITING"} <=> state[v] \in {"RUNNING", "WAITING"}
                              /\ state'[v] = "DEAD" <=> state[v] = "DEAD"
                              /\ state'[v] = "FREE" <=> state[v] = "FREE"
    BY <1>1, <1>2, <1>5 DEF Thread
  <2> QED BY <1>9, <2>1 DEF IInv, ProcessOwnsThreads
<1>16. WaitersExact' /\ SleepArmed'
  <2>1. \A j \in KernelThread : state'[j] = "UNINTERRUPTABLE_WAIT" <=> state[j] = "UNINTERRUPTABLE_WAIT"
    BY <1>3, <1>5 DEF Thread
  <2> QED BY <1>9, <2>1, FrameWaiters
<1> QED BY <1>10, <1>11, <1>12, <1>13, <1>14, <1>15, <1>16 DEF IInv

\* A twin stops and its user thread is queued, to run on or to be freed.
LEMMA ReturnPreserves ==
    ASSUME IInv, NEW k \in KernelThread, NEW u \in UserThread, u = twin[k],
           current = k, state[k] = "RUNNING",
           \A t \in Thread : state'[t] = IF t = k THEN "STOPPED" ELSE
                                         IF t = u /\ state[u] # "DEAD" THEN "RUNNING" ELSE state[t],
           state' \in [Thread -> ThreadState], queue' = Append(queue, u),
           current' \in {NULL, k}, mode' = "yield",
           UNCHANGED <<process, pc, proc_vars, event_vars, signal_vars, timer_vars>>
    PROVE  IInv'
<1> USE TwinAssumption
<1> USE DEF proc_vars, event_vars, signal_vars, timer_vars
<1>1. k \in Thread /\ u \in Thread /\ k # u /\ twin[u] = k /\ state[u] \in {"WAITING", "DEAD"}
  BY ProcessOfRunning DEF Thread
<1>2. ~Linked(queue, u) /\ ~Linked(queue, k)
  BY <1>1 DEF IInv, QueueExact, ReapedAfterCall
<1>3. NoDuplicate(queue') /\ queue' \in Seq(Thread)
      /\ \A y : Linked(queue', y) <=> Linked(queue, y) \/ y = u
  BY SMTT(40), <1>1, <1>2, AppendLinks DEF IInv, TypeOK, QueueExact
<1>4. TypeOK'
  BY ZenonT(120), <1>1, <1>3 DEF IInv, TypeOK, Mode
<1>5. CurrentByMode'
  BY ZenonT(120), <1>1 DEF CurrentByMode
<1>6. TwinStates'
  BY <1>1 DEF IInv, TwinStates, TwinExclusion, Thread
<1>7. QueueExact'
  <2>1. /\ \A t \in Thread : Linked(queue, t) => state[t] \in {"RUNNING", "DEAD"}
        /\ \A t \in Thread : state[t] = "RUNNING" => Linked(queue, t) \/ t = k
    BY DEF IInv, QueueExact
  <2>2. \A t \in Thread : t = current' => t = k
    BY DEF Thread
  <2>3. ASSUME NEW t \in Thread, Linked(queue', t)
        PROVE  t # current' /\ state'[t] \in {"RUNNING", "DEAD"}
    <3>1. CASE t = u
      BY <1>1, <2>2, <3>1, Zenon
    <3>2. CASE t # u
      <4>0. Linked(queue, t)
        BY <1>3, <2>3, <3>2, Zenon
      <4>1. t # k
        BY <1>2, <4>0, SMT
      <4>2. state'[t] = state[t]
        BY <3>2, <4>1, Zenon
      <4> QED BY <2>1, <2>2, <4>0, <4>1, <4>2, Zenon
    <3> QED BY <3>1, <3>2
  <2>4. ASSUME NEW t \in Thread, state'[t] = "RUNNING"
        PROVE  Linked(queue', t)
    <3>1. CASE t = u
      BY <1>3, <3>1, Zenon
    <3>2. CASE t # u
      <4>1. t # k
        BY <2>4, Zenon
      <4>2. state[t] = "RUNNING"
        BY <2>4, <3>2, <4>1, Zenon
      <4> QED BY <1>3, <2>1, <4>1, <4>2, Zenon
    <3> QED BY <3>1, <3>2
  <2> QED BY <1>3, <2>3, <2>4, Zenon DEF QueueExact
<1>8. ReapedAfterCall'
  <2> SUFFICES ASSUME NEW v \in UserThread, state'[v] = "DEAD"
               PROVE  (Linked(queue', v) \/ current' = v) <=> state'[twin[v]] = "STOPPED"
    BY DEF ReapedAfterCall
  <2>1. v \in Thread /\ v # k /\ twin[v] \in KernelThread /\ twin[v] \in Thread /\ current' # v
    BY DEF Thread
  <2>2. CASE v = u
    BY <1>1, <1>3, <2>2
  <2>3. CASE v # u
    <3>1. state[v] = "DEAD" /\ twin[v] \notin {u, k}
      BY <1>1, <2>1, <2>3
    <3>2. state'[twin[v]] = state[twin[v]] /\ current # v
      BY ZenonT(120), <2>1, <3>1
    <3> QED BY ZenonT(120), <1>3, <2>1, <2>3, <3>1, <3>2 DEF IInv, ReapedAfterCall
  <2> QED BY <2>2, <2>3
<1>9. ProcessOwnsThreads'
  <2>1. \A v \in UserThread : /\ state'[v] \in {"RUNNING", "WAITING"} <=> state[v] \in {"RUNNING", "WAITING"}
                              /\ state'[v] = "DEAD" <=> state[v] = "DEAD"
                              /\ state'[v] = "FREE" <=> state[v] = "FREE"
    BY <1>1 DEF Thread
  <2> QED BY <2>1 DEF IInv, ProcessOwnsThreads
<1>10. WaitersExact' /\ SleepArmed'
  <2>1. \A j \in KernelThread : state'[j] = "UNINTERRUPTABLE_WAIT" <=> state[j] = "UNINTERRUPTABLE_WAIT"
    BY <1>1 DEF Thread
  <2> QED BY <2>1, FrameWaiters
<1> QED BY <1>4, <1>5, <1>6, <1>7, <1>8, <1>9, <1>10 DEF IInv

\* scheduler_return_twin1.
LEMMA ReturnTwinIInv == IInv /\ ReturnTwin => IInv'
<1> SUFFICES ASSUME IInv, ReturnTwin PROVE IInv'
  OBVIOUS
<1> USE TwinAssumption
<1>1. PICK k \in KernelThread : k = current /\ state[k] = "RUNNING" /\ k \in Thread
  BY DEF ReturnTwin, IInv, CurrentByMode, Thread
<1>2. PICK u \in UserThread : u = twin[k] /\ u \in Thread /\ u # k
  BY DEF Thread
<1>3. state[u] \in {"WAITING", "DEAD"}
  BY <1>1, <1>2, ProcessOfRunning
<1>4. /\ \A t \in Thread : state'[t] = IF t = k THEN "STOPPED" ELSE
                                        IF t = u /\ state[u] # "DEAD" THEN "RUNNING" ELSE state[t]
      /\ state' \in [Thread -> ThreadState] /\ queue' = Append(queue, u)
  <2>1. CASE state[u] = "DEAD"
    <3>1. state' = [state EXCEPT ![k] = "STOPPED"]
      BY <1>1, <1>2, <2>1 DEF ReturnTwin
    <3>2. state'[u] = "DEAD"
      BY <1>2, <2>1, <3>1 DEF IInv, TypeOK
    <3>3. queue' = Append(queue, u)
      BY <1>1, <1>2, <2>1, <3>1, <3>2 DEF ReturnTwin, scheduler_queue
    <3> QED BY Zenon, <2>1, <3>1, <3>3 DEF IInv, TypeOK, ThreadState
  <2>2. CASE state[u] = "WAITING"
    <3>1. state' = [[state EXCEPT ![k] = "STOPPED"] EXCEPT ![u] = "RUNNING"]
      BY <1>1, <1>2, <2>2 DEF ReturnTwin, thread_run_state
    <3>2. [state EXCEPT ![k] = "STOPPED"][u] = "WAITING" /\ state'[u] = "RUNNING"
      BY <1>2, <2>2, <3>1 DEF IInv, TypeOK
    <3>3. queue' = Append(queue, u)
      BY <1>1, <1>2, <2>2, <3>1, <3>2 DEF ReturnTwin, thread_run_state, thread_run_queue, scheduler_queue
    <3> QED BY ZenonT(120), <2>2, <3>1, <3>3 DEF IInv, TypeOK, ThreadState
  <2> QED BY <1>3, <2>1, <2>2
<1> QED BY <1>1, <1>2, <1>4, ReturnPreserves DEF ReturnTwin

\* syscall_signalret.
LEMMA SyscallSignalretIInv ==
    ASSUME NEW k \in KernelThread PROVE IInv /\ SyscallSignalret(k) => IInv'
<1> SUFFICES ASSUME IInv, SyscallSignalret(k) PROVE IInv'
  OBVIOUS
<1> USE TwinAssumption
<1>1. current = k /\ state[k] = "RUNNING" /\ k \in Thread
  BY DEF SyscallSignalret, Dispatch, IInv, CurrentByMode, Thread
<1>2. PICK u \in UserThread : u = twin[k] /\ u \in Thread /\ u # k
  BY DEF Thread
<1>3. CASE process[u] = NULL
  <2>0. mode' = "undefined" /\ current' = current /\ state' = state
    BY Zenon, <1>2, <1>3 DEF SyscallSignalret
  <2>1. TypeOK' /\ CurrentByMode'
    <3>1. TypeOK'
      BY <1>2, <1>3 DEF SyscallSignalret, IInv, TypeOK, Mode,
           proc_vars, event_vars, signal_vars, timer_vars
    <3>2. CurrentByMode'
      BY ZenonT(120), <1>1, <2>0 DEF CurrentByMode
    <3> QED BY ZenonT(120), <3>1, <3>2
  <2> QED BY ZenonT(120), <1>2, <1>3, <2>1, FrameIInv
          DEF SyscallSignalret, proc_vars, event_vars, signal_vars, timer_vars
<1>4. CASE process[u] # NULL
  <2>1. state[u] = "WAITING"
    <3>1. state[u] # "DEAD"
      BY <1>4 DEF IInv, ProcessOwnsThreads
    <3> QED BY ZenonT(120), <1>1, <1>2, <3>1, ProcessOfRunning
  <2>2. /\ \A t \in Thread : state'[t] = IF t = k THEN "STOPPED" ELSE
                                          IF t = u /\ state[u] # "DEAD" THEN "RUNNING" ELSE state[t]
        /\ state' \in [Thread -> ThreadState] /\ queue' = Append(queue, u)
    <3>1. state' = [[state EXCEPT ![k] = "STOPPED"] EXCEPT ![u] = "RUNNING"]
      BY <1>1, <1>2, <1>4 DEF SyscallSignalret, thread_run_state
    <3>2. [state EXCEPT ![k] = "STOPPED"][u] = "WAITING" /\ state'[u] = "RUNNING"
      BY <1>2, <2>1, <3>1 DEF IInv, TypeOK
    <3>3. queue' = Append(queue, u)
      BY Zenon, <1>1, <1>2, <1>4, <3>1, <3>2
         DEF SyscallSignalret, thread_run_state, thread_run_queue, scheduler_queue
    <3> QED BY ZenonT(120), <2>1, <3>1, <3>3 DEF IInv, TypeOK, ThreadState
  <2>3. mode' = "yield" /\ current' = k
    BY <1>1, <1>2, <1>4 DEF SyscallSignalret
  <2>4. UNCHANGED <<process, pc, proc_vars, event_vars, signal_vars, timer_vars>>
    BY Zenon DEF SyscallSignalret
  <2>5. u = twin[k] /\ current = k /\ state[k] = "RUNNING" /\ current' \in {NULL, k}
    BY Zenon, <1>1, <1>2, <2>3
  <2> QED BY SMTT(60), <2>2, <2>3, <2>4, <2>5, ReturnPreserves
<1> QED BY <1>3, <1>4
=============================================================================

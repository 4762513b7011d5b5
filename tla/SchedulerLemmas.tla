--------------------------- MODULE SchedulerLemmas ---------------------------
(***************************************************************************)
(* Lemmas for the proofs about Scheduler: lists, the initial states,         *)
(* scheduler_yield, and what killing threads and invoking events preserve.   *)
(***************************************************************************)
EXTENDS Scheduler, TLAPS

(* Lists.                                                                  *)

\* Appending links one more element, and keeps a list free of duplicates if
\* the element was not in it (scheduler_queue, scheduler_await).
LEMMA AppendLinks ==
    ASSUME NEW S, NEW s \in Seq(S), NEW x \in S
    PROVE  /\ Append(s, x) \in Seq(S)
           /\ Append(s, x) # <<>>
           /\ \A y : Linked(Append(s, x), y) <=> Linked(s, y) \/ y = x
           /\ NoDuplicate(s) /\ ~Linked(s, x) => NoDuplicate(Append(s, x))
<1>1. Append(s, x) \in Seq(S) /\ Append(s, x) # <<>>
  <2>1. Append(s, x) \in Seq(S) /\ Len(Append(s, x)) = Len(s) + 1
    OBVIOUS
  <2>2. Len(s) + 1 # 0 /\ Len(<<>>) = 0
    OBVIOUS
  <2> QED BY Zenon, <2>1, <2>2
<1>2. ASSUME NEW y PROVE Linked(Append(s, x), y) <=> Linked(s, y) \/ y = x
  <2>1. ASSUME Linked(Append(s, x), y) PROVE Linked(s, y) \/ y = x
    BY <2>1 DEF Linked
  <2>2. ASSUME Linked(s, y) PROVE Linked(Append(s, x), y)
    BY <2>2 DEF Linked
  <2>3. Linked(Append(s, x), x)
    <3>1. Append(s, x)[Len(s) + 1] = x /\ Len(s) + 1 \in 1..Len(Append(s, x))
      OBVIOUS
    <3> QED BY <3>1 DEF Linked
  <2> QED BY <2>1, <2>2, <2>3
<1>3. ASSUME NoDuplicate(s), ~Linked(s, x) PROVE NoDuplicate(Append(s, x))
  BY <1>3 DEF NoDuplicate, Linked
<1> QED BY <1>1, <1>2, <1>3

\* Unlinking the head of a list without duplicates removes exactly the head
\* (scheduler_yield, event_invoke).
LEMMA TailUnlinks ==
    ASSUME NEW S, NEW s \in Seq(S), s # <<>>, NoDuplicate(s)
    PROVE  /\ Head(s) \in S /\ Tail(s) \in Seq(S)
           /\ Linked(s, Head(s))
           /\ \A y : Linked(Tail(s), y) <=> Linked(s, y) /\ y # Head(s)
           /\ NoDuplicate(Tail(s))
<1>1. Head(s) \in S /\ Tail(s) \in Seq(S) /\ Len(s) > 0 /\ Head(s) = s[1]
  OBVIOUS
<1>2. Linked(s, Head(s))
  BY <1>1 DEF Linked
<1>3. \A i \in 1..Len(Tail(s)) : i + 1 \in 1..Len(s) /\ Tail(s)[i] = s[i + 1]
  OBVIOUS
<1>3a. \A i \in 1..Len(s) : i # 1 => i - 1 \in 1..Len(Tail(s)) /\ Tail(s)[i - 1] = s[i]
  OBVIOUS
<1>4. ASSUME NEW y PROVE Linked(Tail(s), y) <=> Linked(s, y) /\ y # Head(s)
  <2>1. ASSUME Linked(Tail(s), y) PROVE Linked(s, y) /\ y # Head(s)
    <3>1. PICK i \in 1..Len(Tail(s)) : Tail(s)[i] = y
      BY <2>1 DEF Linked
    <3>2. i + 1 \in 1..Len(s) /\ s[i + 1] = y /\ i + 1 # 1 /\ 1 \in 1..Len(s)
      BY <1>1, <1>3, <3>1
    <3>3. s[i + 1] # s[1]
      BY <3>2 DEF NoDuplicate
    <3> QED BY <1>1, <3>2, <3>3 DEF Linked
  <2>2. ASSUME Linked(s, y), y # Head(s) PROVE Linked(Tail(s), y)
    <3>1. PICK i \in 1..Len(s) : s[i] = y
      BY <2>2 DEF Linked
    <3> QED BY <1>1, <1>3a, <2>2, <3>1 DEF Linked
  <2> QED BY <2>1, <2>2
<1>5. NoDuplicate(Tail(s))
  <2> SUFFICES ASSUME NEW i \in 1..Len(Tail(s)), NEW j \in 1..Len(Tail(s)),
                      Tail(s)[i] = Tail(s)[j]
               PROVE  i = j
    BY DEF NoDuplicate
  <2>1. s[i + 1] = s[j + 1] /\ i + 1 \in 1..Len(s) /\ j + 1 \in 1..Len(s)
    BY <1>3
  <2>2. i + 1 = j + 1
    BY <2>1 DEF NoDuplicate
  <2> QED BY <2>2
<1> QED BY <1>1, <1>2, <1>4, <1>5

\* A list is empty exactly if it links nothing.
LEMMA EmptyLinks ==
    ASSUME NEW S, NEW s \in Seq(S)
    PROVE  /\ s = <<>> <=> \A y \in S : ~Linked(s, y)
           /\ \A y : Linked(s, y) => y \in S
           /\ NoDuplicate(<<>>)
<1>1. \A y : ~Linked(<<>>, y)
  BY DEF Linked
<1>2. ASSUME s # <<>> PROVE \E y \in S : Linked(s, y)
  <2>1. Len(s) > 0 /\ s[1] \in S /\ 1 \in 1..Len(s)
    BY <1>2
  <2> QED BY <2>1 DEF Linked
<1>3. \A y : Linked(s, y) => y \in S
  BY DEF Linked
<1>4. NoDuplicate(<<>>)
  BY DEF NoDuplicate
<1> QED BY <1>1, <1>2, <1>3, <1>4

\* A list of one element links that element only (syscall_nanosleep's event).
LEMMA SingletonLinks ==
    ASSUME NEW x
    PROVE  /\ \A y : Linked(<<x>>, y) <=> y = x
           /\ NoDuplicate(<<x>>)
           /\ <<x>> # <<>>
<1>1. Len(<<x>>) = 1 /\ <<x>>[1] = x
  OBVIOUS
<1> QED BY <1>1 DEF Linked, NoDuplicate
-----------------------------------------------------------------------------
(* The initial states.                                                       *)

\* The state kernel_main leaves to scheduler_yield satisfies the invariant.
LEMMA InitIInv == Init => IInv
<1> SUFFICES ASSUME Init PROVE IInv
  OBVIOUS
<1> USE TwinAssumption, EventAssumption, BoundAssumption
<1>1. PICK p \in Pid, u \in UserThread :
        /\ mode = "yield" /\ current = NULL /\ queue = <<u>>
        /\ state = [t \in Thread |-> CASE t = u       -> "RUNNING"
                                       [] t = twin[u] -> "STOPPED"
                                       [] OTHER       -> "FREE"]
        /\ process = [t \in Thread |-> IF t \in {u, twin[u]} THEN p ELSE NULL]
        /\ pc = [k \in KernelThread |-> "entry"]
        /\ pstate = [q \in Pid |-> IF q = p THEN "ALIVE" ELSE "UNUSED"]
        /\ parent_id = [q \in Pid |-> p]
        /\ threads = [q \in Pid |-> IF q = p THEN {u} ELSE {}]
        /\ has_signal = [e \in Event |-> FALSE]
        /\ waiters = [e \in Event |-> <<>>]
        /\ signal_queue = [q \in Pid |-> <<>>]
        /\ user_handler = [q \in Pid |-> {}]
        /\ sleepers = {} /\ alarms = [q \in Pid |-> 0]
  BY Zenon DEF Init
<1>2. \A y : ~Linked(<<>>, y)
  BY DEF Linked
<1>3. TypeOK
  BY <1>1 DEF TypeOK, Mode, ThreadState, Pc, Thread
<1>4. CurrentByMode
  BY <1>1 DEF CurrentByMode
<1>5. TwinStates
  BY <1>1 DEF TwinStates, TwinExclusion, Thread
<1>6. QueueExact /\ ReapedAfterCall
  BY <1>1, SingletonLinks DEF QueueExact, ReapedAfterCall, Thread
<1>7. ProcessOwnsThreads
  BY <1>1 DEF ProcessOwnsThreads, Thread
<1>8. WaitersExact /\ SleepArmed
  <2>1. \A k \in KernelThread : state[k] # "UNINTERRUPTABLE_WAIT"
    BY <1>1 DEF Thread
  <2>2. \A e \in Event : waiters[e] = <<>> /\ NoDuplicate(waiters[e])
    BY <1>1 DEF NoDuplicate
  <2>3. \A e \in Event, y \in KernelThread : ~Linked(waiters[e], y)
    BY <2>2, <1>2
  <2>4. WaitersExact
    BY <2>1, <2>2, <2>3 DEF WaitersExact
  <2>5. SleepArmed
    BY <2>3, <1>1 DEF SleepArmed, Event
  <2> QED BY <2>4, <2>5
<1> QED BY <1>3, <1>4, <1>5, <1>6, <1>7, <1>8 DEF IInv

-----------------------------------------------------------------------------
(* scheduler_yield.                                                          *)

\* scheduler_yield puts the current thread at the tail, if it may run or is DEAD.
LEMMA YieldCurrentIInv == IInv /\ YieldCurrent => IInv'
<1> SUFFICES ASSUME IInv, YieldCurrent PROVE IInv'
  OBVIOUS
<1> USE TwinAssumption, EventAssumption, BoundAssumption
<1> USE DEF sched_vars, thread_vars, proc_vars, event_vars, signal_vars, timer_vars
<1>1. TypeOK'
  BY DEF IInv, TypeOK, YieldCurrent, scheduler_queue, Mode
<1>2. CurrentByMode'
  BY DEF YieldCurrent, CurrentByMode
<1>3. TwinStates'
  BY DEF YieldCurrent, IInv, TwinStates, TwinExclusion
<1>4. QueueExact' /\ ReapedAfterCall'
  <2>1. CASE current = NULL
    BY <2>1 DEF YieldCurrent, IInv, QueueExact, ReapedAfterCall, Thread
  <2>2. CASE current # NULL /\ state[current] \in {"RUNNING", "DEAD"}
    <3>1. queue' = Append(queue, current) /\ current \in Thread /\ queue \in Seq(Thread)
      BY <2>2 DEF YieldCurrent, scheduler_queue, IInv, TypeOK
    <3>2. ~Linked(queue, current)
      BY <3>1 DEF IInv, QueueExact
    <3>3. NoDuplicate(queue)
      BY DEF IInv, QueueExact
    <3>4. NoDuplicate(queue') /\ \A y : Linked(queue', y) <=> Linked(queue, y) \/ y = current
      BY <3>1, <3>2, <3>3, AppendLinks
    <3>5. current' = NULL /\ state' = state
      BY DEF YieldCurrent
    <3>6. QueueExact'
      BY <2>2, <3>4, <3>5 DEF IInv, QueueExact
    <3>7. ReapedAfterCall'
      BY <2>2, <3>4, <3>5 DEF IInv, ReapedAfterCall, Thread
    <3> QED BY <3>6, <3>7
  <2>3. CASE current # NULL /\ state[current] \notin {"RUNNING", "DEAD"}
    BY <2>3 DEF YieldCurrent, scheduler_queue, IInv, QueueExact, ReapedAfterCall, TypeOK, Thread
  <2> QED BY <2>1, <2>2, <2>3
<1>5. ProcessOwnsThreads' /\ WaitersExact' /\ SleepArmed'
  BY DEF YieldCurrent, IInv, ProcessOwnsThreads, WaitersExact, SleepArmed
<1> QED BY <1>1, <1>2, <1>3, <1>4, <1>5 DEF IInv

\* wait_for_interrupt changes no thread.
LEMMA YieldIdleIInv == IInv /\ YieldIdle => IInv'
<1> SUFFICES ASSUME IInv, YieldIdle PROVE IInv'
  OBVIOUS
<1> USE DEF sched_vars, thread_vars, proc_vars, event_vars, signal_vars, timer_vars
<1>1. TypeOK' /\ CurrentByMode'
  BY DEF IInv, TypeOK, YieldIdle, Mode, CurrentByMode
<1> QED
  BY <1>1 DEF YieldIdle, IInv, TwinStates, TwinExclusion, QueueExact, ReapedAfterCall,
              ProcessOwnsThreads, WaitersExact, SleepArmed

\* thread_resume takes the head of the queue and makes it current.
LEMMA YieldResumeIInv == IInv /\ YieldResume => IInv'
<1> SUFFICES ASSUME IInv, YieldResume PROVE IInv'
  OBVIOUS
<1> USE TwinAssumption
<1> USE DEF sched_vars, thread_vars, proc_vars, event_vars, signal_vars, timer_vars
<1>0. queue \in Seq(Thread) /\ queue # <<>> /\ NoDuplicate(queue) /\ current = NULL
  BY DEF IInv, TypeOK, QueueExact, CurrentByMode, YieldResume
<1>0a. Head(queue) \in Thread
  BY <1>0, TailUnlinks
<1>1. TypeOK'
  BY <1>0, <1>0a DEF IInv, TypeOK, YieldResume, Mode
<1>2. CurrentByMode'
  BY <1>0a DEF YieldResume, CurrentByMode, Thread
<1>3. QueueExact'
  BY <1>0, TailUnlinks DEF YieldResume, IInv, QueueExact
<1>4. ReapedAfterCall'
  BY <1>0, TailUnlinks DEF YieldResume, IInv, ReapedAfterCall, Thread
<1> QED
  BY <1>1, <1>2, <1>3, <1>4 DEF YieldResume, IInv, TwinStates, TwinExclusion,
              ProcessOwnsThreads, WaitersExact, SleepArmed

\* The thread that is freed is a user thread, and its twin has no call to finish.
LEMMA YieldFreeIInv == IInv /\ YieldFree => IInv'
<1> SUFFICES ASSUME IInv, YieldFree PROVE IInv'
  OBVIOUS
<1> USE TwinAssumption
<1> USE DEF sched_vars, thread_vars, proc_vars, event_vars, signal_vars, timer_vars
<1> DEFINE t == Head(queue)
<1>1. queue \in Seq(Thread) /\ queue # <<>> /\ NoDuplicate(queue) /\ current = NULL
  BY DEF IInv, TypeOK, QueueExact, CurrentByMode, YieldFree
<1>2. t \in Thread /\ Linked(queue, t) /\ state[t] = "DEAD"
  BY <1>1, TailUnlinks DEF YieldFree
<1>3. t \in UserThread
  BY <1>2 DEF IInv, TwinStates, Thread
<1>4. state[twin[t]] = "STOPPED"
  BY <1>2, <1>3 DEF IInv, ReapedAfterCall
<1> HIDE DEF t
<1>5. /\ state' = [state EXCEPT ![t] = "FREE", ![twin[t]] = "FREE"]
      /\ process' = [process EXCEPT ![t] = NULL, ![twin[t]] = NULL]
      /\ queue' = Tail(queue) /\ waiters' = waiters
      /\ UNCHANGED <<mode, current, pc, proc_vars, has_signal, signal_vars, timer_vars>>
  BY <1>4 DEF YieldFree, t
<1>6. \A x \in Thread : state'[x] = IF x \in {t, twin[t]} THEN "FREE" ELSE state[x]
  BY <1>2, <1>3, <1>5 DEF IInv, TypeOK, Thread
<1>7. TypeOK'
  <2>1. state' \in [Thread -> ThreadState] /\ process' \in [Thread -> Pid \cup {NULL}]
    BY Zenon, <1>2, <1>5 DEF IInv, TypeOK, ThreadState
  <2>2. queue' \in Seq(Thread)
    BY <1>1, <1>5
  <2> QED BY Zenon, <1>5, <2>1, <2>2 DEF IInv, TypeOK
<1>8. CurrentByMode'
  BY <1>1, <1>5 DEF YieldFree, CurrentByMode
<1>9. TwinStates'
  BY <1>3, <1>6 DEF IInv, TwinStates, TwinExclusion, Thread
<1>10. NoDuplicate(queue') /\ \A y : Linked(queue', y) <=> Linked(queue, y) /\ y # t
  BY <1>1, <1>5, TailUnlinks DEF t
<1>11. ~Linked(queue, twin[t])
  BY <1>3, <1>4 DEF IInv, QueueExact, Thread
<1>11a. current' = current /\ current = NULL
  BY <1>1, <1>5
<1>12. QueueExact'
  <2>1. QueueExact
    BY DEF IInv
  <2>2. \A x \in Thread : Linked(queue', x) => x # current' /\ state'[x] \in {"RUNNING", "DEAD"}
    BY <2>1, <1>6, <1>10, <1>11, <1>11a DEF QueueExact
  <2>3. \A x \in Thread : state'[x] = "RUNNING" => Linked(queue', x) \/ x = current'
    BY <2>1, <1>2, <1>6, <1>10, <1>11a DEF QueueExact
  <2> QED BY <1>10, <2>2, <2>3 DEF QueueExact
<1>13. ReapedAfterCall'
  <2> SUFFICES ASSUME NEW u \in UserThread, state'[u] = "DEAD"
               PROVE  (Linked(queue', u) \/ current' = u) <=> state'[twin[u]] = "STOPPED"
    BY DEF ReapedAfterCall
  <2>1. u # t /\ state[u] = "DEAD" /\ twin[u] \notin {t, twin[t]} /\ twin[u] \in Thread
    BY <1>3, <1>6 DEF Thread
  <2>2. (Linked(queue, u) \/ current = u) <=> state[twin[u]] = "STOPPED"
    BY <2>1 DEF IInv, ReapedAfterCall
  <2>3. state'[twin[u]] = state[twin[u]]
    BY <2>1, <1>6
  <2> QED BY <2>1, <2>2, <2>3, <1>10, <1>11a
<1>14. ProcessOwnsThreads'
  BY <1>2, <1>3, <1>5, <1>6 DEF IInv, ProcessOwnsThreads, TypeOK, Thread
<1>15. \A k \in KernelThread : state'[k] = "UNINTERRUPTABLE_WAIT" <=> state[k] = "UNINTERRUPTABLE_WAIT"
  BY ZenonT(120), <1>3, <1>4, <1>6 DEF Thread
<1>16. WaitersExact'
  BY ZenonT(120), <1>5, <1>15 DEF IInv, WaitersExact
<1>17. SleepArmed'
  BY <1>5 DEF IInv, SleepArmed
<1> QED BY <1>7, <1>8, <1>9, <1>12, <1>13, <1>14, <1>16, <1>17 DEF IInv
-----------------------------------------------------------------------------
(* Frame lemmas: what a step that leaves certain variables alone preserves.  *)

\* Only mode, program counters, signals, handlers and alarms change.
LEMMA FrameIInv ==
    ASSUME IInv, TypeOK', CurrentByMode',
           UNCHANGED <<current, queue, state, process, proc_vars, event_vars, sleepers>>
    PROVE  IInv'
BY DEF IInv, TwinStates, TwinExclusion, QueueExact, ReapedAfterCall, ProcessOwnsThreads,
       WaitersExact, SleepArmed, proc_vars, event_vars

\* Nobody begins or ends to wait.
LEMMA FrameWaiters ==
    ASSUME IInv, UNCHANGED <<has_signal, waiters, sleepers>>,
           \A k \in KernelThread : state'[k] = "UNINTERRUPTABLE_WAIT"
                                   <=> state[k] = "UNINTERRUPTABLE_WAIT"
    PROVE  WaitersExact' /\ SleepArmed'
BY DEF IInv, WaitersExact, SleepArmed

-----------------------------------------------------------------------------
(* Killing a set of threads and invoking an event.                           *)

Killed(D) == [t \in Thread |-> IF t \in D THEN "DEAD" ELSE state[t]]

\* The threads in D die, and event e may be invoked: either nobody is woken, or
\* the oldest waiter is.
Wakes(D, e) ==
    \/ /\ state' = Killed(D) /\ queue' = queue /\ waiters' = waiters
       /\ \/ has_signal' = has_signal
          \/ waiters[e] = <<>> /\ has_signal' = [has_signal EXCEPT ![e] = TRUE]
    \/ /\ waiters[e] # <<>>
       /\ state' = [Killed(D) EXCEPT ![Head(waiters[e])] = "RUNNING"]
       /\ queue' = Append(queue, Head(waiters[e]))
       /\ waiters' = [waiters EXCEPT ![e] = Tail(@)]
       /\ has_signal' = has_signal

\* Such a step keeps the run queue, the twins and the waiters consistent: the
\* woken thread was in no queue, and a thread killed inside a system call is
\* not queued.
LEMMA WakesPreserves ==
    ASSUME IInv, NEW D \in SUBSET UserThread, NEW e \in Event,
           \A u \in D : state[u] \in {"RUNNING", "WAITING"},
           mode \in {"user", "idle", "kernel", "resume", "timers"},
           current' = current, Wakes(D, e)
    PROVE  /\ state' \in [Thread -> ThreadState] /\ queue' \in Seq(Thread)
           /\ waiters' \in [Event -> Seq(KernelThread)] /\ has_signal' \in [Event -> BOOLEAN]
           /\ TwinStates' /\ QueueExact' /\ ReapedAfterCall' /\ WaitersExact'
           /\ \A u \in UserThread : state'[u] = IF u \in D THEN "DEAD" ELSE state[u]
           /\ \A k \in KernelThread : state[k] = "RUNNING" => state'[k] = "RUNNING"
           /\ \A f \in Event : f # e => waiters'[f] = waiters[f]
<1> USE TwinAssumption
<1>1. /\ state \in [Thread -> ThreadState] /\ queue \in Seq(Thread)
      /\ waiters \in [Event -> Seq(KernelThread)] /\ has_signal \in [Event -> BOOLEAN]
  BY DEF IInv, TypeOK
<1>2. /\ Killed(D) \in [Thread -> ThreadState]
      /\ \A t \in Thread : Killed(D)[t] = IF t \in D THEN "DEAD" ELSE state[t]
  BY <1>1 DEF Killed, ThreadState
<1>3. current = NULL \/ (current \in Thread /\ state[current] = "RUNNING")
  BY DEF IInv, CurrentByMode, Thread
<1>4. TwinStates /\ QueueExact /\ ReapedAfterCall /\ WaitersExact
  BY DEF IInv
<1>5. CASE /\ state' = Killed(D) /\ queue' = queue /\ waiters' = waiters
           /\ \/ has_signal' = has_signal
              \/ waiters[e] = <<>> /\ has_signal' = [has_signal EXCEPT ![e] = TRUE]
  <2>1. \A t \in Thread : state'[t] = IF t \in D THEN "DEAD" ELSE state[t]
    BY <1>2, <1>5
  <2>2. \A k \in KernelThread : state'[k] = state[k]
    BY <2>1 DEF Thread
  <2>3. TwinStates'
    BY ZenonT(120), <1>4, <2>1, <2>2 DEF TwinStates, TwinExclusion, Thread
  <2>4. QueueExact'
    BY <1>4, <1>5, <2>1 DEF QueueExact
  <2>5. ReapedAfterCall'
    <3> SUFFICES ASSUME NEW u \in UserThread, state'[u] = "DEAD"
                 PROVE  (Linked(queue', u) \/ current' = u) <=> state'[twin[u]] = "STOPPED"
      BY DEF ReapedAfterCall
    <3>1. u \in Thread /\ state'[twin[u]] = state[twin[u]]
      BY <2>2 DEF Thread
    <3>2. CASE u \notin D
      BY <1>4, <1>5, <2>1, <3>1, <3>2 DEF ReapedAfterCall
    <3>3. CASE u \in D /\ state[u] = "RUNNING"
      BY ZenonT(120), <1>4, <1>5, <3>1, <3>3 DEF QueueExact, TwinStates, TwinExclusion
    <3>4. CASE u \in D /\ state[u] = "WAITING"
      BY SMTT(40), <1>3, <1>4, <1>5, <3>1, <3>4 DEF QueueExact, TwinStates, TwinExclusion
    <3> QED BY <3>2, <3>3, <3>4
  <2>6. WaitersExact'
    <3>1. \A f \in Event : has_signal'[f] => waiters'[f] = <<>>
      <4>1. \A f \in Event : has_signal'[f] => has_signal[f] \/ waiters[f] = <<>>
        BY ZenonT(120), <1>1, <1>5
      <4> QED BY <1>4, <1>5, <4>1 DEF WaitersExact
    <3>2. waiters' = waiters
      BY <1>5
    <3>3. \A k \in KernelThread :
            state'[k] = "UNINTERRUPTABLE_WAIT" <=> \E f \in Event : Linked(waiters'[f], k)
      BY <1>4, <2>2, <3>2 DEF WaitersExact
    <3> QED BY <1>4, <3>1, <3>2, <3>3 DEF WaitersExact
  <2>7. has_signal' \in [Event -> BOOLEAN]
    BY ZenonT(120), <1>1, <1>5
  <2>8. /\ \A u \in UserThread : state'[u] = IF u \in D THEN "DEAD" ELSE state[u]
        /\ \A k \in KernelThread : state[k] = "RUNNING" => state'[k] = "RUNNING"
    BY <2>1, <2>2 DEF Thread
  <2> QED BY <1>1, <1>2, <1>5, <2>3, <2>4, <2>5, <2>6, <2>7, <2>8
<1>6. CASE /\ waiters[e] # <<>>
           /\ state' = [Killed(D) EXCEPT ![Head(waiters[e])] = "RUNNING"]
           /\ queue' = Append(queue, Head(waiters[e]))
           /\ waiters' = [waiters EXCEPT ![e] = Tail(@)]
           /\ has_signal' = has_signal
  <2> DEFINE w == Head(waiters[e])
  <2>1. waiters[e] \in Seq(KernelThread) /\ NoDuplicate(waiters[e])
    BY <1>1, <1>4 DEF WaitersExact
  <2>2. /\ w \in KernelThread /\ Linked(waiters[e], w)
        /\ \A y : Linked(Tail(waiters[e]), y) <=> Linked(waiters[e], y) /\ y # w
        /\ NoDuplicate(Tail(waiters[e])) /\ Tail(waiters[e]) \in Seq(KernelThread)
    BY <1>6, <2>1, TailUnlinks
  <2>3. state[w] = "UNINTERRUPTABLE_WAIT"
    BY <1>4, <2>2 DEF WaitersExact
  <2>4. /\ state' = [Killed(D) EXCEPT ![w] = "RUNNING"] /\ queue' = Append(queue, w)
    BY <1>6
  <2> HIDE DEF w
  <2>5. w \in Thread /\ w \notin D /\ w # current /\ ~Linked(queue, w)
    BY <1>3, <1>4, <2>2, <2>3 DEF QueueExact, Thread
  <2>6. \A t \in Thread : state'[t] = IF t = w THEN "RUNNING" ELSE
                                      IF t \in D THEN "DEAD" ELSE state[t]
    BY <1>2, <2>4, <2>5
  <2>7. \A k \in KernelThread : state'[k] = IF k = w THEN "RUNNING" ELSE state[k]
    BY <2>6 DEF Thread
  <2>8. \A u \in UserThread : state'[u] = IF u \in D THEN "DEAD" ELSE state[u]
    BY <2>2, <2>6 DEF Thread
  <2>9. /\ NoDuplicate(queue') /\ queue' \in Seq(Thread)
        /\ \A y : Linked(queue', y) <=> Linked(queue, y) \/ y = w
    BY <1>1, <1>4, <2>4, <2>5, AppendLinks DEF QueueExact
  <2>10. TwinStates'
    BY <1>4, <2>2, <2>3, <2>7, <2>8 DEF TwinStates, TwinExclusion
  <2>11. QueueExact'
    BY SMTT(40), <1>4, <2>3, <2>5, <2>6, <2>9 DEF QueueExact
  <2>12. ReapedAfterCall'
    <3> SUFFICES ASSUME NEW u \in UserThread, state'[u] = "DEAD"
                 PROVE  (Linked(queue', u) \/ current' = u) <=> state'[twin[u]] = "STOPPED"
      BY DEF ReapedAfterCall
    <3>1. u \in Thread /\ u # w /\ twin[u] \in KernelThread
      BY <2>2 DEF Thread
    <3>2. state'[twin[u]] = "STOPPED" <=> state[twin[u]] = "STOPPED"
      BY <2>3, <2>7, <3>1
    <3>3. Linked(queue', u) <=> Linked(queue, u)
      BY <2>9, <3>1
    <3>4. CASE u \notin D
      BY ZenonT(120), <1>4, <2>8, <3>1, <3>2, <3>3, <3>4 DEF ReapedAfterCall
    <3>5. CASE u \in D /\ state[u] = "RUNNING"
      BY <1>4, <3>1, <3>2, <3>3, <3>5 DEF QueueExact, TwinStates, TwinExclusion
    <3>6. CASE u \in D /\ state[u] = "WAITING"
      BY <1>3, <1>4, <3>1, <3>2, <3>3, <3>6 DEF QueueExact, TwinStates, TwinExclusion
    <3> QED BY <3>4, <3>5, <3>6
  <2>13. /\ waiters' \in [Event -> Seq(KernelThread)]
         /\ waiters'[e] = Tail(waiters[e])
         /\ \A f \in Event : f # e => waiters'[f] = waiters[f]
    BY <1>1, <1>6, <2>2
  <2>14. \A f \in Event, y \in KernelThread :
            Linked(waiters'[f], y) <=> Linked(waiters[f], y) /\ ~(f = e /\ y = w)
    <3> TAKE f \in Event, y \in KernelThread
    <3>1. CASE f = e
      BY ZenonT(120), <2>2, <2>13, <3>1
    <3>2. CASE f # e
      BY <2>13, <3>2
    <3> QED BY <3>1, <3>2
  <2>15. WaitersExact'
    <3>1. \A f \in Event : Linked(waiters[f], w) => f = e
      BY <1>4, <2>2 DEF WaitersExact
    <3>2. \A k \in KernelThread :
            state'[k] = "UNINTERRUPTABLE_WAIT" <=> \E f \in Event : Linked(waiters'[f], k)
      BY <1>4, <2>7, <2>14, <3>1 DEF WaitersExact
    <3>3. \A f, g \in Event, k \in KernelThread :
            Linked(waiters'[f], k) /\ Linked(waiters'[g], k) => f = g
      BY <1>4, <2>14 DEF WaitersExact
    <3>4. \A f \in Event : NoDuplicate(waiters'[f])
      BY ZenonT(120), <1>4, <2>2, <2>13 DEF WaitersExact
    <3>5. \A f \in Event : has_signal'[f] => waiters'[f] = <<>>
      BY <1>4, <1>6, <2>13 DEF WaitersExact
    <3> QED BY <3>2, <3>3, <3>4, <3>5 DEF WaitersExact
  <2>16. state' \in [Thread -> ThreadState]
    BY Zenon, <1>2, <2>4 DEF ThreadState
  <2>17. \A k \in KernelThread : state[k] = "RUNNING" => state'[k] = "RUNNING"
    BY <2>7
  <2> QED BY <1>1, <1>6, <2>8, <2>9, <2>10, <2>11, <2>12, <2>13, <2>15, <2>16, <2>17
<1> QED BY <1>5, <1>6 DEF Wakes
\* event_invoke(e) by itself is such a step.
LEMMA InvokeWakes ==
    ASSUME IInv, NEW e \in Event,
           state' = event_invoke_state(e, state),
           queue' = event_invoke_queue(e, state, queue),
           event_invoke(e)
    PROVE  Wakes({}, e)
<1>1. Killed({}) = state
  BY DEF Killed, IInv, TypeOK
<1>2. CASE waiters[e] = <<>>
  BY <1>1, <1>2 DEF Wakes, event_invoke_state, event_invoke_queue, event_invoke
<1>3. CASE waiters[e] # <<>>
  <2>1. Head(waiters[e]) \in KernelThread /\ Linked(waiters[e], Head(waiters[e]))
    BY <1>3, TailUnlinks DEF IInv, TypeOK, WaitersExact
  <2>2. state[Head(waiters[e])] = "UNINTERRUPTABLE_WAIT" /\ Head(waiters[e]) \in Thread
    BY <2>1 DEF IInv, WaitersExact, Thread
  <2>3. state' = [state EXCEPT ![Head(waiters[e])] = "RUNNING"]
    BY <1>3 DEF event_invoke_state, thread_run_state
  <2>4. state'[Head(waiters[e])] = "RUNNING"
    BY <2>2, <2>3 DEF IInv, TypeOK
  <2>5. queue' = Append(queue, Head(waiters[e]))
    BY <1>3, <2>2, <2>3, <2>4 DEF event_invoke_queue, thread_run_queue, scheduler_queue, thread_run_state
  <2> QED BY Zenon, <1>1, <1>3, <2>3, <2>5 DEF Wakes, event_invoke
<1> QED BY <1>2, <1>3

\* process_kill of a live process is such a step for the threads it owns.
LEMMA KillWakes ==
    ASSUME IInv, NEW p \in Pid, pstate[p] = "ALIVE", process_kill(p),
           NEW D, D = threads[p], NEW e, e = parent_id[p]
    PROVE  /\ \A u \in D : state[u] \in {"RUNNING", "WAITING"}
           /\ D \in SUBSET UserThread /\ e \in Pid /\ e \in Event
           /\ Wakes(D, e)
<1> USE TwinAssumption
<1>1. D \in SUBSET UserThread /\ e \in Pid /\ e \in Event
  BY DEF IInv, TypeOK, Event
<1>2. \A u \in D : state[u] \in {"RUNNING", "WAITING"}
  BY <1>1 DEF IInv, ProcessOwnsThreads, TwinStates
<1>3. thread_kill_state(p) = Killed(D)
  BY DEF thread_kill_state, Killed
<1>4. thread_kill_queue(p) = queue
  <2>1. {t \in D : state[t] # "RUNNING" /\ state[t] \in {"RUNNING", "DEAD"}} = {}
    BY ZenonT(120), <1>2
  <2> QED BY <2>1 DEF thread_kill_queue
<1>5. CASE ~parent_alive(p)
  BY ZenonT(120), <1>1, <1>2, <1>3, <1>4, <1>5 DEF process_kill, Wakes, event_vars
<1>6. CASE parent_alive(p) /\ waiters[e] = <<>>
  BY ZenonT(120), <1>1, <1>2, <1>3, <1>4, <1>6
     DEF process_kill, Wakes, event_invoke, event_invoke_state, event_invoke_queue
<1>7. CASE parent_alive(p) /\ waiters[e] # <<>>
  <2> DEFINE w == Head(waiters[e])
  <2>1. w \in KernelThread /\ Linked(waiters[e], w)
    BY ZenonT(120), <1>1, <1>7, TailUnlinks DEF IInv, TypeOK, WaitersExact
  <2>2. state[w] = "UNINTERRUPTABLE_WAIT" /\ w \in Thread
    BY ZenonT(120), <1>1, <2>1 DEF IInv, WaitersExact, Thread
  <2>3. Killed(D)[w] = "UNINTERRUPTABLE_WAIT"
    BY ZenonT(120), <1>1, <2>1, <2>2 DEF Killed
  <2>4. state' = [Killed(D) EXCEPT ![w] = "RUNNING"]
    BY <1>3, <1>7 DEF process_kill, event_invoke_state, thread_run_state
  <2>5. state'[w] = "RUNNING"
    BY ZenonT(120), <2>2, <2>4 DEF Killed
  <2>6. queue' = Append(queue, w)
    BY <1>3, <1>4, <1>7, <2>3, <2>4, <2>5
       DEF process_kill, event_invoke_queue, thread_run_queue, scheduler_queue, thread_run_state
  <2> QED BY <1>1, <1>2, <1>7, <2>4, <2>6 DEF process_kill, Wakes, event_invoke
<1> QED BY <1>5, <1>6, <1>7

\* signal_table_invoke keeps the queues typed and within their capacity.
LEMMA SignalBounded ==
    ASSUME NEW sq \in [Pid -> Seq(Signal)], NEW p \in Pid, NEW sig \in Signal,
           \A q \in Pid : Len(sq[q]) <= SIGNAL_QUEUE_SIZE
    PROVE  /\ signal_table_invoke(p, sig, sq) \in [Pid -> Seq(Signal)]
           /\ \A q \in Pid : Len(signal_table_invoke(p, sig, sq)[q]) <= SIGNAL_QUEUE_SIZE
<1> USE BoundAssumption
<1>1. CASE Len(sq[p]) = SIGNAL_QUEUE_SIZE
  BY <1>1 DEF signal_table_invoke
<1>2. CASE Len(sq[p]) # SIGNAL_QUEUE_SIZE
  <2>1. signal_table_invoke(p, sig, sq) = [sq EXCEPT ![p] = Append(sq[p], sig)]
    BY <1>2 DEF signal_table_invoke
  <2>2. Append(sq[p], sig) \in Seq(Signal) /\ Len(Append(sq[p], sig)) = Len(sq[p]) + 1
    OBVIOUS
  <2>3. Len(sq[p]) \in Nat /\ Len(sq[p]) + 1 <= SIGNAL_QUEUE_SIZE
    BY <1>2
  <2> QED BY <2>1, <2>2, <2>3
<1> QED BY <1>1, <1>2

\* An emptied signal queue is within its capacity.
LEMMA EmptyQueueFits == <<>> \in Seq(Signal) /\ Len(<<>>) <= SIGNAL_QUEUE_SIZE
  BY BoundAssumption

\* process_kill of a live process, in a mode in which the kernel calls it,
\* preserves everything but possibly the agreement of mode and current thread.
LEMMA KillPreserves ==
    ASSUME IInv, NEW p \in Pid, pstate[p] = "ALIVE", process_kill(p),
           mode \in {"user", "kernel", "resume"}, mode' \in Mode, current' = current
    PROVE  /\ TypeOK' /\ TwinStates' /\ QueueExact' /\ ReapedAfterCall'
           /\ ProcessOwnsThreads' /\ WaitersExact' /\ SleepArmed'
           /\ \A u \in UserThread : state'[u] = IF u \in threads[p] THEN "DEAD" ELSE state[u]
           /\ \A k \in KernelThread : state[k] = "RUNNING" => state'[k] = "RUNNING"
<1> USE TwinAssumption, EventAssumption
<1>0. PICK D : D = threads[p]
  OBVIOUS
<1>a. PICK e : e = parent_id[p]
  OBVIOUS
<1>1. /\ \A u \in D : state[u] \in {"RUNNING", "WAITING"}
      /\ D \in SUBSET UserThread /\ e \in Pid /\ e \in Event
      /\ Wakes(D, e)
  BY <1>0, <1>a, KillWakes
<1>2. /\ state' \in [Thread -> ThreadState] /\ queue' \in Seq(Thread)
      /\ waiters' \in [Event -> Seq(KernelThread)] /\ has_signal' \in [Event -> BOOLEAN]
      /\ TwinStates' /\ QueueExact' /\ ReapedAfterCall' /\ WaitersExact'
      /\ \A u \in UserThread : state'[u] = IF u \in D THEN "DEAD" ELSE state[u]
      /\ \A k \in KernelThread : state[k] = "RUNNING" => state'[k] = "RUNNING"
      /\ \A f \in Event : f # e => waiters'[f] = waiters[f]
  <2>1. mode \in {"user", "idle", "kernel", "resume", "timers"}
    BY ZenonT(120)
  <2>2. D \in SUBSET UserThread
    BY <1>1
  <2>3. e \in Event
    BY <1>1
  <2>4. \A u \in D : state[u] \in {"RUNNING", "WAITING"}
    BY <1>1
  <2>5. Wakes(D, e)
    BY ZenonT(120), <1>1
  <2> HIDE TwinAssumption, EventAssumption
  <2> QED BY <2>1, <2>2, <2>3, <2>4, <2>5, WakesPreserves DEF Wakes
<1>3. /\ process' = [t \in Thread |-> IF t \in D THEN NULL ELSE process[t]]
      /\ pstate' = [pstate EXCEPT ![p] = "FREED"]
      /\ threads' = [threads EXCEPT ![p] = {}]
      /\ UNCHANGED <<parent_id, pc, sleepers, alarms>>
      /\ user_handler' = [user_handler EXCEPT ![p] = {}]
  BY <1>0 DEF process_kill, timer_vars
<1>4. signal_queue' \in [Pid -> Seq(Signal)]
      /\ \A q \in Pid : Len(signal_queue'[q]) <= SIGNAL_QUEUE_SIZE
  <2> DEFINE sq == [signal_queue EXCEPT ![p] = <<>>]
  <2>1. sq \in [Pid -> Seq(Signal)] /\ \A q \in Pid : Len(sq[q]) <= SIGNAL_QUEUE_SIZE
    BY EmptyQueueFits, ZenonT(120) DEF IInv, TypeOK
  <2>2. signal_queue' = sq \/ signal_queue' = signal_table_invoke(e, "SIG_CHILD", sq)
    BY <1>a DEF process_kill
  <2> HIDE DEF sq
  <2>3. "SIG_CHILD" \in Signal
    BY ZenonT(120) DEF Signal
  <2>4. /\ signal_table_invoke(e, "SIG_CHILD", sq) \in [Pid -> Seq(Signal)]
        /\ \A q \in Pid : Len(signal_table_invoke(e, "SIG_CHILD", sq)[q])
                          <= SIGNAL_QUEUE_SIZE
    BY ZenonT(120), <1>1, <2>1, <2>3, SignalBounded
  <2> QED BY <2>1, <2>2, <2>4, Zenon
<1>5. TypeOK'
  <2>1. process' \in [Thread -> Pid \cup {NULL}] /\ current' \in Thread \cup {NULL}
        /\ pstate' \in [Pid -> {"UNUSED", "ALIVE", "FREED"}]
        /\ threads' \in [Pid -> SUBSET UserThread]
        /\ user_handler' \in [Pid -> SUBSET Signal]
    BY ZenonT(120), <1>3 DEF IInv, TypeOK
  <2> QED BY ZenonT(120), <1>2, <1>3, <1>4, <2>1 DEF IInv, TypeOK
<1>6. ProcessOwnsThreads'
  <2>1. ProcessOwnsThreads /\ TypeOK /\ TwinStates
    BY DEF IInv
  <2>2. \A q \in Pid : threads'[q] = IF q = p THEN {} ELSE threads[q]
    BY <1>3, <2>1 DEF TypeOK
  <2>3. \A q \in Pid : pstate'[q] = IF q = p THEN "FREED" ELSE pstate[q]
    BY <1>3, <2>1 DEF TypeOK
  <2>4. \A t \in Thread : process'[t] = IF t \in D THEN NULL ELSE process[t]
    BY ZenonT(120), <1>3
  <2>5. \A q \in Pid : pstate'[q] = "ALIVE" <=> threads'[q] # {}
    BY ZenonT(120), <2>1, <2>2, <2>3 DEF ProcessOwnsThreads
  <2>6. ASSUME NEW u \in UserThread
        PROVE  /\ state'[u] \in {"RUNNING", "WAITING"} =>
                     /\ process'[u] \in Pid /\ process'[twin[u]] = process'[u]
                     /\ \A q \in Pid : u \in threads'[q] <=> q = process'[u]
               /\ state'[u] \in {"DEAD", "FREE"} => \A q \in Pid : u \notin threads'[q]
               /\ state'[u] = "DEAD" =>
                     /\ process'[u] = NULL
                     /\ process'[twin[u]] \in Pid /\ pstate'[process'[twin[u]]] = "FREED"
    <3>1. u \in Thread /\ twin[u] \in Thread /\ twin[u] \notin D
      BY ZenonT(120), <1>1 DEF Thread
    <3>2. CASE u \in D
      <4>1. u \in threads[p] /\ state[u] \in {"RUNNING", "WAITING"}
        BY <1>0, <1>1, <3>2, Zenon
      <4>2. /\ process[u] \in Pid /\ process[twin[u]] = process[u]
            /\ \A q \in Pid : u \in threads[q] <=> q = process[u]
        BY <2>1, <4>1, Zenon DEF ProcessOwnsThreads
      <4>3. process[u] = p /\ process[twin[u]] = p
        BY <1>1, <4>1, <4>2, Zenon
      <4>4. state'[u] = "DEAD" /\ process'[u] = NULL /\ process'[twin[u]] = p
        BY <1>2, <2>4, <3>1, <3>2, <4>3, Zenon
      <4>5. pstate'[p] = "FREED" /\ \A q \in Pid : u \notin threads'[q]
        BY <1>1, <2>2, <2>3, <4>2, <4>3, Zenon
      <4> QED BY <1>1, <4>4, <4>5, Zenon
    <3>3. CASE u \notin D
      <4>1. state'[u] = state[u] /\ process'[u] = process[u] /\ process'[twin[u]] = process[twin[u]]
        BY <1>2, <2>4, <3>1, <3>3
      <4>2. \A q \in Pid : u \in threads'[q] <=> u \in threads[q]
        BY <1>0, <2>2, <3>3
      <4>3. \A q \in Pid : pstate[q] = "FREED" => pstate'[q] = "FREED"
        BY <2>3
      <4> QED BY ZenonT(120), <2>1, <4>1, <4>2, <4>3 DEF ProcessOwnsThreads
    <3> QED BY ZenonT(120), <3>2, <3>3
  <2> QED BY ZenonT(120), <2>5, <2>6 DEF ProcessOwnsThreads
<1>7. SleepArmed'
  <2>1. \A k \in KernelThread : k \in Event /\ k # e
    BY SMTT(40), <1>1 DEF Event
  <2>2. \A k \in KernelThread : waiters'[k] = waiters[k]
    BY Zenon, <1>2, <2>1
  <2> QED BY ZenonT(120), <1>3, <2>2 DEF IInv, SleepArmed
<1> QED BY <1>2, <1>5, <1>6, <1>7, <1>0
=============================================================================

--------------------------------- MODULE Timer ---------------------------------
(***************************************************************************)
(* The timers: a doubly linked list that the timer interrupt walks.  Threads *)
(* that sleep and processes that set an alarm have a timer whose handler     *)
(* frees it, in the middle of the walk; the cursor of the terminal blinks    *)
(* with a timer that stays.  An interrupt, and a system call up to where it   *)
(* waits, are not interrupted.                                               *)
(***************************************************************************)
EXTENDS Integers, FiniteSets

CONSTANTS
  Address,      \* where the heap may place a timer
  timers_head, timers_tail,     \* the ends of the list
  Thread,       \* threads that sleep
  Kilo,         \* 1000
  TickUs,       \* TIMER_TICK_US
  Nanos,        \* bound: the times that threads sleep
  Seconds,      \* bound: the times of alarms
  Millis,       \* bound: the intervals of the cursor, 500 in the code
  MaxAge        \* bound: the ticks that the cursor's timer is followed

TimerAssumption ==
  /\ timers_head # timers_tail /\ {timers_head, timers_tail} \cap Address = {}
  /\ {Kilo, TickUs} \subseteq Nat \ {0}
  /\ Nanos \cup Seconds \cup Millis \cup {MaxAge} \subseteq Nat

VARIABLES
  timer,        \* what is at each address: the heap leaves what it frees as it is
  next, prev,   \* the links of the timers and of the ends
  allocated,    \* addresses that are in use
  sleeping,     \* threads that wait for a timer
  age,          \* interrupts since the timer was made
  fired,        \* how often the timer's handler was called
  slept,        \* interrupts that a thread slept and the time it asked for
  blink         \* the address of the cursor's timer, or timers_head

vars == <<timer, next, prev, allocated, sleeping, age, fired, slept, blink>>

\* The conversions divide and multiply as the macros do.
TIMER_US_TO_TICKS(us) == us \div TickUs
TIMER_NS_TO_TICKS(ns) == TIMER_US_TO_TICKS(ns \div Kilo)
TIMER_MS_TO_TICKS(ms) == TIMER_NS_TO_TICKS(Kilo * ms)
TIMER_S_TO_TICKS(s) == TIMER_MS_TO_TICKS(Kilo * s)

NoTimer == [state |-> "WAITING", current |-> 0, start |-> 0, interval |-> 0, handler |-> "none",
            cookie |-> "none"]

timers_init ==
  /\ timer = [a \in Address |-> NoTimer]
  /\ next = [a \in Address \cup {timers_head, timers_tail} |-> timers_tail]
  /\ prev = [a \in Address \cup {timers_head, timers_tail} |-> timers_head]
  /\ allocated = {} /\ sleeping = {}
  /\ age = [a \in Address |-> 0] /\ fired = [a \in Address |-> 0]
  /\ slept = [t \in Thread |-> [ticks |-> 0, nanos |-> 0]]
  /\ blink = timers_head

-----------------------------------------------------------------------------
\* Bug: the first timer keeps the head as the one before it.
timer_init_half(a, handler, cookie, start, interval) ==
  /\ allocated' = allocated \cup {a}
  /\ timer' = [timer EXCEPT ![a] = [state |-> "WAITING", current |-> 0, start |-> start,
                                    interval |-> interval, handler |-> handler,
                                    cookie |-> cookie]]
  /\ next' = [next EXCEPT ![a] = next[timers_head], ![timers_head] = a]
  /\ prev' = [prev EXCEPT ![a] = timers_head]
  /\ age' = [age EXCEPT ![a] = 0] /\ fired' = [fired EXCEPT ![a] = 0]

timer_init(a, handler, cookie, start, interval) ==
  /\ allocated' = allocated \cup {a}
  /\ timer' = [timer EXCEPT ![a] = [state |-> "WAITING", current |-> 0, start |-> start,
                                    interval |-> interval, handler |-> handler,
                                    cookie |-> cookie]]
  /\ next' = [next EXCEPT ![a] = next[timers_head], ![timers_head] = a]
  /\ prev' = [prev EXCEPT ![a] = timers_head, ![next[timers_head]] = a]
  /\ age' = [age EXCEPT ![a] = 0] /\ fired' = [fired EXCEPT ![a] = 0]

\* The interrupt works on a record of the variables it changes.
Lists == [timer |-> timer, next |-> next, prev |-> prev, allocated |-> allocated,
          sleeping |-> sleeping, fired |-> fired]

timer_free(s, a) ==
  [s EXCEPT !.prev[s.next[a]] = s.prev[a], !.next[s.prev[a]] = s.next[a],
            !.allocated = @ \ {a}]

Handled(s, a) ==
  LET called == [s EXCEPT !.fired[a] = @ + 1] IN
  CASE s.timer[a].handler = "nanosleep_timer_handler" ->
         timer_free([called EXCEPT !.sleeping = @ \ {s.timer[a].cookie}], a)
    [] s.timer[a].handler = "alarm_timer_handler" -> timer_free(called, a)
    [] OTHER -> called

\* Bug: what is too much for an interval is dropped.
timer_update_drift(s, a) ==
  LET u == [s EXCEPT !.timer[a].current = @ + 1]
      t == u.timer[a]
  IN  CASE t.state = "WAITING" /\ t.current >= t.start ->
             [Handled([u EXCEPT !.timer[a].state = "RUNNING"], a) EXCEPT !.timer[a].current = 0]
        [] t.state = "RUNNING" /\ t.interval # 0 /\ t.current >= t.interval ->
             [Handled(u, a) EXCEPT !.timer[a].current = @ - t.interval]
        [] OTHER -> u

\* Bug: the comparison leaves out the tick on which the time is up.
timer_update_late(s, a) ==
  LET u == [s EXCEPT !.timer[a].current = @ + 1]
      t == u.timer[a]
  IN  CASE t.state = "WAITING" /\ t.current > t.start ->
             [Handled([u EXCEPT !.timer[a].state = "RUNNING"], a)
                EXCEPT !.timer[a].current = @ - t.start]
        [] t.state = "RUNNING" /\ t.interval # 0 /\ t.current >= t.interval ->
             [Handled(u, a) EXCEPT !.timer[a].current = @ - t.interval]
        [] OTHER -> u

\* The handler comes before the subtraction, which may go to a freed timer.
timer_update(s, a) ==
  LET u == [s EXCEPT !.timer[a].current = @ + 1]
      t == u.timer[a]
  IN  CASE t.state = "WAITING" /\ t.current >= t.start ->
             [Handled([u EXCEPT !.timer[a].state = "RUNNING"], a)
                EXCEPT !.timer[a].current = @ - t.start]
        [] t.state = "RUNNING" /\ t.interval # 0 /\ t.current >= t.interval ->
             [Handled(u, a) EXCEPT !.timer[a].current = @ - t.interval]
        [] OTHER -> u

RECURSIVE Walk(_, _)
\* The link to the next timer is read after the update, from a timer that its
\* handler may have freed.
Walk(s, a) == IF a = timers_tail THEN s ELSE LET u == timer_update(s, a) IN Walk(u, u.next[a])

timers_update ==
  \E s \in {Walk(Lists, next[timers_head])}:
    LET of(t) == CHOOSE a \in allocated: timer[a].cookie = t IN
    /\ timer' = s.timer /\ next' = s.next /\ prev' = s.prev /\ allocated' = s.allocated
    /\ sleeping' = s.sleeping /\ fired' = s.fired
    /\ age' = [a \in Address |-> IF a \in allocated THEN age[a] + 1 ELSE age[a]]
    /\ slept' = [t \in Thread |-> IF t \in sleeping \ s.sleeping
                                  THEN [slept[t] EXCEPT !.ticks = age[of(t)] + 1]
                                  ELSE slept[t]]

-----------------------------------------------------------------------------
syscall_nanosleep(t, nanos) ==
  /\ t \notin sleeping
  /\ \E a \in Address \ allocated:
       timer_init(a, "nanosleep_timer_handler", t, TIMER_NS_TO_TICKS(nanos), 0)
  /\ sleeping' = sleeping \cup {t}
  /\ slept' = [slept EXCEPT ![t] = [ticks |-> 0, nanos |-> nanos]]
  /\ UNCHANGED blink

syscall_alarm(seconds) ==
  /\ \E a \in Address \ allocated:
       timer_init(a, "alarm_timer_handler", "process", TIMER_S_TO_TICKS(seconds), 0)
  /\ UNCHANGED <<sleeping, slept, blink>>

vga_terminal_init(ms) ==
  /\ blink = timers_head
  /\ \E a \in Address \ allocated:
       timer_init(a, "timer_handler", "none", 0, TIMER_MS_TO_TICKS(ms)) /\ blink' = a
  /\ UNCHANGED <<sleeping, slept>>

vga_terminal_free ==
  /\ blink # timers_head
  /\ LET s == timer_free(Lists, blink) IN
       next' = s.next /\ prev' = s.prev /\ allocated' = s.allocated
  /\ blink' = timers_head
  /\ UNCHANGED <<timer, sleeping, age, fired, slept>>

timers_interrupt_handler ==
  /\ blink # timers_head => age[blink] < MaxAge
  /\ timers_update
  /\ UNCHANGED blink

Next ==
  \/ \E t \in Thread, nanos \in Nanos: syscall_nanosleep(t, nanos)
  \/ \E seconds \in Seconds: syscall_alarm(seconds)
  \/ \E ms \in Millis: vga_terminal_init(ms)
  \/ vga_terminal_free
  \/ timers_interrupt_handler

Spec == timers_init /\ [][Next]_vars

-----------------------------------------------------------------------------
AtLeastOne(n) == IF n = 0 THEN 1 ELSE n

\* The ticks of a timer that will be called again stay below what it waits for.
TypeOK ==
  /\ allocated \subseteq Address /\ sleeping \subseteq Thread
  /\ \A a \in allocated: LET t == timer[a] IN
       /\ t.state = "WAITING" => t.current \in 0 .. AtLeastOne(t.start)
       /\ t.state = "RUNNING" /\ t.interval # 0 => t.current \in 0 .. t.interval

RECURSIVE Reached(_, _)
Reached(a, n) == IF a = timers_tail \/ n = 0 THEN {} ELSE {a} \cup Reached(next[a], n - 1)

\* The links are those of one list, forwards and backwards, of all timers that
\* are in use and no other, although handlers take timers out during the walk.
ListIntact ==
  /\ Reached(next[timers_head], Cardinality(Address) + 1) = allocated
  /\ \A a \in allocated \cup {timers_head}: prev[next[a]] = a

\* Every timer is called when it is due and never otherwise, whatever other
\* timers come and go: first after its start time, or on the next interrupt, and
\* then once in every interval, counted from the start time without drift.
CalledWhenDue ==
  \A a \in allocated:
    LET t == timer[a]
        periods == IF t.interval = 0 THEN 0 ELSE (age[a] - t.start) \div t.interval
    IN  fired[a] = IF age[a] < AtLeastOne(t.start) THEN 0
                   ELSE IF 1 + periods < age[a] THEN 1 + periods ELSE age[a]

\* A thread sleeps for the time it asked for, in whole ticks rounded down, and at
\* least until the next interrupt: never a tick more and never two ticks less.
SleepsAsAsked ==
  \A t \in Thread \ sleeping:
    LET s == slept[t]
        tick == Kilo * TickUs
    IN  s.ticks # 0 => /\ s.ticks = 1 \/ s.ticks * tick =< s.nanos
                       /\ (s.ticks + 1) * tick > s.nanos
=============================================================================

------------------------------- MODULE MCDrivers -------------------------------
(***************************************************************************)
(* The drivers and what they are built on: the input device with a mouse,  *)
(* with a mouse that has a wheel and with a keyboard, a terminal, a pipe,  *)
(* the timers, and the loading of the modules that contain drivers.  They  *)
(* share no state, so that a behaviour is about one of them, chosen in the *)
(* first state.  Variables of the same name belong to the one the          *)
(* behaviour is about.                                                     *)
(***************************************************************************)
EXTENDS Integers, Sequences, TLC

CONSTANTS
  t1, t2,       \* threads that read or sleep
  button,       \* the button of the mouse
  c1, c2,       \* characters
  a1, a2, a3, a4  \* addresses of timers

VARIABLES
  which,        \* "mouse", "wheel", "keys", "tty", "pipe", "timers" or "modules"
  \* Input
  packets, head, tail, mouse_type, mouse_packet_loc, mouse_packet, mouse_buttons,
  awaiting_extra_keycode, key_release, down, seen, dropped, refused,
  \* Tty
  buffer_ready, buffer_size, buffer_offset, last_char, enter, text,
  \* Pipe
  start, unread, got,
  \* Timer
  timer, next, prev, allocated, sleeping, age, fired, slept, blink,
  \* Modules
  order, position, ps2_works, k,
  \* of more than one of Input, Tty and Pipe
  size, has_signal, waiters, reading, wire, buffer, mode

input_vars == <<packets, head, tail, mouse_type, mouse_packet_loc, mouse_packet, mouse_buttons,
                awaiting_extra_keycode, key_release, down, seen, dropped, refused>>
tty_vars == <<buffer_ready, buffer_size, buffer_offset, last_char, enter, text>>
pipe_vars == <<start, unread, got>>
timer_vars == <<timer, next, prev, allocated, sleeping, age, fired, slept, blink>>
module_vars == <<order, position, ps2_works, k>>
event_vars == <<has_signal, waiters, reading, wire>>
vars == <<which, input_vars, tty_vars, pipe_vars, timer_vars, module_vars, event_vars, size, buffer,
          mode>>

Mouse == INSTANCE Input WITH
  Reader <- {t1, t2}, Capacity <- 2, Key <- {"plain"}, Button <- {}, TypeData <- {0}
Wheel == INSTANCE Input WITH
  Reader <- {t1, t2}, Capacity <- 2, Key <- {}, Button <- {button}, TypeData <- {3}
Keys == INSTANCE Input WITH
  Reader <- {t1, t2}, Capacity <- 3, Key <- {"plain", "extended"}, Button <- {}, TypeData <- {4}
Terminal == INSTANCE Tty WITH Reader <- {t1, t2}, Char <- {c1, c2}, Capacity <- 4
Stream == INSTANCE Pipe WITH Byte <- {1, 2}, BufferSize <- 3, MappingSize <- 5
Timers == INSTANCE Timer WITH
  Address <- {a1, a2, a3, a4}, timers_head <- "head", timers_tail <- "tail", Thread <- {t1, t2},
  Kilo <- 2, TickUs <- 2,
  Nanos <- {0, 3, 9}, Seconds <- {0, 3}, Millis <- {1, 2, 4, 6}, MaxAge <- 7

\* One build with two drivers that want the keyboard, and one with the serial line.
Boot == INSTANCE Modules WITH
  Builds <- {{"x86_pci", "devfs", "sysfs", "x86_serial_tty", "x86_ps2", "disc_pio"},
             {"x86_pci", "devfs", "sysfs", "x86_ps2", "kbd_pio", "disc_pio"}},
  Disc <- {1, 2}

ASSUME Constants ==
  /\ Mouse!InputAssumption /\ Wheel!InputAssumption /\ Keys!InputAssumption /\ Terminal!TtyAssumption
  /\ Stream!PipeAssumption /\ Timers!TimerAssumption /\ Boot!ModulesAssumption

\* Threads are alike.
Symmetry == Permutations({t1, t2})

\* The timers in the order of the list.
Walk == LET at[n \in 0 .. 4] == IF n = 0 THEN next["head"]
                                ELSE IF at[n - 1] = "tail" THEN "tail" ELSE next[at[n - 1]]
        IN  at

\* A slot of the ring that holds no packet, and a freed timer, are written before
\* they are read again, and it does not matter at which address a timer is: states
\* that differ only there are taken for one.
View ==
  LET ring == <<head, tail, mouse_type, mouse_packet_loc, mouse_packet, mouse_buttons,
                awaiting_extra_keycode, key_release, down, seen, dropped, refused, event_vars, size>>
      seen_at(i) == IF i \in allocated THEN <<timer[i], age[i], fired[i], i = blink>> ELSE <<>>
  IN  CASE which = "mouse" -> <<which, Mouse!Contents, ring>>
        [] which = "wheel" -> <<which, Wheel!Contents, ring>>
        [] which = "keys" -> <<which, Keys!Contents, ring>>
        [] which = "timers" -> <<which, Timers!ListIntact, [n \in 0 .. 4 |-> seen_at(Walk[n])],
                                 sleeping, slept, blink = "head">>
        [] OTHER -> vars

Unused == "unused"
no_input ==
  /\ packets = Unused /\ head = Unused /\ tail = Unused /\ mouse_type = Unused
  /\ mouse_packet_loc = Unused /\ mouse_packet = Unused /\ mouse_buttons = Unused
  /\ awaiting_extra_keycode = Unused /\ key_release = Unused /\ down = Unused
  /\ seen = Unused /\ dropped = Unused /\ refused = Unused

no_tty ==
  /\ buffer_ready = Unused /\ buffer_size = Unused /\ buffer_offset = Unused
  /\ last_char = Unused /\ enter = Unused /\ text = Unused

no_pipe ==
  /\ start = Unused /\ unread = Unused /\ got = Unused

no_timer ==
  /\ timer = Unused /\ next = Unused /\ prev = Unused /\ allocated = Unused
  /\ sleeping = Unused /\ age = Unused /\ fired = Unused /\ slept = Unused
  /\ blink = Unused

no_module ==
  /\ order = Unused /\ position = Unused /\ ps2_works = Unused /\ k = Unused

no_event ==
  /\ has_signal = Unused /\ waiters = Unused /\ reading = Unused /\ wire = Unused

Init ==
  \/ /\ \/ which = "mouse" /\ Mouse!Init
        \/ which = "wheel" /\ Wheel!Init
        \/ which = "keys" /\ Keys!Init
     /\ no_tty /\ no_pipe /\ no_timer /\ no_module /\ buffer = Unused /\ mode = Unused
  \/ /\ which = "tty" /\ Terminal!tty_init
     /\ no_input /\ no_pipe /\ no_timer /\ no_module /\ size = Unused
  \/ /\ which = "pipe" /\ Stream!pipe_init
     /\ no_input /\ no_tty /\ no_timer /\ no_module /\ no_event
  \/ /\ \/ which = "timers" /\ Timers!timers_init /\ no_module
        \/ which = "modules" /\ Boot!Init /\ no_timer
     /\ no_input /\ no_tty /\ no_pipe /\ no_event
     /\ size = Unused /\ buffer = Unused /\ mode = Unused

Next ==
  \/ /\ \/ which = "mouse" /\ Mouse!Next
        \/ which = "wheel" /\ Wheel!Next
        \/ which = "keys" /\ Keys!Next
     /\ UNCHANGED <<which, tty_vars, pipe_vars, timer_vars, module_vars, buffer, mode>>
  \/ /\ which = "tty" /\ Terminal!Next
     /\ UNCHANGED <<which, input_vars, pipe_vars, timer_vars, module_vars, size>>
  \/ /\ which = "pipe" /\ Stream!Next
     /\ UNCHANGED <<which, input_vars, tty_vars, timer_vars, module_vars, event_vars>>
  \/ /\ \/ which = "timers" /\ Timers!Next /\ UNCHANGED module_vars
        \/ which = "modules" /\ Boot!Next /\ UNCHANGED timer_vars
     /\ UNCHANGED <<which, input_vars, tty_vars, pipe_vars, event_vars, size, buffer, mode>>

Spec == Init /\ [][Next]_vars

-----------------------------------------------------------------------------
\* The ring of input packets and the buffer of a pipe are queues: every read takes
\* the oldest elements, and one that comes while the buffer is full changes none
\* that is in it.  What pipe_read returns is the oldest bytes, each once, until
\* BufferSize bytes were read, because its start does not go round.
BuffersAreQueues ==
  [][/\ which = "mouse" => Mouse!RingIsQueue
     /\ which = "wheel" => Wheel!RingIsQueue
     /\ which = "keys" => Keys!RingIsQueue
     /\ which = "pipe" => Stream!PipeIsQueue /\ Stream!ReadsOldest]_vars


\* No reader waits for the event read_ready while there is something to read that
\* nobody was woken for, unless a read left a part behind: input_read and tty_read
\* check, wait and take in steps that interrupts and other readers come between.
ReadersWake ==
  /\ which = "mouse" => Mouse!NobodySleepsOnPackets
  /\ which = "wheel" => Wheel!NobodySleepsOnPackets
  /\ which = "keys" => Keys!NobodySleepsOnPackets
  /\ which = "tty" => Terminal!NobodySleepsOnLine

\* timers_interrupt_handler calls every timer when it is due and never otherwise,
\* and threads sleep as long as they asked for in whole ticks, although handlers
\* take timers out of the list during the walk.
TimersCalled ==
  which = "timers" =>
    Timers!TypeOK /\ Timers!ListIntact /\ Timers!CalledWhenDue /\ Timers!SleepsAsAsked

\* Whatever the order in the build's list: declared dependencies are loaded first
\* and once, calls that come too early are those of undeclared dependencies,
\* handlers find their devices, the first driver keeps the keyboard, and boot
\* finds its disc if the list has what disc_pio calls before it.
ModulesLoaded ==
  which = "modules" =>
    /\ Boot!TypeOK /\ Boot!DependenciesFirst /\ Boot!InitOnce /\ Boot!EarlyCalls
    /\ Boot!EntriesFromSysfsOn /\ Boot!HandlersHaveDevice /\ Boot!KeyboardKept
    /\ Boot!DiscFound
=============================================================================

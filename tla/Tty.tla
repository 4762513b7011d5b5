---------------------------------- MODULE Tty ----------------------------------
(***************************************************************************)
(* A terminal on a serial line: the interrupt handler of the line puts       *)
(* characters into the buffer of the terminal, where they can be erased      *)
(* until they are read, and threads read lines or wait.  A handler is not    *)
(* interrupted, and neither is a read, but for the time it waits.            *)
(***************************************************************************)
EXTENDS Integers, Sequences, SequencesExt, FiniteSets

CONSTANTS
  Reader,       \* threads that read the terminal
  Char,         \* characters without a meaning of their own
  Capacity      \* TTY_BUFFER_SIZE

TtyAssumption == Capacity \in Nat \ {0}

CR == "\r"
LF == "\n"
BS == "0x08"
DEL == "0x7F"

VARIABLES
  buffer, buffer_ready, buffer_size, buffer_offset, last_char,  \* of the terminal
  has_signal, waiters,       \* of its event read_ready
  reading,                   \* what each reader does
  enter,                     \* what the Enter key of the terminal sends
  wire,                      \* the part of it that has still to come
  text,                      \* what was typed, not erased and not read
  mode                       \* "ok", or why the buffer and the text part

event_vars == <<has_signal, waiters, reading>>
line_vars == <<buffer, buffer_ready, buffer_size, buffer_offset>>
vars == <<line_vars, last_char, event_vars, enter, wire, text, mode>>

tty_init ==
  /\ buffer = <<>>
  /\ buffer_ready = FALSE /\ buffer_size = 0 /\ buffer_offset = 0
  /\ last_char = "0"
  /\ has_signal = FALSE /\ waiters = <<>>
  /\ reading = [r \in Reader |-> "no"]
  /\ enter \in {<<CR>>, <<LF>>, <<CR, LF>>}
  /\ wire = <<>>
  /\ text = <<>>
  /\ mode = "ok"

-----------------------------------------------------------------------------
event_invoke ==
  \/ /\ waiters # <<>>
     /\ waiters' = Tail(waiters)
     /\ reading' = [reading EXCEPT ![Head(waiters)] = "woken"]
     /\ UNCHANGED has_signal
  \/ /\ waiters = <<>>
     /\ has_signal' = TRUE
     /\ UNCHANGED <<waiters, reading>>

\* buffer[buffer_size++] = c: what is behind the place is of no use any more.
Store(c) ==
  /\ buffer' = Append(SubSeq(buffer, 1, buffer_size), c)
  /\ buffer_size' = buffer_size + 1

\* Bug: any end of a line after another one belongs to it.
EndOfLine_any(c) ==
  \/ /\ last_char \in {CR, LF}
     /\ UNCHANGED <<line_vars, event_vars, mode>>
  \/ /\ last_char \notin {CR, LF}
     /\ buffer_size = Capacity
     /\ mode' = "overrun" /\ UNCHANGED <<line_vars, event_vars>>
  \/ /\ last_char \notin {CR, LF}
     /\ buffer_size < Capacity
     /\ buffer_ready' = TRUE
     /\ Store(LF)
     /\ event_invoke
     /\ UNCHANGED <<buffer_offset, mode>>

\* Bug: a reader is woken only for the first line in the buffer.
EndOfLine_quiet(c) ==
  \/ /\ {c, last_char} = {CR, LF}
     /\ UNCHANGED <<line_vars, event_vars, mode>>
  \/ /\ {c, last_char} # {CR, LF}
     /\ buffer_size = Capacity
     /\ mode' = "overrun" /\ UNCHANGED <<line_vars, event_vars>>
  \/ /\ {c, last_char} # {CR, LF}
     /\ buffer_size < Capacity
     /\ buffer_ready' = TRUE
     /\ Store(LF)
     /\ IF buffer_size = 0 THEN event_invoke ELSE UNCHANGED event_vars
     /\ UNCHANGED <<buffer_offset, mode>>

\* A CR after an LF and an LF after a CR belong to the line that has ended.  The
\* end of a line is stored without a look at the room that is left.
EndOfLine(c) ==
  \/ /\ {c, last_char} = {CR, LF}
     /\ UNCHANGED <<line_vars, event_vars, mode>>
  \/ /\ {c, last_char} # {CR, LF}
     /\ buffer_size = Capacity
     /\ mode' = "overrun" /\ UNCHANGED <<line_vars, event_vars>>
  \/ /\ {c, last_char} # {CR, LF}
     /\ buffer_size < Capacity
     /\ buffer_ready' = TRUE
     /\ Store(LF)
     /\ event_invoke
     /\ UNCHANGED <<buffer_offset, mode>>

Erase ==
  /\ buffer_size' = IF buffer_size > 0 THEN buffer_size - 1 ELSE 0
  /\ UNCHANGED <<buffer, buffer_ready, buffer_offset, event_vars, mode>>


Type(c) ==
  /\ IF buffer_size < Capacity THEN Store(c) ELSE UNCHANGED <<buffer, buffer_size>>
  /\ UNCHANGED <<buffer_ready, buffer_offset, event_vars, mode>>

tty_provide_char(c) ==
  /\ \/ c = BS /\ Erase
     \/ c \in {CR, LF} /\ EndOfLine(c)
     \/ c \notin {BS, CR, LF} /\ Type(c)
  /\ last_char' = c

\* The second of two empty lines, each of them CR and LF.
EmptyAgain(c) == Len(enter) = 2 /\ c = Head(enter) /\ last_char = LF

\* What a key does to the text, in the eyes of the person at the terminal.  A key
\* that is not echoed, as the buffer is full, adds nothing, and neither does an
\* empty line after another one.
Meant(c) ==
  CASE c \in {BS, DEL} -> IF text = <<>> THEN text ELSE Front(text)
    [] c = Head(enter) -> IF EmptyAgain(c) THEN text ELSE Append(text, LF)
    [] OTHER -> IF buffer_size < Capacity THEN Append(text, c) ELSE text

\* A character is erased that was read.
TooLate(c) == c \in {BS, DEL} /\ text = <<>> /\ buffer_size > 0

\* A key of the terminal.  The handler takes DEL for a backspace.
com1_int_handler(c) ==
  /\ mode = "ok" /\ wire = <<>>
  /\ \/ TooLate(c) /\ mode' = "erased" /\ UNCHANGED <<line_vars, event_vars, last_char>>
     \/ ~TooLate(c) /\ tty_provide_char(IF c = DEL THEN BS ELSE c)
  /\ text' = Meant(c)
  /\ wire' = IF c = Head(enter) THEN Tail(enter) ELSE <<>>
  /\ UNCHANGED enter

\* The second character of the Enter key.
Rest ==
  /\ mode = "ok" /\ wire # <<>>
  /\ tty_provide_char(Head(wire))
  /\ wire' = Tail(wire)
  /\ UNCHANGED <<enter, text>>

-----------------------------------------------------------------------------
\* The amount does not depend on the offset: who asks for more than is left of a
\* line that was read in part gets what is behind its end, and the offset leaves
\* the buffer behind.
Copy(r, size) ==
  LET amnt == IF size > buffer_size THEN buffer_size ELSE size
      offset == buffer_offset + amnt
      left == Len(text)
  IN  /\ reading' = [reading EXCEPT ![r] = "no"]
      /\ IF offset = buffer_size
         THEN buffer_offset' = 0 /\ buffer_size' = 0 /\ buffer_ready' = FALSE
         ELSE buffer_offset' = offset /\ UNCHANGED <<buffer_size, buffer_ready>>
      /\ text' = SubSeq(text, amnt + 1, left)
      /\ mode' = IF amnt > left THEN "misread" ELSE mode
      /\ UNCHANGED <<buffer, has_signal, waiters>>

\* scheduler_await of a reader that finds no signal.
Wait(r) ==
  /\ reading' = [reading EXCEPT ![r] = "waiting"]
  /\ waiters' = Append(waiters, r)
  /\ UNCHANGED <<has_signal, line_vars, text, mode>>

\* The call up to the place where it waits, if it does.  A signal of a line that
\* someone else has read by now is as good as one of a new line.
tty_read(r, size) ==
  /\ mode = "ok" /\ reading[r] = "no"
  /\ \/ buffer_ready /\ Copy(r, size)
     \/ ~buffer_ready /\ ~has_signal /\ Wait(r)
     \/ /\ ~buffer_ready /\ has_signal
        /\ has_signal' = FALSE
        /\ reading' = [reading EXCEPT ![r] = "woken"]
        /\ UNCHANGED <<waiters, line_vars, text, mode>>
  /\ UNCHANGED <<last_char, enter, wire>>

\* The call after it has waited: it does not look again whether there is a line.
tty_read_woken(r, size) ==
  /\ mode = "ok" /\ reading[r] = "woken"
  /\ Copy(r, size)
  /\ UNCHANGED <<last_char, enter, wire>>

Stopped == mode # "ok" /\ UNCHANGED vars

Next ==
  \/ \E c \in Char \cup {BS, DEL, Head(enter)}: com1_int_handler(c)
  \/ Rest
  \/ \E r \in Reader, size \in 1 .. Capacity:
       tty_read(r, size) \/ tty_read_woken(r, size)
  \/ Stopped

Spec == tty_init /\ [][Next]_vars

-----------------------------------------------------------------------------
\* The terminal and its event have their types: no character is stored behind the
\* end of the buffer.
TypeOK ==
  /\ buffer \in BoundedSeq(Char \cup {LF}, Capacity)
  /\ buffer_size \in 0 .. Len(buffer)
  /\ ToSet(waiters) = {r \in Reader: reading[r] = "waiting"}
  /\ mode \in {"ok", "overrun", "erased", "misread"}

\* What the next reads return is what was typed, one LF for each Enter, without
\* what was erased or read already, in order.  Only the second of
\* two empty lines is lost when Enter sends CR and LF.  It stays so until an end of
\* line meets a full buffer, something is erased that was read, or a read asks for
\* more than is left of a line that was read in part.
BufferHoldsText ==
  mode = "ok" => text = SubSeq(buffer, buffer_offset + 1, buffer_size)

\* Nobody waits while there is a line that nobody was woken for, except when a
\* read has left a part of its line behind.
NobodySleepsOnLine ==
  mode = "ok" /\ waiters # <<>> /\ buffer_ready
    => buffer_offset > 0 \/ \E r \in Reader: reading[r] = "woken"
=============================================================================

---------------------------------- MODULE Pipe ----------------------------------
(***************************************************************************)
(* A pipe: bytes in a buffer of the kernel.  A read or a write is one call   *)
(* that nothing interrupts, takes or puts as many bytes as there are or as   *)
(* fit, and never waits.                                                     *)
(***************************************************************************)
EXTENDS Integers, Sequences, SequencesExt

CONSTANTS
  Byte,         \* bytes that are written; 0 is what the pages hold at first
  BufferSize,   \* PIPE_BUFFER_SIZE
  MappingSize   \* the size of the mapping: BufferSize rounded up to pages

PipeAssumption ==
  /\ BufferSize \in Nat \ {0}
  /\ MappingSize \in Nat
  /\ BufferSize =< MappingSize

VARIABLES
  buffer, start, size,
  unread,       \* the bytes that were written and not yet read
  got,          \* the bytes that the last call read
  mode          \* "ok", or "fault" when a byte outside of the mapping was read

vars == <<buffer, start, size, unread, got, mode>>

pipe_init ==
  /\ buffer = [i \in 0 .. MappingSize - 1 |-> 0]
  /\ start = 0 /\ size = 0
  /\ unread = <<>> /\ got = <<>>
  /\ mode = "ok"

-----------------------------------------------------------------------------
AtMost(n, limit) == IF n < limit THEN n ELSE limit

\* Bug: one byte more than the buffer holds is taken.
pipe_write_over(data) ==
  LET n == AtMost(Len(data), BufferSize + 1 - size) IN
  /\ mode = "ok"
  /\ buffer' = [i \in 0 .. MappingSize - 1 |->
                  IF \E k \in 1 .. n: i = (start + size + k - 1) % BufferSize
                  THEN data[CHOOSE k \in 1 .. n: i = (start + size + k - 1) % BufferSize]
                  ELSE buffer[i]]
  /\ size' = size + n
  /\ unread' = unread \o SubSeq(data, 1, n)
  /\ got' = <<>>
  /\ UNCHANGED <<start, mode>>

\* Bug: the place of a byte does not depend on the start.
pipe_write_front(data) ==
  LET n == AtMost(Len(data), BufferSize - size) IN
  /\ mode = "ok"
  /\ buffer' = [i \in 0 .. MappingSize - 1 |->
                  IF i - size \in 0 .. n - 1 THEN data[i - size + 1] ELSE buffer[i]]
  /\ size' = size + n
  /\ unread' = unread \o SubSeq(data, 1, n)
  /\ got' = <<>>
  /\ UNCHANGED <<start, mode>>

\* pipe_push for each byte until the buffer is full.
pipe_write(data) ==
  LET n == AtMost(Len(data), BufferSize - size)
      place(i) == ((i - start - size) % BufferSize) + 1
  IN  /\ mode = "ok"
      /\ buffer' = [i \in 0 .. MappingSize - 1 |->
                      IF i < BufferSize /\ place(i) =< n THEN data[place(i)] ELSE buffer[i]]
      /\ size' = size + n
      /\ unread' = unread \o SubSeq(data, 1, n)
      /\ got' = <<>>
      /\ UNCHANGED <<start, mode>>

\* pipe_pop for each byte until the buffer is empty: the start grows and never
\* goes round.
pipe_read(wanted) ==
  LET n == AtMost(wanted, size) IN
  /\ mode = "ok"
  /\ IF start + n =< MappingSize
     THEN /\ got' = [k \in 1 .. n |-> buffer[start + k - 1]]
          /\ start' = start + n
          /\ size' = size - n
          /\ unread' = SubSeq(unread, n + 1, Len(unread))
          /\ UNCHANGED <<buffer, mode>>
     ELSE mode' = "fault" /\ UNCHANGED <<buffer, start, size, unread, got>>

Stopped == mode # "ok" /\ UNCHANGED vars

Next ==
  \/ \E data \in UNION {[1 .. n -> Byte]: n \in 1 .. BufferSize}: pipe_write(data)
  \/ \E wanted \in 1 .. BufferSize: pipe_read(wanted)
  \/ Stopped

Spec == pipe_init /\ [][Next]_vars

-----------------------------------------------------------------------------
\* The variables have their types: the pipe never holds more than its buffer.
TypeOK ==
  /\ buffer \in [0 .. MappingSize - 1 -> Byte \cup {0}]
  /\ start \in 0 .. MappingSize
  /\ size \in 0 .. BufferSize
  /\ Len(unread) = size

\* What would come out if the start went round the buffer.
Contents == [i \in 1 .. size |-> buffer[(start + i - 1) % BufferSize]]

Stream == INSTANCE Fifo WITH queue <- Contents, Element <- Byte, Capacity <- BufferSize

\* The bytes of a pipe are a queue, whatever was written and read: a write appends
\* what fits and spoils no byte that has not been read.
PipeIsQueue == Stream!Next \/ UNCHANGED Contents

\* A read returns the oldest bytes that were not read, each once and in order, as
\* long as no more than BufferSize bytes were read from the pipe since it was made.
ReadsOldest ==
  start' # start /\ start' =< BufferSize => got' \o unread' = unread
=============================================================================

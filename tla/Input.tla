--------------------------------- MODULE Input ---------------------------------
(***************************************************************************)
(* The input device: the interrupt handlers of the PS/2 keyboard and mouse  *)
(* put packets into a ring, and threads that read the device take them out  *)
(* or wait.  A handler is not interrupted, and neither is a read, but for    *)
(* the time it waits.                                                        *)
(***************************************************************************)
EXTENDS Integers, Sequences, SequencesExt, FiniteSets

CONSTANTS
  Reader,       \* threads that read the device
  Capacity,     \* INPUT_BUFFER_SIZE
  Key,          \* "plain" and "extended", keys with the same code, the latter behind a byte 0xE0
  Button,       \* the buttons of the mouse
  TypeData      \* what the mouse may answer when it is asked for its type

InputAssumption == Capacity \in Nat \ {0}

VARIABLES
  packets, size, head, tail,        \* of the device
  has_signal, waiters,              \* of its event read_ready
  reading,                          \* what each reader does
  mouse_type, mouse_packet_loc, mouse_packet, mouse_buttons,
  awaiting_extra_keycode, key_release,
  wire,                             \* the bytes that the keyboard has still to send
  down,                             \* the keys that are held down on the keyboard
  seen,                             \* keys and buttons that are down, from what was read
  dropped,                          \* a packet did not fit
  refused                           \* a packet was too large for a reader's buffer

ring_vars == <<packets, size, head, tail>>
event_vars == <<has_signal, waiters>>
mouse_vars == <<mouse_type, mouse_packet_loc, mouse_packet, mouse_buttons>>
key_vars == <<awaiting_extra_keycode, key_release, wire, down>>
vars == <<ring_vars, event_vars, reading, mouse_vars, key_vars, seen, dropped, refused>>

Extra == "0xE0"
Release == "0xF0"
Code == "code"

\* A byte of the mouse: bit 3, the bits of the buttons, whether it is 0.
MouseByte ==
  {[bit3 |-> TRUE, buttons |-> s, zero |-> FALSE]: s \in SUBSET Button}
    \cup {[bit3 |-> FALSE, buttons |-> {}, zero |-> z]: z \in BOOLEAN}

KeyPacket(code, pressed) == [type |-> "key", code |-> code, pressed |-> pressed]
Packet == [type: {"key"}, code: Key \cup Button, pressed: BOOLEAN]
            \cup [type: {"rel"}, axis: {"x", "y"}]

\* The kind of mouse, from its answer to the command 0xF2.
init(type_data) ==
  CASE type_data = 0 -> "basic"
    [] type_data = 3 -> "scrolling"
    [] OTHER -> "none"

Init ==
  /\ packets = [i \in 0 .. Capacity - 1 |-> [type |-> "rel", axis |-> "x"]]
  /\ size = 0 /\ head = 0 /\ tail = 0
  /\ has_signal = FALSE /\ waiters = <<>>
  /\ reading = [r \in Reader |-> "no"]
  /\ mouse_type \in {init(type_data): type_data \in TypeData}
  /\ mouse_packet_loc = 0 /\ mouse_packet = <<>> /\ mouse_buttons = {}
  /\ awaiting_extra_keycode = FALSE /\ key_release = FALSE
  /\ wire = <<>> /\ down = {}
  /\ seen = {}
  /\ dropped = FALSE /\ refused = FALSE

-----------------------------------------------------------------------------
\* Bug: one reader is woken, however many packets were taken up.
event_invoke_once(times) ==
  IF times = 0 THEN UNCHANGED <<waiters, has_signal, reading>>
  ELSE IF waiters = <<>> THEN has_signal' = TRUE /\ UNCHANGED <<waiters, reading>>
  ELSE /\ waiters' = Tail(waiters)
       /\ reading' = [reading EXCEPT ![Head(waiters)] = "woken"]
       /\ UNCHANGED has_signal

\* event_invoke, once for every packet that was taken up: a waiting reader
\* goes on, or the signal is kept for the next one.
event_invoke(times) ==
  LET n == IF times < Len(waiters) THEN times ELSE Len(waiters)
      woken == {waiters[i]: i \in 1 .. n}
  IN  /\ waiters' = SubSeq(waiters, n + 1, Len(waiters))
      /\ has_signal' = (has_signal \/ times > n)
      /\ reading' = [r \in Reader |-> IF r \in woken THEN "woken" ELSE reading[r]]

\* Bug: a full ring overwrites its oldest packets.
Provided_full(new) ==
  LET place(i) == ((i - head) % Capacity) + 1
      over == size + Len(new) - Capacity
  IN  /\ packets' = [i \in 0 .. Capacity - 1 |->
                       IF place(i) =< Len(new) THEN new[place(i)] ELSE packets[i]]
      /\ head' = (head + Len(new)) % Capacity
      /\ size' = IF over > 0 THEN Capacity ELSE size + Len(new)
      /\ tail' = IF over > 0 THEN (tail + over) % Capacity ELSE tail
      /\ event_invoke(Len(new))
      /\ UNCHANGED dropped

\* input_provide_packet for each of a few packets, in order.
Provided(new) ==
  LET room == Capacity - size
      n == IF Len(new) < room THEN Len(new) ELSE room
      place(i) == ((i - head) % Capacity) + 1
  IN  /\ packets' = [i \in 0 .. Capacity - 1 |->
                       IF place(i) =< n THEN new[place(i)] ELSE packets[i]]
      /\ head' = (head + n) % Capacity
      /\ size' = size + n
      /\ dropped' = (dropped \/ n < Len(new))
      /\ event_invoke(n)
      /\ UNCHANGED tail

-----------------------------------------------------------------------------
\* The keyboard sends the bytes of a key that is pressed, repeated or released.
Typed(key, pressed) ==
  /\ wire = <<>>
  /\ wire' = (IF key = "extended" THEN <<Extra>> ELSE <<>>)
               \o (IF pressed THEN <<>> ELSE <<Release>>) \o <<Code>>
  /\ down' = IF pressed THEN down \cup {key} ELSE down \ {key}
  /\ pressed \/ key \in down
  /\ UNCHANGED <<ring_vars, event_vars, reading, mouse_vars, awaiting_extra_keycode, key_release,
                 seen, dropped, refused>>

keycode_lut == IF awaiting_extra_keycode THEN "extended" ELSE "plain"

\* Bug: a release is forgotten after the byte 0xE0.
keyboard_handler_reset ==
  /\ wire # <<>>
  /\ wire' = Tail(wire)
  /\ CASE Head(wire) = Extra ->
            /\ awaiting_extra_keycode' = TRUE /\ key_release' = key_release
            /\ UNCHANGED <<ring_vars, event_vars, reading, dropped>>
       [] Head(wire) = Release ->
            /\ key_release' = TRUE /\ awaiting_extra_keycode' = FALSE
            /\ UNCHANGED <<ring_vars, event_vars, reading, dropped>>
       [] OTHER ->
            /\ Provided(<<KeyPacket(keycode_lut, ~key_release)>>)
            /\ awaiting_extra_keycode' = FALSE /\ key_release' = FALSE
  /\ UNCHANGED <<mouse_vars, down, seen, refused>>

keyboard_handler ==
  /\ wire # <<>>
  /\ wire' = Tail(wire)
  /\ CASE Head(wire) = Extra ->
            /\ awaiting_extra_keycode' = TRUE /\ key_release' = key_release
            /\ UNCHANGED <<ring_vars, event_vars, reading, dropped>>
       [] Head(wire) = Release ->
            /\ key_release' = TRUE /\ UNCHANGED awaiting_extra_keycode
            /\ UNCHANGED <<ring_vars, event_vars, reading, dropped>>
       [] OTHER ->
            /\ Provided(<<KeyPacket(keycode_lut, ~key_release)>>)
            /\ awaiting_extra_keycode' = FALSE /\ key_release' = FALSE
  /\ UNCHANGED <<mouse_vars, down, seen, refused>>

packet_full(loc) ==
  \/ mouse_type = "basic" /\ loc = 3
  \/ mouse_type = "scrolling" /\ loc = 4

\* Of the first byte of a packet the buttons matter, of the next two whether they
\* are 0, and of the last one nothing.
Kept(loc, data) ==
  CASE loc = 0 -> data.buttons
    [] loc \in {1, 2} -> data.zero
    [] OTHER -> "unused"

\* The packets for the buttons that changed, in some order, and for the movement.
MousePackets(bytes) ==
  SetToSeq({KeyPacket(b, b \in bytes[1]): b \in
              {c \in Button: (c \in bytes[1]) # (c \in mouse_buttons)}})
    \o (IF bytes[2] THEN <<>> ELSE <<[type |-> "rel", axis |-> "x"]>>)
    \o (IF bytes[3] THEN <<>> ELSE <<[type |-> "rel", axis |-> "y"]>>)

\* Bug: the state of the buttons is not kept.
mouse_handler_stateless(data) ==
  /\ mouse_type # "none"
  /\ LET bytes == Append(mouse_packet, Kept(mouse_packet_loc, data)) IN
       \/ mouse_packet_loc = 0 /\ ~data.bit3 /\ UNCHANGED <<vars>>
       \/ /\ mouse_packet_loc # 0 \/ data.bit3
          /\ IF packet_full(mouse_packet_loc + 1)
             THEN /\ Provided(MousePackets(bytes))
                  /\ mouse_packet' = <<>> /\ mouse_packet_loc' = 0
             ELSE /\ mouse_packet' = bytes
                  /\ mouse_packet_loc' = mouse_packet_loc + 1
                  /\ UNCHANGED <<ring_vars, event_vars, reading, dropped>>
  /\ UNCHANGED <<mouse_buttons, mouse_type, key_vars, seen, refused>>

\* Any byte may come: bytes are lost, and movements look like anything.
mouse_handler(data) ==
  /\ \/ /\ mouse_type = "none" \/ (mouse_packet_loc = 0 /\ ~data.bit3)
        /\ UNCHANGED <<ring_vars, event_vars, reading, dropped, mouse_packet, mouse_packet_loc,
                       mouse_buttons>>
     \/ /\ mouse_type # "none"
        /\ mouse_packet_loc # 0 \/ data.bit3
        /\ LET bytes == Append(mouse_packet, Kept(mouse_packet_loc, data)) IN
             IF packet_full(mouse_packet_loc + 1)
             THEN /\ Provided(MousePackets(bytes))
                  /\ mouse_buttons' = bytes[1]
                  /\ mouse_packet' = <<>> /\ mouse_packet_loc' = 0
             ELSE /\ mouse_packet' = bytes
                  /\ mouse_packet_loc' = mouse_packet_loc + 1
                  /\ UNCHANGED <<ring_vars, event_vars, reading, dropped, mouse_buttons>>
  /\ UNCHANGED <<mouse_type, key_vars, seen, refused>>

-----------------------------------------------------------------------------
\* What is known of keys and buttons after a packet.
Known(before, p) ==
  IF p.type # "key" THEN before
  ELSE IF p.pressed THEN before \cup {p.code} ELSE before \ {p.code}

\* A key packet is smaller than a movement: a small buffer has no room for the
\* latter, which stays in the ring, and 0 is returned.
Take(r, small) ==
  LET p == packets[tail] IN
  /\ size # 0
  /\ reading' = [reading EXCEPT ![r] = "no"]
  /\ \/ /\ small /\ p.type = "rel"
        /\ refused' = TRUE
        /\ UNCHANGED <<ring_vars, seen>>
     \/ /\ ~(small /\ p.type = "rel")
        /\ tail' = (tail + 1) % Capacity
        /\ size' = size - 1
        /\ seen' = Known(seen, p)
        /\ UNCHANGED <<packets, head, refused>>
  /\ UNCHANGED event_vars

\* scheduler_await, once around the loop: with a signal it returns at once.
Await(r) ==
  /\ size = 0
  /\ \/ /\ has_signal
        /\ has_signal' = FALSE
        /\ reading' = [reading EXCEPT ![r] = "woken"]
        /\ UNCHANGED waiters
     \/ /\ ~has_signal
        /\ reading' = [reading EXCEPT ![r] = "waiting"]
        /\ waiters' = Append(waiters, r)
        /\ UNCHANGED has_signal
  /\ UNCHANGED <<ring_vars, seen, refused>>

\* A call begins, or goes on after it has waited.
input_read(r, small) ==
  /\ reading[r] \in {"no", "woken"}
  /\ Take(r, small) \/ Await(r)
  /\ UNCHANGED <<mouse_vars, key_vars, dropped>>

Next ==
  \/ \E key \in Key, pressed \in BOOLEAN: Typed(key, pressed)
  \/ keyboard_handler
  \/ \E data \in MouseByte: mouse_handler(data)
  \/ \E r \in Reader, small \in BOOLEAN: input_read(r, small)

Spec == Init /\ [][Next]_vars

-----------------------------------------------------------------------------
\* The ring, the event and the handlers' state have their types.
TypeOK ==
  /\ size \in 0 .. Capacity
  /\ {head, tail} \subseteq 0 .. Capacity - 1
  /\ ToSet(waiters) = {r \in Reader: reading[r] = "waiting"}
  /\ Len(mouse_packet) = mouse_packet_loc
  /\ mouse_packet_loc \in 0 .. (IF mouse_type = "scrolling" THEN 3 ELSE 2)
  /\ mouse_buttons \subseteq Button

\* The packets in the ring, oldest first.
Contents == [i \in 1 .. size |-> packets[(tail + i - 1) % Capacity]]

Ring == INSTANCE Fifo WITH queue <- Contents, Element <- Packet

\* The ring of packets with its head, tail and size is a queue: every read takes
\* the oldest packets, and a packet that comes while the ring is full changes none
\* of those that are in it.
RingIsQueue == Ring!Next \/ UNCHANGED Contents

\* Someone who reads all packets knows which keys and buttons are down, as
\* long as the ring was never full: presses and releases are told apart, keys
\* with the same code are told apart, and the bytes of keyboard and mouse may
\* come in any order, and bytes of the mouse get lost.
ReaderKnows ==
  ~dropped /\ wire = <<>> => FoldLeft(Known, seen, Contents) = down \cup mouse_buttons

\* While someone waits, every packet in the ring has someone who was woken for
\* it, unless a reader with a small buffer left a packet behind.
NobodySleepsOnPackets ==
  ~refused /\ waiters # <<>> => size =< Cardinality({r \in Reader: reading[r] = "woken"})
=============================================================================

------------------------------ MODULE Channel -------------------------------
(***************************************************************************)
(* What stream sockets promise: ends are paired, what is sent to an end is *)
(* received from it once, in order, and nothing else is received.          *)
(***************************************************************************)
EXTENDS Naturals, Sequences

CONSTANTS
    End,     \* the ends of channels
    Thread,  \* who sends and receives
    Data,    \* what one call may send: sequences of bytes
    NULL

VARIABLES
    peer,    \* where an end sends to
    stream,  \* bytes sent to an end and not yet received
    buffer   \* what each thread received last

chan_vars == <<peer, stream, buffer>>

Init ==
    /\ peer = [e \in End |-> NULL]
    /\ stream = [e \in End |-> <<>>]
    /\ buffer = [t \in Thread |-> <<>>]

\* A new end b becomes the peer of a, which may have had another one.
Pair(a, b) ==
    /\ a # b /\ peer[b] = NULL
    /\ peer' = [peer EXCEPT ![a] = b, ![b] = a]
    /\ UNCHANGED <<stream, buffer>>

Send(a, d) ==
    /\ peer[a] # NULL
    /\ stream' = [stream EXCEPT ![peer[a]] = @ \o d]
    /\ UNCHANGED <<peer, buffer>>

\* Some of the oldest bytes of the stream.
Receive(t, e) ==
    /\ peer[e] # NULL
    /\ \E n \in 0..Len(stream[e]) :
        /\ buffer' = [buffer EXCEPT ![t] = SubSeq(stream[e], 1, n)]
        /\ stream' = [stream EXCEPT ![e] = SubSeq(@, n + 1, Len(@))]
    /\ UNCHANGED peer

Next ==
    \/ \E a, b \in End : Pair(a, b)
    \/ \E a \in End, d \in Data : Send(a, d)
    \/ \E t \in Thread, e \in End : Receive(t, e)

Spec == Init /\ [][Next]_chan_vars
=============================================================================

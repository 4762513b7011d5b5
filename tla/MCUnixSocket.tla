---------------------------- MODULE MCUnixSocket -----------------------------
EXTENDS SocketChannel, TLC

\* Every thread, and every socket before it is allocated, is like any other.
Symmetry == Permutations(Thread) \cup Permutations(Socket)

\* Packets of two bytes that are told apart.
TwoBytes == {<<1, 2>>}

\* Bound: once two sockets are paired, nobody starts to wait for another pairing.
OneConnection ==
    (\E s \in Socket : paired_socket[s] # NULL) =>
        \A s \in Socket :
            /\ listen_queue[s] = <<>>
            /\ waiters[<<"listener_arrived", s>>] = <<>>
            /\ waiters[<<"listener_accepted", s>>] = <<>>

\* What a thread has read last is looked at in no action.
View == <<allocated, bound, capacity, listen_queue, paired_socket, incoming, event_vars, call,
          dropped, divided>>
=============================================================================

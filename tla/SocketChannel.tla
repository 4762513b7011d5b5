--------------------------- MODULE SocketChannel ----------------------------
(***************************************************************************)
(* Stream sockets implement Channel.                                       *)
(***************************************************************************)
EXTENDS UnixSocket, SequencesExt

\* Sockets are channels: whatever the sizes of writes and reads, bytes arrive
\* once, in order, at the socket that was paired with the sender's.
Chan == INSTANCE Channel WITH
    End <- Socket, peer <- paired_socket,
    stream <- [s \in Socket |-> FlattenSeq(incoming[s])]

IsChannel == Chan!Spec
=============================================================================

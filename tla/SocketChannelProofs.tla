------------------------- MODULE SocketChannelProofs -------------------------
(***************************************************************************)
(* Proof that sockets implement Channel, for every set of packets and of   *)
(* sizes that reads ask for, from the inductive invariant of               *)
(* UnixSocketProofs.                                                       *)
(***************************************************************************)
EXTENDS SocketChannel, UnixSocketProofs, SequenceLemmas

\* The bytes on their way to each socket.
Stream == [s \in Socket |-> FlattenSeq(incoming[s])]

\* The oldest bytes leave the stream of s, in the order they were sent.
LEMMA ReadReceives ==
    ASSUME IInv, NEW t \in Thread, NEW s \in Socket, NEW n \in ReadSize, paired_socket[s] # NULL,
           incoming[s] # <<>>, read_takes(t, s, n), UNCHANGED paired_socket
    PROVE  Chan!Receive(t, s)
<1> DEFINE q == incoming[s]
           packet == Head(q)
           rest == FlattenSeq(Tail(q))
           m == IF Len(packet) > n THEN n ELSE Len(packet)
           after == IF Len(packet) > n THEN [q EXCEPT ![1] = SubSeq(packet, n + 1, Len(packet))]
                                       ELSE Tail(q)
<1>1. /\ incoming \in [Socket -> Seq(Seq(Byte))] /\ buffer \in [Thread -> Seq(Byte)] /\ n \in Nat
  BY SocketAssumption DEF IInv, TypeOK
<1>2. /\ q \in Seq(Seq(Byte)) /\ q # <<>> /\ packet \in Seq(Byte) /\ Tail(q) \in Seq(Seq(Byte))
      /\ Len(packet) \in Nat
  BY <1>1
<1>3. /\ incoming' = [incoming EXCEPT ![s] = after]
      /\ buffer' = [buffer EXCEPT ![t] = SubSeq(packet, 1, m)]
  <2>1. CASE Len(packet) > n
    BY <1>1, <2>1 DEF read_takes
  <2>2. CASE ~(Len(packet) > n)
    <3>1. SubSeq(packet, 1, Len(packet)) = packet
      <4> HIDE DEF packet
      <4> QED BY <1>2
    <3>2. /\ incoming' = [incoming EXCEPT ![s] = Tail(@)]
          /\ buffer' = [buffer EXCEPT ![t] = packet]
      BY <2>2 DEF read_takes
    <3> HIDE DEF packet
    <3> QED BY <1>1, <2>2, <3>1, <3>2, ZenonT(60)
  <2> QED BY <2>1, <2>2
<1>4. rest \in Seq(Byte) /\ FlattenSeq(q) = packet \o rest
  <2> HIDE DEF q
  <2>1. rest \in Seq(Byte)
    BY <1>2, FlattenAppend, Zenon
  <2>2. FlattenSeq(q) = packet \o rest
    BY <1>2, FlattenHead
  <2> QED BY <2>1, <2>2
<1>5. FlattenSeq(after) = SubSeq(packet, m + 1, Len(packet)) \o rest
  <2>1. CASE Len(packet) > n
    <3> DEFINE left == SubSeq(packet, n + 1, Len(packet))
    <3>1. left \in Seq(Byte)
      <4> HIDE DEF packet
      <4> QED BY <1>1, <1>2, <2>1
    <3> HIDE DEF left, packet, q
    <3>2. /\ [q EXCEPT ![1] = left] \in Seq(Seq(Byte)) /\ [q EXCEPT ![1] = left] # <<>>
          /\ Head([q EXCEPT ![1] = left]) = left /\ Tail([q EXCEPT ![1] = left]) = Tail(q)
      BY <1>2, <3>1
    <3>3. FlattenSeq([q EXCEPT ![1] = left]) = left \o rest
      BY <3>2, FlattenHead, Zenon
    <3> QED BY <2>1, <3>3, Zenon DEF left
  <2>2. CASE ~(Len(packet) > n)
    <3> HIDE DEF packet, q
    <3>1. SubSeq(packet, Len(packet) + 1, Len(packet)) = <<>>
      BY <1>2
    <3>2. <<>> \o rest = rest
      BY <1>4, ConcatUnit
    <3> QED BY <2>2, <3>1, <3>2, ZenonT(60)
  <2> QED BY <2>1, <2>2, Zenon
<1>6. m \in 0..Len(packet)
  <2> HIDE DEF packet
  <2> QED BY <1>1, <1>2
<1> HIDE DEF packet, rest, m, after
<1>7. /\ m \in 0..Len(packet \o rest)
      /\ SubSeq(packet \o rest, 1, m) = SubSeq(packet, 1, m)
      /\ SubSeq(packet \o rest, m + 1, Len(packet \o rest)) =
           SubSeq(packet, m + 1, Len(packet)) \o rest
  BY <1>2, <1>4, <1>6, ConcatCut, ZenonT(60)
<1>8. Stream[s] = packet \o rest /\ Stream'[s] = FlattenSeq(after)
      /\ \A x \in Socket : x # s => Stream'[x] = Stream[x]
  BY <1>1, <1>3, <1>4 DEF Stream
<1>9. /\ m \in 0..Len(Stream[s]) /\ buffer' = [buffer EXCEPT ![t] = SubSeq(Stream[s], 1, m)]
      /\ Stream' = [Stream EXCEPT ![s] = SubSeq(@, m + 1, Len(@))]
  <2>1. Stream'[s] = SubSeq(Stream[s], m + 1, Len(Stream[s]))
    BY <1>5, <1>7, <1>8, ZenonT(60)
  <2>2. Stream' = [Stream EXCEPT ![s] = Stream'[s]]
    BY <1>8, Zenon DEF Stream
  <2>3. Stream' = [Stream EXCEPT ![s] = SubSeq(@, m + 1, Len(@))]
    BY <2>1, <2>2
  <2> QED BY <1>3, <1>7, <1>8, <2>3, ZenonT(60)
<1> QED BY <1>9, Zenon DEF Chan!Receive, Stream

\* A write adds its bytes to the stream of the paired socket.
LEMMA WriteSends ==
    ASSUME IInv, NEW t \in Thread, NEW s \in Socket, NEW d \in Data, SyscallWrite(t, s, d)
    PROVE  Chan!Send(s, d)
<1> DEFINE p == paired_socket[s]
<1>1. /\ p # NULL /\ UNCHANGED <<paired_socket, buffer>>
      /\ incoming' = [incoming EXCEPT ![p] = Append(@, d)]
  BY DEF SyscallWrite, send
<1>2. p \in Socket /\ incoming \in [Socket -> Seq(Seq(Byte))] /\ d \in Seq(Byte)
  BY <1>1, SocketAssumption DEF IInv, TypeOK
<1> HIDE DEF p
<1>3. FlattenSeq(Append(incoming[p], d)) = FlattenSeq(incoming[p]) \o d
  <2>1. incoming[p] \in Seq(Seq(Byte))
    BY <1>2
  <2> QED BY <1>2, <2>1, FlattenAppend
<1>4. Stream'[p] = Stream[p] \o d /\ \A x \in Socket : x # p => Stream'[x] = Stream[x]
  BY <1>1, <1>2, <1>3 DEF Stream
<1>5. Stream' = [Stream EXCEPT ![p] = @ \o d]
  <2>1. Stream' = [Stream EXCEPT ![p] = Stream'[p]]
    BY <1>4 DEF Stream
  <2> QED BY <1>4, <2>1
<1> QED BY <1>1, <1>5 DEF Chan!Send, Stream, p

\* accept pairs the requester with a socket that had no pair, or changes nothing.
LEMMA AcceptPairs ==
    ASSUME IInv, NEW t \in Thread, NEW s \in Socket, unix_socket_accept(t, s),
           UNCHANGED <<bound, capacity, incoming, buffer, dropped, divided>>
    PROVE  \/ \E a, b \in Socket : Chan!Pair(a, b)
           \/ UNCHANGED <<paired_socket, incoming, buffer>>
<1>1. CASE accept_waits(t, s)
  BY <1>1 DEF accept_waits
<1>2. CASE /\ listen_queue[s] # <<>>
           /\ accept_pairs(t, s, Head(listen_queue[s]), Tail(listen_queue[s]))
  <2> DEFINE a == Head(listen_queue[s])
  <2>1. a \in allocated /\ a \in Socket
    BY <1>2 DEF IInv, TypeOK
  <2>2. PICK b \in Socket \ allocated :
           paired_socket' = [paired_socket EXCEPT ![b] = a, ![a] = b]
    BY <1>2, Zenon DEF accept_pairs
  <2> HIDE DEF a
  <2>3. a # b /\ paired_socket[b] = NULL
    BY <2>1, <2>2 DEF IInv, Fresh
  <2>4. paired_socket' = [paired_socket EXCEPT ![a] = b, ![b] = a]
    BY <2>1, <2>2, <2>3, ZenonT(60) DEF IInv, TypeOK
  <2>5. Chan!Pair(a, b)
    BY <2>3, <2>4 DEF Chan!Pair
  <2> QED BY <2>1, <2>2, <2>5
<1> QED BY <1>1, <1>2 DEF unix_socket_accept

\* read receives, or changes nothing.
LEMMA ReadMaps ==
    ASSUME IInv, NEW t \in Thread, NEW s \in Socket, NEW n \in ReadSize, paired_socket[s] # NULL,
           unix_socket_read(t, s, n), UNCHANGED paired_socket
    PROVE  Chan!Receive(t, s) \/ UNCHANGED <<paired_socket, incoming, buffer>>
BY ReadReceives, Zenon DEF unix_socket_read

\* Every step of the sockets is a step of the channels or changes nothing there.
LEMMA ChannelStep ==
    ASSUME IInv, Next
    PROVE  Chan!Next \/ UNCHANGED <<paired_socket, incoming, buffer>>
<1>1. ASSUME NEW t \in Thread, SyscallSocket(t) PROVE UNCHANGED <<paired_socket, incoming, buffer>>
  BY <1>1 DEF SyscallSocket
<1>2. ASSUME NEW t \in Thread, ConnectReturns(t) PROVE UNCHANGED <<paired_socket, incoming, buffer>>
  BY <1>2 DEF ConnectReturns
<1>3. ASSUME NEW t \in Thread, AcceptResumes(t)
      PROVE  (\E a, b \in Socket : Chan!Pair(a, b)) \/ UNCHANGED <<paired_socket, incoming, buffer>>
  BY <1>3, Resumed, AcceptPairs DEF AcceptResumes
<1>4. ASSUME NEW t \in Thread, ReadResumes(t)
      PROVE  \/ \E s \in Socket : Chan!Receive(t, s)
             \/ UNCHANGED <<paired_socket, incoming, buffer>>
  <2>1. /\ call[t].sock \in Socket /\ call[t].size \in ReadSize
        /\ paired_socket[call[t].sock] # NULL
        /\ unix_socket_read(t, call[t].sock, call[t].size) /\ UNCHANGED paired_socket
    BY <1>4, Resumed DEF ReadResumes
  <2> QED BY <2>1, ReadMaps
<1>5. ASSUME NEW t \in Thread, NEW s \in Socket, NEW path \in Path, SyscallBind(t, s, path)
      PROVE  UNCHANGED <<paired_socket, incoming, buffer>>
  BY <1>5 DEF SyscallBind
<1>6. ASSUME NEW t \in Thread, NEW s \in Socket, NEW path \in Path, SyscallConnect(t, s, path)
      PROVE  UNCHANGED <<paired_socket, incoming, buffer>>
  BY <1>6 DEF SyscallConnect, request
<1>7. ASSUME NEW t \in Thread, NEW s \in Socket, NEW n \in Capacity, SyscallListen(t, s, n)
      PROVE  UNCHANGED <<paired_socket, incoming, buffer>>
  BY <1>7 DEF SyscallListen
<1>8. ASSUME NEW t \in Thread, NEW s \in Socket, SyscallAccept(t, s)
      PROVE  (\E a, b \in Socket : Chan!Pair(a, b)) \/ UNCHANGED <<paired_socket, incoming, buffer>>
  BY <1>8, AcceptPairs DEF SyscallAccept
<1>9. ASSUME NEW t \in Thread, NEW s \in Socket, NEW n \in ReadSize, SyscallRead(t, s, n)
      PROVE  Chan!Receive(t, s) \/ UNCHANGED <<paired_socket, incoming, buffer>>
  BY <1>9, ReadMaps DEF SyscallRead
<1>10. ASSUME NEW t \in Thread, NEW s \in Socket, NEW d \in Data, SyscallWrite(t, s, d)
       PROVE  Chan!Send(s, d)
  BY <1>10, WriteSends
<1> QED
  BY <1>1, <1>2, <1>3, <1>4, <1>5, <1>6, <1>7, <1>8, <1>9, <1>10, ZenonT(60) DEF Next, Chan!Next

\* Sockets implement channels: whatever the sizes of writes and reads, bytes
\* arrive once, in order, at the socket that was paired with the sender's.
THEOREM SocketsAreChannels == Spec => IsChannel
<1>1. Init => Chan!Init
  <2> SUFFICES ASSUME Init PROVE Chan!Init
    OBVIOUS
  <2>1. FlattenSeq(<<>>) = <<>>
    BY DEF FlattenSeq
  <2>2. [s \in Socket |-> FlattenSeq(incoming[s])] = [s \in Socket |-> <<>>]
    BY <2>1 DEF Init
  <2> QED BY <2>2 DEF Init, Chan!Init
<1>2. IInv /\ [Next]_vars => [Chan!Next]_(Chan!chan_vars)
  <2> SUFFICES ASSUME IInv, [Next]_vars PROVE Chan!Next \/ UNCHANGED Chan!chan_vars
    OBVIOUS
  <2>1. CASE Next
    BY <2>1, ChannelStep DEF Chan!chan_vars
  <2>2. CASE UNCHANGED vars
    BY <2>2 DEF vars, Chan!chan_vars
  <2> QED BY <2>1, <2>2
<1> QED BY <1>1, <1>2, Invariance, PTL DEF Spec, IsChannel, Chan!Spec
=============================================================================

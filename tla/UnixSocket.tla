----------------------------- MODULE UnixSocket ------------------------------
(***************************************************************************)
(* Stream sockets between processes: src/socket/unix.c, the calls of       *)
(* src/filesystem/socket.c that lead there and the system calls that make  *)
(* them.  A call is executed by the kernel twin of a thread and runs without *)
(* interruption until scheduler_await blocks it; a blocked call goes on,   *)
(* some time after event_invoke has taken it from its event's waiters.     *)
(*                                                                         *)
(* Sockets are never freed: no code calls socket_free or unix_socket_free. *)
(* A packet is the part of its data that has not been read.                *)
(***************************************************************************)
EXTENDS Naturals, Sequences, FiniteSets, Functions

CONSTANTS
    Thread,      \* threads that make socket calls
    Socket,      \* unix_socket_t objects, fresh from the heap when allocated
    Path,        \* names in the filesystem that sockets are bound to
    Data,        \* what one write sends: sequences of bytes
    ReadSize,    \* sizes that reads ask for
    Capacity,    \* queue capacities that listen is called with
    MaxPackets,  \* bound: packets waiting at one socket
    NULL

Kind == {"listener_arrived", "listener_accepted", "data_ready"}

\* Every socket has one event of each kind.
Event == Kind \X Socket

\* The bytes that are sent.
Byte == UNION {Range(d) : d \in Data}

ASSUME SocketAssumption ==
    /\ NULL \notin Socket
    /\ IsFiniteSet(Thread)
    /\ Data \subseteq Seq(Byte)
    /\ MaxPackets \in Nat
    /\ ReadSize \subseteq Nat /\ Capacity \subseteq Nat

VARIABLES
    allocated,     \* sockets that exist
    bound,         \* the socket a path names
    capacity,      \* listen_queue_capacity; listen_queue_size is always 0
    listen_queue,  \* requesters, oldest first
    paired_socket,
    incoming,      \* unread packets, oldest first
    has_signal,
    waiters,       \* threads blocked on an event, oldest first
    call,          \* what a thread in the kernel is doing
    buffer,        \* what a thread's last read returned
    dropped,       \* history: has listen thrown away a request of this socket
    divided        \* history: the sockets where a read has left part of a packet

event_vars == <<has_signal, waiters>>
vars == <<allocated, bound, capacity, listen_queue, paired_socket, incoming,
          event_vars, call, buffer, dropped, divided>>

\* The calls that can block, with the socket they are made on and, for
\* connect, the socket it waits for; for read, the size asked for.
NoCall == [op |-> "none"]
Connect(s, target) == [op |-> "connect", sock |-> s, target |-> target]
Accept(s) == [op |-> "accept", sock |-> s]
Read(s, n) == [op |-> "read", sock |-> s, size |-> n]

Call ==
    {NoCall} \cup {Connect(s, target) : s, target \in Socket}
             \cup {Accept(s) : s \in Socket}
             \cup {Read(s, n) : s \in Socket, n \in ReadSize}

TypeOK ==
    /\ allocated \in SUBSET Socket
    /\ bound \in [Path -> allocated \cup {NULL}]
    /\ capacity \in [Socket -> Nat]
    /\ listen_queue \in [Socket -> Seq(allocated)]
    /\ paired_socket \in [Socket -> allocated \cup {NULL}]
    /\ incoming \in [Socket -> Seq(Seq(Byte))]
    /\ \A s \in Socket : Len(incoming[s]) <= MaxPackets
    /\ has_signal \in [Event -> BOOLEAN]
    /\ waiters \in [Event -> Seq(Thread)]
    /\ call \in [Thread -> Call]
    /\ buffer \in [Thread -> Seq(Byte)]
    /\ dropped \in [Socket -> BOOLEAN]
    /\ divided \subseteq Socket

Init ==
    /\ allocated = {}
    /\ bound = [p \in Path |-> NULL]
    /\ capacity = [s \in Socket |-> 0]
    /\ listen_queue = [s \in Socket |-> <<>>]
    /\ paired_socket = [s \in Socket |-> NULL]
    /\ incoming = [s \in Socket |-> <<>>]
    /\ has_signal = [e \in Event |-> FALSE]
    /\ waiters = [e \in Event |-> <<>>]
    /\ call = [t \in Thread |-> NoCall]
    /\ buffer = [t \in Thread |-> <<>>]
    /\ dropped = [s \in Socket |-> FALSE]
    /\ divided = {}

-----------------------------------------------------------------------------
(* scheduler_await and event_invoke, as in Scheduler.                        *)

invoke_waiters(e) ==
    IF waiters[e] = <<>> THEN waiters ELSE [waiters EXCEPT ![e] = Tail(@)]

invoke_signal(e) ==
    IF waiters[e] = <<>> THEN [has_signal EXCEPT ![e] = TRUE] ELSE has_signal

event_invoke(e) == waiters' = invoke_waiters(e) /\ has_signal' = invoke_signal(e)

\* scheduler_await(e) by a call that returns afterwards, when the waiters and
\* signals are w and h: a kept signal is used up, or the call blocks as c.
await_once(t, e, c, w, h) ==
    IF h[e]
    THEN /\ has_signal' = [h EXCEPT ![e] = FALSE] /\ waiters' = w
         /\ UNCHANGED call
    ELSE /\ has_signal' = h /\ waiters' = [w EXCEPT ![e] = Append(@, t)]
         /\ call' = [call EXCEPT ![t] = c]

\* while (condition) scheduler_await(e), with a condition that only other
\* threads can change: a signal that was kept is used up by one more turn.
await_while(t, e) ==
    /\ has_signal' = [has_signal EXCEPT ![e] = FALSE]
    /\ waiters' = [waiters EXCEPT ![e] = Append(@, t)]

\* A thread outside the kernel, and one whose blocked call can go on.
Ready(t) == call[t] = NoCall

Blocked(t) == \E e \in Event : t \in Range(waiters[e])

Woken(t) == call[t] # NoCall /\ ~Blocked(t)

-----------------------------------------------------------------------------
(* System calls.                                                             *)

\* syscall_socket, unix_socket_init.
SyscallSocket(t) ==
    /\ Ready(t)
    /\ \E s \in Socket \ allocated : allocated' = allocated \cup {s}
    /\ UNCHANGED <<bound, capacity, listen_queue, paired_socket, incoming, event_vars,
                   call, buffer, dropped, divided>>

\* socket_bind: EEXIST when the path is taken.
SyscallBind(t, s, path) ==
    /\ Ready(t) /\ s \in allocated
    /\ bound[path] = NULL
    /\ bound' = [bound EXCEPT ![path] = s]
    /\ UNCHANGED <<allocated, capacity, listen_queue, paired_socket, incoming, event_vars,
                   call, buffer, dropped, divided>>

\* unix_socket_listen: requests that were queued are freed; their connects are
\* still waiting for listener_accepted.
SyscallListen(t, s, n) ==
    /\ Ready(t) /\ s \in allocated
    /\ capacity' = [capacity EXCEPT ![s] = n]
    /\ listen_queue' = [listen_queue EXCEPT ![s] = <<>>]
    /\ dropped' = [dropped EXCEPT ![s] = @ \/ listen_queue[s] # <<>>]
    /\ UNCHANGED <<allocated, bound, paired_socket, incoming, event_vars, call, buffer,
                   divided>>

\* unix_socket_connect to the socket a path names: ECONNREFUSED when
\* listen_queue_size, which nothing increments, is the capacity.  The request is
\* queued, an acceptor woken, and the call waits until it is accepted.
request(t, s, path) ==
    /\ Ready(t) /\ s \in allocated /\ bound[path] # NULL
    /\ capacity[bound[path]] # 0
    /\ listen_queue' = [listen_queue EXCEPT ![bound[path]] = Append(@, s)]
    /\ UNCHANGED <<allocated, bound, capacity, paired_socket, incoming, buffer, dropped, divided>>

\* Mutant: no acceptor is woken.
SyscallConnect_quiet(t, s, path) ==
    LET target == bound[path] IN
    /\ request(t, s, path)
    /\ await_once(t, <<"listener_accepted", target>>, Connect(s, target), waiters, has_signal)

SyscallConnect(t, s, path) ==
    LET target == bound[path]
        arrived == <<"listener_arrived", target>>
    IN /\ request(t, s, path)
       /\ await_once(t, <<"listener_accepted", target>>, Connect(s, target),
                     invoke_waiters(arrived), invoke_signal(arrived))

\* The connect of t was woken, and returns 0.
ConnectReturns(t) ==
    /\ Woken(t) /\ call[t].op = "connect"
    /\ call' = [call EXCEPT ![t] = NoCall]
    /\ UNCHANGED <<allocated, bound, capacity, listen_queue, paired_socket, incoming,
                   event_vars, buffer, dropped, divided>>

\* unix_socket_accept at the head of its loop: wait for a request, or take the
\* oldest one and pair its requester with a new socket.
accept_waits(t, s) ==
    /\ listen_queue[s] = <<>>
    /\ await_while(t, <<"listener_arrived", s>>)
    /\ call' = [call EXCEPT ![t] = Accept(s)]
    /\ UNCHANGED <<allocated, listen_queue, paired_socket>>

\* Mutant: the requester learns nothing of its pair.
accept_pairs_one(t, s, requester, rest) ==
    /\ listen_queue' = [listen_queue EXCEPT ![s] = rest]
    /\ \E new \in Socket \ allocated :
        /\ allocated' = allocated \cup {new}
        /\ paired_socket' = [paired_socket EXCEPT ![new] = requester]
    /\ event_invoke(<<"listener_accepted", s>>)
    /\ call' = [call EXCEPT ![t] = NoCall]

\* The request of requester leaves the queue rest behind.
accept_pairs(t, s, requester, rest) ==
    /\ listen_queue' = [listen_queue EXCEPT ![s] = rest]
    /\ \E new \in Socket \ allocated :
        /\ allocated' = allocated \cup {new}
        /\ paired_socket' = [paired_socket EXCEPT ![new] = requester, ![requester] = new]
    /\ event_invoke(<<"listener_accepted", s>>)
    /\ call' = [call EXCEPT ![t] = NoCall]

\* Mutant: the newest request is taken.
unix_socket_accept_newest(t, s) ==
    \/ accept_waits(t, s)
    \/ LET n == Len(listen_queue[s])
       IN n # 0 /\ accept_pairs(t, s, listen_queue[s][n], SubSeq(listen_queue[s], 1, n - 1))

unix_socket_accept(t, s) ==
    \/ accept_waits(t, s)
    \/ listen_queue[s] # <<>> /\ accept_pairs(t, s, Head(listen_queue[s]), Tail(listen_queue[s]))

SyscallAccept(t, s) ==
    /\ Ready(t) /\ s \in allocated
    /\ capacity[s] # 0
    /\ unix_socket_accept(t, s)
    /\ UNCHANGED <<bound, capacity, incoming, buffer, dropped, divided>>

AcceptResumes(t) ==
    /\ Woken(t) /\ call[t].op = "accept"
    /\ unix_socket_accept(t, call[t].sock)
    /\ UNCHANGED <<bound, capacity, incoming, buffer, dropped, divided>>

\* Mutant of read_takes: a partial read does not advance pos.
read_takes_again(t, s, n) ==
    LET packet == Head(incoming[s]) IN
    /\ buffer' = [buffer EXCEPT ![t] = SubSeq(packet, 1, IF Len(packet) > n THEN n ELSE Len(packet))]
    /\ incoming' = IF Len(packet) > n THEN incoming ELSE [incoming EXCEPT ![s] = Tail(@)]
    /\ UNCHANGED divided

\* Up to n bytes of the oldest packet, which is freed when nothing is left of it.
read_takes(t, s, n) ==
    LET packet == Head(incoming[s]) IN
    IF Len(packet) > n
    THEN /\ incoming' = [incoming EXCEPT ![s][1] = SubSeq(packet, n + 1, Len(packet))]
         /\ buffer' = [buffer EXCEPT ![t] = SubSeq(packet, 1, n)]
         /\ divided' = divided \cup {s}
    ELSE /\ incoming' = [incoming EXCEPT ![s] = Tail(@)]
         /\ buffer' = [buffer EXCEPT ![t] = packet]
         /\ UNCHANGED divided

\* unix_socket_read at the head of its loop: wait for a packet, or read from it.
unix_socket_read(t, s, n) ==
    \/ /\ incoming[s] = <<>>
       /\ await_while(t, <<"data_ready", s>>)
       /\ call' = [call EXCEPT ![t] = Read(s, n)]
       /\ UNCHANGED <<incoming, buffer, divided>>
    \/ /\ incoming[s] # <<>>
       /\ read_takes(t, s, n)
       /\ call' = [call EXCEPT ![t] = NoCall]
       /\ UNCHANGED event_vars

\* On an unpaired socket nothing is read: the buffer keeps its contents, and
\* file_read returns a count that nothing has set.
SyscallRead(t, s, n) ==
    /\ Ready(t) /\ s \in allocated
    /\ paired_socket[s] # NULL
    /\ unix_socket_read(t, s, n)
    /\ UNCHANGED <<allocated, bound, capacity, listen_queue, paired_socket, dropped>>

ReadResumes(t) ==
    /\ Woken(t) /\ call[t].op = "read"
    /\ unix_socket_read(t, call[t].sock, call[t].size)
    /\ UNCHANGED <<allocated, bound, capacity, listen_queue, paired_socket, dropped>>

\* unix_socket_write: a packet for the paired socket.
send(t, s, d) ==
    /\ Ready(t) /\ s \in allocated
    /\ paired_socket[s] # NULL
    /\ Len(incoming[paired_socket[s]]) < MaxPackets
    /\ incoming' = [incoming EXCEPT ![paired_socket[s]] = Append(@, d)]
    /\ UNCHANGED <<allocated, bound, capacity, listen_queue, paired_socket, call, buffer,
                   dropped, divided>>

\* Mutant: a reader is not woken while older packets wait.
SyscallWrite_quiet(t, s, d) ==
    /\ send(t, s, d)
    /\ IF incoming[paired_socket[s]] = <<>>
       THEN event_invoke(<<"data_ready", paired_socket[s]>>)
       ELSE UNCHANGED event_vars

SyscallWrite(t, s, d) ==
    /\ send(t, s, d)
    /\ event_invoke(<<"data_ready", paired_socket[s]>>)

Next ==
    \E t \in Thread :
        \/ SyscallSocket(t)
        \/ ConnectReturns(t) \/ AcceptResumes(t) \/ ReadResumes(t)
        \/ \E s \in Socket :
            \/ \E path \in Path : SyscallBind(t, s, path) \/ SyscallConnect(t, s, path)
            \/ \E n \in Capacity : SyscallListen(t, s, n)
            \/ SyscallAccept(t, s)
            \/ \E n \in ReadSize : SyscallRead(t, s, n)
            \/ \E d \in Data : SyscallWrite(t, s, d)

Spec == Init /\ [][Next]_vars

-----------------------------------------------------------------------------
(* Properties.                                                               *)

\* accept wakes connects first come first served, and does not say which
\* request it took: the queued requests of a socket are those of the youngest
\* waiters of listener_accepted, in the same order, and no signal is ever kept
\* there for a later connect to take by mistake.
RequestsAreWaiters ==
    TypeOK /\ \A s \in Socket :
        LET w == waiters[<<"listener_accepted", s>>]
            orphans == Len(w) - Len(listen_queue[s])
        IN /\ ~has_signal[<<"listener_accepted", s>>]
           /\ orphans >= 0
           /\ ~dropped[s] => orphans = 0
           /\ \A i \in 1..Len(listen_queue[s]) :
                call[w[orphans + i]] = Connect(listen_queue[s][i], s)

\* A connect that returns 0 has been paired by accept, unless listen was called
\* again on its target and threw requests away.
ConnectPaired ==
    [][\A t \in Thread :
         call[t].op = "connect" /\ call'[t] = NoCall /\ ~dropped[call[t].target]
             => paired_socket'[call[t].sock] # NULL]_vars

\* While a thread is blocked in accept, every queued request has a thread of its
\* own that was woken for it: coalescing signals in has_signal loses none.
NoLostRequest ==
    \A s \in Socket :
        waiters[<<"listener_arrived", s>>] # <<>> =>
            Len(listen_queue[s]) <= Cardinality({t \in Thread : Woken(t) /\ call[t] = Accept(s)})

\* The same for reads, of a socket where every read has taken whole packets.
\* (A reader that leaves part of a packet wakes nobody for the rest.)
NoLostPacket ==
    \A s \in Socket \ divided :
        waiters[<<"data_ready", s>>] # <<>> =>
            Len(incoming[s]) <= Cardinality({t \in Thread : Woken(t) /\ call[t].op = "read"
                                                                     /\ call[t].sock = s})
=============================================================================

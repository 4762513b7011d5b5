--------------------------- MODULE UnixSocketProofs ---------------------------
(***************************************************************************)
(* Proofs about UnixSocket, for every number of threads, sockets and paths *)
(* and every set of packets: requests and their waiters agree, no request  *)
(* and no packet is left while somebody sleeps for it, and a connect that  *)
(* returns is paired.                                                      *)
(***************************************************************************)
EXTENDS UnixSocket, FiniteSetTheorems, TLAPS

(* Calls.                                                                  *)

\* The event that a call waits for.
Awaits(c) ==
    CASE c.op = "connect" -> <<"listener_accepted", c.target>>
      [] c.op = "accept" -> <<"listener_arrived", c.sock>>
      [] OTHER -> <<"data_ready", c.sock>>

\* What distinguishes the calls.
LEMMA ConnectFacts ==
    ASSUME NEW s \in Socket, NEW r \in Socket
    PROVE  /\ Connect(s, r) \in Call /\ Connect(s, r) # NoCall /\ Connect(s, r).op = "connect"
           /\ Connect(s, r).sock = s /\ Connect(s, r).target = r
           /\ Awaits(Connect(s, r)) = <<"listener_accepted", r>>
BY DEF Connect, NoCall, Call, Awaits

\* The same for read.
LEMMA ReadFacts ==
    ASSUME NEW s \in Socket, NEW n \in ReadSize
    PROVE  /\ Read(s, n) \in Call /\ Read(s, n) # NoCall /\ Read(s, n).op = "read"
           /\ Read(s, n).sock = s /\ Read(s, n).size = n
           /\ Awaits(Read(s, n)) = <<"data_ready", s>>
BY DEF Read, NoCall, Call, Awaits

\* The same for accept and for no call.
LEMMA AcceptFacts ==
    ASSUME NEW s \in Socket
    PROVE  /\ Accept(s) \in Call /\ Accept(s) # NoCall /\ Accept(s).op = "accept"
           /\ Accept(s).sock = s /\ Awaits(Accept(s)) = <<"listener_arrived", s>>
           /\ NoCall \in Call /\ NoCall.op = "none"
           /\ <<"listener_arrived", s>> \in Event /\ <<"listener_accepted", s>> \in Event
           /\ <<"data_ready", s>> \in Event
BY DEF Accept, NoCall, Call, Awaits, Event, Kind

\* A call is one of these.
LEMMA CallCases ==
    ASSUME NEW c \in Call
    PROVE  \/ c = NoCall
           \/ \E s, r \in Socket : c = Connect(s, r)
           \/ \E s \in Socket : c = Accept(s)
           \/ \E s \in Socket, n \in ReadSize : c = Read(s, n)
BY DEF Call

\* What a call was made on.
LEMMA CallFields ==
    ASSUME NEW c \in Call
    PROVE  /\ c.op = "connect" => c.sock \in Socket /\ c.target \in Socket /\ c # NoCall
           /\ c.op = "accept" => c.sock \in Socket /\ c = Accept(c.sock) /\ c # NoCall
           /\ c.op = "read" => /\ c.sock \in Socket /\ c.size \in ReadSize /\ c # NoCall
                              /\ c = Read(c.sock, c.size)
<1>1. CASE c = NoCall
  BY <1>1 DEF NoCall
<1>2. ASSUME NEW s \in Socket, NEW r \in Socket, c = Connect(s, r)
      PROVE  c.op = "connect" /\ c.sock = s /\ c.target = r /\ c # NoCall
  BY <1>2 DEF Connect, NoCall
<1>3. ASSUME NEW s \in Socket, c = Accept(s)
      PROVE  c.op = "accept" /\ c.sock = s /\ c # NoCall
  BY <1>3 DEF Accept, NoCall
<1>4. ASSUME NEW s \in Socket, NEW n \in ReadSize, c = Read(s, n)
      PROVE  c.op = "read" /\ c.sock = s /\ c.size = n /\ c # NoCall
  BY <1>4 DEF Read, NoCall
<1> QED BY <1>1, <1>2, <1>3, <1>4, CallCases

\* Which event a call waits for says which call it is.
LEMMA AwaitsWhat ==
    ASSUME NEW c \in Call, c # NoCall, NEW s \in Socket
    PROVE  /\ Awaits(c) = <<"listener_accepted", s>> <=> c.op = "connect" /\ c.target = s
           /\ Awaits(c) = <<"listener_arrived", s>> <=> c = Accept(s)
           /\ Awaits(c) = <<"data_ready", s>> <=> c.op = "read" /\ c.sock = s
           /\ Awaits(c) \in Event
<1>1. ASSUME NEW x \in Socket, NEW y \in Socket, c = Connect(x, y)
      PROVE  /\ Awaits(c) = <<"listener_accepted", y>> /\ c.op = "connect" /\ c.target = y
             /\ c # Accept(s) /\ Awaits(c) \in Event
  BY <1>1 DEF Connect, Accept, Awaits, Event, Kind
<1>2. ASSUME NEW x \in Socket, c = Accept(x)
      PROVE  /\ Awaits(c) = <<"listener_arrived", x>> /\ c.op = "accept"
             /\ (c = Accept(s) <=> x = s) /\ Awaits(c) \in Event
  BY <1>2 DEF Accept, Awaits, Event, Kind
<1>3. ASSUME NEW x \in Socket, NEW n \in ReadSize, c = Read(x, n)
      PROVE  /\ Awaits(c) = <<"data_ready", x>> /\ c.op = "read" /\ c.sock = x
             /\ c # Accept(s) /\ Awaits(c) \in Event
  BY <1>3 DEF Read, Accept, Awaits, Event, Kind
<1> QED BY <1>1, <1>2, <1>3, CallCases

-----------------------------------------------------------------------------
(* Threads and the lists they wait in.                                       *)

\* Whoever waits for an event is in a call that does, and waits once.
Waiting(w, c) ==
    \A e \in Event :
        /\ \A i \in 1..Len(w[e]) : c[w[e][i]] # NoCall /\ Awaits(c[w[e][i]]) = e
        /\ \A i, j \in 1..Len(w[e]) : w[e][i] = w[e][j] => i = j

\* Blocked, for waiters w.
Listed(w, t) == \E e \in Event : \E i \in 1..Len(w[e]) : w[e][i] = t

\* Listed says what Blocked says.
LEMMA BlockedListed == ASSUME NEW t PROVE Blocked(t) <=> Listed(waiters, t)
BY DEF Blocked, Listed, Range

\* A thread waits for e; a thread does k from now on.
Enlist(w, e, t) == [w EXCEPT ![e] = Append(@, t)]

Calling(c, t, k) == [c EXCEPT ![t] = k]

\* A thread that is in no list, and begins to wait (scheduler_await).
LEMMA Waits ==
    ASSUME NEW w \in [Event -> Seq(Thread)], NEW c \in [Thread -> Call], Waiting(w, c),
           NEW t \in Thread, ~Listed(w, t),
           NEW k \in Call, k # NoCall, NEW e \in Event, Awaits(k) = e
    PROVE  /\ Enlist(w, e, t) \in [Event -> Seq(Thread)] /\ Calling(c, t, k) \in [Thread -> Call]
           /\ Waiting(Enlist(w, e, t), Calling(c, t, k))
           /\ \A u \in Thread : Listed(Enlist(w, e, t), u) <=> Listed(w, u) \/ u = t
<1> DEFINE v == Enlist(w, e, t)
           d == Calling(c, t, k)
<1>1. v \in [Event -> Seq(Thread)] /\ d \in [Thread -> Call]
  BY DEF Enlist, Calling
<1>2. w[e] \in Seq(Thread) /\ v[e] = Append(w[e], t) /\ \A f \in Event : f # e => v[f] = w[f]
  BY DEF Enlist
<1>3. /\ Len(v[e]) = Len(w[e]) + 1 /\ Len(w[e]) \in Nat
      /\ v[e][Len(w[e]) + 1] = t
      /\ \A i \in 1..Len(w[e]) : v[e][i] = w[e][i]
  BY <1>2
<1>4. \A f \in Event : \A i \in 1..Len(w[f]) : w[f][i] # t /\ w[f][i] \in Thread
  BY DEF Listed
<1>5. \A u \in Thread : u # t => d[u] = c[u]
  BY DEF Calling
<1>6. d[t] = k
  BY DEF Calling
<1> HIDE DEF v, d
<1>7. ASSUME NEW f \in Event, NEW i \in 1..Len(v[f])
      PROVE  d[v[f][i]] # NoCall /\ Awaits(d[v[f][i]]) = f
  <2>1. CASE f = e /\ i = Len(w[e]) + 1
    BY <1>3, <1>6, <2>1
  <2>2. CASE f = e /\ i # Len(w[e]) + 1
    <3>1. i \in 1..Len(w[e])
      BY <1>3, <2>2
    <3> QED BY <1>3, <1>4, <1>5, <2>2, <3>1 DEF Waiting
  <2>3. CASE f # e
    BY <1>2, <1>4, <1>5, <2>3 DEF Waiting
  <2> QED BY <2>1, <2>2, <2>3
<1>8. ASSUME NEW f \in Event, NEW i \in 1..Len(v[f]), NEW j \in 1..Len(v[f]), v[f][i] = v[f][j]
      PROVE  i = j
  <2>1. CASE f = e
    <3>1. i \in 1..Len(w[e]) \/ i = Len(w[e]) + 1
      BY <1>3, <2>1
    <3>2. j \in 1..Len(w[e]) \/ j = Len(w[e]) + 1
      BY <1>3, <2>1
    <3>3. CASE i \in 1..Len(w[e]) /\ j \in 1..Len(w[e])
      <4>1. w[e][i] = w[e][j]
        BY <1>3, <1>8, <2>1, <3>3
      <4> QED BY <3>3, <4>1 DEF Waiting
    <3>4. CASE i = Len(w[e]) + 1 /\ j \in 1..Len(w[e])
      BY <1>3, <1>4, <1>8, <2>1, <3>4
    <3>5. CASE i \in 1..Len(w[e]) /\ j = Len(w[e]) + 1
      BY <1>3, <1>4, <1>8, <2>1, <3>5
    <3> QED BY <3>1, <3>2, <3>3, <3>4, <3>5
  <2>2. CASE f # e
    BY <1>2, <1>8, <2>2 DEF Waiting
  <2> QED BY <2>1, <2>2
<1>9. ASSUME NEW u \in Thread PROVE Listed(v, u) <=> Listed(w, u) \/ u = t
  <2>1. ASSUME NEW f \in Event, NEW i \in 1..Len(w[f]) PROVE i \in 1..Len(v[f]) /\ v[f][i] = w[f][i]
    <3>1. CASE f = e
      BY <1>3, <3>1
    <3>2. CASE f # e
      BY <1>2, <3>2
    <3> QED BY <3>1, <3>2
  <2>2. Len(w[e]) + 1 \in 1..Len(v[e])
    BY <1>3
  <2>3. ASSUME NEW f \in Event, NEW i \in 1..Len(v[f])
        PROVE  v[f][i] = t \/ (i \in 1..Len(w[f]) /\ v[f][i] = w[f][i])
    <3>1. CASE f = e
      BY <1>3, <3>1
    <3>2. CASE f # e
      BY <1>2, <3>2
    <3> QED BY <3>1, <3>2
  <2>4. Listed(w, u) => Listed(v, u)
    BY <2>1 DEF Listed
  <2>5. Listed(v, t)
    BY <1>3, <2>2 DEF Listed
  <2>6. Listed(v, u) => Listed(w, u) \/ u = t
    BY <2>3 DEF Listed
  <2> QED BY <2>4, <2>5, <2>6
<1>10. Waiting(v, d)
  BY <1>7, <1>8, Zenon DEF Waiting
<1> QED BY <1>1, <1>9, <1>10 DEF v, d

\* The oldest waiter of an event is woken (event_invoke).
LEMMA Wakes ==
    ASSUME NEW w \in [Event -> Seq(Thread)], NEW c \in [Thread -> Call], Waiting(w, c),
           NEW e \in Event, w[e] # <<>>,
           NEW v, v = [w EXCEPT ![e] = Tail(@)]
    PROVE  /\ v \in [Event -> Seq(Thread)] /\ Waiting(v, c)
           /\ Head(w[e]) \in Thread /\ c[Head(w[e])] # NoCall /\ Awaits(c[Head(w[e])]) = e
           /\ Listed(w, Head(w[e]))
           /\ \A u \in Thread : Listed(v, u) <=> Listed(w, u) /\ u # Head(w[e])
<1> DEFINE h == Head(w[e])
<1>1. w[e] \in Seq(Thread) /\ v[e] = Tail(w[e]) /\ \A f \in Event : f # e => v[f] = w[f]
  OBVIOUS
<1>2. v \in [Event -> Seq(Thread)]
  OBVIOUS
<1>3. /\ Len(w[e]) \in Nat /\ Len(w[e]) > 0 /\ h = w[e][1] /\ h \in Thread
      /\ Len(v[e]) = Len(w[e]) - 1
  BY <1>1
<1>4. \A i \in 1..Len(v[e]) : v[e][i] = w[e][i + 1] /\ i + 1 \in 1..Len(w[e]) /\ i + 1 # 1
  BY <1>1, <1>3
<1>5. \A i \in 1..Len(w[e]) : i # 1 => i - 1 \in 1..Len(v[e]) /\ v[e][i - 1] = w[e][i]
  BY <1>1, <1>3
<1>6. 1 \in 1..Len(w[e])
  BY <1>3
<1> HIDE DEF h
<1>7. c[h] # NoCall /\ Awaits(c[h]) = e
  BY <1>3, <1>6 DEF Waiting
<1>8. Listed(w, h)
  BY <1>3, <1>6 DEF Listed
<1>9. ASSUME NEW f \in Event, NEW i \in 1..Len(v[f])
      PROVE  c[v[f][i]] # NoCall /\ Awaits(c[v[f][i]]) = f
  BY <1>1, <1>4 DEF Waiting
<1>10. ASSUME NEW f \in Event, NEW i \in 1..Len(v[f]), NEW j \in 1..Len(v[f]), v[f][i] = v[f][j]
       PROVE  i = j
  <2>1. CASE f # e
    BY <1>1, <1>10, <2>1 DEF Waiting
  <2>2. CASE f = e
    <3>1. w[e][i + 1] = w[e][j + 1] /\ i + 1 \in 1..Len(w[e]) /\ j + 1 \in 1..Len(w[e])
      BY <1>4, <1>10, <2>2
    <3>2. i + 1 = j + 1
      BY <3>1 DEF Waiting
    <3> QED BY <2>2, <3>2
  <2> QED BY <2>1, <2>2
<1>11. ASSUME NEW u \in Thread PROVE Listed(v, u) <=> Listed(w, u) /\ u # h
  <2>1. ASSUME NEW f \in Event, NEW i \in 1..Len(v[f]) PROVE Listed(w, v[f][i]) /\ v[f][i] # h
    <3>1. CASE f = e
      <4>1. v[e][i] = w[e][i + 1] /\ i + 1 \in 1..Len(w[e]) /\ i + 1 # 1
        BY <1>4, <3>1
      <4>2. w[e][i + 1] # w[e][1]
        BY <1>6, <4>1 DEF Waiting
      <4> QED BY <1>3, <3>1, <4>1, <4>2 DEF Listed
    <3>2. CASE f # e
      <4>1. v[f][i] = w[f][i] /\ i \in 1..Len(w[f])
        BY <1>1, <3>2
      <4>2. Awaits(c[w[f][i]]) = f
        BY <4>1 DEF Waiting
      <4> QED BY <1>7, <3>2, <4>1, <4>2 DEF Listed
    <3> QED BY <3>1, <3>2
  <2>2. ASSUME NEW f \in Event, NEW i \in 1..Len(w[f]), w[f][i] # h PROVE Listed(v, w[f][i])
    <3>1. CASE f = e
      <4>1. i # 1
        BY <1>3, <2>2, <3>1
      <4> QED BY <1>5, <3>1, <4>1, Zenon DEF Listed
    <3>2. CASE f # e
      BY <1>1, <3>2 DEF Listed
    <3> QED BY <3>1, <3>2
  <2>3. ASSUME Listed(v, u) PROVE Listed(w, u) /\ u # h
    <3>1. PICK f \in Event : \E i \in 1..Len(v[f]) : v[f][i] = u
      BY <2>3, Zenon DEF Listed
    <3> QED BY <2>1, <3>1, Zenon
  <2>4. Listed(w, u) /\ u # h => Listed(v, u)
    BY <2>2 DEF Listed
  <2> QED BY <2>3, <2>4
<1>12. Waiting(v, c)
  BY <1>9, <1>10 DEF Waiting
<1> QED BY <1>2, <1>3, <1>7, <1>8, <1>11, <1>12, Zenon DEF h

\* Who is woken.
LEMMA WakesWhom ==
    ASSUME NEW w \in [Event -> Seq(Thread)], NEW c, Waiting(w, c), NEW e \in Event, w[e] # <<>>
    PROVE  c[Head(w[e])] # NoCall /\ Awaits(c[Head(w[e])]) = e
<1>1. Head(w[e]) = w[e][1] /\ 1 \in 1..Len(w[e])
  OBVIOUS
<1> QED BY <1>1 DEF Waiting

\* A call that returns was in no list.
LEMMA Returns ==
    ASSUME NEW w \in [Event -> Seq(Thread)], NEW c \in [Thread -> Call], Waiting(w, c),
           NEW t \in Thread, ~Listed(w, t),
           NEW d, d = [c EXCEPT ![t] = NoCall]
    PROVE  d \in [Thread -> Call] /\ Waiting(w, d)
<1>1. d \in [Thread -> Call]
  BY DEF Call
<1>2. \A f \in Event : \A i \in 1..Len(w[f]) : w[f][i] # t /\ w[f][i] \in Thread
  BY DEF Listed
<1>3. \A u \in Thread : u # t => d[u] = c[u]
  OBVIOUS
<1> QED BY <1>1, <1>2, <1>3 DEF Waiting

\* A thread outside the kernel is in no list.
LEMMA ReadyNotListed ==
    ASSUME NEW w \in [Event -> Seq(Thread)], NEW c \in [Thread -> Call], Waiting(w, c),
           NEW t \in Thread, c[t] = NoCall
    PROVE  ~Listed(w, t)
BY DEF Waiting, Listed

-----------------------------------------------------------------------------
(* Threads that were woken.                                                  *)

\* The threads that were woken for e and have not gone on yet.
Roused(w, c, e) == {t \in Thread : ~Listed(w, t) /\ c[t] # NoCall /\ Awaits(c[t]) = e}

\* Threads can be counted.
LEMMA Count ==
    ASSUME NEW A \in SUBSET Thread, NEW x \in Thread
    PROVE  /\ Cardinality(A) \in Nat
           /\ Cardinality(A \ {x}) \in Nat /\ Cardinality(A \ {x}) + 1 >= Cardinality(A)
           /\ x \notin A => A \ {x} = A
           /\ x \notin A => Cardinality(A \cup {x}) = Cardinality(A) + 1
<1>1. IsFiniteSet(A)
  BY FS_Subset, SocketAssumption
<1>2. Cardinality(A) \in Nat
  BY <1>1, FS_CardinalityType
<1>3. x \notin A => Cardinality(A \cup {x}) = Cardinality(A) + 1
  BY <1>1, FS_AddElement
<1>4. x \notin A => A \ {x} = A
  OBVIOUS
<1>5. x \in A => Cardinality(A \ {x}) = Cardinality(A) - 1
  BY <1>1, FS_RemoveElement
<1>6. Cardinality(A \ {x}) \in Nat
  <2>1. IsFiniteSet(A \ {x})
    BY <1>1, FS_Subset
  <2> QED BY <2>1, FS_CardinalityType
<1>7. Cardinality(A \ {x}) + 1 >= Cardinality(A)
  <2>1. CASE x \in A
    BY <1>2, <1>5, <1>6, <2>1
  <2>2. CASE x \notin A
    BY <1>2, <1>4, <2>2
  <2> QED BY <2>1, <2>2
<1> QED BY <1>2, <1>3, <1>4, <1>6, <1>7

\* A thread that goes to sleep is not among the woken.
LEMMA RousedSleeps ==
    ASSUME NEW w, NEW c \in [Thread -> Call], NEW t \in Thread, NEW v, NEW k,
           \A u \in Thread : Listed(v, u) <=> Listed(w, u) \/ u = t
    PROVE  \A e : Roused(v, Calling(c, t, k), e) = Roused(w, c, e) \ {t}
<1>1. \A u \in Thread : u # t => Calling(c, t, k)[u] = c[u]
  BY DEF Calling
<1> QED BY <1>1 DEF Roused

\* Neither is one that leaves the kernel.
LEMMA RousedReturns ==
    ASSUME NEW w, NEW c \in [Thread -> Call], NEW t \in Thread
    PROVE  \A e : Roused(w, [c EXCEPT ![t] = NoCall], e) = Roused(w, c, e) \ {t}
<1>1. \A u \in Thread : u # t => [c EXCEPT ![t] = NoCall][u] = c[u]
  OBVIOUS
<1>2. [c EXCEPT ![t] = NoCall][t] = NoCall
  OBVIOUS
<1> QED BY <1>1, <1>2 DEF Roused

\* The effect of event_invoke on the lists and on who was woken.
LEMMA Invokes ==
    ASSUME waiters \in [Event -> Seq(Thread)], call \in [Thread -> Call], Waiting(waiters, call),
           NEW e \in Event, NEW v, v = invoke_waiters(e)
    PROVE  /\ v \in [Event -> Seq(Thread)] /\ Waiting(v, call)
           /\ \A f \in Event : f # e =>
                v[f] = waiters[f] /\ Roused(v, call, f) = Roused(waiters, call, f)
           /\ v[e] = IF waiters[e] = <<>> THEN <<>> ELSE Tail(waiters[e])
           /\ waiters[e] # <<>> =>
                Cardinality(Roused(v, call, e)) = Cardinality(Roused(waiters, call, e)) + 1
           /\ \A u \in Thread : Listed(v, u) => Listed(waiters, u)
           /\ \A u \in Thread : Listed(waiters, u) /\ ~Listed(v, u) =>
                waiters[e] # <<>> /\ u = Head(waiters[e])
<1>1. CASE waiters[e] = <<>>
  BY <1>1 DEF invoke_waiters
<1>2. CASE waiters[e] # <<>>
  <2> DEFINE h == Head(waiters[e])
  <2>1. v = [waiters EXCEPT ![e] = Tail(@)]
    BY <1>2 DEF invoke_waiters
  <2>2. /\ v \in [Event -> Seq(Thread)] /\ Waiting(v, call)
        /\ h \in Thread /\ call[h] # NoCall /\ Awaits(call[h]) = e
        /\ Listed(waiters, h)
        /\ \A u \in Thread : Listed(v, u) <=> Listed(waiters, u) /\ u # h
    BY <1>2, <2>1, Wakes, Zenon
  <2> HIDE DEF h
  <2>3. Roused(v, call, e) = Roused(waiters, call, e) \cup {h} /\ h \notin Roused(waiters, call, e)
    BY <2>2 DEF Roused
  <2>4. \A f \in Event : f # e => Roused(v, call, f) = Roused(waiters, call, f)
    BY <2>2 DEF Roused
  <2>5. Roused(waiters, call, e) \in SUBSET Thread
    BY DEF Roused
  <2>6. Cardinality(Roused(v, call, e)) = Cardinality(Roused(waiters, call, e)) + 1
    <3>1. \A A \in SUBSET Thread : h \notin A => Cardinality(A \cup {h}) = Cardinality(A) + 1
      BY <2>2, Count, Zenon
    <3> QED BY <2>3, <2>5, <3>1, Zenon
  <2>7. v[e] = Tail(waiters[e]) /\ \A f \in Event : f # e => v[f] = waiters[f]
    BY <2>1
  <2> QED BY <1>2, <2>2, <2>4, <2>6, <2>7, Zenon DEF h
<1> QED BY <1>1, <1>2

\* No request (kind listener_arrived) and no packet (data_ready) waits at a
\* socket outside D for a thread that sleeps, unless a thread was woken for it.
Enough(w, c, kind, list, D) ==
    \A s \in Socket \ D :
        w[<<kind, s>>] # <<>> => Len(list[s]) <= Cardinality(Roused(w, c, <<kind, s>>))

\* The threads that NoLostRequest and NoLostPacket count.
LEMMA RousedCalls ==
    ASSUME NEW w, NEW c \in [Thread -> Call], NEW s \in Socket
    PROVE  /\ Roused(w, c, <<"listener_arrived", s>>) =
                {t \in Thread : (c[t] # NoCall /\ ~Listed(w, t)) /\ c[t] = Accept(s)}
           /\ Roused(w, c, <<"data_ready", s>>) =
                {t \in Thread : (c[t] # NoCall /\ ~Listed(w, t)) /\ c[t].op = "read"
                                                                 /\ c[t].sock = s}
<1>1. \A t \in Thread : c[t] # NoCall =>
         /\ Awaits(c[t]) = <<"listener_arrived", s>> <=> c[t] = Accept(s)
         /\ Awaits(c[t]) = <<"data_ready", s>> <=> c[t].op = "read" /\ c[t].sock = s
  BY AwaitsWhat
<1> QED BY <1>1 DEF Roused

\* Enough is what they say.
LEMMA EnoughNow ==
    ASSUME call \in [Thread -> Call]
    PROVE  /\ NoLostRequest <=> Enough(waiters, call, "listener_arrived", listen_queue, {})
           /\ NoLostPacket <=> Enough(waiters, call, "data_ready", incoming, divided)
<1>1. \A t \in Thread : Woken(t) <=> call[t] # NoCall /\ ~Listed(waiters, t)
  BY BlockedListed DEF Woken
<1>2. \A s \in Socket :
        /\ Roused(waiters, call, <<"listener_arrived", s>>) =
             {t \in Thread : Woken(t) /\ call[t] = Accept(s)}
        /\ Roused(waiters, call, <<"data_ready", s>>) =
             {t \in Thread : Woken(t) /\ call[t].op = "read" /\ call[t].sock = s}
  BY <1>1, RousedCalls
<1> QED BY <1>2, Zenon DEF NoLostRequest, NoLostPacket, Enough

\* The same after a step.
LEMMA EnoughNext ==
    ASSUME call' \in [Thread -> Call]
    PROVE  /\ NoLostRequest' <=> Enough(waiters', call', "listener_arrived", listen_queue', {})
           /\ NoLostPacket' <=> Enough(waiters', call', "data_ready", incoming', divided')
<1>1. \A t \in Thread : Woken(t)' <=> call'[t] # NoCall /\ ~Listed(waiters', t)
  BY DEF Woken, Blocked, Listed, Range
<1>2. \A s \in Socket :
        /\ Roused(waiters', call', <<"listener_arrived", s>>) =
             {t \in Thread : Woken(t)' /\ call'[t] = Accept(s)}
        /\ Roused(waiters', call', <<"data_ready", s>>) =
             {t \in Thread : Woken(t)' /\ call'[t].op = "read" /\ call'[t].sock = s}
  BY <1>1, RousedCalls
<1> QED BY <1>2, Zenon DEF NoLostRequest, NoLostPacket, Enough

-----------------------------------------------------------------------------
(* Requests and the connects that wait for them.                             *)

\* The requests ql at socket s are those of the youngest waiters in wl.
Behind(wl, ql, c, s) ==
    /\ Len(ql) <= Len(wl)
    /\ \A i \in 1..Len(ql) : c[wl[(Len(wl) - Len(ql)) + i]] = Connect(ql[i], s)

\* A request is queued and its connect begins to wait.
LEMMA BehindAppend ==
    ASSUME NEW S, NEW wl \in Seq(Thread), NEW ql \in Seq(S), NEW c \in [Thread -> Call], NEW s,
           Behind(wl, ql, c, s), NEW t \in Thread, \A i \in 1..Len(wl) : wl[i] # t,
           NEW r \in S, NEW d, d = [c EXCEPT ![t] = Connect(r, s)]
    PROVE  Behind(Append(wl, t), Append(ql, r), d, s)
<1>1. /\ Len(wl) \in Nat /\ Len(ql) \in Nat /\ Len(ql) <= Len(wl)
      /\ Len(Append(wl, t)) = Len(wl) + 1 /\ Len(Append(ql, r)) = Len(ql) + 1
  BY DEF Behind
<1>2. ASSUME NEW i \in 1..(Len(ql) + 1)
      PROVE  d[Append(wl, t)[((Len(wl) + 1) - (Len(ql) + 1)) + i]] = Connect(Append(ql, r)[i], s)
  <2> DEFINE k == (Len(wl) - Len(ql)) + i
  <2>1. ((Len(wl) + 1) - (Len(ql) + 1)) + i = k
    BY <1>1
  <2>2. CASE i = Len(ql) + 1
    <3>1. k = Len(wl) + 1
      BY <1>1, <2>2
    <3>2. Append(wl, t)[Len(wl) + 1] = t /\ Append(ql, r)[Len(ql) + 1] = r
      OBVIOUS
    <3> QED BY <2>1, <2>2, <3>1, <3>2
  <2>3. CASE i # Len(ql) + 1
    <3>1. i \in 1..Len(ql) /\ k \in 1..Len(wl)
      BY <1>1, <2>3
    <3>2. Append(wl, t)[k] = wl[k] /\ Append(ql, r)[i] = ql[i] /\ wl[k] \in Thread
      BY <3>1
    <3>3. c[wl[k]] = Connect(ql[i], s)
      BY <3>1 DEF Behind
    <3> HIDE DEF k
    <3>4. wl[k] # t
      BY <3>1
    <3>5. d[wl[k]] = c[wl[k]]
      BY <3>2, <3>4
    <3> QED BY <2>1, <3>2, <3>3, <3>5, Zenon
  <2> QED BY <2>2, <2>3, Zenon
<1> DEFINE vl == Append(wl, t)
           pl == Append(ql, r)
<1> HIDE DEF vl, pl
<1>3. Len(vl) = Len(wl) + 1 /\ Len(pl) = Len(ql) + 1
  BY <1>1 DEF vl, pl
<1>4. \A i \in 1..Len(pl) : d[vl[(Len(vl) - Len(pl)) + i]] = Connect(pl[i], s)
  BY <1>2, <1>3, Zenon DEF vl, pl
<1>5. Len(pl) <= Len(vl)
  BY <1>1, <1>3
<1>6. Behind(vl, pl, d, s)
  BY <1>4, <1>5, Zenon DEF Behind
<1> QED BY <1>6, Zenon DEF vl, pl

\* The oldest request is taken and the oldest connect is woken: the same one,
\* when the lists are equally long.
LEMMA BehindTail ==
    ASSUME NEW S, NEW wl \in Seq(Thread), NEW ql \in Seq(S), NEW c, NEW s,
           Behind(wl, ql, c, s), ql # <<>>
    PROVE  /\ Behind(Tail(wl), Tail(ql), c, s)
           /\ wl # <<>> /\ Len(Tail(wl)) = Len(wl) - 1 /\ Len(Tail(ql)) = Len(ql) - 1
           /\ Len(wl) = Len(ql) => c[Head(wl)] = Connect(Head(ql), s)
<1>1. /\ Len(wl) \in Nat /\ Len(ql) \in Nat /\ Len(ql) <= Len(wl) /\ Len(ql) # 0
  BY DEF Behind
<1>2. /\ wl # <<>> /\ Len(Tail(wl)) = Len(wl) - 1 /\ Len(Tail(ql)) = Len(ql) - 1
      /\ Head(wl) = wl[1] /\ Head(ql) = ql[1]
  BY <1>1
<1>3. ASSUME NEW i \in 1..(Len(ql) - 1)
      PROVE  c[Tail(wl)[((Len(wl) - 1) - (Len(ql) - 1)) + i]] = Connect(Tail(ql)[i], s)
  <2> DEFINE k == (Len(wl) - Len(ql)) + i
  <2>1. /\ ((Len(wl) - 1) - (Len(ql) - 1)) + i = k /\ k \in 1..(Len(wl) - 1)
        /\ i + 1 \in 1..Len(ql) /\ (Len(wl) - Len(ql)) + (i + 1) = k + 1
    BY <1>1
  <2>2. c[wl[k + 1]] = Connect(ql[i + 1], s)
    BY <2>1 DEF Behind
  <2> HIDE DEF k
  <2>3. Tail(wl)[k] = wl[k + 1] /\ Tail(ql)[i] = ql[i + 1]
    BY <1>1, <2>1
  <2> QED BY <2>1, <2>2, <2>3
<1>4. Len(wl) = Len(ql) => c[wl[1]] = Connect(ql[1], s)
  <2>1. 1 \in 1..Len(ql) /\ (Len(wl) = Len(ql) => (Len(wl) - Len(ql)) + 1 = 1)
    BY <1>1
  <2> QED BY <2>1 DEF Behind
<1> DEFINE vl == Tail(wl)
           pl == Tail(ql)
<1> HIDE DEF vl, pl
<1>5. Len(vl) = Len(wl) - 1 /\ Len(pl) = Len(ql) - 1
  BY <1>2 DEF vl, pl
<1>6. \A i \in 1..Len(pl) : c[vl[(Len(vl) - Len(pl)) + i]] = Connect(pl[i], s)
  BY <1>3, <1>5, Zenon DEF vl, pl
<1>7. Len(pl) <= Len(vl)
  BY <1>1, <1>5
<1>8. Behind(vl, pl, c, s)
  BY <1>6, <1>7, Zenon DEF Behind
<1> QED BY <1>2, <1>4, <1>8, Zenon DEF vl, pl

\* Other threads may do what they like; with no requests there is nothing to say.
LEMMA BehindSame ==
    ASSUME NEW S, NEW wl \in Seq(Thread), NEW ql \in Seq(S), NEW c, NEW d, NEW s,
           Behind(wl, ql, c, s), \A i \in 1..Len(wl) : d[wl[i]] = c[wl[i]]
    PROVE  Behind(wl, ql, d, s) /\ Behind(wl, <<>>, d, s)
<1>1. Len(wl) \in Nat /\ Len(ql) \in Nat /\ Len(ql) <= Len(wl)
  BY DEF Behind
<1>2. \A i \in 1..Len(ql) : (Len(wl) - Len(ql)) + i \in 1..Len(wl)
  BY <1>1
<1> QED BY <1>1, <1>2, SMTT(30) DEF Behind

-----------------------------------------------------------------------------
(* The inductive invariant.                                                  *)

\* RequestsAreWaiters.
Matched ==
    \A s \in Socket :
        /\ ~has_signal[<<"listener_accepted", s>>]
        /\ Behind(waiters[<<"listener_accepted", s>>], listen_queue[s], call, s)
        /\ ~dropped[s] => Len(waiters[<<"listener_accepted", s>>]) = Len(listen_queue[s])

\* A connect that was woken has its pair, unless requests were thrown away; a
\* read that waits is made on a socket that has one.
Paired ==
    \A t \in Thread :
        /\ call[t].op = "connect" /\ ~Listed(waiters, t) /\ ~dropped[call[t].target] =>
             paired_socket[call[t].sock] # NULL
        /\ call[t].op = "read" => paired_socket[call[t].sock] # NULL

\* A socket that does not exist yet has no pair.
Fresh == \A s \in Socket \ allocated : paired_socket[s] = NULL

IInv ==
    TypeOK /\ Waiting(waiters, call) /\ Matched /\ Paired /\ Fresh /\ NoLostRequest /\ NoLostPacket

\* Matched is what RequestsAreWaiters says of the lists.
LEMMA MatchedRequests == TypeOK /\ Matched => RequestsAreWaiters
<1> SUFFICES ASSUME TypeOK, Matched PROVE RequestsAreWaiters
  OBVIOUS
<1>1. ASSUME NEW s \in Socket
      PROVE  Len(waiters[<<"listener_accepted", s>>]) \in Nat /\ Len(listen_queue[s]) \in Nat
  <2>1. <<"listener_accepted", s>> \in Event
    BY AcceptFacts, Zenon
  <2> QED BY <2>1 DEF TypeOK
<1>2. ASSUME NEW s \in Socket
      PROVE  LET w == waiters[<<"listener_accepted", s>>]
                 orphans == Len(w) - Len(listen_queue[s])
             IN /\ ~has_signal[<<"listener_accepted", s>>]
                /\ orphans >= 0
                /\ ~dropped[s] => orphans = 0
                /\ \A i \in 1..Len(listen_queue[s]) :
                     call[w[orphans + i]] = Connect(listen_queue[s][i], s)
  <2> DEFINE w == waiters[<<"listener_accepted", s>>]
             orphans == Len(w) - Len(listen_queue[s])
  <2>1. /\ ~has_signal[<<"listener_accepted", s>>]
        /\ ~dropped[s] => Len(w) = Len(listen_queue[s])
        /\ Len(listen_queue[s]) <= Len(w)
    BY Zenon DEF Matched, Behind
  <2>2. \A i \in 1..Len(listen_queue[s]) : call[w[orphans + i]] = Connect(listen_queue[s][i], s)
    BY Zenon DEF Matched, Behind
  <2>3. orphans >= 0 /\ (~dropped[s] => orphans = 0)
    BY <1>1, <2>1
  <2> QED BY <2>1, <2>2, <2>3, Zenon
<1> QED BY <1>2, Zenon DEF RequestsAreWaiters

\* Nothing has happened at first.
LEMMA InitIInv == Init => IInv
<1> SUFFICES ASSUME Init PROVE IInv
  OBVIOUS
<1>1. TypeOK
  BY SocketAssumption DEF Init, TypeOK, Call
<1>2. Waiting(waiters, call)
  BY DEF Init, Waiting
<1>3. \A s \in Socket : <<"listener_accepted", s>> \in Event
  BY AcceptFacts, Zenon
<1>4. Matched
  <2> SUFFICES ASSUME NEW s \in Socket
               PROVE  /\ ~has_signal[<<"listener_accepted", s>>]
                      /\ Behind(waiters[<<"listener_accepted", s>>], listen_queue[s], call, s)
                      /\ Len(waiters[<<"listener_accepted", s>>]) = Len(listen_queue[s])
    BY Zenon DEF Matched
  <2>1. waiters[<<"listener_accepted", s>>] = <<>> /\ listen_queue[s] = <<>>
        /\ ~has_signal[<<"listener_accepted", s>>]
    BY <1>3 DEF Init
  <2>2. Behind(<<>>, <<>>, call, s)
    BY DEF Behind
  <2> QED BY <2>1, <2>2
<1>5. Paired
  BY DEF Init, Paired, NoCall
<1>6. Fresh
  BY DEF Init, Fresh
<1>7. NoLostRequest /\ NoLostPacket
  BY AcceptFacts, Zenon DEF Init, NoLostRequest, NoLostPacket
<1> QED BY <1>1, <1>2, <1>4, <1>5, <1>6, <1>7 DEF IInv

-----------------------------------------------------------------------------
(* Steps that leave the events alone: socket, bind, listen.                  *)

\* Sockets that exist go on existing.
LEMMA MoreSockets ==
    ASSUME NEW A, NEW B, A \subseteq B
    PROVE  /\ [Path -> A \cup {NULL}] \subseteq [Path -> B \cup {NULL}]
           /\ [Socket -> A \cup {NULL}] \subseteq [Socket -> B \cup {NULL}]
           /\ [Socket -> Seq(A)] \subseteq [Socket -> Seq(B)]
<1>1. Seq(A) \subseteq Seq(B)
  OBVIOUS
<1> QED BY <1>1

\* SyscallSocket allocates a socket nobody uses yet.
LEMMA SocketStep ==
    ASSUME IInv, NEW t \in Thread, SyscallSocket(t)
    PROVE  IInv'
<1>1. PICK s \in Socket \ allocated : allocated' = allocated \cup {s}
  BY DEF SyscallSocket
<1>2. UNCHANGED <<bound, capacity, listen_queue, paired_socket, incoming, has_signal, waiters,
                  call, buffer, dropped, divided>>
  BY DEF SyscallSocket, event_vars
<1>3. TypeOK'
  <2>1. allocated \subseteq allocated' /\ allocated' \subseteq Socket
    BY <1>1 DEF IInv, TypeOK
  <2>2. /\ bound' \in [Path -> allocated' \cup {NULL}]
        /\ paired_socket' \in [Socket -> allocated' \cup {NULL}]
        /\ listen_queue' \in [Socket -> Seq(allocated')]
    BY <1>2, <2>1, MoreSockets DEF IInv, TypeOK
  <2> QED BY <1>2, <2>1, <2>2 DEF IInv, TypeOK
<1>4. Waiting(waiters, call)' /\ Matched' /\ Paired'
  BY <1>2 DEF IInv, Matched, Paired
<1>5. Fresh'
  BY <1>1, <1>2 DEF IInv, Fresh
<1>6. NoLostRequest' /\ NoLostPacket'
  BY <1>2, <1>3, EnoughNow, EnoughNext DEF IInv, TypeOK
<1> QED BY <1>3, <1>4, <1>5, <1>6 DEF IInv

\* SyscallBind gives a path to a socket.
LEMMA BindStep ==
    ASSUME IInv, NEW t \in Thread, NEW s \in Socket, NEW path \in Path, SyscallBind(t, s, path)
    PROVE  IInv'
<1>1. UNCHANGED <<allocated, capacity, listen_queue, paired_socket, incoming, has_signal, waiters,
                  call, buffer, dropped, divided>>
  BY DEF SyscallBind, event_vars
<1>2. TypeOK'
  <2>1. bound' \in [Path -> allocated \cup {NULL}]
    BY DEF IInv, TypeOK, SyscallBind
  <2> QED BY <1>1, <2>1 DEF IInv, TypeOK
<1>3. Waiting(waiters, call)' /\ Matched' /\ Paired' /\ Fresh'
  BY <1>1 DEF IInv, Matched, Paired, Fresh
<1>4. NoLostRequest' /\ NoLostPacket'
  BY <1>1, <1>2, EnoughNow, EnoughNext DEF IInv, TypeOK
<1> QED BY <1>2, <1>3, <1>4 DEF IInv

\* SyscallListen throws the queued requests away; their connects go on waiting.
LEMMA ListenStep ==
    ASSUME IInv, NEW t \in Thread, NEW s \in Socket, NEW n \in Capacity, SyscallListen(t, s, n)
    PROVE  IInv'
<1>1. UNCHANGED <<allocated, bound, paired_socket, incoming, has_signal, waiters, call, buffer,
                  divided>>
  BY DEF SyscallListen, event_vars
<1>2. /\ listen_queue' = [listen_queue EXCEPT ![s] = <<>>]
      /\ dropped' = [dropped EXCEPT ![s] = dropped[s] \/ listen_queue[s] # <<>>]
      /\ capacity' = [capacity EXCEPT ![s] = n]
  BY DEF SyscallListen
<1>3. TypeOK'
  <2>1. listen_queue' \in [Socket -> Seq(allocated)]
    BY <1>2 DEF IInv, TypeOK
  <2>2. capacity' \in [Socket -> Nat]
    BY <1>2, SocketAssumption DEF IInv, TypeOK
  <2>3. dropped' \in [Socket -> BOOLEAN]
    BY <1>2 DEF IInv, TypeOK
  <2> QED BY <1>1, <2>1, <2>2, <2>3 DEF IInv, TypeOK
<1>4. Waiting(waiters, call)' /\ Fresh'
  BY <1>1 DEF IInv, Fresh
<1>5. Paired'
  <2>1. \A x \in Socket : dropped[x] => dropped'[x]
    BY <1>2 DEF IInv, TypeOK
  <2>2. \A u \in Thread : call[u].op = "connect" => call[u].target \in Socket
    BY CallFields DEF IInv, TypeOK
  <2> QED BY <1>1, <2>1, <2>2 DEF IInv, Paired
<1>6. Matched'
  <2> SUFFICES ASSUME NEW x \in Socket
               PROVE  /\ ~has_signal[<<"listener_accepted", x>>]
                      /\ Behind(waiters[<<"listener_accepted", x>>], listen_queue'[x], call, x)
                      /\ ~dropped'[x] =>
                           Len(waiters[<<"listener_accepted", x>>]) = Len(listen_queue'[x])
    BY <1>1, Zenon DEF Matched
  <2>1. /\ ~has_signal[<<"listener_accepted", x>>]
        /\ Behind(waiters[<<"listener_accepted", x>>], listen_queue[x], call, x)
        /\ ~dropped[x] => Len(waiters[<<"listener_accepted", x>>]) = Len(listen_queue[x])
    BY DEF IInv, Matched
  <2>2. CASE x # s
    <3>1. listen_queue'[x] = listen_queue[x] /\ dropped'[x] = dropped[x]
      BY <1>2, <2>2 DEF IInv, TypeOK
    <3> QED BY <2>1, <3>1
  <2>3. CASE x = s
    <3>1. listen_queue'[x] = <<>>
      BY <1>2, <2>3 DEF IInv, TypeOK
    <3>2. ~dropped'[x] => listen_queue[x] = <<>> /\ ~dropped[x]
      BY <1>2, <2>3, Zenon DEF IInv, TypeOK
    <3>3. waiters[<<"listener_accepted", x>>] \in Seq(Thread) /\ listen_queue[x] \in Seq(allocated)
      BY AcceptFacts, Zenon DEF IInv, TypeOK
    <3>4. Behind(waiters[<<"listener_accepted", x>>], <<>>, call, x)
      BY <2>1, <3>3, BehindSame
    <3> QED BY <2>1, <3>1, <3>2, <3>4
  <2> QED BY <2>2, <2>3
<1>7. NoLostPacket'
  BY <1>1, <1>3, EnoughNow, EnoughNext DEF IInv, TypeOK
<1>8. NoLostRequest'
  <2>1. \A x \in Socket : listen_queue'[x] = listen_queue[x] \/ listen_queue'[x] = <<>>
    BY <1>2 DEF IInv, TypeOK
  <2>2. \A A \in SUBSET Thread : Len(<<>>) <= Cardinality(A)
    <3>1. ASSUME NEW A \in SUBSET Thread PROVE Cardinality(A) \in Nat
      BY FS_Subset, FS_CardinalityType, SocketAssumption
    <3> QED BY <3>1
  <2>3. \A e : Roused(waiters, call, e) \in SUBSET Thread
    BY DEF Roused
  <2>4. Enough(waiters, call, "listener_arrived", listen_queue', {})
    BY <2>1, <2>2, <2>3, EnoughNow, Zenon DEF IInv, TypeOK, Enough
  <2> QED BY <1>1, <1>3, <2>4, EnoughNext DEF TypeOK
<1> QED BY <1>3, <1>4, <1>5, <1>6, <1>7, <1>8 DEF IInv

-----------------------------------------------------------------------------
(* What the other steps have in common: a thread t outside the lists makes, or *)
(* goes on with, a call.                                                     *)

\* The thread that acts is in no list.
LEMMA ActorNotListed ==
    ASSUME IInv, NEW t \in Thread, Ready(t) \/ Woken(t)
    PROVE  ~Listed(waiters, t)
<1>1. CASE Ready(t)
  BY <1>1, ReadyNotListed, Zenon DEF IInv, TypeOK, Ready
<1>2. CASE Woken(t)
  BY <1>2, BlockedListed DEF Woken
<1> QED BY <1>1, <1>2

\* Requests stay behind their waiters, whatever t does.
LEMMA MatchedKept ==
    ASSUME IInv, NEW t \in Thread, ~Listed(waiters, t), NEW k, NEW x \in Socket
    PROVE  /\ Behind(waiters[<<"listener_accepted", x>>], listen_queue[x],
                     [call EXCEPT ![t] = k], x)
           /\ ~has_signal[<<"listener_accepted", x>>]
           /\ ~dropped[x] => Len(waiters[<<"listener_accepted", x>>]) = Len(listen_queue[x])
           /\ waiters[<<"listener_accepted", x>>] \in Seq(Thread)
           /\ listen_queue[x] \in Seq(allocated)
<1> DEFINE wl == waiters[<<"listener_accepted", x>>]
           d == [call EXCEPT ![t] = k]
<1>1. wl \in Seq(Thread) /\ listen_queue[x] \in Seq(allocated) /\ call \in [Thread -> Call]
  BY AcceptFacts, Zenon DEF IInv, TypeOK
<1>2. \A i \in 1..Len(wl) : wl[i] # t
  BY AcceptFacts, Zenon DEF Listed
<1>3. \A i \in 1..Len(wl) : d[wl[i]] = call[wl[i]]
  <2> HIDE DEF wl
  <2> SUFFICES ASSUME NEW i \in 1..Len(wl) PROVE d[wl[i]] = call[wl[i]]
    OBVIOUS
  <2>1. wl[i] \in Thread /\ wl[i] # t
    BY <1>1, <1>2
  <2> QED BY <1>1, <2>1
<1>4. /\ Behind(wl, listen_queue[x], call, x) /\ ~has_signal[<<"listener_accepted", x>>]
      /\ ~dropped[x] => Len(wl) = Len(listen_queue[x])
  BY DEF IInv, Matched
<1> HIDE DEF wl, d
<1>5. Behind(wl, listen_queue[x], d, x)
  BY <1>1, <1>3, <1>4, BehindSame
<1> QED BY <1>1, <1>4, <1>5 DEF wl, d

\* Who was woken keeps the pair they have or get.
LEMMA PairedKept ==
    ASSUME IInv, NEW t \in Thread, NEW k, call' = [call EXCEPT ![t] = k],
           k.op = "connect" => Listed(waiters', t),
           k.op = "read" => paired_socket'[k.sock] # NULL,
           \A u \in Thread : u # t /\ call[u].op = "connect" /\ ~dropped[call[u].target]
                                   /\ Listed(waiters, u) /\ ~Listed(waiters', u) =>
               paired_socket'[call[u].sock] # NULL,
           \A x \in Socket : paired_socket[x] # NULL => paired_socket'[x] # NULL,
           dropped' = dropped
    PROVE  Paired'
<1> SUFFICES ASSUME NEW u \in Thread
             PROVE  /\ call'[u].op = "connect" /\ ~Listed(waiters', u) /\ ~dropped[call'[u].target] =>
                         paired_socket'[call'[u].sock] # NULL
                    /\ call'[u].op = "read" => paired_socket'[call'[u].sock] # NULL
  BY DEF Paired
<1>1. CASE u = t
  <2>1. call'[u] = k
    BY <1>1 DEF IInv, TypeOK
  <2> QED BY <1>1, <2>1
<1>2. CASE u # t
  <2>1. call'[u] = call[u] /\ call[u] \in Call
    BY <1>2 DEF IInv, TypeOK
  <2>2. /\ call[u].op = "connect" => call[u].sock \in Socket
        /\ call[u].op = "read" => call[u].sock \in Socket
    BY <2>1, CallFields
  <2>3. /\ call[u].op = "connect" /\ ~Listed(waiters, u) /\ ~dropped[call[u].target] =>
             paired_socket[call[u].sock] # NULL
        /\ call[u].op = "read" => paired_socket[call[u].sock] # NULL
    BY DEF IInv, Paired
  <2> QED BY <1>2, <2>1, <2>2, <2>3
<1> QED BY <1>1, <1>2

\* Only the actor leaves the woken ones, after taking something if they were
\* woken for it.
LEMMA EnoughKept ==
    ASSUME NEW kind, NEW w, NEW c, NEW list, NEW D, Enough(w, c, kind, list, D),
           NEW v, NEW d, NEW left, NEW E, D \subseteq E, NEW t \in Thread,
           \A x \in Socket : Roused(v, d, <<kind, x>>) = Roused(w, c, <<kind, x>>) \ {t},
           \A x \in Socket \ E : Len(list[x]) \in Nat,
           \A x \in Socket \ E :
              \/ left[x] = <<>>
              \/ /\ v[<<kind, x>>] # <<>> => w[<<kind, x>>] # <<>>
                 /\ \/ left[x] = list[x] /\ t \notin Roused(w, c, <<kind, x>>)
                    \/ Len(left[x]) + 1 = Len(list[x])  /\ Len(left[x]) \in Nat
    PROVE  Enough(v, d, kind, left, E)
<1> SUFFICES ASSUME NEW x \in Socket \ E, v[<<kind, x>>] # <<>>
             PROVE  Len(left[x]) <= Cardinality(Roused(v, d, <<kind, x>>))
  BY DEF Enough
<1> DEFINE A == Roused(w, c, <<kind, x>>)
           B == Roused(v, d, <<kind, x>>)
<1>1. A \in SUBSET Thread /\ B = A \ {t} /\ x \in Socket \ D
  BY DEF Roused
<1>2. w[<<kind, x>>] # <<>> => Len(list[x]) <= Cardinality(A)
  BY <1>1 DEF Enough
<1> HIDE DEF A, B
<1>3. /\ Cardinality(A) \in Nat /\ Cardinality(B) \in Nat /\ Cardinality(B) + 1 >= Cardinality(A)
      /\ t \notin A => B = A
  BY <1>1, Count, Zenon
<1>4. Len(left[x]) <= Cardinality(B)
  <2>1. CASE left[x] = <<>>
    BY <1>3, <2>1
  <2>2. CASE w[<<kind, x>>] # <<>> /\ left[x] = list[x] /\ t \notin A
    BY <1>2, <1>3, <2>2
  <2>3. CASE w[<<kind, x>>] # <<>> /\ Len(left[x]) + 1 = Len(list[x]) /\ Len(left[x]) \in Nat
    BY <1>2, <1>3, <2>3
  <2> QED BY <2>1, <2>2, <2>3 DEF A
<1> QED BY <1>4 DEF B

\* EnoughKept for requests.
LEMMA RequestsKept ==
    ASSUME IInv, NEW t \in Thread, call' \in [Thread -> Call],
           \A x \in Socket : Roused(waiters', call', <<"listener_arrived", x>>) =
                             Roused(waiters, call, <<"listener_arrived", x>>) \ {t},
           \A x \in Socket :
              \/ listen_queue'[x] = <<>>
              \/ /\ waiters'[<<"listener_arrived", x>>] # <<>> =>
                      waiters[<<"listener_arrived", x>>] # <<>>
                 /\ \/ /\ listen_queue'[x] = listen_queue[x]
                       /\ t \notin Roused(waiters, call, <<"listener_arrived", x>>)
                    \/ Len(listen_queue'[x]) + 1 = Len(listen_queue[x])
                       /\ Len(listen_queue'[x]) \in Nat
    PROVE  NoLostRequest'
<1>1. Enough(waiters, call, "listener_arrived", listen_queue, {})
  BY EnoughNow DEF IInv, TypeOK
<1>2. \A x \in Socket : Len(listen_queue[x]) \in Nat
  BY DEF IInv, TypeOK
<1>3. Socket \ {} = Socket /\ {} \subseteq {}
  OBVIOUS
<1>4. Enough(waiters', call', "listener_arrived", listen_queue', {})
  BY <1>1, <1>2, <1>3, EnoughKept
<1> QED BY <1>4, EnoughNext

\* EnoughKept for packets.
LEMMA PacketsKept ==
    ASSUME IInv, NEW t \in Thread, call' \in [Thread -> Call], divided \subseteq divided',
           \A x \in Socket : Roused(waiters', call', <<"data_ready", x>>) =
                             Roused(waiters, call, <<"data_ready", x>>) \ {t},
           \A x \in Socket \ divided' :
              \/ incoming'[x] = <<>>
              \/ /\ waiters'[<<"data_ready", x>>] # <<>> => waiters[<<"data_ready", x>>] # <<>>
                 /\ \/ /\ incoming'[x] = incoming[x]
                       /\ t \notin Roused(waiters, call, <<"data_ready", x>>)
                    \/ Len(incoming'[x]) + 1 = Len(incoming[x]) /\ Len(incoming'[x]) \in Nat
    PROVE  NoLostPacket'
<1>1. Enough(waiters, call, "data_ready", incoming, divided)
  BY EnoughNow DEF IInv, TypeOK
<1>2. \A x \in Socket : Len(incoming[x]) \in Nat
  BY DEF IInv, TypeOK
<1>3. Enough(waiters', call', "data_ready", incoming', divided')
  BY <1>1, <1>2, EnoughKept
<1> QED BY <1>3, EnoughNext

\* Something arrives at s in the lists more, where the event is invoked.
Arrives(kind, w, c, list, v, d, more, s) ==
    /\ \A x \in Socket : x # s =>
         /\ v[<<kind, x>>] = w[<<kind, x>>]
         /\ Roused(v, d, <<kind, x>>) = Roused(w, c, <<kind, x>>)
         /\ more[x] = list[x]
    /\ Len(more[s]) = Len(list[s]) + 1 /\ Len(list[s]) \in Nat
    /\ v[<<kind, s>>] # <<>> => w[<<kind, s>>] # <<>>
    /\ w[<<kind, s>>] # <<>> => Cardinality(Roused(v, d, <<kind, s>>)) =
                                Cardinality(Roused(w, c, <<kind, s>>)) + 1

\* Then one more thread was woken for one more thing.
LEMMA EnoughMore ==
    ASSUME NEW kind, NEW w, NEW c, NEW list, NEW D, Enough(w, c, kind, list, D),
           NEW v, NEW d, NEW more, NEW s \in Socket, Arrives(kind, w, c, list, v, d, more, s)
    PROVE  Enough(v, d, kind, more, D)
<1> USE DEF Arrives
<1> SUFFICES ASSUME NEW x \in Socket \ D, v[<<kind, x>>] # <<>>
             PROVE  Len(more[x]) <= Cardinality(Roused(v, d, <<kind, x>>))
  BY DEF Enough
<1>1. w[<<kind, x>>] # <<>> => Len(list[x]) <= Cardinality(Roused(w, c, <<kind, x>>))
  BY DEF Enough
<1>2. CASE x # s
  BY <1>1, <1>2
<1>3. CASE x = s
  <2> DEFINE A == Roused(w, c, <<kind, s>>)
             B == Roused(v, d, <<kind, s>>)
  <2>1. A \in SUBSET Thread
    BY DEF Roused
  <2> HIDE DEF A, B
  <2>2. Cardinality(A) \in Nat
    BY <2>1, FS_Subset, FS_CardinalityType, SocketAssumption
  <2>3. Len(list[s]) <= Cardinality(A) /\ Cardinality(B) = Cardinality(A) + 1
    BY <1>1, <1>3 DEF A, B
  <2>4. Len(more[s]) <= Cardinality(B)
    BY <2>2, <2>3
  <2> QED BY <1>3, <2>4 DEF B
<1> QED BY <1>2, <1>3

-----------------------------------------------------------------------------
(* The steps of connect, accept, read and write.                             *)

\* Different kinds of events are different, and so are those of two sockets.
LEMMA EventsDiffer ==
    ASSUME NEW s \in Socket, NEW x \in Socket
    PROVE  /\ <<"listener_arrived", x>> # <<"listener_accepted", s>>
           /\ <<"listener_arrived", x>> # <<"data_ready", s>>
           /\ <<"listener_accepted", x>> # <<"data_ready", s>>
           /\ x # s => /\ <<"listener_arrived", x>> # <<"listener_arrived", s>>
                       /\ <<"listener_accepted", x>> # <<"listener_accepted", s>>
                       /\ <<"data_ready", x>> # <<"data_ready", s>>
OBVIOUS

\* A connect that was woken leaves the kernel.
LEMMA ConnectReturnsStep ==
    ASSUME IInv, NEW t \in Thread, ConnectReturns(t)
    PROVE  IInv'
<1>1. UNCHANGED <<allocated, bound, capacity, listen_queue, paired_socket, incoming,
                  has_signal, waiters, buffer, dropped, divided>>
  BY DEF ConnectReturns, event_vars
<1>2. call' = [call EXCEPT ![t] = NoCall] /\ ~Listed(waiters, t) /\ call[t].op = "connect"
  BY ActorNotListed DEF ConnectReturns
<1>2a. call \in [Thread -> Call]
  BY DEF IInv, TypeOK
<1>3. call' \in [Thread -> Call] /\ Waiting(waiters, call')
  BY <1>2, Returns, Zenon DEF IInv, TypeOK
<1>4. TypeOK'
  BY <1>1, <1>3 DEF IInv, TypeOK
<1>5. Waiting(waiters, call)'
  BY <1>1, <1>3
<1>6. Matched'
  BY <1>1, <1>2, MatchedKept, Zenon DEF Matched
<1>7. Paired'
  BY <1>1, <1>2, AcceptFacts, PairedKept, Zenon DEF NoCall
<1>8. Fresh'
  BY <1>1 DEF IInv, Fresh
<1>9. \A e : Roused(waiters', call', e) = Roused(waiters, call, e) \ {t}
  <2>1. \A e : Roused(waiters, [call EXCEPT ![t] = NoCall], e) = Roused(waiters, call, e) \ {t}
    BY <1>2a, RousedReturns, ZenonT(60)
  <2> QED BY <1>1, <1>2, <2>1, Zenon
<1>10. \A x \in Socket : /\ t \notin Roused(waiters, call, <<"listener_arrived", x>>)
                         /\ t \notin Roused(waiters, call, <<"data_ready", x>>)
  <2> SUFFICES ASSUME NEW x \in Socket
               PROVE  /\ Awaits(call[t]) # <<"listener_arrived", x>>
                      /\ Awaits(call[t]) # <<"data_ready", x>>
    BY DEF Roused
  <2>1. Awaits(call[t]) = <<"listener_accepted", call[t].target>>
    BY <1>2 DEF Awaits
  <2> QED BY <2>1
<1>11. NoLostRequest'
  BY <1>1, <1>3, <1>9, <1>10, RequestsKept, Zenon
<1>12. NoLostPacket'
  BY <1>1, <1>3, <1>9, <1>10, PacketsKept, Zenon
<1> QED BY <1>4, <1>5, <1>6, <1>7, <1>8, <1>11, <1>12 DEF IInv

\* A thread that waits for a request, or was in no call, was woken for nothing else.
LEMMA WokenForOne ==
    ASSUME NEW t \in Thread, NEW c \in [Thread -> Call], NEW e, c[t] = NoCall \/ Awaits(c[t]) = e, NEW w
    PROVE  \A f : f # e => t \notin Roused(w, c, f)
BY DEF Roused

\* accept finds no request.
LEMMA AcceptWaitsStep ==
    ASSUME IInv, NEW t \in Thread, NEW s \in Socket, ~Listed(waiters, t),
           call[t] = NoCall \/ call[t] = Accept(s), accept_waits(t, s),
           UNCHANGED <<bound, capacity, incoming, buffer, dropped, divided>>
    PROVE  IInv'
<1> DEFINE e == <<"listener_arrived", s>>
<1>1. UNCHANGED <<allocated, bound, capacity, listen_queue, paired_socket, incoming, buffer,
                  dropped, divided>>
  BY DEF accept_waits
<1>2. /\ listen_queue[s] = <<>> /\ call' = [call EXCEPT ![t] = Accept(s)]
      /\ waiters' = [waiters EXCEPT ![e] = Append(@, t)]
      /\ has_signal' = [has_signal EXCEPT ![e] = FALSE]
  BY DEF accept_waits, await_while
<1>2a. waiters' = Enlist(waiters, e, t) /\ call' = Calling(call, t, Accept(s))
  BY <1>2 DEF Enlist, Calling
<1>3. e \in Event /\ Awaits(Accept(s)) = e /\ Accept(s) \in Call /\ Accept(s) # NoCall
      /\ Accept(s).op = "accept"
  BY AcceptFacts, Zenon
<1> HIDE DEF e
<1>4. waiters \in [Event -> Seq(Thread)] /\ call \in [Thread -> Call] /\ Waiting(waiters, call)
  BY DEF IInv, TypeOK
<1>5. /\ waiters' \in [Event -> Seq(Thread)] /\ call' \in [Thread -> Call]
      /\ Waiting(waiters', call')
      /\ \A u \in Thread : Listed(waiters', u) <=> Listed(waiters, u) \/ u = t
  BY <1>2a, <1>3, <1>4, Waits, ZenonT(60)
<1>6. has_signal' \in [Event -> BOOLEAN]
  BY <1>2, Zenon DEF IInv, TypeOK
<1>7. TypeOK'
  BY <1>1, <1>5, <1>6 DEF IInv, TypeOK
<1>8. Matched'
  <2> SUFFICES ASSUME NEW x \in Socket
               PROVE  /\ ~has_signal'[<<"listener_accepted", x>>]
                      /\ Behind(waiters'[<<"listener_accepted", x>>], listen_queue'[x], call', x)
                      /\ ~dropped'[x] =>
                           Len(waiters'[<<"listener_accepted", x>>]) = Len(listen_queue'[x])
    BY Zenon DEF Matched
  <2>1. <<"listener_accepted", x>> # e /\ <<"listener_accepted", x>> \in Event
    BY EventsDiffer, AcceptFacts, Zenon DEF e
  <2>2. /\ waiters'[<<"listener_accepted", x>>] = waiters[<<"listener_accepted", x>>]
        /\ has_signal'[<<"listener_accepted", x>>] = has_signal[<<"listener_accepted", x>>]
    BY <1>2, <2>1, Zenon DEF IInv, TypeOK
  <2>3. /\ Behind(waiters[<<"listener_accepted", x>>], listen_queue[x], call', x)
        /\ ~has_signal[<<"listener_accepted", x>>]
        /\ ~dropped[x] => Len(waiters[<<"listener_accepted", x>>]) = Len(listen_queue[x])
    BY <1>2, MatchedKept, Zenon
  <2> QED BY <1>1, <2>2, <2>3
<1>9. Paired'
  BY <1>1, <1>2, <1>3, <1>5, PairedKept, Zenon
<1>10. Fresh'
  BY <1>1 DEF IInv, Fresh
<1>11. \A f : Roused(waiters', call', f) = Roused(waiters, call, f) \ {t}
  BY <1>2a, <1>4, <1>5, RousedSleeps
<1>12. \A f : f # e => t \notin Roused(waiters, call, f)
  BY <1>3, <1>4, WokenForOne, ZenonT(60)
<1>13. \A f \in Event : f # e => waiters'[f] = waiters[f]
  BY <1>2, <1>4
<1>14. NoLostRequest'
  <2>1. \A x \in Socket : x # s =>
          <<"listener_arrived", x>> # e /\ <<"listener_arrived", x>> \in Event
    BY EventsDiffer, AcceptFacts, Zenon DEF e
  <2>2. \A x \in Socket : x # s =>
          /\ waiters'[<<"listener_arrived", x>>] = waiters[<<"listener_arrived", x>>]
          /\ t \notin Roused(waiters, call, <<"listener_arrived", x>>)
    BY <1>12, <1>13, <2>1
  <2> QED BY <1>1, <1>2, <1>5, <1>11, <2>2, RequestsKept, Zenon
<1>15. NoLostPacket'
  <2>1. \A x \in Socket : <<"data_ready", x>> # e /\ <<"data_ready", x>> \in Event
    BY EventsDiffer, AcceptFacts, Zenon DEF e
  <2>2. \A x \in Socket : /\ waiters'[<<"data_ready", x>>] = waiters[<<"data_ready", x>>]
                          /\ t \notin Roused(waiters, call, <<"data_ready", x>>)
    BY <1>12, <1>13, <2>1, ZenonT(60)
  <2> QED BY <1>1, <1>5, <1>11, <2>2, PacketsKept
<1> QED BY <1>5, <1>7, <1>8, <1>9, <1>10, <1>14, <1>15 DEF IInv

\* accept takes the oldest request.
LEMMA AcceptPairsStep ==
    ASSUME IInv, NEW t \in Thread, NEW s \in Socket, ~Listed(waiters, t),
           call[t] = NoCall \/ call[t] = Accept(s), listen_queue[s] # <<>>,
           accept_pairs(t, s, Head(listen_queue[s]), Tail(listen_queue[s])),
           UNCHANGED <<bound, capacity, incoming, buffer, dropped, divided>>
    PROVE  IInv'
<1> DEFINE e == <<"listener_accepted", s>>
           requester == Head(listen_queue[s])
<1>1. listen_queue[s] \in Seq(allocated) /\ requester \in allocated /\ requester \in Socket
      /\ Tail(listen_queue[s]) \in Seq(allocated)
  BY DEF IInv, TypeOK
<1> HIDE DEF requester
<1>2. PICK new \in Socket \ allocated :
         /\ allocated' = allocated \cup {new}
         /\ paired_socket' = [paired_socket EXCEPT ![new] = requester, ![requester] = new]
  BY Zenon DEF accept_pairs, requester
<1>3. /\ listen_queue' = [listen_queue EXCEPT ![s] = Tail(listen_queue[s])]
      /\ waiters' = invoke_waiters(e) /\ has_signal' = invoke_signal(e)
      /\ call' = [call EXCEPT ![t] = NoCall]
  BY DEF accept_pairs, event_invoke
<1>4. e \in Event /\ NoCall \in Call /\ NoCall.op = "none"
  BY AcceptFacts, Zenon
<1>5. waiters \in [Event -> Seq(Thread)] /\ call \in [Thread -> Call] /\ Waiting(waiters, call)
  BY Zenon DEF IInv, TypeOK
<1>6. /\ ~has_signal[e] /\ Behind(waiters[e], listen_queue[s], call', s)
      /\ ~dropped[s] => Len(waiters[e]) = Len(listen_queue[s])
      /\ waiters[e] \in Seq(Thread)
  BY <1>3, MatchedKept, Zenon
<1>7. /\ Behind(Tail(waiters[e]), Tail(listen_queue[s]), call', s)
      /\ waiters[e] # <<>> /\ Len(Tail(waiters[e])) = Len(waiters[e]) - 1
      /\ Len(Tail(listen_queue[s])) = Len(listen_queue[s]) - 1
      /\ Len(waiters[e]) = Len(listen_queue[s]) => call'[Head(waiters[e])] = Connect(requester, s)
  <2> HIDE DEF e
  <2>1. requester = Head(listen_queue[s])
    BY Zenon DEF requester
  <2> DEFINE wl == waiters[e]
             ql == listen_queue[s]
  <2>2. wl \in Seq(Thread) /\ ql \in Seq(allocated) /\ Behind(wl, ql, call', s) /\ ql # <<>>
    BY <1>1, <1>6
  <2> HIDE DEF wl, ql
  <2>3. /\ Behind(Tail(wl), Tail(ql), call', s)
        /\ wl # <<>> /\ Len(Tail(wl)) = Len(wl) - 1 /\ Len(Tail(ql)) = Len(ql) - 1
        /\ Len(wl) = Len(ql) => call'[Head(wl)] = Connect(Head(ql), s)
    BY <2>2, BehindTail
  <2> QED BY <2>1, <2>3, Zenon DEF wl, ql
<1> HIDE DEF e
<1>8. waiters' = [waiters EXCEPT ![e] = Tail(@)] /\ has_signal' = has_signal
  BY <1>3, <1>7 DEF invoke_waiters, invoke_signal
<1>9. /\ waiters' \in [Event -> Seq(Thread)] /\ Waiting(waiters', call)
      /\ \A u \in Thread : Listed(waiters', u) => Listed(waiters, u)
      /\ \A u \in Thread : Listed(waiters, u) /\ ~Listed(waiters', u) => u = Head(waiters[e])
      /\ \A f \in Event : f # e => /\ waiters'[f] = waiters[f]
                                   /\ Roused(waiters', call, f) = Roused(waiters, call, f)
  BY <1>3, <1>4, <1>5, Invokes
<1>10. call' \in [Thread -> Call] /\ Waiting(waiters', call')
  BY <1>3, <1>5, <1>9, Returns, Zenon
<1>11. TypeOK'
  <2>1. allocated \subseteq allocated' /\ allocated' \subseteq Socket
    BY <1>2 DEF IInv, TypeOK
  <2>2. /\ bound' \in [Path -> allocated' \cup {NULL}]
        /\ listen_queue \in [Socket -> Seq(allocated')]
        /\ paired_socket \in [Socket -> allocated' \cup {NULL}]
    BY <2>1, MoreSockets DEF IInv, TypeOK
  <2>3. listen_queue' \in [Socket -> Seq(allocated')]
    <3>1. Tail(listen_queue[s]) \in Seq(allocated')
      BY <1>1, <2>1
    <3> QED BY <1>3, <2>2, <3>1
  <2>4. paired_socket' \in [Socket -> allocated' \cup {NULL}]
    BY <1>1, <1>2, <2>1, <2>2, ZenonT(60)
  <2> QED BY <1>8, <1>9, <1>10, <2>1, <2>2, <2>3, <2>4, Zenon DEF IInv, TypeOK
<1>12. Matched'
  <2> SUFFICES ASSUME NEW x \in Socket
               PROVE  /\ ~has_signal'[<<"listener_accepted", x>>]
                      /\ Behind(waiters'[<<"listener_accepted", x>>], listen_queue'[x], call', x)
                      /\ ~dropped'[x] =>
                           Len(waiters'[<<"listener_accepted", x>>]) = Len(listen_queue'[x])
    BY Zenon DEF Matched
  <2>1. CASE x = s
    <3>1. waiters'[e] = Tail(waiters[e]) /\ listen_queue'[s] = Tail(listen_queue[s])
      BY <1>3, <1>4, <1>5, <1>8, SMTT(30) DEF IInv, TypeOK
    <3> QED BY <1>6, <1>7, <1>8, <2>1, <3>1, Zenon DEF e
  <2>2. CASE x # s
    <3>1. <<"listener_accepted", x>> # e /\ <<"listener_accepted", x>> \in Event
      BY <2>2, EventsDiffer, AcceptFacts, Zenon DEF e
    <3>2. listen_queue'[x] = listen_queue[x]
      BY <1>3, <2>2 DEF IInv, TypeOK
    <3>3. /\ Behind(waiters[<<"listener_accepted", x>>], listen_queue[x], call', x)
          /\ ~has_signal[<<"listener_accepted", x>>]
          /\ ~dropped[x] => Len(waiters[<<"listener_accepted", x>>]) = Len(listen_queue[x])
      BY <1>3, MatchedKept, Zenon
    <3> QED BY <1>8, <1>9, <3>1, <3>2, <3>3
  <2> QED BY <2>1, <2>2
<1>13. Paired'
  <2>1. \A x \in Socket : paired_socket[x] # NULL => paired_socket'[x] # NULL
    BY <1>1, <1>2, SocketAssumption, Zenon DEF IInv, TypeOK
  <2>2. paired_socket'[requester] # NULL
    BY <1>1, <1>2, SocketAssumption, SMTT(30) DEF IInv, TypeOK
  <2>3. ASSUME NEW u \in Thread, u # t, call[u].op = "connect", ~dropped[call[u].target],
               Listed(waiters, u), ~Listed(waiters', u)
        PROVE  paired_socket'[call[u].sock] # NULL
    <3>1. u = Head(waiters[e]) /\ call'[u] = call[u]
      BY <1>3, <1>5, <1>9, <2>3, Zenon
    <3>2. Awaits(call[u]) = e /\ call[u] \in Call /\ call[u] # NoCall
      BY <1>4, <1>5, <1>7, <3>1, WakesWhom, ZenonT(60)
    <3>3. call[u].target = s
      BY <3>2, AwaitsWhat, Zenon DEF e
    <3>4. call[u] = Connect(requester, s)
      BY <1>6, <1>7, <2>3, <3>1, <3>3
    <3>5. call[u].sock = requester
      BY <3>4 DEF Connect
    <3> QED BY <2>2, <3>5, ZenonT(60)
  <2> QED BY <1>3, <1>4, <2>1, <2>3, PairedKept, Zenon
<1>14. Fresh'
  BY <1>1, <1>2 DEF IInv, Fresh, TypeOK
<1>15. \A f \in Event : f # e => Roused(waiters', call', f) = Roused(waiters, call, f) \ {t}
  <2>1. \A f : Roused(waiters', [call EXCEPT ![t] = NoCall], f) = Roused(waiters', call, f) \ {t}
    BY <1>5, RousedReturns, ZenonT(60)
  <2> QED BY <1>3, <1>9, <2>1, Zenon
<1>16. \A x \in Socket :
         /\ <<"listener_arrived", x>> \in Event /\ <<"listener_arrived", x>> # e
         /\ <<"data_ready", x>> \in Event /\ <<"data_ready", x>> # e
  BY EventsDiffer, AcceptFacts, Zenon DEF e
<1>17. \A f : f # <<"listener_arrived", s>> => t \notin Roused(waiters, call, f)
  BY <1>5, AcceptFacts, WokenForOne, Zenon
<1>18. NoLostRequest'
  <2>1. ASSUME NEW x \in Socket
        PROVE  /\ waiters'[<<"listener_arrived", x>>] = waiters[<<"listener_arrived", x>>]
               /\ Roused(waiters', call', <<"listener_arrived", x>>) =
                    Roused(waiters, call, <<"listener_arrived", x>>) \ {t}
    BY <1>9, <1>15, <1>16, Zenon
  <2>2. ASSUME NEW x \in Socket, x # s
        PROVE  /\ listen_queue'[x] = listen_queue[x]
               /\ t \notin Roused(waiters, call, <<"listener_arrived", x>>)
    <3>1. listen_queue'[x] = listen_queue[x]
      BY <1>3, <2>2 DEF IInv, TypeOK
    <3>2. <<"listener_arrived", x>> # <<"listener_arrived", s>>
      BY <2>2
    <3> QED BY <1>17, <3>1, <3>2
  <2>3. Len(listen_queue'[s]) + 1 = Len(listen_queue[s]) /\ Len(listen_queue'[s]) \in Nat
    <3>1. listen_queue'[s] = Tail(listen_queue[s])
      BY <1>3, SMTT(30) DEF IInv, TypeOK
    <3> QED BY <1>1, <3>1
  <2> QED BY <1>10, <2>1, <2>2, <2>3, RequestsKept
<1>19. NoLostPacket'
  <2>1. ASSUME NEW x \in Socket
        PROVE  /\ waiters'[<<"data_ready", x>>] = waiters[<<"data_ready", x>>]
               /\ Roused(waiters', call', <<"data_ready", x>>) =
                    Roused(waiters, call, <<"data_ready", x>>) \ {t}
               /\ t \notin Roused(waiters, call, <<"data_ready", x>>)
    BY <1>9, <1>15, <1>16, <1>17, EventsDiffer, Zenon
  <2> QED BY <1>10, <2>1, PacketsKept
<1> QED BY <1>10, <1>11, <1>12, <1>13, <1>14, <1>18, <1>19 DEF IInv

\* unix_socket_read finds no packet.
ReadWaits(t, s, n) ==
    /\ incoming[s] = <<>>
    /\ await_while(t, <<"data_ready", s>>)
    /\ call' = [call EXCEPT ![t] = Read(s, n)]
    /\ UNCHANGED <<allocated, bound, capacity, listen_queue, paired_socket, incoming, buffer,
                   dropped, divided>>

\* Then the thread waits for a packet.
LEMMA ReadWaitsStep ==
    ASSUME IInv, NEW t \in Thread, NEW s \in Socket, NEW n \in ReadSize, ~Listed(waiters, t),
           call[t] = NoCall \/ Awaits(call[t]) = <<"data_ready", s>>, paired_socket[s] # NULL,
           ReadWaits(t, s, n)
    PROVE  IInv'
<1> DEFINE e == <<"data_ready", s>>
<1>1. UNCHANGED <<allocated, bound, capacity, listen_queue, paired_socket, incoming, buffer,
                  dropped, divided>>
  BY ZenonT(60) DEF ReadWaits
<1>2. /\ incoming[s] = <<>> /\ call' = [call EXCEPT ![t] = Read(s, n)]
      /\ waiters' = [waiters EXCEPT ![e] = Append(@, t)]
      /\ has_signal' = [has_signal EXCEPT ![e] = FALSE]
  BY Zenon DEF ReadWaits, await_while
<1>2a. waiters' = Enlist(waiters, e, t) /\ call' = Calling(call, t, Read(s, n))
  BY <1>2 DEF Enlist, Calling
<1>3. e \in Event /\ Awaits(Read(s, n)) = e /\ Read(s, n) \in Call /\ Read(s, n) # NoCall
      /\ Read(s, n).op = "read" /\ Read(s, n).sock = s
  <2>1. <<"data_ready", s>> \in Event
    BY AcceptFacts, Zenon
  <2>2. /\ Read(s, n) \in Call /\ Read(s, n) # NoCall /\ Read(s, n).op = "read"
        /\ Read(s, n).sock = s /\ Awaits(Read(s, n)) = <<"data_ready", s>>
    BY ReadFacts
  <2> QED BY <2>1, <2>2, Zenon
<1>3a. Awaits(call[t]) = e \/ call[t] = NoCall
  OBVIOUS
<1> HIDE DEF e
<1>4. waiters \in [Event -> Seq(Thread)] /\ call \in [Thread -> Call] /\ Waiting(waiters, call)
  BY ZenonT(60) DEF IInv, TypeOK
<1>5. /\ waiters' \in [Event -> Seq(Thread)] /\ call' \in [Thread -> Call]
      /\ Waiting(waiters', call')
      /\ \A u \in Thread : Listed(waiters', u) <=> Listed(waiters, u) \/ u = t
  BY <1>2a, <1>3, <1>4, Waits, ZenonT(60)
<1>6. has_signal' \in [Event -> BOOLEAN]
  BY <1>2, Zenon DEF IInv, TypeOK
<1>7. TypeOK'
  BY <1>1, <1>5, <1>6, SMTT(30) DEF IInv, TypeOK
<1>8. Matched'
  <2> SUFFICES ASSUME NEW x \in Socket
               PROVE  /\ ~has_signal'[<<"listener_accepted", x>>]
                      /\ Behind(waiters'[<<"listener_accepted", x>>], listen_queue'[x], call', x)
                      /\ ~dropped'[x] =>
                           Len(waiters'[<<"listener_accepted", x>>]) = Len(listen_queue'[x])
    BY Zenon DEF Matched
  <2>1. <<"listener_accepted", x>> # e /\ <<"listener_accepted", x>> \in Event
    BY EventsDiffer, AcceptFacts, Zenon DEF e
  <2>2. /\ waiters'[<<"listener_accepted", x>>] = waiters[<<"listener_accepted", x>>]
        /\ has_signal'[<<"listener_accepted", x>>] = has_signal[<<"listener_accepted", x>>]
    BY <1>2, <2>1, Zenon DEF IInv, TypeOK
  <2>3. /\ Behind(waiters[<<"listener_accepted", x>>], listen_queue[x], call', x)
        /\ ~has_signal[<<"listener_accepted", x>>]
        /\ ~dropped[x] => Len(waiters[<<"listener_accepted", x>>]) = Len(listen_queue[x])
    BY <1>2, MatchedKept, Zenon
  <2> QED BY <1>1, <2>2, <2>3, Zenon
<1>9. Paired'
  BY <1>1, <1>2, <1>3, <1>5, PairedKept, Zenon
<1>10. Fresh'
  BY <1>1 DEF IInv, Fresh
<1>11. \A f : Roused(waiters', call', f) = Roused(waiters, call, f) \ {t}
  <2>1. \A f : Roused(waiters', Calling(call, t, Read(s, n)), f) = Roused(waiters, call, f) \ {t}
    BY <1>4, <1>5, RousedSleeps
  <2> QED BY <1>2a, <2>1, Zenon
<1>12. \A f : f # e => t \notin Roused(waiters, call, f)
  BY <1>3a, <1>4, WokenForOne, ZenonT(60)
<1>13. \A f \in Event : f # e => waiters'[f] = waiters[f]
  BY <1>2, <1>4
<1>14. NoLostPacket'
  <2>1. \A x \in Socket : x # s => <<"data_ready", x>> # e /\ <<"data_ready", x>> \in Event
    BY EventsDiffer, AcceptFacts, Zenon DEF e
  <2>2. \A x \in Socket : x # s => /\ waiters'[<<"data_ready", x>>] = waiters[<<"data_ready", x>>]
                                   /\ t \notin Roused(waiters, call, <<"data_ready", x>>)
    BY <1>12, <1>13, <2>1, SMTT(30)
  <2> QED BY <1>1, <1>2, <1>5, <1>11, <2>2, PacketsKept, Zenon
<1>15. NoLostRequest'
  <2>1. \A x \in Socket : <<"listener_arrived", x>> # e /\ <<"listener_arrived", x>> \in Event
    BY EventsDiffer, AcceptFacts, Zenon DEF e
  <2>2. \A x \in Socket :
          /\ waiters'[<<"listener_arrived", x>>] = waiters[<<"listener_arrived", x>>]
          /\ t \notin Roused(waiters, call, <<"listener_arrived", x>>)
    BY <1>12, <1>13, <2>1, Zenon
  <2> QED BY <1>1, <1>5, <1>11, <2>2, RequestsKept
<1> QED BY <1>5, <1>7, <1>8, <1>9, <1>10, <1>14, <1>15, Zenon DEF IInv

\* What read takes from a queue of packets, and what it leaves there.
LEMMA TakesPacket ==
    ASSUME IInv, NEW t \in Thread, NEW s \in Socket, NEW n \in Nat, incoming[s] # <<>>,
           read_takes(t, s, n)
    PROVE  /\ incoming' \in [Socket -> Seq(Seq(Byte))] /\ buffer' \in [Thread -> Seq(Byte)]
           /\ divided \subseteq divided' /\ divided' \subseteq Socket
           /\ \A x \in Socket : x # s => incoming'[x] = incoming[x]
           /\ \/ /\ s \notin divided' => FALSE
                 /\ Len(incoming'[s]) = Len(incoming[s])
              \/ Len(incoming'[s]) + 1 = Len(incoming[s])
<1> DEFINE packet == Head(incoming[s])
<1>1. /\ incoming \in [Socket -> Seq(Seq(Byte))] /\ buffer \in [Thread -> Seq(Byte)]
      /\ divided \subseteq Socket
  BY DEF IInv, TypeOK
<1>2. /\ incoming[s] \in Seq(Seq(Byte)) /\ packet \in Seq(Byte) /\ Len(packet) \in Nat
      /\ Tail(incoming[s]) \in Seq(Seq(Byte)) /\ Len(Tail(incoming[s])) + 1 = Len(incoming[s])
  BY <1>1
<1>3. CASE Len(packet) > n
  <2>1. /\ incoming' = [incoming EXCEPT ![s][1] = SubSeq(packet, n + 1, Len(packet))]
        /\ buffer' = [buffer EXCEPT ![t] = SubSeq(packet, 1, n)]
        /\ divided' = divided \cup {s}
    BY <1>3 DEF read_takes
  <2>2. SubSeq(packet, n + 1, Len(packet)) \in Seq(Byte) /\ SubSeq(packet, 1, n) \in Seq(Byte)
    <3> HIDE DEF packet
    <3> QED BY <1>2, <1>3
  <2> DEFINE rest == SubSeq(packet, n + 1, Len(packet))
             taken == SubSeq(packet, 1, n)
             left == [incoming[s] EXCEPT ![1] = rest]
  <2>3. incoming' = [incoming EXCEPT ![s] = left] /\ buffer' = [buffer EXCEPT ![t] = taken]
    BY <2>1
  <2>4. left \in Seq(Seq(Byte)) /\ Len(left) = Len(incoming[s])
    <3> HIDE DEF rest
    <3> QED BY <1>2, <2>2 DEF rest
  <2> HIDE DEF left, taken, packet
  <2> QED BY <1>1, <2>1, <2>2, <2>3, <2>4 DEF taken
<1>4. CASE ~(Len(packet) > n)
  <2>1. /\ incoming' = [incoming EXCEPT ![s] = Tail(@)]
        /\ buffer' = [buffer EXCEPT ![t] = packet]
        /\ divided' = divided
    BY <1>4 DEF read_takes
  <2> QED BY <1>1, <1>2, <2>1, Zenon
<1> QED BY <1>3, <1>4

\* read takes from the oldest packet.
LEMMA ReadTakesStep ==
    ASSUME IInv, NEW t \in Thread, NEW s \in Socket, NEW n \in ReadSize, ~Listed(waiters, t),
           call[t] = NoCall \/ Awaits(call[t]) = <<"data_ready", s>>,
           incoming[s] # <<>>, read_takes(t, s, n),
           call' = [call EXCEPT ![t] = NoCall],
           UNCHANGED <<allocated, bound, capacity, listen_queue, paired_socket, event_vars, dropped>>
    PROVE  IInv'
<1>1. UNCHANGED <<allocated, bound, capacity, listen_queue, paired_socket, has_signal, waiters,
                  dropped>>
  BY DEF event_vars
<1>2. n \in Nat
  BY SocketAssumption
<1>3. /\ incoming' \in [Socket -> Seq(Seq(Byte))] /\ buffer' \in [Thread -> Seq(Byte)]
      /\ divided \subseteq divided' /\ divided' \subseteq Socket
      /\ \A x \in Socket : x # s => incoming'[x] = incoming[x]
      /\ \/ /\ s \notin divided' => FALSE
            /\ Len(incoming'[s]) = Len(incoming[s])
         \/ Len(incoming'[s]) + 1 = Len(incoming[s])
  BY <1>2, TakesPacket
<1>4. waiters \in [Event -> Seq(Thread)] /\ call \in [Thread -> Call] /\ Waiting(waiters, call)
  BY DEF IInv, TypeOK
<1>5. call' \in [Thread -> Call] /\ Waiting(waiters, call')
  BY <1>4, Returns, Zenon
<1>6. \A x \in Socket : Len(incoming'[x]) \in Nat /\ Len(incoming[x]) \in Nat
  BY <1>3 DEF IInv, TypeOK
<1>7. TypeOK'
  <2>1. \A x \in Socket : Len(incoming'[x]) <= MaxPackets
    <3>1. MaxPackets \in Nat /\ \A x \in Socket : Len(incoming[x]) <= MaxPackets
      BY SocketAssumption, ZenonT(60) DEF IInv, TypeOK
    <3>2. Len(incoming'[s]) <= Len(incoming[s])
      <4>1. Len(incoming'[s]) = Len(incoming[s]) \/ Len(incoming'[s]) + 1 = Len(incoming[s])
        BY <1>3, Zenon
      <4> QED BY <1>6, <4>1
    <3>3. Len(incoming'[s]) <= MaxPackets
      BY <1>6, <3>1, <3>2
    <3> QED BY <1>3, <3>1, <3>3, Zenon
  <2> QED BY <1>1, <1>3, <1>5, <2>1 DEF IInv, TypeOK
<1>8. Waiting(waiters, call)'
  BY <1>1, <1>5
<1>9. Matched'
  BY <1>1, MatchedKept, Zenon DEF Matched
<1>10. Paired'
  BY <1>1, AcceptFacts, PairedKept, Zenon DEF NoCall
<1>11. Fresh'
  BY <1>1 DEF IInv, Fresh
<1>12. \A e : Roused(waiters', call', e) = Roused(waiters, call, e) \ {t}
  <2>1. \A e : Roused(waiters, [call EXCEPT ![t] = NoCall], e) = Roused(waiters, call, e) \ {t}
    BY <1>4, RousedReturns, Zenon
  <2> QED BY <1>1, <2>1, Zenon
<1>13. \A f : f # <<"data_ready", s>> => t \notin Roused(waiters, call, f)
  BY <1>4, WokenForOne, Zenon
<1>14. NoLostRequest'
  <2>1. \A x \in Socket : t \notin Roused(waiters, call, <<"listener_arrived", x>>)
    BY <1>13, EventsDiffer
  <2> QED BY <1>1, <1>5, <1>12, <2>1, RequestsKept, ZenonT(60)
<1>15. NoLostPacket'
  <2>1. \A x \in Socket : x # s => t \notin Roused(waiters, call, <<"data_ready", x>>)
    BY <1>13, EventsDiffer
  <2>2. s \in Socket \ divided' => Len(incoming'[s]) + 1 = Len(incoming[s])
    BY <1>3
  <2> QED BY <1>1, <1>3, <1>5, <1>6, <1>12, <2>1, <2>2, PacketsKept, ZenonT(60)
<1> QED BY <1>7, <1>8, <1>9, <1>10, <1>11, <1>14, <1>15 DEF IInv
\* write sends a packet and wakes a reader.
LEMMA WriteStep ==
    ASSUME IInv, NEW t \in Thread, NEW s \in Socket, NEW d \in Data, SyscallWrite(t, s, d)
    PROVE  IInv'
<1> DEFINE p == paired_socket[s]
           e == <<"data_ready", p>>
<1>1. UNCHANGED <<allocated, bound, capacity, listen_queue, paired_socket, call, buffer, dropped,
                  divided>>
  BY DEF SyscallWrite, send
<1>2. /\ p # NULL /\ Len(incoming[p]) < MaxPackets /\ call[t] = NoCall
      /\ incoming' = [incoming EXCEPT ![p] = Append(@, d)]
      /\ waiters' = invoke_waiters(e) /\ has_signal' = invoke_signal(e)
  BY DEF SyscallWrite, send, event_invoke, Ready
<1>3. p \in Socket
  BY <1>2 DEF IInv, TypeOK
<1>4. waiters \in [Event -> Seq(Thread)] /\ call \in [Thread -> Call] /\ Waiting(waiters, call)
  BY DEF IInv, TypeOK
<1> HIDE DEF p
<1>5. e \in Event
  BY <1>3, AcceptFacts, Zenon
<1>6. \A x \in Socket :
        /\ <<"listener_arrived", x>> \in Event /\ <<"listener_arrived", x>> # e
        /\ <<"listener_accepted", x>> \in Event /\ <<"listener_accepted", x>> # e
        /\ <<"data_ready", x>> \in Event /\ (x # p => <<"data_ready", x>> # e)
  BY <1>3, EventsDiffer, AcceptFacts, ZenonT(60)
<1> HIDE DEF e
<1>7. /\ waiters' \in [Event -> Seq(Thread)] /\ Waiting(waiters', call)
      /\ \A f \in Event : f # e => /\ waiters'[f] = waiters[f]
                                   /\ Roused(waiters', call, f) = Roused(waiters, call, f)
      /\ waiters'[e] = IF waiters[e] = <<>> THEN <<>> ELSE Tail(waiters[e])
      /\ waiters[e] # <<>> => Cardinality(Roused(waiters', call, e)) =
                              Cardinality(Roused(waiters, call, e)) + 1
      /\ \A u \in Thread : Listed(waiters, u) /\ ~Listed(waiters', u) =>
           waiters[e] # <<>> /\ u = Head(waiters[e])
  BY <1>2, <1>4, <1>5, Invokes
<1>8. has_signal' \in [Event -> BOOLEAN] /\ \A f \in Event : f # e => has_signal'[f] = has_signal[f]
  BY <1>2, Zenon DEF IInv, TypeOK, invoke_signal
<1>9. /\ incoming' \in [Socket -> Seq(Seq(Byte))] /\ Len(incoming'[p]) = Len(incoming[p]) + 1
      /\ Len(incoming[p]) \in Nat /\ \A x \in Socket : x # p => incoming'[x] = incoming[x]
  <2>1. d \in Seq(Byte) /\ incoming \in [Socket -> Seq(Seq(Byte))]
    BY SocketAssumption DEF IInv, TypeOK
  <2>2. incoming[p] \in Seq(Seq(Byte)) /\ Append(incoming[p], d) \in Seq(Seq(Byte))
    BY <1>3, <2>1
  <2>3. Len(Append(incoming[p], d)) = Len(incoming[p]) + 1 /\ Len(incoming[p]) \in Nat
    BY <2>1, <2>2
  <2> QED BY <1>2, <1>3, <2>1, <2>2, <2>3
<1>10. TypeOK'
  <2>1. MaxPackets \in Nat /\ \A x \in Socket : Len(incoming[x]) <= MaxPackets
    BY SocketAssumption DEF IInv, TypeOK
  <2>2. \A x \in Socket : Len(incoming'[x]) <= MaxPackets
    BY <1>2, <1>9, <2>1, SMTT(30)
  <2> QED BY <1>1, <1>7, <1>8, <1>9, <2>2, ZenonT(60) DEF IInv, TypeOK
<1>11. Waiting(waiters, call)'
  BY <1>1, <1>7
<1>12. Matched'
  BY <1>1, <1>6, <1>7, <1>8, ZenonT(60) DEF IInv, Matched
<1>13. Paired'
  <2>1. ASSUME NEW u \in Thread, call[u].op = "connect", Listed(waiters, u), ~Listed(waiters', u)
        PROVE  FALSE
    <3>1. u = Head(waiters[e]) /\ waiters[e] # <<>>
      BY <1>7, <2>1
    <3>2. call[u] # NoCall /\ Awaits(call[u]) = e /\ call[u] \in Call
      BY <1>4, <1>5, <3>1, WakesWhom, SMTT(30)
    <3>3. call[u].op = "read"
      BY <1>3, <3>2, AwaitsWhat DEF e
    <3> QED BY <2>1, <3>3, ZenonT(60)
  <2>2. \A u \in Thread : call[u].op = "connect" /\ ~Listed(waiters', u) => ~Listed(waiters, u)
    BY <2>1
  <2> QED BY <1>1, <2>2 DEF IInv, Paired
<1>14. Fresh'
  BY <1>1 DEF IInv, Fresh
<1>15. NoLostRequest'
  <2>1. Enough(waiters, call, "listener_arrived", listen_queue, {})
    BY <1>4, EnoughNow DEF IInv
  <2>2. Enough(waiters', call, "listener_arrived", listen_queue, {})
    BY <1>6, <1>7, <2>1, Zenon DEF Enough
  <2> QED BY <1>1, <1>4, <2>2, EnoughNext
<1>16. NoLostPacket'
  <2>1. Enough(waiters, call, "data_ready", incoming, divided)
    BY <1>4, EnoughNow DEF IInv
  <2>2. waiters'[<<"data_ready", p>>] # <<>> => waiters[<<"data_ready", p>>] # <<>>
    BY <1>7, ZenonT(60) DEF e
  <2>3. waiters[<<"data_ready", p>>] # <<>> =>
          Cardinality(Roused(waiters', call, <<"data_ready", p>>)) =
          Cardinality(Roused(waiters, call, <<"data_ready", p>>)) + 1
    BY <1>7 DEF e
  <2>4. \A x \in Socket : x # p =>
          /\ waiters'[<<"data_ready", x>>] = waiters[<<"data_ready", x>>]
          /\ Roused(waiters', call, <<"data_ready", x>>) = Roused(waiters, call, <<"data_ready", x>>)
          /\ incoming'[x] = incoming[x]
    BY <1>6, <1>7, <1>9, Zenon
  <2>5. Enough(waiters', call, "data_ready", incoming', divided)
    <3>1. Arrives("data_ready", waiters, call, incoming, waiters', call, incoming', p)
      BY <1>9, <2>2, <2>3, <2>4, Zenon DEF Arrives
    <3> QED BY <1>3, <2>1, <3>1, EnoughMore
  <2> QED BY <1>1, <1>4, <2>5, EnoughNext
<1> QED BY <1>10, <1>11, <1>12, <1>13, <1>14, <1>15, <1>16 DEF IInv

\* connect queues its request, wakes an acceptor and waits.
LEMMA ConnectStep ==
    ASSUME IInv, NEW t \in Thread, NEW s \in Socket, NEW path \in Path, SyscallConnect(t, s, path)
    PROVE  IInv'
<1> DEFINE g == bound[path]
           a == <<"listener_arrived", g>>
           e == <<"listener_accepted", g>>
           v == invoke_waiters(a)
           k == Connect(s, g)
<1>1. /\ UNCHANGED <<allocated, bound, capacity, paired_socket, incoming, buffer, dropped, divided>>
      /\ call[t] = NoCall /\ s \in allocated /\ g # NULL
      /\ listen_queue' = [listen_queue EXCEPT ![g] = Append(@, s)]
  BY Zenon DEF SyscallConnect, request, Ready
<1>2. g \in Socket
  BY <1>1 DEF IInv, TypeOK
<1>3. /\ waiters \in [Event -> Seq(Thread)] /\ call \in [Thread -> Call] /\ Waiting(waiters, call)
      /\ has_signal \in [Event -> BOOLEAN] /\ listen_queue \in [Socket -> Seq(allocated)]
  BY DEF IInv, TypeOK
<1>4. /\ has_signal' = invoke_signal(a) /\ waiters' = Enlist(v, e, t) /\ call' = Calling(call, t, k)
  <2>1. await_once(t, e, k, v, invoke_signal(a))
    BY DEF SyscallConnect
  <2>2. ~has_signal[e] /\ e \in Event /\ e # a
    BY <1>2, AcceptFacts, EventsDiffer, Zenon DEF IInv, Matched
  <2>3. ~invoke_signal(a)[e]
    <3> HIDE DEF e, a
    <3> QED BY <1>3, <2>2 DEF invoke_signal
  <2> HIDE DEF v, k
  <2> QED BY <2>1, <2>3, Zenon DEF await_once, Enlist, Calling
<1>5. k \in Call /\ k # NoCall /\ k.op = "connect" /\ Awaits(k) = e
  BY <1>2, ConnectFacts
<1> HIDE DEF g
<1>6. a \in Event /\ e \in Event /\ a # e
  BY <1>2, AcceptFacts, EventsDiffer, Zenon
<1>7. \A x \in Socket :
        /\ <<"listener_arrived", x>> \in Event /\ <<"listener_arrived", x>> # e
        /\ <<"listener_accepted", x>> \in Event /\ <<"listener_accepted", x>> # a
        /\ <<"data_ready", x>> \in Event /\ <<"data_ready", x>> # e /\ <<"data_ready", x>> # a
        /\ x # g => <<"listener_arrived", x>> # a /\ <<"listener_accepted", x>> # e
  BY <1>2, EventsDiffer, AcceptFacts, Zenon
<1> HIDE DEF a, e, k
<1>8. ~Listed(waiters, t)
  BY <1>1, ActorNotListed DEF Ready
<1>9. /\ v \in [Event -> Seq(Thread)] /\ Waiting(v, call)
      /\ \A f \in Event : f # a => v[f] = waiters[f] /\ Roused(v, call, f) = Roused(waiters, call, f)
      /\ v[a] = IF waiters[a] = <<>> THEN <<>> ELSE Tail(waiters[a])
      /\ waiters[a] # <<>> =>
           Cardinality(Roused(v, call, a)) = Cardinality(Roused(waiters, call, a)) + 1
      /\ \A u \in Thread : Listed(v, u) => Listed(waiters, u)
      /\ \A u \in Thread : Listed(waiters, u) /\ ~Listed(v, u) =>
           waiters[a] # <<>> /\ u = Head(waiters[a])
  BY <1>3, <1>6, Invokes, SMTT(30)
<1> HIDE DEF v
<1>10. ~Listed(v, t)
  BY <1>8, <1>9
<1>11. /\ waiters' \in [Event -> Seq(Thread)] /\ call' \in [Thread -> Call]
       /\ Waiting(waiters', call')
       /\ \A u \in Thread : Listed(waiters', u) <=> Listed(v, u) \/ u = t
  <2>1. v \in [Event -> Seq(Thread)] /\ call \in [Thread -> Call] /\ Waiting(v, call)
    BY <1>3, <1>9
  <2>2. /\ Enlist(v, e, t) \in [Event -> Seq(Thread)] /\ Calling(call, t, k) \in [Thread -> Call]
        /\ Waiting(Enlist(v, e, t), Calling(call, t, k))
        /\ \A u \in Thread : Listed(Enlist(v, e, t), u) <=> Listed(v, u) \/ u = t
    BY <1>5, <1>6, <1>10, <2>1, Waits, ZenonT(60)
  <2> QED BY <1>4, <2>2, ZenonT(60)
<1>12. /\ waiters'[e] = Append(waiters[e], t) /\ \A f \in Event : f # e => waiters'[f] = v[f]
       /\ \A f \in Event : f # e /\ f # a => waiters'[f] = waiters[f]
  <2>1. waiters'[e] = Append(v[e], t) /\ \A f \in Event : f # e => waiters'[f] = v[f]
    BY <1>4, <1>6, <1>9 DEF Enlist
  <2> QED BY <1>6, <1>9, <2>1, Zenon
<1>13. \A f : Roused(waiters', call', f) = Roused(v, call, f)
  <2>1. \A f : Roused(waiters', Calling(call, t, k), f) = Roused(v, call, f) \ {t}
    <3>1. call \in [Thread -> Call] /\ \A u \in Thread : Listed(waiters', u) <=> Listed(v, u) \/ u = t
      BY <1>3, <1>11
    <3> QED BY <3>1, RousedSleeps
  <2>2. \A f : t \notin Roused(v, call, f)
    BY <1>1 DEF Roused
  <2> QED BY <1>4, <2>1, <2>2
<1>14. has_signal' \in [Event -> BOOLEAN] /\ \A f \in Event : f # a => has_signal'[f] = has_signal[f]
  BY <1>3, <1>4, Zenon DEF invoke_signal
<1>15. /\ listen_queue' \in [Socket -> Seq(allocated)]
       /\ listen_queue'[g] = Append(listen_queue[g], s)
       /\ \A x \in Socket : x # g => listen_queue'[x] = listen_queue[x]
       /\ listen_queue[g] \in Seq(allocated)
       /\ Len(listen_queue'[g]) = Len(listen_queue[g]) + 1 /\ Len(listen_queue[g]) \in Nat
  BY <1>1, <1>2, <1>3, SMTT(30)
<1>16. TypeOK'
  BY <1>1, <1>11, <1>14, <1>15 DEF IInv, TypeOK
<1>17. Matched'
  <2> SUFFICES ASSUME NEW x \in Socket
               PROVE  /\ ~has_signal'[<<"listener_accepted", x>>]
                      /\ Behind(waiters'[<<"listener_accepted", x>>], listen_queue'[x], call', x)
                      /\ ~dropped'[x] =>
                           Len(waiters'[<<"listener_accepted", x>>]) = Len(listen_queue'[x])
    BY Zenon DEF Matched
  <2>1. CASE x = g
    <3>1. /\ ~has_signal[e] /\ Behind(waiters[e], listen_queue[g], call, g)
          /\ ~dropped[g] => Len(waiters[e]) = Len(listen_queue[g])
      BY <1>2, Zenon DEF IInv, Matched, e
    <3>2. waiters[e] \in Seq(Thread) /\ \A i \in 1..Len(waiters[e]) : waiters[e][i] # t
      BY <1>3, <1>6, <1>8 DEF Listed
    <3>3. Behind(Append(waiters[e], t), Append(listen_queue[g], s), call', g)
      <4> DEFINE wl == waiters[e]
                 ql == listen_queue[g]
      <4>1. call' = [call EXCEPT ![t] = Connect(s, g)]
        BY <1>4, SMTT(30) DEF Calling, k
      <4>2. wl \in Seq(Thread) /\ ql \in Seq(allocated) /\ Behind(wl, ql, call, g)
            /\ \A i \in 1..Len(wl) : wl[i] # t
        BY <1>15, <3>1, <3>2, Zenon
      <4> HIDE DEF wl, ql
      <4>3. Behind(Append(wl, t), Append(ql, s), call', g)
        BY <1>1, <1>3, <4>1, <4>2, BehindAppend, ZenonT(60)
      <4> QED BY <4>3 DEF wl, ql
    <3>4. Len(waiters'[e]) = Len(waiters[e]) + 1
      BY <1>12, <3>2, SMTT(30)
    <3> QED BY <1>1, <1>6, <1>12, <1>14, <1>15, <2>1, <3>1, <3>3, <3>4, ZenonT(60) DEF e
  <2>2. CASE x # g
    <3>1. /\ waiters'[<<"listener_accepted", x>>] = waiters[<<"listener_accepted", x>>]
          /\ has_signal'[<<"listener_accepted", x>>] = has_signal[<<"listener_accepted", x>>]
      BY <1>7, <1>12, <1>14, <2>2, Zenon
    <3>2. /\ Behind(waiters[<<"listener_accepted", x>>], listen_queue[x], call', x)
          /\ ~has_signal[<<"listener_accepted", x>>]
          /\ ~dropped[x] => Len(waiters[<<"listener_accepted", x>>]) = Len(listen_queue[x])
      BY <1>4, <1>8, MatchedKept, Zenon DEF Calling
    <3> QED BY <1>1, <1>15, <2>2, <3>1, <3>2
  <2> QED BY <2>1, <2>2, Zenon
<1>18. Paired'
  <2>1. ASSUME NEW u \in Thread, u # t, call[u].op = "connect", Listed(waiters, u), ~Listed(waiters', u)
        PROVE  FALSE
    <3>1. u = Head(waiters[a]) /\ waiters[a] # <<>>
      BY <1>9, <1>11, <2>1, Zenon
    <3>2. call[u] # NoCall /\ Awaits(call[u]) = a /\ call[u] \in Call
      BY <1>3, <1>6, <3>1, WakesWhom, Zenon
    <3>3. call[u].op = "accept"
      BY <1>2, <3>2, AwaitsWhat, AcceptFacts, ZenonT(60) DEF a
    <3> QED BY <2>1, <3>3, ZenonT(60)
  <2>2. \A u \in Thread : u # t /\ call[u].op = "connect" /\ ~dropped[call[u].target]
                                /\ Listed(waiters, u) /\ ~Listed(waiters', u) =>
          paired_socket'[call[u].sock] # NULL
    BY <2>1
  <2>3. k.op # "read" /\ Listed(waiters', t) /\ call' = [call EXCEPT ![t] = k]
    BY <1>4, <1>5, <1>11 DEF Calling
  <2> QED BY <1>1, <2>2, <2>3, PairedKept, Zenon
<1>19. Fresh'
  BY <1>1 DEF IInv, Fresh
<1>20. NoLostRequest'
  <2>1. Enough(waiters, call, "listener_arrived", listen_queue, {})
    BY <1>3, EnoughNow, SMTT(30) DEF IInv
  <2>2. waiters'[<<"listener_arrived", g>>] # <<>> => waiters[<<"listener_arrived", g>>] # <<>>
    BY <1>6, <1>9, <1>12, SMTT(30) DEF a
  <2>3. waiters[<<"listener_arrived", g>>] # <<>> =>
          Cardinality(Roused(waiters', call', <<"listener_arrived", g>>)) =
          Cardinality(Roused(waiters, call, <<"listener_arrived", g>>)) + 1
    BY <1>9, <1>13 DEF a
  <2>4. \A x \in Socket : x # g =>
          /\ waiters'[<<"listener_arrived", x>>] = waiters[<<"listener_arrived", x>>]
          /\ Roused(waiters', call', <<"listener_arrived", x>>) =
               Roused(waiters, call, <<"listener_arrived", x>>)
          /\ listen_queue'[x] = listen_queue[x]
    BY <1>7, <1>9, <1>12, <1>13, <1>15, Zenon
  <2>5. Arrives("listener_arrived", waiters, call, listen_queue, waiters', call', listen_queue', g)
    BY <1>15, <2>2, <2>3, <2>4, ZenonT(60) DEF Arrives
  <2>6. Enough(waiters', call', "listener_arrived", listen_queue', {})
    BY <1>2, <2>1, <2>5, EnoughMore
  <2> QED BY <1>11, <2>6, EnoughNext
<1>21. NoLostPacket'
  <2>1. Enough(waiters, call, "data_ready", incoming, divided)
    BY <1>3, EnoughNow DEF IInv
  <2>2. \A x \in Socket :
          /\ waiters'[<<"data_ready", x>>] = waiters[<<"data_ready", x>>]
          /\ Roused(waiters', call', <<"data_ready", x>>) = Roused(waiters, call, <<"data_ready", x>>)
    BY <1>7, <1>9, <1>12, <1>13, ZenonT(60)
  <2>3. Enough(waiters', call', "data_ready", incoming, divided)
    BY <2>1, <2>2, SMTT(30) DEF Enough
  <2> QED BY <1>1, <1>11, <2>3, EnoughNext
<1> QED BY <1>11, <1>16, <1>17, <1>18, <1>19, <1>20, <1>21 DEF IInv

\* accept, called or resumed.
LEMMA AcceptStep ==
    ASSUME IInv, NEW t \in Thread, NEW s \in Socket, ~Listed(waiters, t),
           call[t] = NoCall \/ call[t] = Accept(s), unix_socket_accept(t, s),
           UNCHANGED <<bound, capacity, incoming, buffer, dropped, divided>>
    PROVE  IInv'
<1>1. CASE accept_waits(t, s)
  BY <1>1, AcceptWaitsStep
<1>2. CASE /\ listen_queue[s] # <<>>
           /\ accept_pairs(t, s, Head(listen_queue[s]), Tail(listen_queue[s]))
  BY <1>2, AcceptPairsStep, SMTT(30)
<1> QED BY <1>1, <1>2 DEF unix_socket_accept

\* read, called or resumed.
LEMMA ReadStep ==
    ASSUME IInv, NEW t \in Thread, NEW s \in Socket, NEW n \in ReadSize, ~Listed(waiters, t),
           call[t] = NoCall \/ Awaits(call[t]) = <<"data_ready", s>>, paired_socket[s] # NULL,
           unix_socket_read(t, s, n),
           UNCHANGED <<allocated, bound, capacity, listen_queue, paired_socket, dropped>>
    PROVE  IInv'
<1>1. CASE ReadWaits(t, s, n)
  BY <1>1, ReadWaitsStep
<1>2. CASE /\ incoming[s] # <<>> /\ read_takes(t, s, n)
           /\ call' = [call EXCEPT ![t] = NoCall] /\ UNCHANGED event_vars
  BY <1>2, ReadTakesStep, ZenonT(60)
<1> QED BY <1>1, <1>2 DEF unix_socket_read, ReadWaits

\* The calls that resume, and what they were made with.
LEMMA Resumed ==
    ASSUME IInv, NEW t \in Thread
    PROVE  /\ Ready(t) \/ Woken(t) => ~Listed(waiters, t)
           /\ AcceptResumes(t) => call[t].sock \in Socket /\ call[t] = Accept(call[t].sock)
           /\ ReadResumes(t) => /\ call[t].sock \in Socket /\ call[t].size \in ReadSize
                                /\ Awaits(call[t]) = <<"data_ready", call[t].sock>>
                                /\ paired_socket[call[t].sock] # NULL
<1>1. call[t] \in Call
  BY DEF IInv, TypeOK
<1>2. Ready(t) \/ Woken(t) => ~Listed(waiters, t)
  BY ActorNotListed, SMTT(30)
<1>3. AcceptResumes(t) => call[t].sock \in Socket /\ call[t] = Accept(call[t].sock)
  BY <1>1, CallFields DEF AcceptResumes
<1>4. ASSUME ReadResumes(t)
      PROVE  /\ call[t].sock \in Socket /\ call[t].size \in ReadSize
             /\ Awaits(call[t]) = <<"data_ready", call[t].sock>>
             /\ paired_socket[call[t].sock] # NULL
  <2>1. call[t].op = "read"
    BY <1>4 DEF ReadResumes
  <2>2. call[t].sock \in Socket /\ call[t].size \in ReadSize
    BY <1>1, <2>1, CallFields
  <2>3. Awaits(call[t]) = <<"data_ready", call[t].sock>>
    BY <2>1 DEF Awaits
  <2>4. paired_socket[call[t].sock] # NULL
    BY <2>1 DEF IInv, Paired
  <2> QED BY <2>2, <2>3, <2>4
<1> QED BY <1>2, <1>3, <1>4

\* Every step preserves the invariant.
LEMMA NextIInv == IInv /\ [Next]_vars => IInv'
<1> SUFFICES ASSUME IInv, [Next]_vars PROVE IInv'
  OBVIOUS
<1>1. CASE UNCHANGED vars
  <2>1. UNCHANGED <<allocated, bound, capacity, listen_queue, paired_socket, incoming, has_signal,
                    waiters, call, buffer, dropped, divided>>
    BY <1>1 DEF vars, event_vars
  <2>2. TypeOK' /\ Waiting(waiters, call)' /\ Matched' /\ Paired' /\ Fresh'
    BY <2>1, Zenon DEF IInv, TypeOK, Matched, Paired, Fresh
  <2>3. NoLostRequest' /\ NoLostPacket'
    BY <2>1, EnoughNow, EnoughNext DEF IInv, TypeOK
  <2> QED BY <2>2, <2>3 DEF IInv
<1>2. ASSUME NEW t \in Thread, SyscallSocket(t) PROVE IInv'
  BY <1>2, SocketStep
<1>3. ASSUME NEW t \in Thread, ConnectReturns(t) PROVE IInv'
  BY <1>3, ConnectReturnsStep
<1>4. ASSUME NEW t \in Thread, AcceptResumes(t) PROVE IInv'
  <2>1. call[t].sock \in Socket /\ call[t] = Accept(call[t].sock) /\ ~Listed(waiters, t)
    BY <1>4, Resumed, Zenon DEF AcceptResumes
  <2> QED BY <1>4, <2>1, AcceptStep, ZenonT(60) DEF AcceptResumes
<1>5. ASSUME NEW t \in Thread, ReadResumes(t) PROVE IInv'
  <2>1. /\ call[t].sock \in Socket /\ call[t].size \in ReadSize /\ ~Listed(waiters, t)
        /\ Awaits(call[t]) = <<"data_ready", call[t].sock>> /\ paired_socket[call[t].sock] # NULL
    BY <1>5, Resumed DEF ReadResumes
  <2> QED BY <1>5, <2>1, ReadStep, ZenonT(60) DEF ReadResumes
<1>6. ASSUME NEW t \in Thread, NEW s \in Socket, NEW path \in Path, SyscallBind(t, s, path)
      PROVE  IInv'
  BY <1>6, BindStep
<1>7. ASSUME NEW t \in Thread, NEW s \in Socket, NEW path \in Path, SyscallConnect(t, s, path)
      PROVE  IInv'
  BY <1>7, ConnectStep
<1>8. ASSUME NEW t \in Thread, NEW s \in Socket, NEW n \in Capacity, SyscallListen(t, s, n)
      PROVE  IInv'
  BY <1>8, ListenStep
<1>9. ASSUME NEW t \in Thread, NEW s \in Socket, SyscallAccept(t, s) PROVE IInv'
  BY <1>9, Resumed, AcceptStep, Zenon DEF SyscallAccept, Ready
<1>10. ASSUME NEW t \in Thread, NEW s \in Socket, NEW n \in ReadSize, SyscallRead(t, s, n)
       PROVE  IInv'
  BY <1>10, Resumed, ReadStep, Zenon DEF SyscallRead, Ready
<1>11. ASSUME NEW t \in Thread, NEW s \in Socket, NEW d \in Data, SyscallWrite(t, s, d) PROVE IInv'
  BY <1>11, WriteStep
<1> QED BY <1>1, <1>2, <1>3, <1>4, <1>5, <1>6, <1>7, <1>8, <1>9, <1>10, <1>11, ZenonT(60) DEF Next

-----------------------------------------------------------------------------
(* The theorems.                                                             *)

\* The inductive invariant holds in every state.
THEOREM Invariance == Spec => []IInv
BY InitIInv, NextIInv, PTL DEF Spec

\* The queued requests of a socket are those of the youngest threads that wait in
\* unix_socket_connect for it to accept, in the same order, and no signal is kept
\* for a later connect.
THEOREM RequestsMatch == Spec => []RequestsAreWaiters
<1>1. IInv => RequestsAreWaiters
  BY MatchedRequests DEF IInv
<1> QED BY <1>1, Invariance, PTL

\* No request waits in listen_queue while a thread that nobody woke sleeps in
\* unix_socket_accept for it, however invocations coalesced in has_signal.
THEOREM RequestsServed == Spec => []NoLostRequest
<1>1. IInv => NoLostRequest
  BY DEF IInv
<1> QED BY <1>1, Invariance, PTL

\* No packet waits while a thread that nobody woke sleeps in unix_socket_read for
\* it, at a socket where no read has left part of a packet.
THEOREM PacketsServed == Spec => []NoLostPacket
<1>1. IInv => NoLostPacket
  BY DEF IInv
<1> QED BY <1>1, Invariance, PTL

\* A step is the step of one thread, and the only one that ends a connect is
\* ConnectReturns.
LEMMA OneActor ==
    ASSUME IInv, Next
    PROVE  \E t \in Thread : /\ \A u \in Thread : u # t => call'[u] = call[u]
                             /\ call[t].op = "connect" => ConnectReturns(t)
<1>1. call \in [Thread -> Call] /\ NoCall.op # "connect"
  BY AcceptFacts DEF IInv, TypeOK, NoCall
<1>2. ASSUME NEW t \in Thread, NEW k, call' = call \/ call' = [call EXCEPT ![t] = k]
      PROVE  \A u \in Thread : u # t => call'[u] = call[u]
  BY <1>1, <1>2
<1>3. ASSUME NEW t \in Thread, SyscallSocket(t)
      PROVE  call[t] = NoCall /\ call' = call
  BY <1>3 DEF SyscallSocket, Ready
<1>4. ASSUME NEW t \in Thread, ConnectReturns(t)
      PROVE  call' = [call EXCEPT ![t] = NoCall]
  BY <1>4, SMTT(30) DEF ConnectReturns
<1>5. ASSUME NEW t \in Thread, AcceptResumes(t)
      PROVE  call[t].op = "accept" /\ \E k : call' = [call EXCEPT ![t] = k]
  BY <1>5, SMTT(30) DEF AcceptResumes, unix_socket_accept, accept_waits, accept_pairs
<1>6. ASSUME NEW t \in Thread, ReadResumes(t)
      PROVE  call[t].op = "read" /\ \E k : call' = [call EXCEPT ![t] = k]
  BY <1>6 DEF ReadResumes, unix_socket_read
<1>7. ASSUME NEW t \in Thread, NEW s \in Socket, NEW path \in Path, SyscallBind(t, s, path)
      PROVE  call[t] = NoCall /\ call' = call
  BY <1>7 DEF SyscallBind, Ready
<1>8. ASSUME NEW t \in Thread, NEW s \in Socket, NEW path \in Path, SyscallConnect(t, s, path)
      PROVE  call[t] = NoCall /\ (call' = call \/ \E k : call' = [call EXCEPT ![t] = k])
  <2>1. call[t] = NoCall
    BY <1>8 DEF SyscallConnect, request, Ready
  <2>2. PICK e, w, h : await_once(t, e, Connect(s, bound[path]), w, h)
    BY <1>8, Zenon DEF SyscallConnect
  <2> QED BY <2>1, <2>2, ZenonT(60) DEF await_once
<1>9. ASSUME NEW t \in Thread, NEW s \in Socket, NEW n \in Capacity, SyscallListen(t, s, n)
      PROVE  call[t] = NoCall /\ call' = call
  BY <1>9 DEF SyscallListen, Ready
<1>10. ASSUME NEW t \in Thread, NEW s \in Socket, SyscallAccept(t, s)
       PROVE  call[t] = NoCall /\ \E k : call' = [call EXCEPT ![t] = k]
  BY <1>10, SMTT(30) DEF SyscallAccept, Ready, unix_socket_accept, accept_waits, accept_pairs
<1>11. ASSUME NEW t \in Thread, NEW s \in Socket, NEW n \in ReadSize, SyscallRead(t, s, n)
       PROVE  call[t] = NoCall /\ \E k : call' = [call EXCEPT ![t] = k]
  BY <1>11 DEF SyscallRead, Ready, unix_socket_read
<1>12. ASSUME NEW t \in Thread, NEW s \in Socket, NEW d \in Data, SyscallWrite(t, s, d)
       PROVE  call[t] = NoCall /\ call' = call
  BY <1>12 DEF SyscallWrite, send, Ready
<1>13. \E t \in Thread : /\ call' = call \/ \E k : call' = [call EXCEPT ![t] = k]
                         /\ call[t].op = "connect" => ConnectReturns(t)
  BY <1>1, <1>3, <1>4, <1>5, <1>6, <1>7, <1>8, <1>9, <1>10, <1>11, <1>12, SMTT(30) DEF Next
<1> QED BY <1>2, <1>13

\* A connect that returns 0 has been paired by accept, unless listen was called
\* again on its target and threw requests away.
THEOREM ConnectsPaired == Spec => ConnectPaired
<1>1. ASSUME IInv, Next, NEW u \in Thread,
             call[u].op = "connect", call'[u] = NoCall, ~dropped[call[u].target]
      PROVE  paired_socket'[call[u].sock] # NULL
  <2>1. PICK t \in Thread : /\ \A v \in Thread : v # t => call'[v] = call[v]
                            /\ call[t].op = "connect" => ConnectReturns(t)
    BY <1>1, OneActor, Zenon
  <2>2. call[u] # NoCall
    BY <1>1 DEF NoCall
  <2>3. u = t
    BY <1>1, <2>1, <2>2
  <2>4. ConnectReturns(u)
    BY <1>1, <2>1, <2>3, SMTT(30)
  <2>5. ~Listed(waiters, u)
    BY <1>1, <2>4, Resumed DEF ConnectReturns
  <2>6. paired_socket[call[u].sock] # NULL
    BY <1>1, <2>5 DEF IInv, Paired
  <2> QED BY <2>4, <2>6, SMTT(30) DEF ConnectReturns
<1>2. IInv /\ [Next]_vars =>
        [\A t \in Thread :
           call[t].op = "connect" /\ call'[t] = NoCall /\ ~dropped[call[t].target]
               => paired_socket'[call[t].sock] # NULL]_vars
  BY <1>1
<1> QED BY <1>2, Invariance, PTL DEF Spec, ConnectPaired
=============================================================================

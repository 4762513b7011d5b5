------------------------------- MODULE Regions -------------------------------
(***************************************************************************)
(* What an allocator of contiguous space promises its callers, whatever    *)
(* lists and tags it keeps: a region that is handed out lies inside the    *)
(* space, overlaps no region that is still held, and stays with its holder *)
(* until the holder gives it back.  VirtualAllocator and Heap implement it. *)
(***************************************************************************)
EXTENDS Integers

CONSTANT Limit      \* regions lie in 0 .. Limit - 1

VARIABLE live       \* the regions that callers hold

Region == [start: 0 .. Limit, size: 1 .. Limit]

Disjoint(r, s) == r.start + r.size =< s.start \/ s.start + s.size =< r.start

Grantable(r, held) ==
  /\ r \in Region
  /\ r.start + r.size =< Limit
  /\ \A s \in held: Disjoint(r, s)

AtMostOne(S) == \A r, s \in S: r = s

Init == live = {}

\* A call takes a region, gives one back, or exchanges one for another, and
\* then holds both for a while.
Call ==
  /\ AtMostOne(live' \ live)
  /\ AtMostOne(live \ live')
  /\ \A r \in live' \ live: Grantable(r, live)

\* The space ceases to exist, and another one begins.
Reset == live' = {}

Next == Call \/ Reset

Spec == Init /\ [][Next]_live
=============================================================================

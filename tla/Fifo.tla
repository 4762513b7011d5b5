---------------------------------- MODULE Fifo ----------------------------------
(***************************************************************************)
(* What a buffer between a producer and a consumer promises: elements come  *)
(* out once, in the order they went in, and one that does not fit is        *)
(* refused as a whole.                                                       *)
(***************************************************************************)
EXTENDS Naturals, Sequences

CONSTANTS Element, Capacity

VARIABLE queue

Init == queue = <<>>

\* A step puts in as many elements as one interrupt or call brings.
Put ==
  /\ Len(queue') \in Len(queue) + 1 .. Capacity
  /\ SubSeq(queue', 1, Len(queue)) = queue
  /\ \A i \in Len(queue) + 1 .. Len(queue'): queue'[i] \in Element

\* A step takes out as many elements as one call asks for.
Get == \E n \in 1 .. Len(queue): queue' = SubSeq(queue, n + 1, Len(queue))

Next == Put \/ Get

Spec == Init /\ [][Next]_queue
=============================================================================

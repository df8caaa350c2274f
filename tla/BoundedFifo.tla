---------------------------- MODULE BoundedFifo ----------------------------
(***************************************************************************)
(* What the shared library's queue promises (circularQueue.h): a queue of  *)
(* at most Capacity items, first in, first out, that refuses an insertion  *)
(* when it is full and a removal when it is empty and that can be walked   *)
(* from its head.  "returned" is the last call's result and its items.     *)
(***************************************************************************)
EXTENDS Integers, Sequences

CONSTANTS Items,     \* what callers put in
          Capacity   \* the argument of QueueCreate

VARIABLES fifo, returned

Returned(result, items) == [result |-> result, items |-> items]

Init == fifo = <<>> /\ returned = Returned("success", <<>>)

Insert(item) ==
  IF Len(fifo) = Capacity
    THEN returned' = Returned("overflow", <<>>) /\ UNCHANGED fifo
    ELSE returned' = Returned("success", <<>>) /\ fifo' = Append(fifo, item)

Remove ==
  IF fifo = <<>>
    THEN returned' = Returned("not_found", <<>>) /\ UNCHANGED fifo
    ELSE returned' = Returned("success", <<Head(fifo)>>) /\ fifo' = Tail(fifo)

\* The first n items are visited; the action ends the walk or the queue does.
Walk(n) ==
  /\ n <= Len(fifo)
  /\ returned' = Returned("success", SubSeq(fifo, 1, n))
  /\ UNCHANGED fifo

Next ==
  \/ \E item \in Items : Insert(item)
  \/ Remove
  \/ \E n \in 0..Capacity : Walk(n)

Spec == Init /\ [][Next]_<<fifo, returned>>
=============================================================================

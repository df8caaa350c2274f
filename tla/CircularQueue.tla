--------------------------- MODULE CircularQueue ---------------------------
(***************************************************************************)
(* The shared library's queue (assignment_14/sharedLib, circularQueue.c),  *)
(* from which the group manager draws its multicast addresses: an array    *)
(* used as a ring, with m_size kept next to m_head and m_tail because the  *)
(* two indices are equal both when it is empty and when it is full.        *)
(*                                                                         *)
(* Slots are numbered from 0 as in C.  A slot nothing was written to holds *)
(* Garbage: malloc leaves it unset, and no call may give it back.          *)
(***************************************************************************)
EXTENDS Integers, Sequences

CONSTANTS Items, Capacity, Garbage

ASSUME CircularQueueAssumption ==
  /\ Capacity \in Nat \ {0}
  /\ Garbage \notin Items

VARIABLES que,          \* m_que
          size, head, tail,
          returned      \* what the last call gave back

vars == <<que, size, head, tail, returned>>

Slots == 0..Capacity - 1

Returned(result, items) == [result |-> result, items |-> items]

QueueCreate ==
  /\ que = [i \in Slots |-> Garbage]
  /\ size = 0 /\ head = 0 /\ tail = 0
  /\ returned = Returned("success", <<>>)

\* The next index of the ring.
Successor(i) == (i + 1) % Capacity

\* Mutant: the tail moves on before the item is written.
QueueInsert_MoveFirst(item) ==
  IF size = Capacity
    THEN /\ returned' = Returned("overflow", <<>>)
         /\ UNCHANGED <<que, size, head, tail>>
    ELSE /\ tail' = Successor(tail)
         /\ que' = [que EXCEPT ![tail'] = item]
         /\ size' = size + 1
         /\ returned' = Returned("success", <<>>)
         /\ UNCHANGED head

QueueInsert(item) ==
  IF size = Capacity
    THEN /\ returned' = Returned("overflow", <<>>)
         /\ UNCHANGED <<que, size, head, tail>>
    ELSE /\ que' = [que EXCEPT ![tail] = item]
         /\ tail' = Successor(tail)
         /\ size' = size + 1
         /\ returned' = Returned("success", <<>>)
         /\ UNCHANGED head

\* Mutant: the head moves on before the item is read.
QueueRemove_MoveFirst ==
  IF size = 0
    THEN /\ returned' = Returned("not_found", <<>>)
         /\ UNCHANGED <<que, size, head, tail>>
    ELSE /\ head' = Successor(head)
         /\ returned' = Returned("success", <<que[head']>>)
         /\ size' = size - 1
         /\ UNCHANGED <<que, tail>>

QueueRemove ==
  IF size = 0
    THEN /\ returned' = Returned("not_found", <<>>)
         /\ UNCHANGED <<que, size, head, tail>>
    ELSE /\ returned' = Returned("success", <<que[head]>>)
         /\ head' = Successor(head)
         /\ size' = size - 1
         /\ UNCHANGED <<que, tail>>

\* The items at the n slots from the head on.
FromHead(n) == [i \in 1..n |-> que[(head + (i - 1)) % Capacity]]

\* The action is called on n items: it returned 0 on the last of them, or
\* they are all there are.
QueueForEach(n) ==
  /\ n <= size
  /\ n = 0 => size = 0
  /\ returned' = Returned("success", FromHead(n))
  /\ UNCHANGED <<que, size, head, tail>>

Next ==
  \/ \E item \in Items : QueueInsert(item)
  \/ QueueRemove
  \/ \E n \in 0..Capacity : QueueForEach(n)

Spec == QueueCreate /\ [][Next]_vars

-----------------------------------------------------------------------------
\* Properties.

\* Type invariant.
QueueTypeOK ==
  /\ que \in [Slots -> Items \cup {Garbage}]
  /\ size \in 0..Capacity
  /\ head \in Slots /\ tail \in Slots

\* The slots between head and tail, and only they, are in use: m_size says
\* how many they are and each holds an item.  (With head = tail, m_size alone
\* tells a full ring from an empty one.)
RingConsistent ==
  /\ tail = (head + size) % Capacity
  /\ \A i \in 1..size : FromHead(size)[i] \in Items

Contents == FromHead(size)

Fifo == INSTANCE BoundedFifo WITH fifo <- Contents

\* The ring is a bounded FIFO: every call gives back what the sequence of
\* its contents says, however often the indices have wrapped.
ImplementsFifo == Fifo!Spec
=============================================================================

-------------------------- MODULE Containers_proofs --------------------------
(***************************************************************************)
(* Proofs about the containers of the shared library.  The ring of         *)
(* circularQueue.c implements the bounded FIFO, for every capacity and     *)
(* every set of items.  The vector's array always has room for its items,  *)
(* and what a removal gives back leaves a block free.  The list of         *)
(* doubleLinkedList.c, pointer by pointer, implements the sequence with an *)
(* iterator.  The list of singleLinkedlist.c, used by key, stays in order. *)
(* The array of genHeap.c implements the priority queue, and the buckets   *)
(* of HashMap.c the dictionary.                                            *)
(***************************************************************************)
EXTENDS CircularQueue, DoubleLinkedList, SingleList, GenHeap, HashMap,
        SequencesExt, SequenceTheorems, FiniteSetTheorems, WellFoundedInduction, TLAPS

-----------------------------------------------------------------------------
\* The ring.

\* The inductive invariant: the ring's indices are in range and describe
\* its contents.
QueueInv == QueueTypeOK /\ RingConsistent

\* An index counted from a slot wraps at most once.
LEMMA WrapsOnce ==
  ASSUME NEW h \in Slots, NEW j \in 0..Capacity
  PROVE  (h + j) % Capacity =
           IF h + j < Capacity THEN h + j ELSE h + j - Capacity
<1>1. /\ Capacity \in Nat \ {0}
      /\ h \in Int /\ 0 <= h /\ h < Capacity
      /\ j \in Int /\ 0 <= j /\ j <= Capacity
  BY CircularQueueAssumption DEF Slots
<1>2. CASE h + j < Capacity
  BY <1>1, <1>2
<1>3. CASE h + j >= Capacity
  <2>1. h + j = Capacity * 1 + (h + j - Capacity)
    BY <1>1
  <2>2. 0 <= h + j - Capacity /\ h + j - Capacity < Capacity
    BY <1>1, <1>3
  <2> QED
    BY <1>1, <2>1, <2>2, SMTT(20)
<1> QED
  BY <1>1, <1>2, <1>3

\* Indices are slots, and different distances below the capacity lead to
\* different slots.
LEMMA RingIndex ==
  ASSUME NEW h \in Slots
  PROVE  /\ \A j \in 0..Capacity : (h + j) % Capacity \in Slots
         /\ \A j \in 0..Capacity - 1, k \in 0..Capacity - 1 :
              (h + j) % Capacity = (h + k) % Capacity => j = k
         /\ h % Capacity = h
<1>1. Capacity \in Nat \ {0} /\ h \in Int /\ 0 <= h /\ h < Capacity
  BY CircularQueueAssumption DEF Slots
<1>2. ASSUME NEW j \in 0..Capacity
      PROVE  (h + j) % Capacity \in Slots
  <2>1. j \in Int /\ 0 <= j /\ j <= Capacity
    BY <1>1
  <2> QED
    BY <1>1, <2>1, WrapsOnce DEF Slots
<1>3. ASSUME NEW j \in 0..Capacity - 1, NEW k \in 0..Capacity - 1,
             (h + j) % Capacity = (h + k) % Capacity
      PROVE  j = k
  <2>1. /\ j \in Int /\ 0 <= j /\ j < Capacity /\ j \in 0..Capacity
        /\ k \in Int /\ 0 <= k /\ k < Capacity /\ k \in 0..Capacity
    BY <1>1
  <2>2. (h + j) % Capacity =
          IF h + j < Capacity THEN h + j ELSE h + j - Capacity
    BY <2>1, WrapsOnce
  <2>3. (h + k) % Capacity =
          IF h + k < Capacity THEN h + k ELSE h + k - Capacity
    BY <2>1, WrapsOnce
  <2> QED
    BY <1>1, <1>3, <2>1, <2>2, <2>3
<1>4. h % Capacity = h
  <2>1. 0 \in 0..Capacity /\ h + 0 = h
    BY <1>1
  <2>2. (h + 0) % Capacity = h
    BY <1>1, <2>1, WrapsOnce
  <2> QED
    BY <2>1, <2>2
<1> QED
  BY <1>2, <1>3, <1>4

\* Going one step and then j more is going j + 1 steps.
LEMMA StepsAdd ==
  ASSUME NEW h \in Slots, NEW j \in 0..Capacity - 1
  PROVE  (Successor(h) + j) % Capacity = (h + (j + 1)) % Capacity
<1>1. /\ Capacity \in Nat \ {0}
      /\ h \in Int /\ 0 <= h /\ h < Capacity
      /\ j \in Int /\ 0 <= j /\ j < Capacity
      /\ j \in 0..Capacity /\ j + 1 \in 0..Capacity /\ 1 \in 0..Capacity
  BY CircularQueueAssumption DEF Slots
<1>2. /\ Successor(h) = IF h + 1 < Capacity THEN h + 1 ELSE h + 1 - Capacity
      /\ Successor(h) \in Slots
  BY <1>1, WrapsOnce, RingIndex DEF Successor
<1>3. (Successor(h) + j) % Capacity =
        IF Successor(h) + j < Capacity
          THEN Successor(h) + j ELSE Successor(h) + j - Capacity
  BY <1>1, <1>2, WrapsOnce
<1>4. (h + (j + 1)) % Capacity =
        IF h + (j + 1) < Capacity THEN h + (j + 1) ELSE h + (j + 1) - Capacity
  BY <1>1, WrapsOnce
<1> QED
  BY <1>1, <1>2, <1>3, <1>4

\* What an index of the contents stands for.
LEMMA ContentsFacts ==
  ASSUME QueueInv
  PROVE  /\ size \in Nat /\ size <= Capacity
         /\ Contents \in Seq(Items)
         /\ Len(Contents) = size
         /\ \A i \in 1..size :
              /\ i - 1 \in 0..Capacity - 1
              /\ Contents[i] = que[(head + (i - 1)) % Capacity]
<1>1. Capacity \in Nat \ {0} /\ size \in Nat /\ size <= Capacity
  BY CircularQueueAssumption DEF QueueInv, QueueTypeOK
<1>2. \A i \in 1..size : i - 1 \in 0..Capacity - 1
  BY <1>1
<1>3. /\ Contents = [i \in 1..size |-> que[(head + (i - 1)) % Capacity]]
      /\ \A i \in 1..size : Contents[i] \in Items
  BY DEF QueueInv, RingConsistent, Contents, FromHead
<1> QED
  BY <1>1, <1>2, <1>3

-----------------------------------------------------------------------------
\* One lemma per operation: it keeps the invariant and is, on the contents,
\* the FIFO's operation.

LEMMA CreateRefines == QueueCreate => QueueInv /\ Fifo!Init
<1> SUFFICES ASSUME QueueCreate
             PROVE  QueueInv /\ Fifo!Init
  OBVIOUS
<1>1. Capacity \in Nat \ {0} /\ 0 \in Slots /\ 0 % Capacity = 0
  BY CircularQueueAssumption, RingIndex DEF Slots
<1>2. size = 0 /\ head = 0 /\ tail = 0 /\ que = [i \in Slots |-> Garbage]
  BY DEF QueueCreate
<1>3. QueueInv
  BY <1>1, <1>2 DEF QueueInv, QueueTypeOK, RingConsistent
<1>4. Contents = <<>>
  BY <1>2 DEF Contents, FromHead
<1>5. returned = Fifo!Returned("success", <<>>)
  BY DEF QueueCreate, Returned, Fifo!Returned
<1> QED
  BY <1>3, <1>4, <1>5 DEF Fifo!Init

LEMMA InsertRefines ==
  ASSUME QueueInv, NEW item \in Items, QueueInsert(item)
  PROVE  QueueInv' /\ Fifo!Insert(item)
<1>1. /\ Capacity \in Nat \ {0} /\ size \in Nat /\ size <= Capacity
      /\ head \in Slots /\ tail \in Slots
      /\ que \in [Slots -> Items \cup {Garbage}]
      /\ tail = (head + size) % Capacity
  BY CircularQueueAssumption DEF QueueInv, QueueTypeOK, RingConsistent
<1>2. CASE size = Capacity
  <2>1. UNCHANGED <<que, size, head, tail>>
    BY <1>2 DEF QueueInsert
  <2>2. QueueInv' /\ Contents' = Contents
    BY <2>1 DEF QueueInv, QueueTypeOK, RingConsistent, Contents, FromHead
  <2>3. returned' = Fifo!Returned("overflow", <<>>)
    BY <1>2 DEF QueueInsert, Returned, Fifo!Returned
  <2> QED
    BY <1>2, <2>2, <2>3, ContentsFacts DEF Fifo!Insert
<1>3. CASE size # Capacity
  <2>1. /\ que' = [que EXCEPT ![tail] = item]
        /\ tail' = Successor(tail)
        /\ size' = size + 1
        /\ head' = head
        /\ returned' = Returned("success", <<>>)
    BY <1>3 DEF QueueInsert
  <2>2. size \in 0..Capacity - 1 /\ size' \in 0..Capacity
    BY <1>1, <1>3, <2>1
  <2>3. tail' = (head + (size + 1)) % Capacity /\ tail' \in Slots
    <3>1. 0 \in 0..Capacity - 1 /\ 1 \in 0..Capacity
      BY <1>1
    <3>2. Successor(tail) \in Slots
      BY <1>1, <3>1, RingIndex DEF Successor
    <3>3. Successor(tail) = (head + (size + 1)) % Capacity
      <4>1. /\ head \in Int /\ 0 <= head /\ head < Capacity
            /\ size \in Int /\ 0 <= size /\ size < Capacity
            /\ size \in 0..Capacity /\ size + 1 \in 0..Capacity
        BY <1>1, <2>2 DEF Slots
      <4>2. tail = IF head + size < Capacity
                     THEN head + size ELSE head + size - Capacity
        BY <1>1, <4>1, WrapsOnce
      <4>3. Successor(tail) =
              IF tail + 1 < Capacity THEN tail + 1 ELSE tail + 1 - Capacity
        BY <1>1, <3>1, WrapsOnce DEF Successor
      <4>4. (head + (size + 1)) % Capacity =
              IF head + (size + 1) < Capacity
                THEN head + (size + 1) ELSE head + (size + 1) - Capacity
        BY <1>1, <4>1, WrapsOnce
      <4> QED
        BY <1>1, <4>1, <4>2, <4>3, <4>4
    <3> QED
      BY <2>1, <3>2, <3>3
  <2>4. que' \in [Slots -> Items \cup {Garbage}]
    BY <1>1, <2>1
  <2>5. ASSUME NEW i \in 1..size + 1
        PROVE  que'[(head + (i - 1)) % Capacity] =
                 IF i <= size THEN que[(head + (i - 1)) % Capacity] ELSE item
    <3>1. i - 1 \in 0..Capacity - 1 /\ i - 1 \in 0..Capacity
      BY <1>1, <2>2
    <3>2. (head + (i - 1)) % Capacity \in Slots
      BY <1>1, <3>1, RingIndex
    <3>3. i <= size => (head + (i - 1)) % Capacity # tail
      <4>1. (head + (i - 1)) % Capacity = tail => i - 1 = size
        BY <1>1, <2>2, <3>1, RingIndex
      <4>2. i <= size => i - 1 # size
        BY <1>1
      <4> QED
        BY <4>1, <4>2
    <3>4. ~(i <= size) => (head + (i - 1)) % Capacity = tail
      <4>1. ~(i <= size) => i - 1 = size
        BY <1>1
      <4> QED
        BY <1>1, <4>1
    <3> QED
      BY <1>1, <2>1, <3>2, <3>3, <3>4
  <2>6. Contents' = [i \in 1..size + 1 |->
                       IF i <= size THEN Contents[i] ELSE item]
    <3>1. Contents' = [i \in 1..size + 1 |->
                         que'[(head + (i - 1)) % Capacity]]
      BY <2>1 DEF Contents, FromHead
    <3>2. \A i \in 1..size + 1 :
            que'[(head + (i - 1)) % Capacity] =
              IF i <= size THEN Contents[i] ELSE item
      <4>1. \A i \in 1..size + 1 : i <= size => i \in 1..size
        BY <1>1
      <4> QED
        BY <2>5, <4>1, ContentsFacts
    <3> QED
      BY <3>1, <3>2
  <2>7. Contents' = Append(Contents, item)
    <3>1. Contents \in Seq(Items) /\ Len(Contents) = size
      BY ContentsFacts
    <3>2. /\ Append(Contents, item) \in Seq(Items)
          /\ Len(Append(Contents, item)) = size + 1
          /\ \A i \in 1..size + 1 :
               Append(Contents, item)[i] =
                 IF i <= size THEN Contents[i] ELSE item
      BY <3>1, AppendProperties
    <3>3. Contents' \in Seq(Items) /\ Len(Contents') = size + 1
      <4>1. \A i \in 1..size + 1 : Contents'[i] \in Items
        BY <2>6, <3>1, <3>2, ElementOfSeq
      <4>2. Contents' \in [1..size + 1 -> Items]
        BY <2>6, <4>1
      <4> QED
        BY <1>1, <4>2
    <3> QED
      BY <2>6, <3>2, <3>3, SeqEqual
  <2>8. \A i \in 1..size' : FromHead(size)'[i] \in Items
    <3>1. \A i \in 1..size : Contents[i] \in Items
      BY DEF QueueInv, RingConsistent, Contents
    <3>2. \A i \in 1..size + 1 : Contents'[i] \in Items
      <4>1. \A i \in 1..size + 1 : i <= size => i \in 1..size
        BY <1>1
      <4> QED
        BY <2>6, <3>1, <4>1
    <3> QED
      BY <2>1, <3>2 DEF Contents
  <2>9. QueueInv'
    BY <1>1, <2>1, <2>2, <2>3, <2>4, <2>8
    DEF QueueInv, QueueTypeOK, RingConsistent
  <2>10. Len(Contents) # Capacity
    BY <1>3, ContentsFacts
  <2>11. returned' = Fifo!Returned("success", <<>>)
    BY <2>1 DEF Returned, Fifo!Returned
  <2> QED
    BY <2>7, <2>9, <2>10, <2>11 DEF Fifo!Insert
<1> QED
  BY <1>2, <1>3

LEMMA RemoveRefines ==
  ASSUME QueueInv, QueueRemove
  PROVE  QueueInv' /\ Fifo!Remove
<1>1. /\ Capacity \in Nat \ {0} /\ size \in Nat /\ size <= Capacity
      /\ head \in Slots /\ tail \in Slots
      /\ que \in [Slots -> Items \cup {Garbage}]
      /\ tail = (head + size) % Capacity
  BY CircularQueueAssumption DEF QueueInv, QueueTypeOK, RingConsistent
<1>2. CASE size = 0
  <2>1. UNCHANGED <<que, size, head, tail>>
    BY <1>2 DEF QueueRemove
  <2>2. QueueInv' /\ Contents' = Contents
    BY <2>1 DEF QueueInv, QueueTypeOK, RingConsistent, Contents, FromHead
  <2>3. returned' = Fifo!Returned("not_found", <<>>)
    BY <1>2 DEF QueueRemove, Returned, Fifo!Returned
  <2>4. Contents = <<>>
    BY <1>2, ContentsFacts, EmptySeq
  <2> QED
    BY <2>2, <2>3, <2>4 DEF Fifo!Remove
<1>3. CASE size # 0
  <2>1. /\ returned' = Returned("success", <<que[head]>>)
        /\ head' = Successor(head)
        /\ size' = size - 1
        /\ UNCHANGED <<que, tail>>
    BY <1>3 DEF QueueRemove
  <2>2. /\ size' \in 0..Capacity /\ size' \in Nat /\ size - 1 \in 0..Capacity - 1
        /\ size \in Nat \ {0}
    BY <1>1, <1>3, <2>1
  <2>3. head' \in Slots
    <3>1. 1 \in 0..Capacity
      BY <1>1
    <3> QED
      BY <1>1, <2>1, <3>1, RingIndex DEF Successor
  <2>4. tail' = (head' + size') % Capacity
    <3>1. (Successor(head) + (size - 1)) % Capacity =
            (head + ((size - 1) + 1)) % Capacity
      BY <1>1, <2>2, StepsAdd
    <3>2. (size - 1) + 1 = size
      BY <1>1
    <3> QED
      BY <1>1, <2>1, <3>1, <3>2
  <2>5. Contents' = [i \in 1..size - 1 |-> Contents[i + 1]]
    <3>1. Contents' = [i \in 1..size - 1 |->
                         que[(Successor(head) + (i - 1)) % Capacity]]
      BY <2>1 DEF Contents, FromHead
    <3>2. ASSUME NEW i \in 1..size - 1
          PROVE  que[(Successor(head) + (i - 1)) % Capacity] = Contents[i + 1]
      <4>1. /\ i - 1 \in 0..Capacity - 1 /\ i + 1 \in 1..size
            /\ (i - 1) + 1 = i /\ (i + 1) - 1 = i
        BY <1>1
      <4>2. (Successor(head) + (i - 1)) % Capacity = (head + i) % Capacity
        BY <1>1, <4>1, StepsAdd
      <4>3. Contents[i + 1] = que[(head + ((i + 1) - 1)) % Capacity]
        BY <4>1, ContentsFacts
      <4> QED
        BY <4>1, <4>2, <4>3
    <3> QED
      BY <3>1, <3>2
  <2>6. /\ Contents \in Seq(Items) /\ Len(Contents) = size
        /\ Contents # <<>>
    BY <1>3, ContentsFacts, EmptySeq
  <2>7. \A i \in 1..size - 1 : Contents'[i] \in Items
    <3>1. \A i \in 1..size - 1 : i + 1 \in 1..size
      BY <1>1
    <3> QED
      BY <2>5, <2>6, <3>1, ElementOfSeq
  <2>8. Contents' = Tail(Contents)
    <3>1. /\ Tail(Contents) \in Seq(Items)
          /\ Len(Tail(Contents)) = size - 1
          /\ \A i \in 1..size - 1 : Tail(Contents)[i] = Contents[i + 1]
      BY <2>6, HeadTailProperties
    <3>2. Contents' \in Seq(Items) /\ Len(Contents') = size - 1
      <4>1. Contents' \in [1..size - 1 -> Items]
        BY <2>5, <2>7
      <4> QED
        BY <2>1, <2>2, <4>1
    <3> QED
      BY <2>5, <3>1, <3>2, SeqEqual
  <2>9. Head(Contents) = que[head]
    <3>1. 1 \in 1..size /\ head + (1 - 1) = head
      BY <1>1, <2>2 DEF Slots
    <3>2. Contents[1] = que[head]
      BY <1>1, <3>1, ContentsFacts, RingIndex
    <3> QED
      BY <2>6, <3>2
  <2>10. QueueInv'
    <3>1. \A i \in 1..size' : FromHead(size)'[i] \in Items
      BY <2>1, <2>7 DEF Contents
    <3> QED
      BY <1>1, <2>1, <2>2, <2>3, <2>4, <3>1
      DEF QueueInv, QueueTypeOK, RingConsistent
  <2>11. returned' = Fifo!Returned("success", <<Head(Contents)>>)
    BY <2>1, <2>9 DEF Returned, Fifo!Returned
  <2> QED
    BY <2>6, <2>8, <2>10, <2>11 DEF Fifo!Remove
<1> QED
  BY <1>2, <1>3

LEMMA ForEachRefines ==
  ASSUME QueueInv, NEW n \in 0..Capacity, QueueForEach(n)
  PROVE  QueueInv' /\ Fifo!Walk(n)
<1>1. /\ UNCHANGED <<que, size, head, tail>> /\ n <= size
      /\ returned' = Returned("success", FromHead(n))
  BY DEF QueueForEach
<1>2. QueueInv' /\ Contents' = Contents
  BY <1>1 DEF QueueInv, QueueTypeOK, RingConsistent, Contents, FromHead
<1>3. FromHead(n) = SubSeq(Contents, 1, n)
  <2>1. /\ n \in Nat /\ n \in Int /\ size \in Nat
        /\ Contents \in Seq(Items) /\ Len(Contents) = size
    BY ContentsFacts, CircularQueueAssumption
  <2>2. \A i \in 1..n : i \in 1..size
    BY <1>1, <2>1
  <2>3. \A i \in 1..n : Contents[i] \in Items
    BY <2>1, <2>2, ElementOfSeq
  <2>4. FromHead(n) = [i \in 1..n |-> Contents[i]]
    BY <2>2, ContentsFacts DEF FromHead
  <2>5. FromHead(n) \in Seq(Items) /\ Len(FromHead(n)) = n
    <3>1. FromHead(n) \in [1..n -> Items]
      BY <2>3, <2>4
    <3> QED
      BY <2>1, <3>1
  <2>6. /\ SubSeq(Contents, 1, n) \in Seq(Items)
        /\ Len(SubSeq(Contents, 1, n)) = n
        /\ \A i \in 1..n : SubSeq(Contents, 1, n)[i] = Contents[i]
    BY <2>1, <2>3, SubSeqProperties
  <2> QED
    BY <2>4, <2>5, <2>6, SeqEqual
<1>4. n <= Len(Contents)
  BY <1>1, ContentsFacts
<1>5. returned' = Fifo!Returned("success", SubSeq(Contents, 1, n))
  BY <1>1, <1>3 DEF Returned, Fifo!Returned
<1> QED
  BY <1>2, <1>4, <1>5 DEF Fifo!Walk

-----------------------------------------------------------------------------
\* Every step keeps the invariant and is a step of the FIFO or a stutter.
LEMMA StepRefines ==
  QueueInv /\ [Next]_vars => QueueInv' /\ [Fifo!Next]_<<Contents, returned>>
<1> SUFFICES ASSUME QueueInv, [Next]_vars
             PROVE  QueueInv' /\ [Fifo!Next]_<<Contents, returned>>
  OBVIOUS
<1>1. ASSUME NEW item \in Items, QueueInsert(item)
      PROVE  QueueInv' /\ Fifo!Next
  BY <1>1, InsertRefines DEF Fifo!Next
<1>2. ASSUME QueueRemove
      PROVE  QueueInv' /\ Fifo!Next
  BY <1>2, RemoveRefines DEF Fifo!Next
<1>3. ASSUME NEW n \in 0..Capacity, QueueForEach(n)
      PROVE  QueueInv' /\ Fifo!Next
  BY <1>3, ForEachRefines DEF Fifo!Next
<1>4. CASE UNCHANGED vars
  <2>1. UNCHANGED <<que, size, head, tail, returned>>
    BY <1>4 DEF vars
  <2> QED
    BY <2>1 DEF QueueInv, QueueTypeOK, RingConsistent, Contents, FromHead
<1> QED
  BY <1>1, <1>2, <1>3, <1>4 DEF Next

\* Indices and contents of the ring stay consistent under any sequence of
\* QueueInsert, QueueRemove and QueueForEach.
THEOREM RingAlwaysConsistent == Spec => [](QueueTypeOK /\ RingConsistent)
<1>1. QueueCreate => QueueInv
  BY CreateRefines
<1>2. QueueInv /\ [Next]_vars => QueueInv'
  BY StepRefines
<1>3. QueueInv => QueueTypeOK /\ RingConsistent
  BY DEF QueueInv
<1> QED
  BY <1>1, <1>2, <1>3, PTL DEF Spec

\* circularQueue.c is a bounded FIFO: every call gives back what the
\* sequence of the ring's contents says, for every capacity.
THEOREM RingImplementsFifo == Spec => ImplementsFifo
<1>1. QueueCreate => QueueInv /\ Fifo!Init
  BY CreateRefines
<1>2. QueueInv /\ [Next]_vars => QueueInv' /\ [Fifo!Next]_<<Contents, returned>>
  BY StepRefines
<1> QED
  BY <1>1, <1>2, PTL DEF Spec, ImplementsFifo, Fifo!Spec

-----------------------------------------------------------------------------
\* The vector.  The inductive invariant: the array is a whole number of
\* blocks longer than it was created, and its slots below the size have been
\* written.

InBlocks(v) ==
  \E k \in Nat : v.capacity = v.original + k * v.block

VectorOK(v) ==
  /\ v = [data |-> v.data, size |-> v.size, capacity |-> v.capacity,
          original |-> v.original, block |-> v.block]
  /\ v.size \in Nat /\ v.capacity \in Nat
  /\ v.original \in Nat /\ v.block \in Nat
  /\ v.size <= v.capacity
  /\ v.data \in [0..v.capacity - 1 -> VectorItems \cup {Unset}]
  /\ \A n \in 0..v.size - 1 : v.data[n] \in VectorItems
  /\ InBlocks(v)

VectorInv == VectorOK(vector)

-----------------------------------------------------------------------------
\* The steps a vector is changed by.

LEMMA VectorUpdates ==
  ASSUME NEW v, VectorOK(v), NEW data, NEW many, NEW capacity
  PROVE  /\ [v EXCEPT !.capacity = capacity, !.data = data]
              = [data |-> data, size |-> v.size, capacity |-> capacity,
                 original |-> v.original, block |-> v.block]
         /\ [v EXCEPT !.data = data, !.size = many]
              = [data |-> data, size |-> many, capacity |-> v.capacity,
                 original |-> v.original, block |-> v.block]
         /\ [v EXCEPT !.data = data]
              = [data |-> data, size |-> v.size, capacity |-> v.capacity,
                 original |-> v.original, block |-> v.block]
<1>1. v = [data |-> v.data, size |-> v.size, capacity |-> v.capacity,
           original |-> v.original, block |-> v.block]
  BY DEF VectorOK
<1> QED
  <2> DEFINE filled == [v EXCEPT !.data = data]
             sized == [v EXCEPT !.capacity = capacity]
  <2>1. filled = [data |-> data, size |-> v.size, capacity |-> v.capacity,
                  original |-> v.original, block |-> v.block]
    BY <1>1
  <2>2. sized = [data |-> v.data, size |-> v.size, capacity |-> capacity,
                 original |-> v.original, block |-> v.block]
    BY <1>1
  <2>3. [v EXCEPT !.data = data, !.size = many] = [filled EXCEPT !.size = many]
    OBVIOUS
  <2>4. [v EXCEPT !.capacity = capacity, !.data = data]
          = [sized EXCEPT !.data = data]
    OBVIOUS
  <2>5. [v EXCEPT !.data = data] = filled
    OBVIOUS
  <2> HIDE DEF filled, sized
  <2>6. [filled EXCEPT !.size = many]
          = [data |-> data, size |-> many, capacity |-> v.capacity,
             original |-> v.original, block |-> v.block]
    BY <2>1
  <2>7. [sized EXCEPT !.data = data]
          = [data |-> data, size |-> v.size, capacity |-> capacity,
             original |-> v.original, block |-> v.block]
    BY <2>2
  <2> QED
    BY <2>1, <2>3, <2>4, <2>5, <2>6, <2>7

\* An array that is made longer by a block keeps its items.
LEMMA Grows ==
  ASSUME NEW v, VectorOK(v)
  PROVE  /\ VectorOK(Reallocated(v, v.capacity + v.block))
         /\ Reallocated(v, v.capacity + v.block).size = v.size
         /\ Reallocated(v, v.capacity + v.block).capacity = v.capacity + v.block
         /\ Reallocated(v, v.capacity + v.block).original = v.original
         /\ Reallocated(v, v.capacity + v.block).block = v.block
<1> DEFINE capacity == v.capacity + v.block
           data == [n \in 0..capacity - 1 |->
                      IF n < v.capacity THEN v.data[n] ELSE Unset]
           w == Reallocated(v, capacity)
<1>1. w = [data |-> data, size |-> v.size, capacity |-> capacity,
           original |-> v.original, block |-> v.block]
  <2>1. w = [v EXCEPT !.capacity = capacity, !.data = data]
    BY DEF Reallocated
  <2> HIDE DEF w, capacity, data
  <2> QED
    BY <2>1, VectorUpdates
<1>2. capacity \in Nat /\ v.capacity <= capacity
  BY DEF VectorOK
<1>3. data \in [0..capacity - 1 -> VectorItems \cup {Unset}]
  BY <1>2 DEF VectorOK
<1>4. \A n \in 0..v.size - 1 : data[n] \in VectorItems
  BY <1>2 DEF VectorOK
<1>5. \E k \in Nat : capacity = v.original + k * v.block
  <2>1. PICK k \in Nat : v.capacity = v.original + k * v.block
    BY DEF VectorOK, InBlocks
  <2>2. (k + 1) * v.block = k * v.block + v.block
    BY <2>1 DEF VectorOK
  <2>3. k * v.block \in Nat
    BY <2>1 DEF VectorOK
  <2>4. k + 1 \in Nat /\ v.original \in Nat /\ v.block \in Nat
    BY <2>1 DEF VectorOK
  <2>5. capacity = v.original + (k + 1) * v.block
    <3> DEFINE blocks == k * v.block
               more == (k + 1) * v.block
    <3>1. /\ v.capacity = v.original + blocks /\ more = blocks + v.block
          /\ blocks \in Nat
      BY <2>1, <2>2, <2>3
    <3> HIDE DEF blocks, more
    <3>2. v.capacity + v.block = v.original + more
      BY <2>4, <3>1
    <3> QED
      BY <3>2 DEF more
  <2> QED
    BY <2>4, <2>5
<1> HIDE DEF capacity, data, w
<1>6. VectorOK(w)
  BY <1>1, <1>2, <1>3, <1>4, <1>5 DEF VectorOK, InBlocks
<1> QED
  BY <1>1, <1>6 DEF w, capacity

\* A vector that shrinks has a block left over what it was created with.
LEMMA ShrinkBounds ==
  ASSUME NEW v, VectorOK(v), Shrinks(v)
  PROVE  /\ v.capacity - v.block \in Nat
         /\ v.capacity - v.block >= v.original
         /\ v.capacity - v.block >= v.size + v.block
         /\ \E k \in Nat : v.capacity - v.block = v.original + k * v.block
<1>1. PICK k \in Nat : v.capacity = v.original + k * v.block
  BY DEF VectorOK, InBlocks
<1>2. k # 0
  BY <1>1 DEF VectorOK, Shrinks
<1>3. k - 1 \in Nat /\ (k - 1) * v.block \in Nat
  BY <1>1, <1>2 DEF VectorOK
<1>4. (k - 1) * v.block = k * v.block - v.block
  BY <1>1 DEF VectorOK
<1>5. k * v.block \in Nat
  BY <1>1 DEF VectorOK
<1>6. v.capacity - v.block = v.original + (k - 1) * v.block
  BY <1>1, <1>3, <1>4, <1>5 DEF VectorOK
<1>7. /\ v.size \in Nat /\ v.capacity \in Nat /\ v.original \in Nat /\ v.block \in Nat
      /\ v.capacity - v.size >= 2 * v.block
  BY DEF VectorOK, Shrinks
<1>8. v.capacity - v.block >= v.size + v.block
  BY <1>7
<1>9. v.capacity - v.block \in Nat
  BY <1>7, <1>8
<1>10. v.capacity - v.block >= v.original
  <2> DEFINE blocks == (k - 1) * v.block
  <2>1. blocks \in Nat /\ v.capacity - v.block = v.original + blocks
    BY <1>3, <1>6
  <2> HIDE DEF blocks
  <2> QED
    BY <1>7, <2>1
<1> QED
  BY <1>3, <1>6, <1>8, <1>9, <1>10

\* Shrinking cuts no item off.
LEMMA ShrinkKeeps ==
  ASSUME NEW v, VectorOK(v), NEW enough \in BOOLEAN
  PROVE  /\ VectorOK(VectorShrink(v, enough))
         /\ VectorShrink(v, enough).size = v.size
         /\ VectorShrink(v, enough).original = v.original
         /\ VectorShrink(v, enough).block = v.block
         /\ VectorShrink(v, enough).capacity # v.capacity =>
              /\ v.block > 0
              /\ VectorShrink(v, enough).capacity >= v.size + v.block
              /\ VectorShrink(v, enough).capacity >= v.original
<1>1. CASE ~(Shrinks(v) /\ enough)
  BY <1>1 DEF VectorShrink
<1>2. CASE Shrinks(v) /\ enough
  <2> DEFINE capacity == v.capacity - v.block
             data == [n \in 0..capacity - 1 |->
                        IF n < v.capacity THEN v.data[n] ELSE Unset]
             w == VectorShrink(v, enough)
  <2>1. w = [data |-> data, size |-> v.size, capacity |-> capacity,
             original |-> v.original, block |-> v.block]
    BY <1>2 DEF VectorShrink, Reallocated, VectorOK
  <2>2. /\ capacity \in Nat /\ capacity >= v.original
        /\ capacity >= v.size + v.block
        /\ \E k \in Nat : capacity = v.original + k * v.block
    BY <1>2, ShrinkBounds
  <2>3. v.block > 0 /\ capacity <= v.capacity
    BY <1>2 DEF Shrinks, VectorOK
  <2>4. data \in [0..capacity - 1 -> VectorItems \cup {Unset}]
    BY <2>2, <2>3 DEF VectorOK
  <2>5. v.size <= capacity
    BY <2>2, <2>3 DEF VectorOK
  <2>6. \A n \in 0..v.size - 1 : data[n] \in VectorItems
    BY <2>2, <2>3, <2>5 DEF VectorOK
  <2> HIDE DEF capacity, data, w
  <2>7. VectorOK(w)
    BY <2>1, <2>2, <2>4, <2>5, <2>6 DEF VectorOK, InBlocks
  <2> QED
    BY <2>1, <2>2, <2>3, <2>7 DEF w
<1> QED
  BY <1>1, <1>2

\* An item put behind the others, where there is room.
LEMMA ItemFits ==
  ASSUME NEW v, VectorOK(v), v.size < v.capacity, NEW item \in VectorItems
  PROVE  /\ VectorOK(WithItem(v, item))
         /\ WithItem(v, item).capacity = v.capacity
<1> DEFINE data == [v.data EXCEPT ![v.size] = item]
           w == WithItem(v, item)
<1>1. w = [data |-> data, size |-> v.size + 1, capacity |-> v.capacity,
           original |-> v.original, block |-> v.block]
  <2>1. w = [v EXCEPT !.data = data, !.size = v.size + 1]
    BY DEF WithItem
  <2> HIDE DEF w, data
  <2> QED
    BY <2>1, VectorUpdates
<1>2. data \in [0..v.capacity - 1 -> VectorItems \cup {Unset}]
  BY DEF VectorOK
<1>3. \A n \in 0..(v.size + 1) - 1 : data[n] \in VectorItems
  BY DEF VectorOK
<1>4. v.size + 1 \in Nat /\ v.size + 1 <= v.capacity
  BY DEF VectorOK
<1>5. InBlocks(v) /\ v.capacity \in Nat /\ v.original \in Nat /\ v.block \in Nat
  BY DEF VectorOK
<1> HIDE DEF data, w
<1>6. VectorOK(w)
  BY <1>1, <1>2, <1>3, <1>4, <1>5 DEF VectorOK, InBlocks
<1> QED
  BY <1>1, <1>6 DEF w

LEMMA AppendKeeps ==
  ASSUME NEW v, VectorOK(v), NEW item \in VectorItems, NEW enough \in BOOLEAN,
         AppendCode(v, enough) = "success"
  PROVE  /\ VectorOK(Appended(v, item))
         /\ Appended(v, item).capacity \in Nat
         /\ Appended(v, item).capacity >= v.capacity
<1>1. CASE ~IsFull(v)
  <2>1. v.size < v.capacity
    BY <1>1 DEF IsFull, VectorOK
  <2> QED
    BY <1>1, <2>1, ItemFits DEF Appended, VectorOK
<1>2. CASE IsFull(v)
  <2> DEFINE longer == Reallocated(v, v.capacity + v.block)
  <2>1. v.block > 0 /\ v.size = v.capacity
    BY <1>2 DEF IsFull, AppendCode, VectorOK
  <2>2. /\ VectorOK(longer) /\ longer.size = v.size
        /\ longer.capacity = v.capacity + v.block
    BY Grows
  <2>3. longer.size < longer.capacity
    BY <2>1, <2>2 DEF VectorOK
  <2>4. Appended(v, item) = WithItem(longer, item)
    BY <1>2 DEF Appended
  <2> HIDE DEF longer
  <2>5. /\ VectorOK(WithItem(longer, item))
        /\ WithItem(longer, item).capacity = longer.capacity
    BY <2>2, <2>3, ItemFits
  <2> QED
    BY <2>1, <2>2, <2>4, <2>5 DEF VectorOK
<1> QED
  BY <1>1, <1>2

LEMMA RemoveKeeps ==
  ASSUME NEW v, VectorOK(v), v.size # 0, NEW enough \in BOOLEAN
  PROVE  /\ VectorOK(Removed(v, enough))
         /\ Removed(v, enough).capacity # v.capacity =>
              /\ Removed(v, enough).capacity
                   >= Removed(v, enough).size + v.block
              /\ Removed(v, enough).capacity > 0
              /\ Removed(v, enough).capacity >= v.original
<1> DEFINE u == [v EXCEPT !.size = @ - 1]
<1>1. u = [data |-> v.data, size |-> v.size - 1, capacity |-> v.capacity,
           original |-> v.original, block |-> v.block]
  BY DEF VectorOK
<1>2. v.size - 1 \in Nat /\ v.size - 1 <= v.capacity
  BY DEF VectorOK
<1>3. \A n \in 0..(v.size - 1) - 1 : v.data[n] \in VectorItems
  BY DEF VectorOK
<1>4. /\ InBlocks(v) /\ v.capacity \in Nat /\ v.original \in Nat /\ v.block \in Nat
      /\ v.data \in [0..v.capacity - 1 -> VectorItems \cup {Unset}]
  BY DEF VectorOK
<1>5. Removed(v, enough) = VectorShrink(u, enough)
  BY DEF Removed
<1> HIDE DEF u
<1>6. VectorOK(u) /\ u.capacity = v.capacity
  BY <1>1, <1>2, <1>3, <1>4 DEF VectorOK, InBlocks
<1>10. u.block = v.block /\ u.original = v.original
  BY <1>1
<1> DEFINE w == VectorShrink(u, enough)
<1>7. /\ VectorOK(w) /\ w.size = u.size /\ w.original = u.original
      /\ w.block = u.block
      /\ w.capacity # u.capacity =>
           /\ u.block > 0 /\ w.capacity >= u.size + u.block
           /\ w.capacity >= u.original
  BY <1>6, ShrinkKeeps
<1> HIDE DEF w
<1>8. u.size \in Nat /\ u.block \in Nat /\ w.capacity \in Nat
  BY <1>6, <1>7 DEF VectorOK
<1>9. w.capacity # v.capacity =>
        w.capacity >= w.size + v.block /\ w.capacity > 0 /\ w.capacity >= v.original
  BY <1>6, <1>7, <1>8, <1>10
<1> QED
  BY <1>5, <1>7, <1>9 DEF w

LEMMA SetKeeps ==
  ASSUME NEW v, VectorOK(v), NEW index \in 0..v.size - 1, NEW item \in VectorItems
  PROVE  /\ VectorOK([v EXCEPT !.data[index] = item])
         /\ [v EXCEPT !.data[index] = item].capacity = v.capacity
<1> DEFINE data == [v.data EXCEPT ![index] = item]
           w == [v EXCEPT !.data[index] = item]
<1>1. w = [data |-> data, size |-> v.size, capacity |-> v.capacity,
           original |-> v.original, block |-> v.block]
  <2>1. w = [v EXCEPT !.data = data]
    OBVIOUS
  <2> HIDE DEF w, data
  <2> QED
    BY <2>1, VectorUpdates
<1>2. data \in [0..v.capacity - 1 -> VectorItems \cup {Unset}]
  BY DEF VectorOK
<1>3. \A n \in 0..v.size - 1 : data[n] \in VectorItems
  BY DEF VectorOK
<1>4. /\ InBlocks(v) /\ v.size \in Nat /\ v.capacity \in Nat
      /\ v.original \in Nat /\ v.block \in Nat /\ v.size <= v.capacity
  BY DEF VectorOK
<1> HIDE DEF data, w
<1>5. VectorOK(w)
  BY <1>1, <1>2, <1>3, <1>4 DEF VectorOK, InBlocks
<1> QED
  BY <1>1, <1>5 DEF w

-----------------------------------------------------------------------------
\* The invariant.

LEMMA CreateEstablishes == VectorCreate => VectorInv
<1> SUFFICES ASSUME VectorCreate PROVE VectorInv
  OBVIOUS
<1>1. PICK capacity \in InitialCapacities, block \in BlockSizes :
        vector = Created(capacity, block)
  BY DEF VectorCreate
<1>2. capacity \in Nat /\ block \in Nat
  BY <1>1, DynamicVectorAssumption
<1>3. capacity = capacity + 0 * block
  BY <1>2
<1> QED
  BY <1>1, <1>2, <1>3 DEF VectorInv, VectorOK, InBlocks, Created

\* What a step keeps, and what it says of a capacity that shrinks.
RoomLeft ==
  vector'.capacity < vector.capacity =>
    /\ vector'.capacity >= vector'.size + vector.block
    /\ vector'.capacity > 0
    /\ vector'.capacity >= vector.original

LEMMA StepKeeps ==
  ASSUME VectorInv, [VectorNext]_vectorVars
  PROVE  VectorInv' /\ RoomLeft
<1> USE DEF VectorInv, RoomLeft
<1>0. vector.capacity \in Nat /\ vector.size \in Nat
  BY DEF VectorOK
<1>1. ASSUME NEW item \in VectorItems, NEW enough \in BOOLEAN,
             VectorAppend(item, enough)
      PROVE  VectorInv' /\ RoomLeft
  <2>1. CASE AppendCode(vector, enough) = "success"
    <3>1. vector' = Appended(vector, item)
      BY <1>1, <2>1 DEF VectorAppend
    <3>2. /\ VectorOK(Appended(vector, item))
          /\ Appended(vector, item).capacity \in Nat
          /\ Appended(vector, item).capacity >= vector.capacity
      BY <2>1, AppendKeeps
    <3> QED
      BY <1>0, <3>1, <3>2
  <2>2. CASE AppendCode(vector, enough) # "success"
    BY <1>0, <1>1, <2>2 DEF VectorAppend
  <2> QED
    BY <2>1, <2>2
<1>2. ASSUME NEW enough \in BOOLEAN, VectorRemove(enough)
      PROVE  VectorInv' /\ RoomLeft
  <2>1. CASE vector.size = 0
    BY <1>0, <1>2, <2>1 DEF VectorRemove
  <2>2. CASE vector.size # 0
    <3>1. vector' = Removed(vector, enough)
      BY <1>2, <2>2 DEF VectorRemove
    <3> QED
      BY <1>0, <2>2, <3>1, RemoveKeeps
  <2> QED
    BY <2>1, <2>2
<1>3. ASSUME NEW index \in 0..MostSlots, VectorGet(index)
      PROVE  VectorInv' /\ RoomLeft
  BY <1>0, <1>3 DEF VectorGet
<1>4. ASSUME NEW index \in 0..MostSlots, NEW item \in VectorItems,
             VectorSet(index, item)
      PROVE  VectorInv' /\ RoomLeft
  <2>1. CASE index >= vector.size
    BY <1>0, <1>4, <2>1 DEF VectorSet
  <2>2. CASE ~(index >= vector.size)
    <3>1. vector' = [vector EXCEPT !.data[index] = item]
      BY <1>4, <2>2 DEF VectorSet
    <3>2. index \in 0..vector.size - 1
      BY <1>0, <2>2
    <3> QED
      BY <1>0, <3>1, <3>2, SetKeeps
  <2> QED
    BY <2>1, <2>2
<1>5. ASSUME StackTop
      PROVE  VectorInv' /\ RoomLeft
  BY <1>0, <1>5 DEF StackTop
<1>6. ASSUME UNCHANGED vectorVars
      PROVE  VectorInv' /\ RoomLeft
  BY <1>0, <1>6 DEF vectorVars
<1> QED
  BY <1>1, <1>2, <1>3, <1>4, <1>5, <1>6 DEF VectorNext

LEMMA VectorInvariant == VectorSpec => []VectorInv
<1>1. VectorInv /\ [VectorNext]_vectorVars => VectorInv'
  BY StepKeeps
<1> QED
  BY CreateEstablishes, <1>1, PTL DEF VectorSpec

-----------------------------------------------------------------------------
\* The theorems.

\* No realloc, for whatever sizes the vector was created with, cuts an item
\* off, and none of the calls uses a slot that was never written.
THEOREM ItemsStayInArray == VectorSpec => []ItemsInArray
<1>1. VectorInv => ItemsInArray
  BY DynamicVectorAssumption DEF VectorInv, VectorOK, ItemsInArray
<1> QED
  BY <1>1, VectorInvariant, PTL

\* Memory is given back only when a whole block stays free, and never below
\* the size the vector was created with.
THEOREM ShrinkingLeavesRoom == VectorSpec => ShrinkLeavesRoom
<1>1. VectorInv /\ [VectorNext]_vectorVars => [RoomLeft]_vectorVars
  BY StepKeeps
<1>2. VectorSpec => [][RoomLeft]_vectorVars
  BY <1>1, VectorInvariant, PTL DEF VectorSpec
<1> QED
  BY <1>2 DEF ShrinkLeavesRoom, RoomLeft

-----------------------------------------------------------------------------
\* Induction: a set of natural numbers has a least one.
LEMMA LeastNatural ==
  ASSUME NEW T, T \subseteq Nat, T # {}
  PROVE  \E k \in T : \A j \in T : k <= j
<1> DEFINE R == OpToRel(<, Nat)
<1>1. IsWellFoundedOn(R, Nat)
  BY NatLessThanWellFounded
<1>2. \A j, k \in Nat : j < k => <<j, k>> \in R
  BY DEF OpToRel
<1> HIDE DEF R
<1>3. PICK k \in T : \A j \in T : <<j, k>> \notin R
  BY <1>1, WFMin
<1>4. ASSUME NEW j \in T
      PROVE  k <= j
  <2>1. k \in Nat /\ j \in Nat
    OBVIOUS
  <2>2. ~(j < k)
    BY <1>2, <1>3, <2>1
  <2> QED
    BY <2>1, <2>2
<1> QED
  BY <1>4

-----------------------------------------------------------------------------
\* The list.  Its nodes m are a chain at[0], ..., at[n + 1] from the head to
\* the tail, forwards and backwards.

NodeRecord == [data : ListItems \cup {NoData}, next : Pointers, prev : Pointers]

Chained(m, used, at, n) ==
  /\ n \in 0..Cardinality(Nodes)
  /\ at \in [0..n + 1 -> Pointers]
  /\ at[0] = HeadNode /\ at[n + 1] = TailNode
  /\ \A i \in 1..n : at[i] \in Nodes
  /\ \A i, j \in 0..n + 1 : at[i] = at[j] => i = j
  /\ used = {at[i] : i \in 1..n}
  /\ m \in [Pointers -> NodeRecord]
  /\ \A i \in 0..n : m[at[i]].next = at[i + 1] /\ m[at[i + 1]].prev = at[i]
  /\ m[TailNode].next = TailNode /\ m[HeadNode].prev = HeadNode
  /\ \A i \in 1..n : m[at[i]].data \in ListItems

\* The inductive invariant.
ListAt(at, n, i) ==
  Chained(node, allocated, at, n) /\ i \in 0..n + 1 /\ itr = at[i]

ListInv == \E n \in Nat : \E at \in [0..n + 1 -> Pointers] : \E i \in 0..n + 1 :
             ListAt(at, n, i)

Data(m, at, n) == [j \in 1..n |-> m[at[j]].data]

LEMMA NodesCount == Cardinality(Nodes) \in Nat
  BY DoubleLinkedListAssumption, FS_CardinalityType

\* Following the pointers from a node of the chain.
LEMMA Walk ==
  ASSUME NEW m, NEW used, NEW at, NEW n, Chained(m, used, at, n), NEW i \in 0..n + 1
  PROVE  \A k \in 1..Cardinality(Nodes) + 2 :
           NodesFrom(m, at[i])[k] = at[IF i + k - 1 <= n THEN i + k - 1 ELSE n + 1]
<1> DEFINE K == 1..Cardinality(Nodes) + 2
           place(k) == IF i + k - 1 <= n THEN i + k - 1 ELSE n + 1
           chain == [k \in K |-> at[place(k)]]
           walk == NodesFrom(m, at[i])
<1>1. /\ Cardinality(Nodes) \in Nat /\ n \in Nat /\ i \in Nat /\ i <= n + 1
      /\ \A k \in K : k \in Nat /\ k >= 1 /\ (k # 1 => k - 1 \in K)
  BY NodesCount DEF Chained
<1>2. \A k \in K : chain[k] = IF k = 1 THEN at[i] ELSE m[chain[k - 1]].next
  <2> SUFFICES ASSUME NEW k \in K
               PROVE  chain[k] = IF k = 1 THEN at[i] ELSE m[chain[k - 1]].next
    OBVIOUS
  <2>1. CASE k = 1
    <3>1. place(1) = i
      BY <1>1
    <3> QED
      BY <2>1, <3>1
  <2>2. CASE k # 1
    <3>1. k - 1 \in K /\ k \in Nat
      BY <1>1, <2>2
    <3>2. chain[k - 1] = at[place(k - 1)] /\ chain[k] = at[place(k)]
      BY <3>1
    <3>3. CASE i + k - 2 <= n
      <4>1. place(k - 1) = i + k - 2 /\ place(k) = i + k - 1
        BY <1>1, <3>1, <3>3
      <4>2. i + k - 2 \in 0..n /\ (i + k - 2) + 1 = i + k - 1
        BY <1>1, <3>1, <3>3
      <4>3. m[at[i + k - 2]].next = at[i + k - 1]
        BY <4>2 DEF Chained
      <4> QED
        BY <2>2, <3>2, <4>1, <4>3
    <3>4. CASE ~(i + k - 2 <= n)
      <4>1. place(k - 1) = n + 1 /\ place(k) = n + 1
        BY <1>1, <3>1, <3>4
      <4>2. m[at[n + 1]].next = at[n + 1]
        BY DEF Chained
      <4> QED
        BY <2>2, <3>2, <4>1, <4>2
    <3> QED
      BY <3>3, <3>4
  <2> QED
    BY <2>1, <2>2
<1>3. chain = [k \in K |-> IF k = 1 THEN at[i] ELSE m[chain[k - 1]].next]
  <2>1. \A k \in K : chain[k] = [j \in K |-> IF j = 1 THEN at[i] ELSE m[chain[j - 1]].next][k]
    BY <1>2
  <2> QED
    BY <2>1
<1>4. walk = [k \in K |-> IF k = 1 THEN at[i] ELSE m[walk[k - 1]].next]
  <2> HIDE DEF chain
  <2> QED
    BY <1>3 DEF NodesFrom
<1>5. \A k \in K : walk[k] = IF k = 1 THEN at[i] ELSE m[walk[k - 1]].next
  <2> HIDE DEF walk
  <2> QED
    BY <1>4
<1> HIDE DEF chain, walk
<1>6. \A k \in K : walk[k] = chain[k]
  <2> DEFINE T == {k \in K : walk[k] # chain[k]}
  <2> SUFFICES ASSUME T # {}
               PROVE  FALSE
    OBVIOUS
  <2>1. T \subseteq Nat
    BY <1>1
  <2>2. PICK k \in T : \A j \in T : k <= j
    <3> HIDE DEF T
    <3> QED
      BY <2>1, LeastNatural
  <2>3. k # 1
    BY <1>2, <1>5
  <2>4. k - 1 \in K /\ k - 1 \notin T
    BY <1>1, <2>2, <2>3
  <2> QED
    BY <1>2, <1>5, <2>3, <2>4
<1> QED
  BY <1>6 DEF chain, walk

\* A node's distance is its distance in the chain.
LEMMA Distances ==
  ASSUME NEW m, NEW used, NEW at, NEW n, Chained(m, used, at, n), NEW i \in 0..n + 1
  PROVE  Distance(m, at[i]) = n + 1 - i
<1> DEFINE K == 1..Cardinality(Nodes) + 2
<1>1. /\ Cardinality(Nodes) \in Nat /\ n \in Nat /\ n <= Cardinality(Nodes)
      /\ i \in Nat /\ i <= n + 1 /\ n + 1 - i \in Int
  BY NodesCount DEF Chained
<1>2. \A k \in K : NodesFrom(m, at[i])[k] # TailNode <=> i + k - 1 <= n
  <2> SUFFICES ASSUME NEW k \in K
               PROVE  NodesFrom(m, at[i])[k] # TailNode <=> i + k - 1 <= n
    OBVIOUS
  <2> DEFINE place == IF i + k - 1 <= n THEN i + k - 1 ELSE n + 1
  <2>1. NodesFrom(m, at[i])[k] = at[place]
    BY Walk
  <2>2. k \in Nat /\ k >= 1
    BY <1>1
  <2>3. place \in 0..n + 1 /\ n + 1 \in 0..n + 1
    BY <1>1, <2>2
  <2>4. place = n + 1 <=> ~(i + k - 1 <= n)
    BY <1>1, <2>2
  <2>5. at[place] = TailNode <=> place = n + 1
    <3> HIDE DEF place
    <3> QED
      BY <2>3 DEF Chained
  <2> QED
    BY <2>1, <2>4, <2>5
<1>3. {k \in K : NodesFrom(m, at[i])[k] # TailNode} = 1..n + 1 - i
  <2>1. \A k : k \in K /\ i + k - 1 <= n <=> k \in 1..n + 1 - i
    BY <1>1
  <2> QED
    BY <1>2, <2>1
<1>4. Cardinality(1..n + 1 - i) = n + 1 - i
  BY <1>1, FS_Interval
<1> QED
  BY <1>3, <1>4 DEF Distance

\* What the list holds is what the chain's nodes hold.
LEMMA Reading ==
  ASSUME NEW m, NEW used, NEW at, NEW n, Chained(m, used, at, n)
  PROVE  /\ ListContents(m) = Data(m, at, n)
         /\ Data(m, at, n) \in Seq(ListItems)
         /\ Len(Data(m, at, n)) = n
         /\ \A j \in 1..n : Data(m, at, n)[j] = m[at[j]].data
<1>1. Cardinality(Nodes) \in Nat /\ n \in Nat /\ n <= Cardinality(Nodes)
  BY NodesCount DEF Chained
<1>2. m[HeadNode].next = at[1] /\ 1 \in 0..n + 1
  BY <1>1 DEF Chained
<1>3. Distance(m, at[1]) = n
  BY <1>1, <1>2, Distances
<1>4. \A k \in 1..n : NodesFrom(m, at[1])[k] = at[k]
  <2> SUFFICES ASSUME NEW k \in 1..n
               PROVE  NodesFrom(m, at[1])[k] = at[k]
    OBVIOUS
  <2>1. k \in 1..Cardinality(Nodes) + 2 /\ 1 + k - 1 = k /\ k <= n
    BY <1>1
  <2>2. NodesFrom(m, at[1])[k] = at[IF 1 + k - 1 <= n THEN 1 + k - 1 ELSE n + 1]
    BY <1>2, <2>1, Walk
  <2> QED
    BY <2>1, <2>2
<1>5. ListContents(m) = Data(m, at, n)
  BY <1>2, <1>3, <1>4 DEF ListContents, Data
<1>6. Data(m, at, n) \in [1..n -> ListItems]
  BY DEF Chained, Data
<1>7. Data(m, at, n) \in Seq(ListItems) /\ Len(Data(m, at, n)) = n
  BY <1>1, <1>6
<1> QED
  BY <1>5, <1>7 DEF Data

\* The position of the iterator is its place in the chain.
LEMMA Position ==
  ASSUME NEW m, NEW used, NEW at, NEW n, Chained(m, used, at, n), NEW i \in 0..n + 1
  PROVE  Len(ListContents(m)) + 1 - Distance(m, at[i]) = i
<1>1. Len(ListContents(m)) = n
  BY Reading
<1>2. Distance(m, at[i]) = n + 1 - i
  BY Distances
<1>3. n \in Nat /\ i \in Nat
  BY NodesCount DEF Chained
<1> QED
  BY <1>1, <1>2, <1>3

\* The nodes after new was inserted before p.
Linked(m, p, new, x) ==
  [m EXCEPT ![new] = NodeOf(x, p, m[p].prev),
            ![m[p].prev].next = new,
            ![p].prev = new]

\* A new node before the k-th.
Grown(at, n, k, new) ==
  [j \in 0..n + 2 |-> IF j < k THEN at[j] ELSE IF j = k THEN new ELSE at[j - 1]]

LEMMA SequenceInsertion ==
  ASSUME NEW s \in Seq(ListItems), NEW k \in 1..Len(s) + 1, NEW x \in ListItems
  PROVE  /\ InsertAt(s, k, x) \in Seq(ListItems)
         /\ Len(InsertAt(s, k, x)) = Len(s) + 1
         /\ \A j \in 1..Len(s) + 1 :
              InsertAt(s, k, x)[j] = IF j < k THEN s[j] ELSE IF j = k THEN x ELSE s[j - 1]
<1> DEFINE before == SubSeq(s, 1, k - 1)
           after == SubSeq(s, k, Len(s))
           front == before \o <<x>>
<1>1. Len(s) \in Nat /\ k \in Nat /\ k >= 1 /\ k <= Len(s) + 1
  BY LenProperties
<1>2. /\ before \in Seq(ListItems) /\ Len(before) = k - 1
      /\ \A j \in 1..k - 1 : before[j] = s[j]
  <2>1. k - 1 \in Int /\ \A j \in 1..k - 1 : s[j] \in ListItems
    BY <1>1, ElementOfSeq
  <2>2. /\ before \in Seq(ListItems)
        /\ Len(before) = IF 1 <= k - 1 THEN k - 1 - 1 + 1 ELSE 0
        /\ \A j \in 1..k - 1 - 1 + 1 : before[j] = s[1 + j - 1]
    BY <2>1, SubSeqProperties
  <2> HIDE DEF before
  <2> QED
    BY <1>1, <2>2
<1>3. /\ after \in Seq(ListItems) /\ Len(after) = Len(s) - k + 1
      /\ \A j \in 1..Len(s) - k + 1 : after[j] = s[k + j - 1]
  <2>1. k \in Int /\ Len(s) \in Int /\ \A j \in k..Len(s) : s[j] \in ListItems
    BY <1>1, ElementOfSeq
  <2>2. /\ after \in Seq(ListItems)
        /\ Len(after) = IF k <= Len(s) THEN Len(s) - k + 1 ELSE 0
        /\ \A j \in 1..Len(s) - k + 1 : after[j] = s[k + j - 1]
    BY <2>1, SubSeqProperties
  <2> HIDE DEF after
  <2> QED
    BY <1>1, <2>2
<1> HIDE DEF before, after
<1>4. <<x>> \in Seq(ListItems) /\ Len(<<x>>) = 1 /\ <<x>>[1] = x
  OBVIOUS
<1>5. /\ front \in Seq(ListItems) /\ Len(front) = k
      /\ \A j \in 1..k : front[j] = IF j < k THEN s[j] ELSE x
  <2>1. /\ front \in Seq(ListItems) /\ Len(front) = Len(before) + Len(<<x>>)
        /\ \A j \in 1..Len(before) + Len(<<x>>) :
             front[j] = IF j <= Len(before) THEN before[j] ELSE <<x>>[j - Len(before)]
    BY <1>2, <1>4, ConcatProperties
  <2> HIDE DEF front
  <2> QED
    BY <1>1, <1>2, <1>4, <2>1
<1>6. /\ front \o after \in Seq(ListItems) /\ Len(front \o after) = Len(front) + Len(after)
      /\ \A j \in 1..Len(front) + Len(after) :
           (front \o after)[j] = IF j <= Len(front) THEN front[j] ELSE after[j - Len(front)]
  <2> HIDE DEF front
  <2> QED
    BY <1>3, <1>5, ConcatProperties
<1>7. InsertAt(s, k, x) = front \o after
  BY DEF InsertAt, before, after
<1> HIDE DEF front
<1>8. ASSUME NEW j \in 1..Len(s) + 1
      PROVE  (front \o after)[j] = IF j < k THEN s[j] ELSE IF j = k THEN x ELSE s[j - 1]
  <2>1. CASE j <= k
    BY <1>1, <1>3, <1>5, <1>6, <2>1
  <2>2. CASE ~(j <= k)
    <3>1. (front \o after)[j] = after[j - k]
      BY <1>1, <1>3, <1>5, <1>6, <2>2
    <3>2. j - k \in 1..Len(s) - k + 1 /\ k + (j - k) - 1 = j - 1
      BY <1>1, <2>2
    <3>3. after[j - k] = s[k + (j - k) - 1]
      BY <1>3, <3>2
    <3> QED
      BY <1>1, <2>2, <3>1, <3>2, <3>3
  <2> QED
    BY <2>1, <2>2
<1> QED
  BY <1>1, <1>3, <1>5, <1>6, <1>7, <1>8

LEMMA SequenceRemoval ==
  ASSUME NEW S, NEW s \in Seq(S), NEW k \in 1..Len(s)
  PROVE  /\ RemoveAt(s, k) \in Seq(S)
         /\ Len(RemoveAt(s, k)) = Len(s) - 1
         /\ \A j \in 1..Len(s) - 1 :
              RemoveAt(s, k)[j] = IF j < k THEN s[j] ELSE s[j + 1]
<1> DEFINE before == SubSeq(s, 1, k - 1)
           after == SubSeq(s, k + 1, Len(s))
<1>1. Len(s) \in Nat /\ k \in Nat /\ k >= 1 /\ k <= Len(s)
  BY LenProperties
<1>2. /\ before \in Seq(S) /\ Len(before) = k - 1
      /\ \A j \in 1..k - 1 : before[j] = s[j]
  <2>1. k - 1 \in Int /\ \A j \in 1..k - 1 : s[j] \in S
    BY <1>1, ElementOfSeq
  <2>2. /\ before \in Seq(S)
        /\ Len(before) = IF 1 <= k - 1 THEN k - 1 - 1 + 1 ELSE 0
        /\ \A j \in 1..k - 1 - 1 + 1 : before[j] = s[1 + j - 1]
    BY <2>1, SubSeqProperties
  <2> HIDE DEF before
  <2> QED
    BY <1>1, <2>2
<1>3. /\ after \in Seq(S) /\ Len(after) = Len(s) - k
      /\ \A j \in 1..Len(s) - k : after[j] = s[k + j]
  <2>1. k + 1 \in Int /\ Len(s) \in Int /\ \A j \in k + 1..Len(s) : s[j] \in S
    BY <1>1, ElementOfSeq
  <2>2. /\ after \in Seq(S)
        /\ Len(after) = IF k + 1 <= Len(s) THEN Len(s) - (k + 1) + 1 ELSE 0
        /\ \A j \in 1..Len(s) - (k + 1) + 1 : after[j] = s[k + 1 + j - 1]
    BY <2>1, SubSeqProperties
  <2> HIDE DEF after
  <2>3. \A j \in 1..Len(s) - k : j \in 1..Len(s) - (k + 1) + 1 /\ k + 1 + j - 1 = k + j
    BY <1>1
  <2> QED
    BY <1>1, <2>2, <2>3
<1> HIDE DEF before, after
<1>4. /\ before \o after \in Seq(S)
      /\ Len(before \o after) = Len(before) + Len(after)
      /\ \A j \in 1..Len(before) + Len(after) :
           (before \o after)[j] = IF j <= Len(before) THEN before[j] ELSE after[j - Len(before)]
  BY <1>2, <1>3, ConcatProperties
<1>5. RemoveAt(s, k) = before \o after
  BY DEF RemoveAt, before, after
<1>6. ASSUME NEW j \in 1..Len(s) - 1
      PROVE  (before \o after)[j] = IF j < k THEN s[j] ELSE s[j + 1]
  <2>1. CASE j < k
    BY <1>1, <1>2, <1>3, <1>4, <2>1
  <2>2. CASE ~(j < k)
    <3>1. (before \o after)[j] = after[j - (k - 1)]
      BY <1>1, <1>2, <1>3, <1>4, <2>2
    <3>2. j - (k - 1) \in 1..Len(s) - k /\ k + (j - (k - 1)) = j + 1
      BY <1>1, <2>2
    <3>3. after[j - (k - 1)] = s[k + (j - (k - 1))]
      BY <1>3, <3>2
    <3> QED
      BY <2>2, <3>1, <3>2, <3>3
  <2> QED
    BY <2>1, <2>2
<1>7. Len(before \o after) = Len(s) - 1
  BY <1>1, <1>2, <1>3, <1>4
<1> QED
  BY <1>4, <1>5, <1>6, <1>7

LEMMA Insertion ==
  ASSUME NEW m, NEW used, NEW at, NEW n, Chained(m, used, at, n),
         NEW k \in 1..n + 1, NEW new \in Nodes \ used, NEW x \in ListItems,
         NEW m2, m2 = Linked(m, at[k], new, x)
  PROVE  /\ Chained(m2, used \cup {new}, Grown(at, n, k, new), n + 1)
         /\ Data(m2, Grown(at, n, k, new), n + 1) = InsertAt(Data(m, at, n), k, x)
         /\ n < Cardinality(Nodes)
<1> DEFINE at2 == Grown(at, n, k, new)
<1>1. /\ Cardinality(Nodes) \in Nat /\ n \in Nat
      /\ k \in Nat /\ k >= 1 /\ k <= n + 1
  BY NodesCount DEF Chained
<1>2. /\ at2 \in [0..n + 2 -> Pointers]
      /\ \A j \in 0..n + 2 : /\ j < k => at2[j] = at[j]
                             /\ j > k => at2[j] = at[j - 1]
      /\ at2[k] = new
  <2>1. /\ at \in [0..n + 1 -> Pointers] /\ new \in Pointers
        /\ \A j \in 0..n + 2 : /\ j < k => j \in 0..n + 1
                               /\ j > k => j - 1 \in 0..n + 1
        /\ k \in 0..n + 2
    BY <1>1 DEF Chained, Pointers
  <2> QED
    BY <1>1, <2>1 DEF Grown
<1> HIDE DEF at2
<1>3. \A i \in 0..n + 1 : at[i] # new
  BY <1>1, DoubleLinkedListAssumption DEF Chained
<1>4. /\ at2[0] = HeadNode /\ at2[n + 2] = TailNode
      /\ \A i \in 1..n + 1 : at2[i] \in Nodes
      /\ \A i, j \in 0..n + 2 : at2[i] = at2[j] => i = j
  <2>1. at2[0] = HeadNode /\ at2[n + 2] = TailNode
    <3>1. 0 \in 0..n + 2 /\ 0 < k /\ n + 2 \in 0..n + 2 /\ n + 2 > k /\ (n + 2) - 1 = n + 1
      BY <1>1
    <3>2. at2[0] = at[0] /\ at2[n + 2] = at[(n + 2) - 1]
      BY <1>2, <3>1
    <3> QED
      BY <3>1, <3>2 DEF Chained
  <2>2. ASSUME NEW i \in 1..n + 1
        PROVE  at2[i] \in Nodes
    <3>1. CASE i < k
      BY <1>1, <1>2, <3>1 DEF Chained
    <3>2. CASE i > k
      <4>1. i \in 0..n + 2 /\ i - 1 \in 1..n
        BY <1>1, <3>2
      <4> QED
        BY <1>2, <3>2, <4>1 DEF Chained
    <3> QED
      BY <1>1, <1>2, <3>1, <3>2
  <2>3. ASSUME NEW i \in 0..n + 2, NEW j \in 0..n + 2, at2[i] = at2[j]
        PROVE  i = j
    <3> DEFINE old(h) == IF h < k THEN h ELSE h - 1
    <3>1. \A h \in 0..n + 2 : h # k => at2[h] = at[old(h)] /\ old(h) \in 0..n + 1
      BY <1>1, <1>2
    <3>2. CASE i = k \/ j = k
      BY <1>2, <1>3, <2>3, <3>1, <3>2
    <3>3. CASE i # k /\ j # k
      <4>1. old(i) = old(j)
        BY <2>3, <3>1, <3>3 DEF Chained
      <4> QED
        BY <1>1, <3>3, <4>1
    <3> QED
      BY <3>2, <3>3
  <2> QED
    BY <2>1, <2>2, <2>3
<1>5. n < Cardinality(Nodes)
  <2> DEFINE f == [i \in 1..n + 1 |-> at2[i]]
  <2>1. f \in Injection(1..n + 1, Nodes)
    BY <1>1, <1>4 DEF Injection, IsInjective
  <2>2. Cardinality(1..n + 1) <= Cardinality(Nodes)
    BY <2>1, FS_Injection, DoubleLinkedListAssumption
  <2>3. Cardinality(1..n + 1) = n + 1
    <3>1. n + 1 \in Int /\ 1 \in Int /\ ~(1 > n + 1) /\ (n + 1) - 1 + 1 = n + 1
      BY <1>1
    <3> QED
      BY <3>1, FS_Interval
  <2> QED
    BY <1>1, <2>2, <2>3
<1>6. used \cup {new} = {at2[i] : i \in 1..n + 1}
  <2>1. ASSUME NEW p \in used
        PROVE  \E i \in 1..n + 1 : p = at2[i]
    <3>1. PICK j \in 1..n : p = at[j]
      BY DEF Chained
    <3>2. CASE j < k
      BY <1>1, <1>2, <3>1, <3>2
    <3>3. CASE ~(j < k)
      <4>1. j + 1 \in 1..n + 1 /\ j + 1 > k /\ (j + 1) - 1 = j /\ j + 1 \in 0..n + 2
        BY <1>1, <3>3
      <4> QED
        BY <1>2, <3>1, <4>1
    <3> QED
      BY <3>2, <3>3
  <2>2. new = at2[k] /\ k \in 1..n + 1
    BY <1>2
  <2>3. ASSUME NEW i \in 1..n + 1
        PROVE  at2[i] \in used \cup {new}
    <3>1. CASE i < k
      BY <1>1, <1>2, <3>1 DEF Chained
    <3>2. CASE i > k
      <4>1. i - 1 \in 1..n /\ i \in 0..n + 2
        BY <1>1, <3>2
      <4> QED
        BY <1>2, <3>2, <4>1 DEF Chained
    <3> QED
      BY <1>1, <1>2, <3>1, <3>2
  <2> QED
    BY <2>1, <2>2, <2>3
<1>7. /\ m[at[k]].prev = at[k - 1] /\ at[k - 1] # at[k]
      /\ k - 1 \in 0..n /\ k \in 0..n + 1 /\ k - 1 \in 0..n + 1
      /\ at[k - 1] \in Pointers /\ at[k] \in Pointers /\ new \in Pointers
      /\ at[k - 1] # new /\ at[k] # new
  <2>1. k - 1 \in 0..n /\ (k - 1) + 1 = k /\ k - 1 \in 0..n + 1 /\ k \in 0..n + 1 /\ k # k - 1
    BY <1>1
  <2> QED
    BY <1>3, <2>1 DEF Chained, Pointers
<1>8. /\ m2 \in [Pointers -> NodeRecord]
      /\ m2[new] = NodeOf(x, at[k], at[k - 1])
      /\ \A p \in Pointers \ {new} :
           /\ m2[p].data = m[p].data
           /\ m2[p].next = IF p = at[k - 1] THEN new ELSE m[p].next
           /\ m2[p].prev = IF p = at[k] THEN new ELSE m[p].prev
  <2>1. m2 = [m EXCEPT ![new] = NodeOf(x, at[k], at[k - 1]),
                       ![at[k - 1]].next = new, ![at[k]].prev = new]
    BY <1>7 DEF Linked
  <2>2. m \in [Pointers -> NodeRecord]
    BY DEF Chained
  <2>3. NodeOf(x, at[k], at[k - 1]) \in NodeRecord
    BY <1>7 DEF NodeOf, NodeRecord
  <2>4. m2 \in [Pointers -> NodeRecord]
    BY <1>7, <2>1, <2>2, <2>3 DEF NodeRecord
  <2>5. m2[new] = NodeOf(x, at[k], at[k - 1])
    BY <1>7, <2>1, <2>2, <2>3
  <2>6. ASSUME NEW p \in Pointers \ {new}
        PROVE  /\ m2[p].data = m[p].data
               /\ m2[p].next = IF p = at[k - 1] THEN new ELSE m[p].next
               /\ m2[p].prev = IF p = at[k] THEN new ELSE m[p].prev
    <3>1. CASE p = at[k - 1]
      BY <1>7, <2>1, <2>2, <2>3, <3>1 DEF NodeRecord
    <3>2. CASE p = at[k]
      BY <1>7, <2>1, <2>2, <2>3, <3>2 DEF NodeRecord
    <3>3. CASE p # at[k - 1] /\ p # at[k]
      BY <1>7, <2>1, <2>2, <2>3, <3>3
    <3> QED
      BY <3>1, <3>2, <3>3
  <2> QED
    BY <2>4, <2>5, <2>6
<1>9. m2[new].data = x /\ m2[new].next = at[k] /\ m2[new].prev = at[k - 1]
  <2>1. m2[new] = [data |-> x, next |-> at[k], prev |-> at[k - 1]]
    BY <1>8 DEF NodeOf
  <2> QED
    BY <2>1
<1>10. ASSUME NEW i \in 0..n + 1
       PROVE  m2[at2[i]].next = at2[i + 1] /\ m2[at2[i + 1]].prev = at2[i]
  <2>1. i \in 0..n + 2 /\ i + 1 \in 0..n + 2 /\ i \in Nat
    BY <1>1
  <2>2. CASE i + 1 < k
    <3>1. at2[i] = at[i] /\ at2[i + 1] = at[i + 1] /\ i \in 0..n /\ i + 1 \in 0..n + 1
      BY <1>1, <1>2, <2>1, <2>2
    <3>2. m[at[i]].next = at[i + 1] /\ m[at[i + 1]].prev = at[i]
      BY <3>1 DEF Chained
    <3>3. at[i] # at[k - 1] /\ at[i + 1] # at[k] /\ at[i] \in Pointers \ {new} /\ at[i + 1] \in Pointers \ {new}
      BY <1>1, <1>3, <1>7, <2>2, <3>1 DEF Chained
    <3> QED
      BY <1>8, <3>1, <3>2, <3>3
  <2>3. CASE i + 1 = k
    <3>1. i = k - 1
      BY <1>1, <2>1, <2>3
    <3>2. at2[i] = at[k - 1] /\ at2[i + 1] = new
      BY <1>1, <1>2, <2>1, <2>3, <3>1
    <3>3. m2[at[k - 1]].next = new
      BY <1>7, <1>8
    <3> QED
      BY <1>9, <3>2, <3>3
  <2>4. CASE i = k
    <3>1. at2[i] = new /\ at2[i + 1] = at[k]
      BY <1>1, <1>2, <2>1, <2>4
    <3>2. m2[at[k]].prev = new
      BY <1>7, <1>8
    <3> QED
      BY <1>9, <3>1, <3>2
  <2>5. CASE i > k
    <3>1. at2[i] = at[i - 1] /\ at2[i + 1] = at[i] /\ i - 1 \in 0..n /\ i \in 0..n + 1
          /\ i - 1 \in 0..n + 1 /\ (i - 1) + 1 = i
      BY <1>1, <1>2, <2>1, <2>5
    <3>2. m[at[i - 1]].next = at[i] /\ m[at[i]].prev = at[i - 1]
      BY <3>1 DEF Chained
    <3>3. at[i - 1] # at[k - 1] /\ at[i] # at[k] /\ at[i] \in Pointers \ {new} /\ at[i - 1] \in Pointers \ {new}
      BY <1>1, <1>3, <1>7, <2>5, <3>1 DEF Chained
    <3> QED
      BY <1>8, <3>1, <3>2, <3>3
  <2> QED
    BY <1>1, <2>1, <2>2, <2>3, <2>4, <2>5
<1>11. m2[TailNode].next = TailNode /\ m2[HeadNode].prev = HeadNode
  <2>1. /\ TailNode \in Pointers \ {new} /\ HeadNode \in Pointers \ {new}
        /\ TailNode = at[n + 1] /\ HeadNode = at[0]
        /\ m[TailNode].next = TailNode /\ m[HeadNode].prev = HeadNode
    BY <1>1, <1>3 DEF Chained, Pointers
  <2>2. TailNode # at[k - 1] /\ HeadNode # at[k]
    BY <1>1, <1>7, <2>1 DEF Chained
  <2> QED
    BY <1>8, <2>1, <2>2
<1>12. /\ \A j \in 1..n + 1 : m2[at2[j]].data = IF j < k THEN m[at[j]].data
                                                ELSE IF j = k THEN x ELSE m[at[j - 1]].data
  <2> SUFFICES ASSUME NEW j \in 1..n + 1
               PROVE  m2[at2[j]].data = IF j < k THEN m[at[j]].data
                                        ELSE IF j = k THEN x ELSE m[at[j - 1]].data
    OBVIOUS
  <2>1. CASE j < k
    <3>1. at2[j] = at[j] /\ j \in 0..n + 1
      BY <1>1, <1>2, <2>1
    <3>2. at[j] \in Pointers \ {new}
      BY <1>3, <3>1 DEF Chained
    <3> QED
      BY <1>8, <2>1, <3>1, <3>2
  <2>2. CASE j = k
    BY <1>2, <1>9, <2>2
  <2>3. CASE j > k
    <3>1. at2[j] = at[j - 1] /\ j - 1 \in 0..n + 1 /\ ~(j < k) /\ j # k
      BY <1>1, <1>2, <2>3
    <3>2. at[j - 1] \in Pointers \ {new}
      BY <1>3, <3>1 DEF Chained
    <3> QED
      BY <1>8, <3>1, <3>2
  <2> QED
    BY <1>1, <2>1, <2>2, <2>3
<1>13. \A j \in 1..n + 1 : m2[at2[j]].data \in ListItems
  <2>1. \A j \in 1..n + 1 : (j < k => j \in 1..n) /\ (j > k => j - 1 \in 1..n)
    BY <1>1
  <2>2. \A j \in 1..n : m[at[j]].data \in ListItems
    BY DEF Chained
  <2>3. \A j \in 1..n + 1 : j < k \/ j = k \/ j > k
    BY <1>1
  <2> QED
    BY <1>1, <1>12, <2>1, <2>2, <2>3
<1>14. Chained(m2, used \cup {new}, at2, n + 1)
  <2>1. n + 1 \in 0..Cardinality(Nodes) /\ (n + 1) + 1 = n + 2
    BY <1>1, <1>5
  <2> QED
    BY <1>2, <1>4, <1>6, <1>8, <1>10, <1>11, <1>13, <2>1 DEF Chained
<1>15. Data(m2, at2, n + 1) = InsertAt(Data(m, at, n), k, x)
  <2> DEFINE s == Data(m, at, n)
             t == Data(m2, at2, n + 1)
  <2>1. s \in Seq(ListItems) /\ Len(s) = n /\ \A j \in 1..n : s[j] = m[at[j]].data
    BY Reading
  <2>2. t \in Seq(ListItems) /\ Len(t) = n + 1 /\ \A j \in 1..n + 1 : t[j] = m2[at2[j]].data
    BY <1>14, Reading
  <2> HIDE DEF s, t
  <2>3. /\ InsertAt(s, k, x) \in Seq(ListItems) /\ Len(InsertAt(s, k, x)) = n + 1
        /\ \A j \in 1..n + 1 :
              InsertAt(s, k, x)[j] = IF j < k THEN s[j] ELSE IF j = k THEN x ELSE s[j - 1]
    <3>1. k \in 1..Len(s) + 1
      BY <2>1
    <3> HIDE DEF s
    <3>2. /\ InsertAt(s, k, x) \in Seq(ListItems) /\ Len(InsertAt(s, k, x)) = Len(s) + 1
          /\ \A j \in 1..Len(s) + 1 :
                InsertAt(s, k, x)[j] = IF j < k THEN s[j] ELSE IF j = k THEN x ELSE s[j - 1]
      BY <2>1, <3>1, SequenceInsertion
    <3> QED
      BY <2>1, <3>2
  <2>4. \A j \in 1..n + 1 : t[j] = InsertAt(s, k, x)[j]
    <3> SUFFICES ASSUME NEW j \in 1..n + 1
                 PROVE  t[j] = InsertAt(s, k, x)[j]
      OBVIOUS
    <3>1. t[j] = IF j < k THEN m[at[j]].data ELSE IF j = k THEN x ELSE m[at[j - 1]].data
      BY <1>12, <2>2
    <3>2. (j < k => j \in 1..n) /\ (~(j < k) /\ j # k => j - 1 \in 1..n)
      BY <1>1
    <3>3. InsertAt(s, k, x)[j] = IF j < k THEN s[j] ELSE IF j = k THEN x ELSE s[j - 1]
      BY <2>3
    <3>4. /\ j < k => s[j] = m[at[j]].data
          /\ ~(j < k) /\ j # k => s[j - 1] = m[at[j - 1]].data
      BY <2>1, <3>2
    <3> QED
      BY <3>1, <3>3, <3>4
  <2>5. t = InsertAt(s, k, x)
    BY <2>2, <2>3, <2>4, SeqEqual
  <2> QED
    BY <2>5 DEF s, t
<1> QED
  BY <1>5, <1>14, <1>15 DEF at2

\* The nodes after p was taken out, and the chain without its k-th.
Unlinked(m, p) ==
  [m EXCEPT ![m[p].prev].next = m[p].next,
            ![m[p].next].prev = m[p].prev,
            ![p] = NodeOf(NoData, p, p)]

Shrunk(at, n, k) == [j \in 0..n |-> IF j < k THEN at[j] ELSE at[j + 1]]

LEMMA Removal ==
  ASSUME NEW m, NEW used, NEW at, NEW n, Chained(m, used, at, n),
         NEW k \in 1..n, NEW m2, m2 = Unlinked(m, at[k])
  PROVE  /\ Chained(m2, used \ {at[k]}, Shrunk(at, n, k), n - 1)
         /\ Data(m2, Shrunk(at, n, k), n - 1) = RemoveAt(Data(m, at, n), k)
<1> DEFINE at2 == Shrunk(at, n, k)
           p == at[k]
<1>1. /\ Cardinality(Nodes) \in Nat /\ n \in Nat /\ n <= Cardinality(Nodes)
      /\ k \in Nat /\ k >= 1 /\ k <= n /\ (n - 1) + 1 = n /\ n - 1 \in Nat
  BY NodesCount DEF Chained
<1>2. /\ at2 \in [0..n -> Pointers]
      /\ \A j \in 0..n : /\ j < k => at2[j] = at[j]
                         /\ ~(j < k) => at2[j] = at[j + 1]
  <2>1. /\ at \in [0..n + 1 -> Pointers]
        /\ \A j \in 0..n : j \in 0..n + 1 /\ j + 1 \in 0..n + 1
    BY <1>1 DEF Chained
  <2> QED
    BY <1>1, <2>1 DEF Shrunk
<1> HIDE DEF at2
<1>3. \A j \in 0..n : \E h \in 0..n + 1 :
        /\ at2[j] = at[h] /\ h # k /\ (j < k => h = j) /\ (~(j < k) => h = j + 1)
  <2> SUFFICES ASSUME NEW j \in 0..n
               PROVE  \E h \in 0..n + 1 :
                        /\ at2[j] = at[h] /\ h # k
                        /\ (j < k => h = j) /\ (~(j < k) => h = j + 1)
    OBVIOUS
  <2>1. CASE j < k
    BY <1>1, <1>2, <2>1
  <2>2. CASE ~(j < k)
    <3>1. j + 1 \in 0..n + 1 /\ j + 1 # k
      BY <1>1, <2>2
    <3> QED
      BY <1>2, <2>2, <3>1
  <2> QED
    BY <2>1, <2>2
<1>4. /\ at2[0] = HeadNode /\ at2[n] = TailNode
      /\ \A i \in 1..n - 1 : at2[i] \in Nodes
      /\ \A i, j \in 0..n : at2[i] = at2[j] => i = j
  <2>1. at2[0] = HeadNode
    BY <1>1, <1>2 DEF Chained
  <2>2. at2[n] = TailNode
    BY <1>1, <1>2 DEF Chained
  <2>3. ASSUME NEW i \in 1..n - 1
        PROVE  at2[i] \in Nodes
    <3>1. i \in 0..n /\ i \in 1..n /\ i + 1 \in 1..n
      BY <1>1
    <3> QED
      BY <1>2, <3>1 DEF Chained
  <2>4. ASSUME NEW i \in 0..n, NEW j \in 0..n, at2[i] = at2[j]
        PROVE  i = j
    <3>1. PICK h \in 0..n + 1 : /\ at2[i] = at[h] /\ h # k
                                /\ (i < k => h = i) /\ (~(i < k) => h = i + 1)
      BY <1>3
    <3>2. PICK g \in 0..n + 1 : /\ at2[j] = at[g] /\ g # k
                                /\ (j < k => g = j) /\ (~(j < k) => g = j + 1)
      BY <1>3
    <3>3. h = g
      BY <2>4, <3>1, <3>2 DEF Chained
    <3> QED
      BY <1>1, <3>1, <3>2, <3>3
  <2> QED
    BY <2>1, <2>2, <2>3, <2>4
<1>5. used \ {p} = {at2[i] : i \in 1..n - 1}
  <2>1. ASSUME NEW q \in used \ {p}
        PROVE  \E i \in 1..n - 1 : q = at2[i]
    <3>1. PICK j \in 1..n : q = at[j] /\ j # k
      BY DEF Chained
    <3>2. CASE j < k
      <4>1. j \in 1..n - 1 /\ j \in 0..n
        BY <1>1, <3>2
      <4> QED
        BY <1>2, <3>1, <3>2, <4>1
    <3>3. CASE ~(j < k)
      <4>1. j - 1 \in 1..n - 1 /\ ~(j - 1 < k) /\ (j - 1) + 1 = j /\ j - 1 \in 0..n
        BY <1>1, <3>1, <3>3
      <4> QED
        BY <1>2, <3>1, <4>1
    <3> QED
      BY <3>2, <3>3
  <2>2. ASSUME NEW i \in 1..n - 1
        PROVE  at2[i] \in used \ {p}
    <3>1. i \in 0..n /\ i \in 1..n /\ i + 1 \in 1..n /\ k \in 0..n + 1
      BY <1>1
    <3>2. PICK h \in 0..n + 1 : /\ at2[i] = at[h] /\ h # k
                                /\ (i < k => h = i) /\ (~(i < k) => h = i + 1)
      BY <1>3, <3>1
    <3>3. h \in 1..n
      BY <3>1, <3>2
    <3>4. at[h] \in used /\ at[h] # p
      BY <3>1, <3>2, <3>3 DEF Chained
    <3> QED
      BY <3>2, <3>4
  <2> QED
    BY <2>1, <2>2
<1>6. /\ m[p].prev = at[k - 1] /\ m[p].next = at[k + 1]
      /\ k - 1 \in 0..n + 1 /\ k \in 0..n + 1 /\ k + 1 \in 0..n + 1
      /\ at[k - 1] \in Pointers /\ p \in Pointers /\ at[k + 1] \in Pointers
      /\ at[k - 1] # p /\ at[k + 1] # p /\ at[k - 1] # at[k + 1]
  <2>1. /\ k - 1 \in 0..n /\ (k - 1) + 1 = k /\ k \in 0..n
        /\ k - 1 \in 0..n + 1 /\ k \in 0..n + 1 /\ k + 1 \in 0..n + 1
        /\ k # k - 1 /\ k # k + 1 /\ k - 1 # k + 1
    BY <1>1
  <2>2. m[at[k]].next = at[k + 1] /\ m[at[(k - 1) + 1]].prev = at[k - 1]
    BY <2>1 DEF Chained
  <2> QED
    BY <2>1, <2>2 DEF Chained
<1> HIDE DEF p
<1>7. /\ m2 \in [Pointers -> NodeRecord]
      /\ \A q \in Pointers \ {p} :
           /\ m2[q].data = m[q].data
           /\ m2[q].next = IF q = at[k - 1] THEN at[k + 1] ELSE m[q].next
           /\ m2[q].prev = IF q = at[k + 1] THEN at[k - 1] ELSE m[q].prev
  <2>1. m2 = [m EXCEPT ![at[k - 1]].next = at[k + 1], ![at[k + 1]].prev = at[k - 1],
                       ![p] = NodeOf(NoData, p, p)]
    BY <1>6 DEF Unlinked, p
  <2>2. m \in [Pointers -> NodeRecord]
    BY DEF Chained
  <2>3. NodeOf(NoData, p, p) \in NodeRecord
    BY <1>6 DEF NodeOf, NodeRecord
  <2>4. m2 \in [Pointers -> NodeRecord]
    BY <1>6, <2>1, <2>2, <2>3 DEF NodeRecord
  <2>5. ASSUME NEW q \in Pointers \ {p}
        PROVE  /\ m2[q].data = m[q].data
               /\ m2[q].next = IF q = at[k - 1] THEN at[k + 1] ELSE m[q].next
               /\ m2[q].prev = IF q = at[k + 1] THEN at[k - 1] ELSE m[q].prev
    <3>1. CASE q = at[k - 1]
      BY <1>6, <2>1, <2>2, <2>3, <3>1 DEF NodeRecord
    <3>2. CASE q = at[k + 1]
      BY <1>6, <2>1, <2>2, <2>3, <3>2 DEF NodeRecord
    <3>3. CASE q # at[k - 1] /\ q # at[k + 1]
      BY <1>6, <2>1, <2>2, <2>3, <3>3
    <3> QED
      BY <3>1, <3>2, <3>3
  <2> QED
    BY <2>4, <2>5
<1>8. \A h \in 0..n + 1 : h # k => at[h] \in Pointers \ {p}
  BY <1>6 DEF Chained, p
<1>9. ASSUME NEW i \in 0..n - 1
      PROVE  m2[at2[i]].next = at2[i + 1] /\ m2[at2[i + 1]].prev = at2[i]
  <2>1. i \in 0..n /\ i + 1 \in 0..n /\ i \in Nat
    BY <1>1
  <2>2. CASE i + 1 < k
    <3>1. at2[i] = at[i] /\ at2[i + 1] = at[i + 1] /\ i \in 0..n + 1 /\ i + 1 \in 0..n + 1
      BY <1>1, <1>2, <2>1, <2>2
    <3>2. m[at[i]].next = at[i + 1] /\ m[at[i + 1]].prev = at[i]
      BY <2>1 DEF Chained
    <3>3. i # k - 1 /\ i + 1 # k + 1 /\ i # k /\ i + 1 # k
      BY <1>1, <2>2
    <3>4. at[i] # at[k - 1] /\ at[i + 1] # at[k + 1]
      BY <1>6, <3>1, <3>3 DEF Chained
    <3> QED
      BY <1>7, <1>8, <3>1, <3>2, <3>3, <3>4
  <2>3. CASE i + 1 = k
    <3>1. i = k - 1 /\ i < k /\ ~(i + 1 < k) /\ k - 1 # k /\ k + 1 # k
      BY <1>1, <2>1, <2>3
    <3>2. at2[i] = at[k - 1] /\ at2[i + 1] = at[k + 1]
      BY <1>2, <2>1, <2>3, <3>1
    <3>3. at[k - 1] \in Pointers \ {p} /\ at[k + 1] \in Pointers \ {p}
      BY <1>6, <1>8, <3>1
    <3> QED
      BY <1>7, <3>2, <3>3
  <2>4. CASE ~(i + 1 <= k)
    <3>1. /\ ~(i < k) /\ ~(i + 1 < k) /\ i + 1 \in 0..n + 1 /\ (i + 1) + 1 \in 0..n + 1
          /\ i + 1 # k - 1 /\ (i + 1) + 1 # k + 1 /\ i + 1 # k /\ (i + 1) + 1 # k
      BY <1>1, <2>1, <2>4
    <3>2. at2[i] = at[i + 1] /\ at2[i + 1] = at[(i + 1) + 1]
      BY <1>2, <2>1, <3>1
    <3>3. m[at[i + 1]].next = at[(i + 1) + 1] /\ m[at[(i + 1) + 1]].prev = at[i + 1]
      BY <2>1 DEF Chained
    <3>4. at[i + 1] # at[k - 1] /\ at[(i + 1) + 1] # at[k + 1]
      BY <1>6, <3>1 DEF Chained
    <3> QED
      BY <1>7, <1>8, <3>1, <3>2, <3>3, <3>4
  <2> QED
    BY <1>1, <2>1, <2>2, <2>3, <2>4
<1>10. m2[TailNode].next = TailNode /\ m2[HeadNode].prev = HeadNode
  <2>1. /\ TailNode = at[n + 1] /\ HeadNode = at[0]
        /\ m[TailNode].next = TailNode /\ m[HeadNode].prev = HeadNode
        /\ n + 1 \in 0..n + 1 /\ 0 \in 0..n + 1
        /\ n + 1 # k /\ n + 1 # k - 1 /\ 0 # k /\ 0 # k + 1
    BY <1>1 DEF Chained
  <2>2. TailNode # at[k - 1] /\ HeadNode # at[k + 1]
    BY <1>6, <2>1 DEF Chained
  <2> QED
    BY <1>7, <1>8, <2>1, <2>2
<1>11. \A j \in 1..n - 1 : /\ m2[at2[j]].data = IF j < k THEN m[at[j]].data ELSE m[at[j + 1]].data
                           /\ j \in 1..n /\ j + 1 \in 1..n
  <2> SUFFICES ASSUME NEW j \in 1..n - 1
               PROVE  /\ m2[at2[j]].data = IF j < k THEN m[at[j]].data ELSE m[at[j + 1]].data
                      /\ j \in 1..n /\ j + 1 \in 1..n
    OBVIOUS
  <2>1. j \in 0..n /\ j \in 1..n /\ j + 1 \in 1..n
    BY <1>1
  <2>2. PICK h \in 0..n + 1 : /\ at2[j] = at[h] /\ h # k
                              /\ (j < k => h = j) /\ (~(j < k) => h = j + 1)
    BY <1>3, <2>1
  <2>3. m2[at2[j]].data = m[at[h]].data
    BY <1>7, <1>8, <2>2
  <2> QED
    BY <2>1, <2>2, <2>3
<1>12. Chained(m2, used \ {p}, at2, n - 1)
  <2>1. n - 1 \in 0..Cardinality(Nodes)
    BY <1>1
  <2>2. \A j \in 1..n - 1 : m2[at2[j]].data \in ListItems
    <3>1. \A j \in 1..n : m[at[j]].data \in ListItems
      BY DEF Chained
    <3> QED
      BY <1>11, <3>1
  <2> QED
    BY <1>1, <1>2, <1>4, <1>5, <1>7, <1>9, <1>10, <2>1, <2>2 DEF Chained
<1>13. Data(m2, at2, n - 1) = RemoveAt(Data(m, at, n), k)
  <2> DEFINE s == Data(m, at, n)
             t == Data(m2, at2, n - 1)
  <2>1. s \in Seq(ListItems) /\ Len(s) = n /\ \A j \in 1..n : s[j] = m[at[j]].data
    BY Reading
  <2>2. /\ t \in Seq(ListItems) /\ Len(t) = n - 1
        /\ \A j \in 1..n - 1 : t[j] = m2[at2[j]].data
    BY <1>12, Reading
  <2> HIDE DEF s, t
  <2>3. /\ RemoveAt(s, k) \in Seq(ListItems) /\ Len(RemoveAt(s, k)) = n - 1
        /\ \A j \in 1..n - 1 : RemoveAt(s, k)[j] = IF j < k THEN s[j] ELSE s[j + 1]
    <3>1. k \in 1..Len(s)
      BY <2>1
    <3>2. /\ RemoveAt(s, k) \in Seq(ListItems) /\ Len(RemoveAt(s, k)) = Len(s) - 1
          /\ \A j \in 1..Len(s) - 1 : RemoveAt(s, k)[j] = IF j < k THEN s[j] ELSE s[j + 1]
      BY <2>1, <3>1, SequenceRemoval
    <3> QED
      BY <2>1, <3>2
  <2>4. ASSUME NEW j \in 1..n - 1
        PROVE  t[j] = RemoveAt(s, k)[j]
    <3>1. t[j] = IF j < k THEN m[at[j]].data ELSE m[at[j + 1]].data
      BY <1>11, <2>2
    <3>2. s[j] = m[at[j]].data /\ s[j + 1] = m[at[j + 1]].data
      BY <1>11, <2>1
    <3>3. RemoveAt(s, k)[j] = IF j < k THEN s[j] ELSE s[j + 1]
      BY <2>3
    <3> QED
      BY <3>1, <3>2, <3>3
  <2>5. t = RemoveAt(s, k)
    BY <2>2, <2>3, <2>4, SeqEqual
  <2> QED
    BY <2>5 DEF s, t
<1> QED
  BY <1>12, <1>13 DEF at2, p

\* Another item in the k-th node.
Rewritten(m, p, x) == [m EXCEPT ![p].data = x]

LEMMA Setting ==
  ASSUME NEW m, NEW used, NEW at, NEW n, Chained(m, used, at, n),
         NEW k \in 1..n, NEW x \in ListItems, NEW m2, m2 = Rewritten(m, at[k], x)
  PROVE  /\ Chained(m2, used, at, n)
         /\ Data(m2, at, n) = [Data(m, at, n) EXCEPT ![k] = x]
<1>1. /\ n \in Nat /\ k \in 0..n + 1 /\ at[k] \in Pointers
      /\ m \in [Pointers -> NodeRecord]
  BY NodesCount DEF Chained, Pointers
<1>2. /\ m2 \in [Pointers -> NodeRecord]
      /\ \A p \in Pointers : /\ m2[p].next = m[p].next /\ m2[p].prev = m[p].prev
                             /\ m2[p].data = IF p = at[k] THEN x ELSE m[p].data
  BY <1>1 DEF NodeRecord, Rewritten
<1>3. \A j \in 0..n + 1 : at[j] \in Pointers /\ (at[j] = at[k] => j = k)
  BY <1>1 DEF Chained
<1>4. \A j \in 1..n : m2[at[j]].data = IF j = k THEN x ELSE m[at[j]].data
  <2>1. \A j \in 1..n : j \in 0..n + 1
    BY <1>1
  <2> QED
    BY <1>2, <1>3, <2>1
<1>5. Chained(m2, used, at, n)
  <2>1. \A i \in 0..n : m2[at[i]].next = at[i + 1] /\ m2[at[i + 1]].prev = at[i]
    <3>1. \A i \in 0..n : i \in 0..n + 1 /\ i + 1 \in 0..n + 1
      BY <1>1
    <3>2. \A i \in 0..n : m[at[i]].next = at[i + 1] /\ m[at[i + 1]].prev = at[i]
      BY DEF Chained
    <3> QED
      BY <1>2, <1>3, <3>1, <3>2
  <2>2. m2[TailNode].next = TailNode /\ m2[HeadNode].prev = HeadNode
    BY <1>2 DEF Chained, Pointers
  <2>3. \A i \in 1..n : m2[at[i]].data \in ListItems
    BY <1>4 DEF Chained
  <2> QED
    BY <1>2, <2>1, <2>2, <2>3 DEF Chained
<1>6. Data(m2, at, n) = [Data(m, at, n) EXCEPT ![k] = x]
  BY <1>4 DEF Data
<1> QED
  BY <1>5, <1>6

-----------------------------------------------------------------------------
\* The state and the sequence it shows.

LEMMA Shown ==
  ASSUME NEW at, NEW n, NEW i, ListAt(at, n, i)
  PROVE  /\ ListContents(node) = Data(node, at, n)
         /\ Data(node, at, n) \in Seq(ListItems) /\ Len(Data(node, at, n)) = n
         /\ ItrPosition = i
         /\ n \in Nat /\ i \in Nat /\ i <= n + 1 /\ n <= Cardinality(Nodes)
<1>1. Chained(node, allocated, at, n) /\ i \in 0..n + 1 /\ itr = at[i]
  BY DEF ListAt
<1>2. Len(ListContents(node)) + 1 - Distance(node, at[i]) = i
  BY <1>1, Position
<1>3. n \in Nat /\ i \in Nat /\ i <= n + 1 /\ n <= Cardinality(Nodes)
  BY <1>1, NodesCount DEF Chained
<1> QED
  BY <1>1, <1>2, <1>3, Reading DEF ItrPosition

LEMMA ShownNext ==
  ASSUME NEW at, NEW n, NEW i,
         Chained(node', allocated', at, n), i \in 0..n + 1, itr' = at[i]
  PROVE  /\ ListInv'
         /\ ListContents(node') = Data(node', at, n)
         /\ ItrPosition' = i
<1>1. Len(ListContents(node')) + 1 - Distance(node', at[i]) = i
  BY Position
<1>2. n \in Nat /\ at \in [0..n + 1 -> Pointers]
  BY NodesCount DEF Chained
<1> QED
  BY <1>1, <1>2, Reading DEF ItrPosition, ListInv, ListAt

LEMMA ItemsInOrder ==
  ASSUME NEW n \in Nat, NEW f \in [1..n -> ListItems]
  PROVE  f \in Seq(ListItems) /\ Len(f) = n
  OBVIOUS

\* Which nodes of the chain an iterator finds to be at an end.
LEMMA Ends ==
  ASSUME NEW at, NEW n, NEW i, ListAt(at, n, i)
  PROVE  /\ itr = HeadNode <=> i = 0
         /\ node[itr].prev = itr <=> i = 0
         /\ node[itr].next = itr <=> i = n + 1
         /\ IsSentinel(itr) <=> i \notin 1..n
         /\ node[HeadNode].next = TailNode <=> n = 0
         /\ node[TailNode].prev = HeadNode <=> n = 0
         /\ node[HeadNode].next = at[1] /\ node[TailNode].prev = at[n]
<1>1. /\ Chained(node, allocated, at, n) /\ i \in 0..n + 1 /\ itr = at[i]
      /\ n \in Nat /\ i \in Nat
  BY Shown DEF ListAt
<1>2. \A j \in 0..n + 1 : /\ j # 0 => j - 1 \in 0..n /\ (j - 1) + 1 = j /\ j - 1 # j /\ j - 1 \in 0..n + 1
                          /\ j # n + 1 => j \in 0..n /\ j + 1 # j /\ j + 1 \in 0..n + 1
  BY <1>1
<1>3. /\ i = 0 => node[at[i]].prev = at[i]
      /\ i # 0 => node[at[i]].prev = at[i - 1] /\ at[i - 1] # at[i]
      /\ i = n + 1 => node[at[i]].next = at[i]
      /\ i # n + 1 => node[at[i]].next = at[i + 1] /\ at[i + 1] # at[i]
  <2>1. i = 0 => node[at[i]].prev = at[i]
    BY <1>1 DEF Chained
  <2>2. i = n + 1 => node[at[i]].next = at[i]
    BY <1>1 DEF Chained
  <2>3. i # 0 => node[at[i]].prev = at[i - 1] /\ at[i - 1] # at[i]
    <3>1. i # 0 => node[at[(i - 1) + 1]].prev = at[i - 1]
      BY <1>1, <1>2 DEF Chained
    <3> QED
      BY <1>1, <1>2, <3>1 DEF Chained
  <2>4. i # n + 1 => node[at[i]].next = at[i + 1] /\ at[i + 1] # at[i]
    BY <1>1, <1>2 DEF Chained
  <2> QED
    BY <2>1, <2>2, <2>3, <2>4
<1>4. itr = HeadNode <=> i = 0
  <2>1. 0 \in 0..n + 1
    BY <1>1
  <2> QED
    BY <1>1, <2>1 DEF Chained
<1>5. node[HeadNode].next = at[1] /\ node[TailNode].prev = at[n]
  <2>1. 0 \in 0..n /\ n \in 0..n /\ 0 + 1 = 1
    BY <1>1
  <2>2. node[at[0]].next = at[0 + 1] /\ node[at[n + 1]].prev = at[n]
    BY <1>1, <2>1 DEF Chained
  <2> QED
    BY <1>1, <2>1, <2>2 DEF Chained
<1>6. (at[1] = TailNode <=> n = 0) /\ (at[n] = HeadNode <=> n = 0)
  <2>1. 1 \in 0..n + 1 /\ n \in 0..n + 1 /\ 0 \in 0..n + 1 /\ n + 1 \in 0..n + 1 /\ (1 = n + 1 <=> n = 0)
    BY <1>1
  <2>2. at[1] = at[n + 1] <=> n = 0
    BY <1>1, <2>1 DEF Chained
  <2>3. at[n] = at[0] <=> n = 0
    BY <1>1, <2>1 DEF Chained
  <2> QED
    BY <1>1, <2>2, <2>3 DEF Chained
<1>7. i \notin 1..n <=> i = 0 \/ i = n + 1
  BY <1>1
<1> QED
  BY <1>1, <1>3, <1>4, <1>5, <1>6, <1>7 DEF IsSentinel

-----------------------------------------------------------------------------
\* The steps.

LEMMA ListNullRefines ==
  ASSUME ListInv, NEW call, ReturnsNull(call)
  PROVE  ListInv' /\ Sequence!Null(call)
<1>1. /\ UNCHANGED <<node, allocated, itr>>
      /\ listReturned' = [call |-> call, items |-> <<>>]
  BY DEF ReturnsNull, Returns
<1>2. ListInv'
  BY <1>1 DEF ListInv, ListAt
<1>3. ListContents(node)' = ListContents(node) /\ ItrPosition' = ItrPosition
  BY <1>1 DEF ItrPosition
<1> QED
  BY <1>1, <1>2, <1>3 DEF Sequence!Null, Sequence!Result

LEMMA ListInsertRefines ==
  ASSUME NEW at, NEW n, NEW i, ListAt(at, n, i),
         NEW k \in 1..n + 1, NEW x \in ListItems, NEW call,
         InsertBefore(call, at[k], x)
  PROVE  ListInv' /\ Sequence!PutIn(call, k, x)
<1>1. PICK new \in Nodes \ allocated :
        /\ allocated' = allocated \cup {new}
        /\ node' = Linked(node, at[k], new, x)
        /\ listReturned' = [call |-> call, items |-> <<x>>]
        /\ itr' = itr
  BY DEF InsertBefore, Linked, Returns
<1>2. Chained(node, allocated, at, n) /\ i \in 0..n + 1 /\ itr = at[i]
  BY DEF ListAt
<1> DEFINE at2 == Grown(at, n, k, new)
           i2 == IF i >= k THEN i + 1 ELSE i
<1>3. /\ Chained(node', allocated', at2, n + 1)
      /\ Data(node', at2, n + 1) = InsertAt(Data(node, at, n), k, x)
      /\ n < Cardinality(Nodes)
  BY <1>1, <1>2, Insertion
<1>4. n \in Nat /\ i \in Nat /\ i <= n + 1 /\ k \in Nat
  BY Shown
<1>5. i2 \in 0..n + 2 /\ (n + 1) + 1 = n + 2
  BY <1>4
<1>6. itr' = at2[i2]
  <2>1. CASE i >= k
    <3>1. i2 = i + 1 /\ i + 1 \in 0..n + 2 /\ ~(i + 1 < k) /\ i + 1 # k /\ (i + 1) - 1 = i
      BY <1>4, <2>1
    <3> QED
      BY <1>1, <1>2, <3>1 DEF Grown
  <2>2. CASE ~(i >= k)
    <3>1. i2 = i /\ i \in 0..n + 2 /\ i < k
      BY <1>4, <2>2
    <3> QED
      BY <1>1, <1>2, <3>1 DEF Grown
  <2> QED
    BY <2>1, <2>2
<1> HIDE DEF at2
<1>7. /\ ListInv' /\ ListContents(node') = Data(node', at2, n + 1)
      /\ ItrPosition' = i2
  <2> HIDE DEF i2
  <2> QED
    BY <1>3, <1>5, <1>6, ShownNext
<1>8. /\ ListContents(node) = Data(node, at, n) /\ Len(ListContents(node)) = n
      /\ ItrPosition = i
  BY Shown
<1>9. ListContents(node)' = InsertAt(ListContents(node), k, x)
  BY <1>3, <1>7, <1>8
<1>10. ItrPosition' = IF ItrPosition >= k THEN ItrPosition + 1 ELSE ItrPosition
  BY <1>7, <1>8
<1>11. Len(ListContents(node)) < Cardinality(Nodes)
  BY <1>3, <1>8
<1> QED
  BY <1>1, <1>7, <1>9, <1>10, <1>11
  DEF Sequence!PutIn, Sequence!Result, Sequence!InsertAt, InsertAt

LEMMA ListRemoveRefines ==
  ASSUME NEW at, NEW n, NEW i, ListAt(at, n, i),
         NEW k \in 1..n, NEW call, RemoveNode(call, at[k])
  PROVE  ListInv' /\ Sequence!TakeOut(call, k)
<1>1. /\ allocated' = allocated \ {at[k]}
      /\ node' = Unlinked(node, at[k])
      /\ itr' = IF itr = at[k] THEN node[at[k]].next ELSE itr
      /\ listReturned' = [call |-> call, items |-> <<node[at[k]].data>>]
  BY DEF RemoveNode, Unlinked, Returns
<1>2. Chained(node, allocated, at, n) /\ i \in 0..n + 1 /\ itr = at[i]
  BY DEF ListAt
<1> DEFINE at2 == Shrunk(at, n, k)
           i2 == IF i > k THEN i - 1 ELSE i
<1>3. /\ Chained(node', allocated', at2, n - 1)
      /\ Data(node', at2, n - 1) = RemoveAt(Data(node, at, n), k)
  BY <1>1, <1>2, Removal
<1>4. n \in Nat /\ i \in Nat /\ i <= n + 1 /\ k \in Nat /\ k >= 1 /\ k <= n /\ (n - 1) + 1 = n
  BY Shown
<1>5. i2 \in 0..(n - 1) + 1
  BY <1>4
<1>6. itr' = at2[i2]
  <2>1. CASE i > k
    <3>1. i2 = i - 1 /\ i - 1 \in 0..n /\ ~(i - 1 < k) /\ (i - 1) + 1 = i /\ i # k /\ k \in 0..n + 1
      BY <1>4, <2>1
    <3>2. itr # at[k]
      BY <1>2, <3>1 DEF Chained
    <3> QED
      BY <1>1, <1>2, <3>1, <3>2 DEF Shrunk
  <2>2. CASE i = k
    <3>1. i2 = k /\ k \in 0..n /\ ~(k < k)
      BY <1>4, <2>2
    <3>2. node[at[k]].next = at[k + 1]
      BY <1>2, <3>1 DEF Chained
    <3> QED
      BY <1>1, <1>2, <2>2, <3>1, <3>2 DEF Shrunk
  <2>3. CASE i < k
    <3>1. i2 = i /\ i \in 0..n /\ i # k /\ k \in 0..n + 1
      BY <1>4, <2>3
    <3>2. itr # at[k]
      BY <1>2, <3>1 DEF Chained
    <3> QED
      BY <1>1, <1>2, <2>3, <3>1, <3>2 DEF Shrunk
  <2> QED
    BY <1>4, <2>1, <2>2, <2>3
<1> HIDE DEF at2
<1>7. /\ ListInv' /\ ListContents(node') = Data(node', at2, n - 1)
      /\ ItrPosition' = i2
  <2> HIDE DEF i2
  <2> QED
    BY <1>3, <1>5, <1>6, ShownNext
<1>8. /\ ListContents(node) = Data(node, at, n) /\ ItrPosition = i
      /\ ListContents(node)[k] = node[at[k]].data
  BY <1>2, Shown, Reading
<1>9. ListContents(node)' = RemoveAt(ListContents(node), k)
  BY <1>3, <1>7, <1>8
<1>10. ItrPosition' = IF ItrPosition > k THEN ItrPosition - 1 ELSE ItrPosition
  BY <1>7, <1>8
<1>11. listReturned' = [call |-> call, items |-> <<ListContents(node)[k]>>]
  BY <1>1, <1>8
<1> QED
  BY <1>7, <1>9, <1>10, <1>11
  DEF Sequence!TakeOut, Sequence!Result, Sequence!RemoveAt, RemoveAt

LEMMA ListSetRefines ==
  ASSUME NEW at, NEW n, NEW i, ListAt(at, n, i), NEW x \in ListItems, ListItrSet(x)
  PROVE  ListInv' /\ Sequence!Set(x)
<1>1. /\ ListContents(node) = Data(node, at, n) /\ Len(ListContents(node)) = n
      /\ ItrPosition = i
  BY Shown
<1>2. Sequence!AtItem <=> i \in 1..n
  BY <1>1 DEF Sequence!AtItem
<1>3. CASE i \notin 1..n
  <2>1. ReturnsNull("set")
    BY <1>3, Ends DEF ListItrSet
  <2>2. ListInv
    BY Shown DEF ListInv, ListAt, Chained
  <2> QED
    BY <1>2, <1>3, <2>1, <2>2, ListNullRefines DEF Sequence!Set
<1>4. CASE i \in 1..n
  <2>1. /\ node' = Rewritten(node, at[i], x)
        /\ listReturned' = [call |-> "set", items |-> <<node[at[i]].data>>]
        /\ allocated' = allocated /\ itr' = itr
        /\ Chained(node, allocated, at, n) /\ i \in 0..n + 1 /\ itr = at[i]
    BY <1>4, Ends DEF ListItrSet, Returns, ListAt, Rewritten
  <2>2. Chained(node', allocated', at, n) /\ Data(node', at, n) = [Data(node, at, n) EXCEPT ![i] = x]
    BY <1>4, <2>1, Setting
  <2>3. /\ ListInv' /\ ListContents(node') = Data(node', at, n)
        /\ ItrPosition' = i
    BY <2>1, <2>2, ShownNext
  <2>4. ListContents(node)[i] = node[at[i]].data
    BY <1>1, <1>4, <2>1, Reading
  <2>5. /\ ListContents(node)' = [ListContents(node) EXCEPT ![ItrPosition] = x]
        /\ ItrPosition' = ItrPosition
        /\ listReturned' = [call |-> "set", items |-> <<ListContents(node)[ItrPosition]>>]
    BY <1>1, <2>1, <2>2, <2>3, <2>4
  <2> QED
    BY <1>2, <1>4, <2>3, <2>5 DEF Sequence!Set, Sequence!Result
<1> QED
  BY <1>3, <1>4

LEMMA ListMoveRefines ==
  ASSUME NEW at, NEW n, NEW i, ListAt(at, n, i), NEW call, NEW k \in 0..n + 1,
         PointsTo(call, at[k])
  PROVE  ListInv' /\ Sequence!Moved(call, k)
<1>1. /\ node' = node /\ allocated' = allocated /\ itr' = at[k]
      /\ listReturned' = [call |-> call, items |-> <<>>]
      /\ Chained(node', allocated', at, n)
  BY DEF PointsTo, Returns, ListAt
<1>2. ListInv' /\ ItrPosition' = k
  BY <1>1, ShownNext
<1>3. ListContents(node)' = ListContents(node)
  BY <1>1
<1> QED
  BY <1>1, <1>2, <1>3 DEF Sequence!Moved, Sequence!Result

LEMMA ListForEachRefines ==
  ASSUME NEW at, NEW n, NEW i, ListAt(at, n, i),
         NEW k \in 1..Cardinality(Nodes) + 1, ListItrForEach(k)
  PROVE  ListInv' /\ Sequence!Visit(k)
<1>1. /\ ListContents(node) = Data(node, at, n) /\ Len(ListContents(node)) = n
      /\ ListContents(node) \in Seq(ListItems)
      /\ ItrPosition = i
      /\ n \in Nat /\ i \in Nat /\ i <= n + 1 /\ n <= Cardinality(Nodes)
  BY Shown
<1>2. CASE i = 0
  <2>1. ReturnsNull("forEach")
    BY <1>2, Ends DEF ListItrForEach
  <2>2. ListInv
    BY Shown DEF ListInv, ListAt, Chained
  <2>3. ListInv' /\ Sequence!Null("forEach")
    BY <2>1, <2>2, ListNullRefines
  <2>4. ~Sequence!AtItem
    BY <1>1, <1>2 DEF Sequence!AtItem
  <2> QED
    BY <2>3, <2>4 DEF Sequence!Visit, Sequence!Moved, Sequence!Null
<1>3. CASE i # 0
  <2> DEFINE d == n + 1 - i
             last == IF k <= d THEN k ELSE d
             to == IF k <= d THEN i + k - 1 ELSE n + 1
             end == IF i + k - 1 <= n THEN i + k - 1 ELSE n
             found == [j \in 1..last |-> node[NodesFrom(node, itr)[j]].data]
  <2>1. /\ Chained(node, allocated, at, n) /\ i \in 0..n + 1 /\ itr = at[i]
        /\ Distance(node, itr) = d
    BY Distances DEF ListAt
  <2>2. /\ Cardinality(Nodes) \in Nat /\ k \in Nat /\ k >= 1 /\ i >= 1
        /\ (k <= d <=> i + k - 1 <= n) /\ to \in 0..n + 1
        /\ last = end - i + 1 /\ end \in Nat /\ end <= n /\ last \in Nat
        /\ \A j \in 1..last : j \in 1..Cardinality(Nodes) + 2 /\ i + j - 1 <= n /\ i + j - 1 \in 1..n
    BY <1>1, <1>3, NodesCount
  <2>3. /\ itr' = IF k <= d THEN NodesFrom(node, itr)[k] ELSE TailNode
        /\ listReturned' = [call |-> "forEach", items |-> found]
        /\ node' = node /\ allocated' = allocated
    BY <1>3, <2>1, Ends DEF ListItrForEach, Returns
  <2>4. itr' = at[to]
    <3>1. k \in 1..Cardinality(Nodes) + 2
      BY <2>2
    <3>2. NodesFrom(node, at[i])[k] = at[IF i + k - 1 <= n THEN i + k - 1 ELSE n + 1]
      BY <2>1, <3>1, Walk
    <3>3. TailNode = at[n + 1]
      BY <2>1 DEF Chained
    <3> QED
      BY <2>1, <2>2, <2>3, <3>2, <3>3
  <2>5. Chained(node', allocated', at, n)
    BY <2>1, <2>3
  <2>6. ListInv' /\ ItrPosition' = to
    <3> HIDE DEF to
    <3> QED
      BY <2>2, <2>4, <2>5, ShownNext
  <2>7. found = SubSeq(ListContents(node), i, end)
    <3> DEFINE s == ListContents(node)
    <3>1. \A j \in 1..n : s[j] = node[at[j]].data
      BY <1>1, <2>1, Reading
    <3>2. \A j \in 1..last : found[j] = s[i + j - 1]
      <4> SUFFICES ASSUME NEW j \in 1..last
                   PROVE  node[NodesFrom(node, itr)[j]].data = s[i + j - 1]
        OBVIOUS
      <4>1. NodesFrom(node, at[i])[j] = at[IF i + j - 1 <= n THEN i + j - 1 ELSE n + 1]
        BY <2>1, <2>2, Walk
      <4> QED
        BY <2>1, <2>2, <3>1, <4>1
    <3>3. \A j \in 1..n : s[j] \in ListItems
      BY <1>1, ElementOfSeq
    <3>4. found \in Seq(ListItems) /\ Len(found) = last
      <4>1. found \in [1..last -> ListItems]
        BY <2>2, <3>2, <3>3
      <4>2. last \in Nat
        BY <2>2
      <4> HIDE DEF found, last
      <4> QED
        BY <4>1, <4>2, ItemsInOrder
    <3>5. /\ SubSeq(s, i, end) \in Seq(ListItems)
          /\ Len(SubSeq(s, i, end)) = IF i <= end THEN end - i + 1 ELSE 0
          /\ \A j \in 1..end - i + 1 : SubSeq(s, i, end)[j] = s[i + j - 1]
      <4>1. i \in Int /\ end \in Int /\ \A j \in i..end : s[j] \in ListItems
        BY <1>1, <2>2, <3>3
      <4> HIDE DEF s, end
      <4> QED
        BY <4>1, SubSeqProperties
    <3>6. Len(SubSeq(s, i, end)) = last /\ end - i + 1 = last
      BY <1>1, <2>2, <3>5
    <3> HIDE DEF found, s, last, end
    <3>7. \A j \in 1..last : found[j] = SubSeq(s, i, end)[j]
      BY <3>2, <3>5, <3>6
    <3>8. found = SubSeq(s, i, end)
      BY <3>4, <3>5, <3>6, <3>7, SeqEqual
    <3> QED
      BY <3>8 DEF s
  <2>8. ListContents(node)' = ListContents(node)
    BY <2>3
  <2>9. CASE i = n + 1
    <3>1. ~Sequence!AtItem
      BY <1>1, <2>9 DEF Sequence!AtItem
    <3>2. last = 0 /\ to = i
      BY <1>1, <2>2, <2>9
    <3>3. found = <<>>
      <4>1. 1..last = {}
        BY <3>2
      <4>2. found \in [1..0 -> ListItems]
        BY <3>2, <4>1
      <4>3. found \in Seq(ListItems) /\ Len(found) = 0
        <5> HIDE DEF found
        <5>1. 0 \in Nat
          OBVIOUS
        <5> QED
          BY <4>2, <5>1, ItemsInOrder
      <4> HIDE DEF found
      <4> QED
        BY <4>3, EmptySeq
    <3> HIDE DEF found, to
    <3> QED
      BY <1>1, <2>3, <2>6, <2>8, <3>1, <3>2, <3>3
      DEF Sequence!Visit, Sequence!Moved, Sequence!Result
  <2>10. CASE i # n + 1
    <3>1. Sequence!AtItem
      BY <1>1, <1>3, <2>10 DEF Sequence!AtItem
    <3> HIDE DEF found
    <3> QED
      BY <1>1, <2>2, <2>3, <2>6, <2>7, <2>8, <3>1
      DEF Sequence!Visit, Sequence!Result
  <2> QED
    BY <2>9, <2>10
<1> QED
  BY <1>2, <1>3

\* A step is one of the sequence, unless it asks for the iterator before the
\* begin or before the head.
LEMMA ListStepRefines ==
  ASSUME ListInv, ListNext
  PROVE  /\ ListInv'
         /\ \/ Sequence!CursorNext
            \/ /\ PrevToHead /\ ListItrPrev
               /\ ItrPosition = 0 \/ itr = node[HeadNode].next
<1>1. PICK n \in Nat : \E at \in [0..n + 1 -> Pointers] : \E i \in 0..n + 1 : ListAt(at, n, i)
  BY DEF ListInv
<1>2. PICK at \in [0..n + 1 -> Pointers] : \E i \in 0..n + 1 : ListAt(at, n, i)
  BY <1>1
<1>3. PICK i \in 0..n + 1 : ListAt(at, n, i)
  BY <1>2
<1>4. /\ Len(ListContents(node)) = n /\ ListContents(node) \in Seq(ListItems)
      /\ ItrPosition = i /\ itr = at[i] /\ TailNode = at[n + 1]
      /\ n \in Nat /\ i \in Nat
  <2>1. itr = at[i] /\ TailNode = at[n + 1]
    BY <1>3 DEF ListAt, Chained
  <2> QED
    BY <1>3, <2>1, Shown
<1>5. ListContents(node) = <<>> <=> n = 0
  BY <1>4, EmptySeq
<1>6. ASSUME NEW x \in ListItems, ListPushHead(x)
      PROVE  ListInv' /\ Sequence!PushHead(x)
  <2>1. InsertBefore("pushHead", at[1], x)
    BY <1>3, <1>6, Ends DEF ListPushHead
  <2>2. 1 \in 1..n + 1
    BY <1>4
  <2> QED
    BY <1>3, <2>1, <2>2, ListInsertRefines DEF Sequence!PushHead
<1>7. ASSUME NEW x \in ListItems, ListPushTail(x)
      PROVE  ListInv' /\ Sequence!PushTail(x)
  <2>1. InsertBefore("pushTail", at[n + 1], x)
    BY <1>4, <1>7 DEF ListPushTail
  <2>2. n + 1 \in 1..n + 1
    BY <1>4
  <2>3. ListInv' /\ Sequence!PutIn("pushTail", n + 1, x)
    BY <1>3, <2>1, <2>2, ListInsertRefines
  <2> QED
    BY <1>4, <2>3 DEF Sequence!PushTail
<1>8. ASSUME NEW x \in ListItems, ListItrInsertBefore(x)
      PROVE  ListInv' /\ (Sequence!InsertBefore(x) \/ Sequence!Fails)
  <2>1. CASE i = 0
    <3>1. ReturnsNull("insertBefore")
      BY <1>3, <1>8, <2>1, Ends DEF ListItrInsertBefore
    <3>2. ListInv' /\ Sequence!Null("insertBefore")
      BY <3>1, ListNullRefines
    <3> QED
      BY <3>2 DEF Sequence!Fails
  <2>2. CASE i # 0
    <3>1. InsertBefore("insertBefore", at[i], x)
      BY <1>3, <1>4, <1>8, <2>2, Ends DEF ListItrInsertBefore
    <3>2. i \in 1..n + 1
      BY <1>4, <2>2
    <3>3. ListInv' /\ Sequence!PutIn("insertBefore", i, x)
      BY <1>3, <3>1, <3>2, ListInsertRefines
    <3> QED
      BY <1>4, <2>2, <3>3 DEF Sequence!InsertBefore
  <2> QED
    BY <2>1, <2>2
<1>9. ASSUME NEW x \in ListItems, ListItrSet(x)
      PROVE  ListInv' /\ Sequence!Set(x)
  BY <1>3, <1>9, ListSetRefines
<1>10. CASE AllocationFails
  <2>1. PICK call \in {"pushHead", "pushTail", "insertBefore"} : ReturnsNull(call)
    BY <1>10 DEF AllocationFails
  <2>2. ListInv' /\ Sequence!Null(call)
    BY <2>1, ListNullRefines
  <2>3. Sequence!Fails
    BY <2>2 DEF Sequence!Fails
  <2> QED
    BY <2>2, <2>3 DEF Sequence!CursorNext
<1>11. CASE ListPopHead
  <2>1. CASE n = 0
    <3>1. ReturnsNull("popHead")
      BY <1>3, <1>11, <2>1, Ends DEF ListPopHead
    <3> QED
      BY <1>5, <2>1, <3>1, ListNullRefines DEF Sequence!PopHead, Sequence!CursorNext
  <2>2. CASE n # 0
    <3>1. RemoveNode("popHead", at[1])
      BY <1>3, <1>11, <2>2, Ends DEF ListPopHead
    <3>2. 1 \in 1..n
      BY <1>4, <2>2
    <3>3. ListInv' /\ Sequence!TakeOut("popHead", 1)
      BY <1>3, <3>1, <3>2, ListRemoveRefines
    <3> QED
      BY <1>5, <2>2, <3>3 DEF Sequence!PopHead, Sequence!CursorNext
  <2> QED
    BY <2>1, <2>2
<1>12. CASE ListPopTail
  <2>1. CASE n = 0
    <3>1. ReturnsNull("popTail")
      BY <1>3, <1>12, <2>1, Ends DEF ListPopTail
    <3> QED
      BY <1>5, <2>1, <3>1, ListNullRefines DEF Sequence!PopTail, Sequence!CursorNext
  <2>2. CASE n # 0
    <3>1. RemoveNode("popTail", at[n])
      BY <1>3, <1>12, <2>2, Ends DEF ListPopTail
    <3>2. n \in 1..n
      BY <1>4, <2>2
    <3>3. ListInv' /\ Sequence!TakeOut("popTail", n)
      BY <1>3, <3>1, <3>2, ListRemoveRefines
    <3> QED
      BY <1>4, <1>5, <2>2, <3>3 DEF Sequence!PopTail, Sequence!CursorNext
  <2> QED
    BY <2>1, <2>2
<1>13. CASE ListItrRemove
  <2>1. Sequence!AtItem <=> i \in 1..n
    BY <1>4 DEF Sequence!AtItem
  <2>2. CASE i \notin 1..n
    <3>1. ReturnsNull("remove")
      BY <1>3, <1>13, <2>2, Ends DEF ListItrRemove
    <3> QED
      BY <2>1, <2>2, <3>1, ListNullRefines DEF Sequence!RemoveHere, Sequence!CursorNext
  <2>3. CASE i \in 1..n
    <3>1. RemoveNode("remove", at[i])
      BY <1>3, <1>4, <1>13, <2>3, Ends DEF ListItrRemove
    <3>2. ListInv' /\ Sequence!TakeOut("remove", i)
      BY <1>3, <2>3, <3>1, ListRemoveRefines
    <3> QED
      BY <1>4, <2>1, <2>3, <3>2 DEF Sequence!RemoveHere, Sequence!CursorNext
  <2> QED
    BY <2>2, <2>3
<1>14. CASE ListItrBegin
  <2>1. PointsTo("begin", at[1]) /\ 1 \in 0..n + 1
    BY <1>3, <1>4, <1>14, Ends DEF ListItrBegin
  <2>2. ListInv' /\ Sequence!Moved("begin", 1)
    BY <1>3, <2>1, ListMoveRefines
  <2> QED
    BY <2>2 DEF Sequence!Begin, Sequence!CursorNext
<1>15. CASE ListItrNext
  <2> DEFINE to == IF i = n + 1 THEN i ELSE i + 1
  <2>1. to \in 0..n + 1
    BY <1>4
  <2>2. node[at[i]].next = at[to]
    <3>1. CASE i = n + 1
      BY <1>3, <1>4, <3>1, Ends
    <3>2. CASE i # n + 1
      <4>1. i \in 0..n
        BY <1>4, <3>2
      <4> QED
        BY <1>3, <3>2, <4>1 DEF ListAt, Chained
    <3> QED
      BY <3>1, <3>2
  <2>3. PointsTo("next", at[to])
    BY <1>4, <1>15, <2>2 DEF ListItrNext
  <2> HIDE DEF to
  <2>4. ListInv' /\ Sequence!Moved("next", to)
    BY <1>3, <2>1, <2>3, ListMoveRefines
  <2> QED
    BY <1>4, <2>4 DEF Sequence!GoNext, Sequence!CursorNext, to
<1>16. CASE ListItrPrev
  <2> DEFINE to == IF i = 0 THEN i ELSE i - 1
  <2>1. to \in 0..n + 1
    BY <1>4
  <2>2. node[at[i]].prev = at[to]
    <3>1. CASE i = 0
      BY <1>3, <1>4, <3>1, Ends
    <3>2. CASE i # 0
      <4>1. i - 1 \in 0..n /\ (i - 1) + 1 = i
        BY <1>4, <3>2
      <4>2. node[at[(i - 1) + 1]].prev = at[i - 1]
        BY <1>3, <4>1 DEF ListAt, Chained
      <4> QED
        BY <3>2, <4>1, <4>2
    <3> QED
      BY <3>1, <3>2
  <2>3. PointsTo("prev", at[to])
    BY <1>4, <1>16, <2>2 DEF ListItrPrev
  <2> HIDE DEF to
  <2>4. ListInv' /\ Sequence!Moved("prev", to)
    BY <1>3, <2>1, <2>3, ListMoveRefines
  <2>5. CASE i \in {0, 1}
    <3>1. to = 0
      BY <1>4, <2>5 DEF to
    <3>2. PrevToHead
      BY <1>4, <2>4, <2>5, <3>1
      DEF PrevToHead, Sequence!Moved, Sequence!Result
    <3>3. ItrPosition = 0 \/ itr = node[HeadNode].next
      BY <1>3, <1>4, <2>5, Ends
    <3> QED
      BY <1>16, <2>4, <3>2, <3>3
  <2>6. CASE i \notin {0, 1}
    <3>1. to = IF ItrPosition = 1 THEN ItrPosition ELSE ItrPosition - 1
      BY <1>4, <2>6 DEF to
    <3> QED
      BY <2>4, <3>1 DEF Sequence!GoPrev, Sequence!CursorNext
  <2> QED
    BY <2>5, <2>6
<1>17. ASSUME NEW k \in 1..Cardinality(Nodes) + 1, ListItrForEach(k)
       PROVE  ListInv' /\ Sequence!Visit(k)
  BY <1>3, <1>17, ListForEachRefines
<1> QED
  BY <1>6, <1>7, <1>8, <1>9, <1>10, <1>11, <1>12, <1>13, <1>14, <1>15, <1>16, <1>17
  DEF ListNext, Sequence!CursorNext

LEMMA ListStutters ==
  ASSUME ListInv, UNCHANGED listVars
  PROVE  ListInv' /\ UNCHANGED <<ListContents(node), ItrPosition, listReturned>>
<1>1. UNCHANGED <<node, allocated, itr, listReturned>>
  BY DEF listVars
<1>2. ListInv'
  BY <1>1 DEF ListInv, ListAt
<1>3. UNCHANGED <<ListContents(node), ItrPosition, listReturned>>
  BY <1>1 DEF ItrPosition
<1> QED
  BY <1>2, <1>3

LEMMA ListShown ==
  ASSUME ListInv
  PROVE  ListContents(node) \in Seq(ListItems) /\ ItrPosition \in Nat
<1>1. PICK n \in Nat : \E at \in [0..n + 1 -> Pointers] : \E i \in 0..n + 1 : ListAt(at, n, i)
  BY DEF ListInv
<1>2. PICK at \in [0..n + 1 -> Pointers] : \E i \in 0..n + 1 : ListAt(at, n, i)
  BY <1>1
<1>3. PICK i \in 0..n + 1 : ListAt(at, n, i)
  BY <1>2
<1> QED
  BY <1>3, Shown

LEMMA ListCreated ==
  ASSUME ListCreate
  PROVE  ListInv /\ Sequence!CursorInit
<1> DEFINE at == [j \in 0..1 |-> IF j = 0 THEN HeadNode ELSE TailNode]
<1>1. /\ HeadNode \in Pointers /\ TailNode \in Pointers /\ HeadNode # TailNode
  BY DoubleLinkedListAssumption DEF Pointers
<1>2. at \in [0..1 -> Pointers] /\ at[0] = HeadNode /\ at[1] = TailNode
  BY <1>1
<1> HIDE DEF at
<1>3. /\ node \in [Pointers -> NodeRecord]
      /\ node[HeadNode].next = TailNode /\ node[TailNode].next = TailNode
      /\ node[HeadNode].prev = HeadNode /\ node[TailNode].prev = HeadNode
  <2>1. \A p \in Pointers : NodeOf(NoData, p, p) \in NodeRecord
    BY DEF NodeOf, NodeRecord
  <2>2. NodeOf(NoData, TailNode, HeadNode) \in NodeRecord
    BY <1>1 DEF NodeOf, NodeRecord
  <2>3. \A p \in Pointers : node[p] = IF p = HeadNode \/ p = TailNode
                                        THEN NodeOf(NoData, TailNode, HeadNode)
                                        ELSE NodeOf(NoData, p, p)
    BY DEF ListCreate
  <2>4. node \in [Pointers -> NodeRecord]
    BY <2>1, <2>2, <2>3 DEF ListCreate
  <2>5. /\ node[HeadNode] = [data |-> NoData, next |-> TailNode, prev |-> HeadNode]
        /\ node[TailNode] = [data |-> NoData, next |-> TailNode, prev |-> HeadNode]
    BY <1>1, <2>3 DEF NodeOf
  <2> QED
    BY <2>4, <2>5
<1>4. Chained(node, allocated, at, 0)
  <2>1. 0 \in 0..Cardinality(Nodes)
    BY NodesCount
  <2>2. allocated = {}
    BY DEF ListCreate
  <2>3. \A i, j \in 0..1 : at[i] = at[j] => i = j
    BY <1>1, <1>2
  <2>4. \A i \in 0..0 : node[at[i]].next = at[i + 1] /\ node[at[i + 1]].prev = at[i]
    BY <1>2, <1>3
  <2> QED
    BY <1>2, <1>3, <2>1, <2>2, <2>3, <2>4 DEF Chained
<1>5. ListAt(at, 0, 1) /\ 1 \in 0..0 + 1
  BY <1>2, <1>4 DEF ListAt, ListCreate
<1>6. ListInv
  <2>1. 0 + 1 = 1 /\ 0 \in Nat
    OBVIOUS
  <2>2. at \in [0..0 + 1 -> Pointers]
    BY <1>2, <2>1
  <2> QED
    BY <1>5, <2>1, <2>2 DEF ListInv
<1>7. /\ ListContents(node) \in Seq(ListItems) /\ Len(ListContents(node)) = 0
      /\ ItrPosition = 1
  BY <1>5, Shown
<1>8. ListContents(node) = <<>>
  BY <1>7, EmptySeq
<1> QED
  BY <1>6, <1>7, <1>8 DEF Sequence!CursorInit, Sequence!Result, ListCreate

\* doubleLinkedList.c is a sequence with an iterator on it: every call gives
\* back what the sequence says, for any nodes and items; ListItrPrev at the
\* begin is the one step that does not.
THEOREM ListImplementsSequence == ListSpec => ImplementsSequence
<1>1. ListCreate => ListInv /\ Sequence!CursorInit
  BY ListCreated
<1>2. ListInv /\ [ListNext]_listVars
        => /\ ListInv'
           /\ [Sequence!CursorNext \/ PrevToHead]_<<ListContents(node), ItrPosition, listReturned>>
  <2>1. CASE UNCHANGED listVars
    BY <2>1, ListStutters
  <2> QED
    BY <2>1, ListStepRefines
<1> QED
  BY <1>1, <1>2, PTL DEF ListSpec, ImplementsSequence

\* The iterator of the sequence never leaves it at the front.
LEMMA CursorStaysInside ==
  ASSUME ListContents(node) \in Seq(ListItems), ItrPosition \in Nat, ItrPosition # 0,
         Sequence!CursorNext
  PROVE  ItrPosition' # 0
<1> DEFINE p == ItrPosition
           n == Len(ListContents(node))
<1>1. p \in Nat /\ n \in Nat /\ p >= 1 /\ (ListContents(node) = <<>> <=> n = 0)
  BY EmptySeq
<1>2. ASSUME NEW call, NEW k, NEW x, Sequence!PutIn(call, k, x)
      PROVE  p' # 0
  BY <1>1, <1>2 DEF Sequence!PutIn
<1>3. ASSUME NEW call, NEW k \in Nat, k >= 1, Sequence!TakeOut(call, k)
      PROVE  p' # 0
  BY <1>1, <1>3 DEF Sequence!TakeOut
<1>4. ASSUME NEW call, Sequence!Null(call)
      PROVE  p' # 0
  BY <1>1, <1>4 DEF Sequence!Null
<1>5. ASSUME NEW call, NEW k \in Nat, k >= 1, Sequence!Moved(call, k)
      PROVE  p' # 0
  BY <1>5 DEF Sequence!Moved
<1>6. ASSUME NEW x, Sequence!Set(x)
      PROVE  p' # 0
  BY <1>1, <1>4, <1>6 DEF Sequence!Set
<1>7. ASSUME Sequence!PopHead \/ Sequence!PopTail \/ Sequence!RemoveHere
      PROVE  p' # 0
  <2>1. CASE Sequence!PopHead
    BY <1>3, <1>4, <2>1 DEF Sequence!PopHead
  <2>2. CASE Sequence!PopTail
    BY <1>1, <1>3, <1>4, <2>2 DEF Sequence!PopTail
  <2>3. CASE Sequence!RemoveHere
    BY <1>1, <1>3, <1>4, <2>3 DEF Sequence!RemoveHere
  <2> QED
    BY <1>7, <2>1, <2>2, <2>3
<1>8. ASSUME Sequence!Begin \/ Sequence!GoNext \/ Sequence!GoPrev
      PROVE  p' # 0
  <2>1. CASE Sequence!Begin
    BY <1>5, <2>1 DEF Sequence!Begin
  <2>2. CASE Sequence!GoNext
    BY <1>1, <2>2 DEF Sequence!GoNext, Sequence!Moved
  <2>3. CASE Sequence!GoPrev
    BY <1>1, <2>3 DEF Sequence!GoPrev, Sequence!Moved
  <2> QED
    BY <1>8, <2>1, <2>2, <2>3
<1>9. ASSUME NEW k \in 1..Cardinality(Nodes) + 1, Sequence!Visit(k)
      PROVE  p' # 0
  <2>1. k \in Nat /\ k >= 1
    BY NodesCount
  <2>2. CASE ~Sequence!AtItem
    BY <1>1, <1>5, <1>9, <2>2 DEF Sequence!Visit
  <2>3. CASE Sequence!AtItem
    BY <1>1, <1>9, <2>1, <2>3 DEF Sequence!Visit
  <2> QED
    BY <2>2, <2>3
<1>10. ASSUME NEW x, \/ Sequence!PushHead(x) \/ Sequence!PushTail(x)
                    \/ Sequence!InsertBefore(x)
       PROVE  p' # 0
  BY <1>2, <1>10 DEF Sequence!PushHead, Sequence!PushTail, Sequence!InsertBefore
<1>11. ASSUME Sequence!Fails
       PROVE  p' # 0
  BY <1>4, <1>11 DEF Sequence!Fails
<1> QED
  BY <1>6, <1>7, <1>8, <1>9, <1>10, <1>11 DEF Sequence!CursorNext

\* What doubleLinkedList.h promises is kept, ListItrPrev included, for the
\* callers that do not ask for the iterator before the begin: for any nodes
\* and items the list is the sequence of the header.
THEOREM CarefulListIsASequence == CarefulSpec => Sequence!Spec
<1> DEFINE Careful == ListNext /\ ~(ListItrPrev /\ itr = node[HeadNode].next)
           Inside == ListInv /\ ItrPosition # 0
<1>1. ListCreate => Inside /\ Sequence!CursorInit
  BY ListCreated DEF Sequence!CursorInit
<1>2. Inside /\ [Careful]_listVars
        => Inside' /\ [Sequence!CursorNext]_<<ListContents(node), ItrPosition, listReturned>>
  <2> SUFFICES ASSUME ListInv, ItrPosition # 0, [Careful]_listVars
               PROVE  /\ ListInv' /\ ItrPosition' # 0
                      /\ [Sequence!CursorNext]_<<ListContents(node), ItrPosition, listReturned>>
    OBVIOUS
  <2>1. CASE UNCHANGED listVars
    BY <2>1, ListStutters
  <2>2. CASE Careful
    <3>1. ListInv' /\ Sequence!CursorNext
      BY <2>2, ListStepRefines
    <3>2. ListContents(node) \in Seq(ListItems) /\ ItrPosition \in Nat
      BY ListShown
    <3> QED
      BY <3>1, <3>2, CursorStaysInside
  <2> QED
    BY <2>1, <2>2
<1> QED
  BY <1>1, <1>2, PTL DEF CarefulSpec, Sequence!Spec

-----------------------------------------------------------------------------
\* The list of persons.  From the head on it is at[0], ..., at[n - 1], in
\* ascending order, and a person that is not on it points nowhere.

PersonOrNone == Persons \cup {NoPerson}

SortedAt(top, links, in, at, n) ==
  /\ n \in Nat
  /\ at \in [0..n -> PersonOrNone]
  /\ at[0] = top /\ at[n] = NoPerson
  /\ \A i \in 0..n - 1 : at[i] \in Persons /\ links[at[i]] = at[i + 1]
  /\ \A i, j \in 0..n - 1 : i < j => m_id(at[i]) < m_id(at[j])
  /\ in = {at[i] : i \in 0..n - 1}
  /\ links \in [Persons -> PersonOrNone]
  /\ \A p \in Persons \ in : links[p] = NoPerson

\* The inductive invariant.
KeyedInv ==
  \E n \in Nat : \E at \in [0..n -> PersonOrNone] :
    SortedAt(first, m_next, inserted, at, n)

\* Nobody is there twice, so the list is no longer than there are persons.
LEMMA PersonsCount ==
  ASSUME NEW top, NEW links, NEW in, NEW at, NEW n, SortedAt(top, links, in, at, n)
  PROVE  /\ Cardinality(Persons) \in Nat
         /\ n \in Nat /\ n <= Cardinality(Persons)
         /\ \A i, j \in 0..n - 1 : at[i] = at[j] => i = j
<1>1. n \in Nat /\ Cardinality(Persons) \in Nat
  BY SingleListAssumption, FS_CardinalityType DEF SortedAt
<1>2. ASSUME NEW i \in 0..n - 1, NEW j \in 0..n - 1, at[i] = at[j]
      PROVE  i = j
  <2>1. ~(m_id(at[i]) < m_id(at[j])) /\ ~(m_id(at[j]) < m_id(at[i]))
    BY <1>2, SingleListAssumption DEF SortedAt
  <2>2. ~(i < j) /\ ~(j < i)
    BY <2>1 DEF SortedAt
  <2> QED
    BY <1>1, <2>2
<1>3. n <= Cardinality(Persons)
  <2> DEFINE f == [i \in 0..n - 1 |-> at[i]]
  <2>1. f \in [0..n - 1 -> Persons]
    BY DEF SortedAt
  <2>2. f \in Injection(0..n - 1, Persons)
    BY <1>2, <2>1 DEF Injection, IsInjective
  <2>3. Cardinality(0..n - 1) <= Cardinality(Persons)
    BY <2>2, FS_Injection, SingleListAssumption
  <2>4. Cardinality(0..n - 1) = n
    <3>1. 0 \in Int /\ n - 1 \in Int /\ (0 > n - 1 <=> n = 0) /\ (n - 1) - 0 + 1 = n
      BY <1>1
    <3> QED
      BY <3>1, FS_Interval
  <2> QED
    BY <2>3, <2>4
<1> QED
  BY <1>1, <1>2, <1>3

\* What a walk meets.
LEMMA WalkMeets ==
  ASSUME NEW at, NEW n, SortedAt(first, m_next, inserted, at, n)
  PROVE  /\ DOMAIN Walked = 0..Cardinality(Persons)
         /\ \A k \in 0..Cardinality(Persons) :
              Walked[k] = IF k < n THEN at[k] ELSE NoPerson
<1> DEFINE K == 0..Cardinality(Persons)
           met == [k \in K |-> IF k < n THEN at[k] ELSE NoPerson]
<1>1. /\ Cardinality(Persons) \in Nat /\ n \in Nat
      /\ \A k \in K : k \in Nat /\ (k # 0 => k - 1 \in K)
  BY PersonsCount
<1>2. \A k \in K : met[k] = IF k = 0 THEN first
                            ELSE IF met[k - 1] = NoPerson THEN NoPerson
                            ELSE m_next[met[k - 1]]
  <2> SUFFICES ASSUME NEW k \in K
               PROVE  met[k] = IF k = 0 THEN first
                               ELSE IF met[k - 1] = NoPerson THEN NoPerson
                               ELSE m_next[met[k - 1]]
    OBVIOUS
  <2>1. CASE k = 0
    <3>1. met[0] = IF 0 < n THEN at[0] ELSE NoPerson
      BY <1>1
    <3>2. n = 0 => first = NoPerson
      BY DEF SortedAt
    <3>3. at[0] = first
      BY DEF SortedAt
    <3> QED
      BY <1>1, <2>1, <3>1, <3>2, <3>3
  <2>2. CASE k # 0 /\ k - 1 < n
    <3>1. k - 1 \in K /\ k - 1 \in 0..n - 1 /\ (k - 1) + 1 = k
      BY <1>1, <2>2
    <3>2. met[k - 1] = at[k - 1]
      BY <2>2, <3>1
    <3>3. at[k - 1] \in Persons /\ m_next[at[k - 1]] = at[k]
      BY <3>1 DEF SortedAt
    <3>4. ~(k < n) => k = n
      BY <1>1, <2>2
    <3>5. met[k] = at[k]
      BY <3>4 DEF SortedAt
    <3> QED
      BY <2>2, <3>2, <3>3, <3>5, SingleListAssumption
  <2>3. CASE k # 0 /\ ~(k - 1 < n)
    <3>1. k - 1 \in K /\ ~(k < n)
      BY <1>1, <2>3
    <3> QED
      BY <2>3, <3>1
  <2> QED
    BY <2>1, <2>2, <2>3
<1>3. met = [k \in K |-> IF k = 0 THEN first
                         ELSE IF met[k - 1] = NoPerson THEN NoPerson
                         ELSE m_next[met[k - 1]]]
  <2> DEFINE g == [k \in K |-> IF k = 0 THEN first
                               ELSE IF met[k - 1] = NoPerson THEN NoPerson
                               ELSE m_next[met[k - 1]]]
  <2>1. \A k \in K : met[k] = g[k]
    BY <1>2
  <2> QED
    BY <2>1
<1> DEFINE walk == Walked
<1>4. walk = [k \in K |-> IF k = 0 THEN first
                          ELSE IF walk[k - 1] = NoPerson THEN NoPerson
                          ELSE m_next[walk[k - 1]]]
  <2> HIDE DEF met
  <2> QED
    BY <1>3 DEF Walked
<1>5. \A k \in K : walk[k] = IF k = 0 THEN first
                             ELSE IF walk[k - 1] = NoPerson THEN NoPerson
                             ELSE m_next[walk[k - 1]]
  <2> HIDE DEF walk
  <2> QED
    BY <1>4
<1>6. DOMAIN walk = K
  <2> HIDE DEF walk
  <2> QED
    BY <1>4
<1> HIDE DEF met, walk
<1>7. \A k \in K : walk[k] = met[k]
  <2> DEFINE T == {k \in K : walk[k] # met[k]}
  <2> SUFFICES ASSUME T # {}
               PROVE  FALSE
    OBVIOUS
  <2>1. T \subseteq Nat
    BY <1>1
  <2>2. PICK k \in T : \A j \in T : k <= j
    <3> HIDE DEF T
    <3> QED
      BY <2>1, LeastNatural
  <2>3. k # 0
    BY <1>2, <1>5
  <2>4. k - 1 \in K /\ k - 1 \notin T
    BY <1>1, <2>2, <2>3
  <2> QED
    BY <1>2, <1>5, <2>3, <2>4
<1> QED
  BY <1>6, <1>7 DEF met, walk

\* The persons on the list are those inserted, in ascending order.
LEMMA KeyedInOrder == KeyedInv => ListedInOrder
<1> SUFFICES ASSUME NEW n \in Nat, NEW at,
                    SortedAt(first, m_next, inserted, at, n)
             PROVE  ListedInOrder
  BY DEF KeyedInv
<1>1. /\ Cardinality(Persons) \in Nat /\ n <= Cardinality(Persons)
      /\ \A k \in 0..Cardinality(Persons) :
           Walked[k] = IF k < n THEN at[k] ELSE NoPerson
  BY PersonsCount, WalkMeets
<1>2. /\ 0..n - 1 \subseteq 0..Cardinality(Persons) - 1
      /\ 0..Cardinality(Persons) - 1 \subseteq 0..Cardinality(Persons)
      /\ \A k \in 0..Cardinality(Persons) - 1 : k < n <=> k \in 0..n - 1
  BY <1>1
<1>3. \A k \in 0..n - 1 : Walked[k] = at[k] /\ at[k] # NoPerson
  BY <1>1, <1>2, SingleListAssumption DEF SortedAt
<1>4. Places = 0..n - 1
  BY <1>1, <1>2, <1>3 DEF Places
<1>5. OnList = inserted
  BY <1>3, <1>4 DEF OnList, SortedAt
<1>6. \A i, j \in Places : i < j => m_id(Walked[i]) < m_id(Walked[j])
  BY <1>3, <1>4 DEF SortedAt
<1> QED
  BY <1>5, <1>6 DEF ListedInOrder

\* Where a loop ends.
LEMMA LoopEnds ==
  ASSUME NEW at, NEW n, SortedAt(first, m_next, inserted, at, n),
         NEW S, S \subseteq 0..Cardinality(Persons), n \in S,
         NEW e, e = FirstOf(S)
  PROVE  /\ e \in S /\ e \in 0..n
         /\ \A i \in 0..n : i < e => i \notin S
         /\ Pair(e) = [prev |-> IF e = 0 THEN NoPerson ELSE at[e - 1], curr |-> at[e]]
<1>1. Cardinality(Persons) \in Nat /\ n \in Nat /\ n <= Cardinality(Persons)
  BY PersonsCount
<1>2. \E k \in S : \A j \in S : k <= j
  <2>1. S \subseteq Nat /\ S # {}
    BY <1>1
  <2> QED
    BY <2>1, LeastNatural
<1>3. e \in S /\ \A j \in S : e <= j
  BY <1>2 DEF FirstOf
<1>4. e \in 0..n /\ \A i \in 0..n : i < e => i \notin S
  BY <1>1, <1>3
<1>5. \A k \in 0..n : Walked[k] = at[k]
  <2>1. \A k \in 0..n : k \in 0..Cardinality(Persons) /\ (k < n \/ k = n)
    BY <1>1
  <2>2. at[n] = NoPerson
    BY DEF SortedAt
  <2> QED
    BY <1>1, <2>1, <2>2, WalkMeets
<1>6. e # 0 => e - 1 \in 0..n
  BY <1>1, <1>4
<1> QED
  BY <1>3, <1>4, <1>5, <1>6 DEF Pair

LEMMA SearchEnds ==
  ASSUME NEW at, NEW n, SortedAt(first, m_next, inserted, at, n), NEW key \in Int
  PROVE  \E e \in 0..n :
           /\ Search(key) = [prev |-> IF e = 0 THEN NoPerson ELSE at[e - 1],
                             curr |-> at[e]]
           /\ \A i \in 0..n - 1 : (i < e) <=> m_id(at[i]) < key
<1> DEFINE S == {k \in DOMAIN Walked : Walked[k] = NoPerson \/ key <= m_id(Walked[k])}
<1>1. Cardinality(Persons) \in Nat /\ n \in Nat /\ n <= Cardinality(Persons)
  BY PersonsCount
<1>2. /\ DOMAIN Walked = 0..Cardinality(Persons)
      /\ \A k \in 0..Cardinality(Persons) : Walked[k] = IF k < n THEN at[k] ELSE NoPerson
  BY WalkMeets
<1>3. S \subseteq 0..Cardinality(Persons) /\ n \in S
  BY <1>1, <1>2
<1>4. \A i \in 0..n - 1 : i \in S <=> ~(m_id(at[i]) < key)
  <2> SUFFICES ASSUME NEW i \in 0..n - 1
               PROVE  i \in S <=> ~(m_id(at[i]) < key)
    OBVIOUS
  <2>1. i \in 0..Cardinality(Persons) /\ i < n
    BY <1>1
  <2>2. at[i] \in Persons /\ at[i] # NoPerson /\ m_id(at[i]) \in Int
    BY SingleListAssumption DEF SortedAt
  <2>3. Walked[i] = at[i]
    BY <1>2, <2>1
  <2> QED
    BY <1>2, <2>1, <2>2, <2>3
<1> DEFINE e == FirstOf(S)
<1>5. /\ e \in S /\ e \in 0..n
      /\ \A i \in 0..n : i < e => i \notin S
      /\ Pair(e) = [prev |-> IF e = 0 THEN NoPerson ELSE at[e - 1], curr |-> at[e]]
  <2> HIDE DEF S
  <2> QED
    BY <1>3, LoopEnds
<1>6. ASSUME NEW i \in 0..n - 1
      PROVE  (i < e) <=> m_id(at[i]) < key
  <2> HIDE DEF e, S
  <2>1. i \in 0..n /\ i \in Nat /\ e \in Nat /\ e <= n
    BY <1>1, <1>5
  <2>2. CASE i < e
    BY <1>4, <1>5, <2>1, <2>2
  <2>3. CASE ~(i < e)
    <3>1. e \in 0..n - 1
      BY <1>1, <2>1, <2>3
    <3>2. ~(m_id(at[e]) < key)
      BY <1>4, <1>5, <3>1
    <3>3. i = e \/ m_id(at[e]) < m_id(at[i])
      <4>1. i = e \/ e < i
        BY <2>1, <2>3
      <4> QED
        BY <3>1, <4>1 DEF SortedAt
    <3>4. m_id(at[e]) \in Int /\ m_id(at[i]) \in Int
      BY <3>1, SingleListAssumption DEF SortedAt
    <3> QED
      BY <2>3, <3>2, <3>3, <3>4
  <2> QED
    BY <2>2, <2>3
<1>7. Search(key) = Pair(e)
  BY DEF Search
<1> HIDE DEF e
<1> QED
  BY <1>5, <1>6, <1>7

\* A removal's loop ends at the key, or at the end without it.
FoundAt(at, n, key, e) ==
  /\ Find(key) = [prev |-> IF e = 0 THEN NoPerson ELSE at[e - 1], curr |-> at[e]]
  /\ e # n => m_id(at[e]) = key
  /\ \A i \in 0..n - 1 : i # e => m_id(at[i]) # key

LEMMA FindEnds ==
  ASSUME NEW at, NEW n, SortedAt(first, m_next, inserted, at, n), NEW key \in Int
  PROVE  \E e \in 0..n : FoundAt(at, n, key, e)
<1> DEFINE S == {k \in DOMAIN Walked : Walked[k] = NoPerson \/ key = m_id(Walked[k])}
<1>1. Cardinality(Persons) \in Nat /\ n \in Nat /\ n <= Cardinality(Persons)
  BY PersonsCount
<1>2. /\ DOMAIN Walked = 0..Cardinality(Persons)
      /\ \A k \in 0..Cardinality(Persons) : Walked[k] = IF k < n THEN at[k] ELSE NoPerson
  BY WalkMeets
<1>3. S \subseteq 0..Cardinality(Persons) /\ n \in S
  BY <1>1, <1>2
<1>4. \A i \in 0..n - 1 : i \in S <=> m_id(at[i]) = key
  <2> SUFFICES ASSUME NEW i \in 0..n - 1
               PROVE  i \in S <=> m_id(at[i]) = key
    OBVIOUS
  <2>1. i \in 0..Cardinality(Persons) /\ i < n
    BY <1>1
  <2>2. at[i] \in Persons /\ at[i] # NoPerson
    BY SingleListAssumption DEF SortedAt
  <2>3. Walked[i] = at[i]
    BY <1>2, <2>1
  <2> QED
    BY <1>2, <2>1, <2>2, <2>3
<1> DEFINE e == FirstOf(S)
<1>5. /\ e \in S /\ e \in 0..n
      /\ \A i \in 0..n : i < e => i \notin S
      /\ Pair(e) = [prev |-> IF e = 0 THEN NoPerson ELSE at[e - 1], curr |-> at[e]]
  <2> HIDE DEF S
  <2> QED
    BY <1>3, LoopEnds
<1>6. Find(key) = Pair(e)
  BY DEF Find
<1> HIDE DEF e, S
<1>7. e # n => e \in 0..n - 1 /\ m_id(at[e]) = key
  BY <1>1, <1>4, <1>5
<1>8. ASSUME NEW i \in 0..n - 1, i # e, m_id(at[i]) = key
      PROVE  FALSE
  <2>1. i \in S /\ i \in 0..n /\ ~(i < e) /\ i \in Nat /\ e \in Nat
    BY <1>1, <1>4, <1>5, <1>8
  <2>2. e < i /\ e # n
    BY <1>1, <1>8, <2>1
  <2>3. m_id(at[e]) < m_id(at[i])
    BY <1>7, <2>2 DEF SortedAt
  <2> QED
    BY <1>7, <1>8, <2>2, <2>3
<1> QED
  BY <1>5, <1>6, <1>7, <1>8 DEF FoundAt

\* The chain with p at place j, and without place j.
Widened(at, n, j, p) ==
  [i \in 0..n + 1 |-> IF i < j THEN at[i] ELSE IF i = j THEN p ELSE at[i - 1]]
Narrowed(at, n, j) == [i \in 0..n - 1 |-> IF i < j THEN at[i] ELSE at[i + 1]]

LinksWith(links, at, j, p) ==
  IF j = 0 THEN [links EXCEPT ![p] = at[0]]
           ELSE [links EXCEPT ![at[j - 1]] = p, ![p] = at[j]]
LinksWithout(links, at, j) ==
  IF j = 0 THEN [links EXCEPT ![at[0]] = NoPerson]
           ELSE [links EXCEPT ![at[j - 1]] = at[j + 1], ![at[j]] = NoPerson]

LEMMA LinksWithFacts ==
  ASSUME NEW top, NEW links, NEW in, NEW at, NEW n, SortedAt(top, links, in, at, n),
         NEW p \in Persons \ in, NEW j \in 0..n,
         NEW links2, links2 = LinksWith(links, at, j, p)
  PROVE  /\ links2 \in [Persons -> PersonOrNone]
         /\ links2[p] = at[j]
         /\ j # 0 => links2[at[j - 1]] = p
         /\ \A q \in Persons : q # p /\ (j # 0 => q # at[j - 1]) => links2[q] = links[q]
<1>1. /\ links \in [Persons -> PersonOrNone] /\ n \in Nat /\ at \in [0..n -> PersonOrNone]
      /\ p \in PersonOrNone
  BY DEF SortedAt, PersonOrNone
<1>2. at[j] \in PersonOrNone
  BY <1>1
<1>3. CASE j = 0
  <2>1. links2 = [links EXCEPT ![p] = at[0]]
    BY <1>3 DEF LinksWith
  <2> QED
    BY <1>1, <1>2, <1>3, <2>1
<1>4. CASE j # 0
  <2>1. links2 = [links EXCEPT ![at[j - 1]] = p, ![p] = at[j]]
    BY <1>4 DEF LinksWith
  <2>2. j - 1 \in 0..n - 1
    BY <1>1, <1>4
  <2>3. at[j - 1] \in Persons /\ at[j - 1] # p
    BY <2>2 DEF SortedAt
  <2> DEFINE q == at[j - 1]
             r == at[j]
  <2>4. q \in Persons /\ q # p /\ r \in PersonOrNone /\ links2 = [links EXCEPT ![q] = p, ![p] = r]
    BY <1>2, <2>1, <2>3
  <2> HIDE DEF q, r
  <2>5. /\ links2 \in [Persons -> PersonOrNone] /\ links2[p] = r /\ links2[q] = p
        /\ \A x \in Persons : x # p /\ x # q => links2[x] = links[x]
    BY <1>1, <2>4
  <2> QED
    BY <1>4, <2>5 DEF q, r
<1> QED
  BY <1>3, <1>4

LEMMA LinksWithoutFacts ==
  ASSUME NEW top, NEW links, NEW in, NEW at, NEW n, SortedAt(top, links, in, at, n),
         NEW j \in 0..n - 1,
         NEW links2, links2 = LinksWithout(links, at, j)
  PROVE  /\ links2 \in [Persons -> PersonOrNone]
         /\ links2[at[j]] = NoPerson
         /\ j # 0 => links2[at[j - 1]] = at[j + 1]
         /\ \A q \in Persons : q # at[j] /\ (j # 0 => q # at[j - 1]) => links2[q] = links[q]
<1>1. /\ links \in [Persons -> PersonOrNone] /\ n \in Nat /\ at \in [0..n -> PersonOrNone]
      /\ j + 1 \in 0..n /\ at[j] \in Persons /\ NoPerson \in PersonOrNone
  BY DEF SortedAt, PersonOrNone
<1>2. at[j + 1] \in PersonOrNone
  BY <1>1
<1>3. CASE j = 0
  <2>1. links2 = [links EXCEPT ![at[0]] = NoPerson]
    BY <1>3 DEF LinksWithout
  <2> QED
    BY <1>1, <1>3, <2>1
<1>4. CASE j # 0
  <2>1. links2 = [links EXCEPT ![at[j - 1]] = at[j + 1], ![at[j]] = NoPerson]
    BY <1>4 DEF LinksWithout
  <2>2. j - 1 \in 0..n - 1 /\ j - 1 # j
    BY <1>1, <1>4
  <2>3. at[j - 1] \in Persons /\ at[j - 1] # at[j]
    <3>1. \A i, k \in 0..n - 1 : at[i] = at[k] => i = k
      BY PersonsCount
    <3> QED
      BY <2>2, <3>1 DEF SortedAt
  <2> DEFINE q == at[j - 1]
             p == at[j]
             r == at[j + 1]
  <2>4. /\ q \in Persons /\ p \in Persons /\ q # p /\ r \in PersonOrNone
        /\ links2 = [links EXCEPT ![q] = r, ![p] = NoPerson]
    BY <1>1, <1>2, <2>1, <2>3
  <2> HIDE DEF p, q, r
  <2>5. /\ links2 \in [Persons -> PersonOrNone] /\ links2[p] = NoPerson /\ links2[q] = r
        /\ \A x \in Persons : x # p /\ x # q => links2[x] = links[x]
    BY <1>1, <2>4
  <2> QED
    BY <1>4, <2>5 DEF p, q, r
<1> QED
  BY <1>3, <1>4

LEMMA PersonPut ==
  ASSUME NEW top, NEW links, NEW in, NEW at, NEW n, SortedAt(top, links, in, at, n),
         NEW p \in Persons \ in, NEW j \in 0..n,
         \A i \in 0..n - 1 : IF i < j THEN m_id(at[i]) < m_id(p) ELSE m_id(p) < m_id(at[i]),
         NEW links2, links2 = LinksWith(links, at, j, p)
  PROVE  SortedAt(IF j = 0 THEN p ELSE top, links2, in \cup {p},
                  Widened(at, n, j, p), n + 1)
<1> DEFINE at2 == Widened(at, n, j, p)
<1>1. /\ n \in Nat /\ j \in Nat /\ j <= n /\ n + 1 \in Nat /\ (n + 1) - 1 = n
      /\ p \in PersonOrNone /\ p # NoPerson /\ p \notin in
  BY SingleListAssumption DEF SortedAt, PersonOrNone
<1>2. /\ links2 \in [Persons -> PersonOrNone]
      /\ links2[p] = at[j]
      /\ j # 0 => links2[at[j - 1]] = p
      /\ \A q \in Persons : q # p /\ (j # 0 => q # at[j - 1]) => links2[q] = links[q]
  BY LinksWithFacts
<1>3. \A i \in 0..n - 1 : at[i] \in Persons /\ at[i] \in in /\ at[i] # p
  BY DEF SortedAt
<1>4. /\ at2 \in [0..n + 1 -> PersonOrNone]
      /\ \A i \in 0..n + 1 : /\ i < j => at2[i] = at[i] /\ i \in 0..n - 1
                             /\ i > j => at2[i] = at[i - 1] /\ i - 1 \in 0..n
      /\ at2[j] = p /\ j \in 0..n + 1
  <2>1. /\ at \in [0..n -> PersonOrNone]
        /\ \A i \in 0..n + 1 : /\ i < j => i \in 0..n /\ i \in 0..n - 1
                               /\ i > j => i - 1 \in 0..n /\ ~(i < j) /\ i # j
                               /\ ~(i < j) /\ i # j => i > j
        /\ j \in 0..n + 1 /\ ~(j < j)
    BY <1>1 DEF SortedAt
  <2> QED
    BY <1>1, <2>1 DEF Widened
<1> HIDE DEF at2
<1>5. at2[0] = (IF j = 0 THEN p ELSE top) /\ at2[n + 1] = NoPerson
  <2>1. 0 \in 0..n + 1 /\ (j # 0 => 0 < j) /\ n + 1 \in 0..n + 1 /\ n + 1 > j /\ (n + 1) - 1 = n
    BY <1>1
  <2> QED
    BY <1>4, <2>1 DEF SortedAt
<1>6. ASSUME NEW i \in 0..n
      PROVE  at2[i] \in Persons /\ links2[at2[i]] = at2[i + 1]
  <2>0. i \in Nat /\ i <= n /\ i \in 0..n + 1 /\ i + 1 \in 0..n + 1
    BY <1>1
  <2>1. CASE i < j /\ i + 1 < j
    <3>1. at2[i] = at[i] /\ at2[i + 1] = at[i + 1] /\ i \in 0..n - 1 /\ j - 1 \in 0..n - 1 /\ i # j - 1
      BY <1>1, <1>4, <2>0, <2>1
    <3>2. at[i] # at[j - 1]
      BY <3>1, PersonsCount
    <3>3. links2[at[i]] = links[at[i]]
      BY <1>2, <1>3, <3>1, <3>2
    <3> QED
      BY <3>1, <3>3 DEF SortedAt
  <2>2. CASE i < j /\ ~(i + 1 < j)
    <3>1. i = j - 1 /\ i + 1 = j /\ j # 0
      BY <1>1, <2>0, <2>2
    <3>2. at2[i] = at[i] /\ at2[i + 1] = p /\ i \in 0..n - 1
      BY <1>4, <2>0, <2>2, <3>1
    <3> QED
      BY <1>2, <1>3, <3>1, <3>2
  <2>3. CASE i = j
    <3>1. i + 1 > j /\ (i + 1) - 1 = j
      BY <1>1, <2>0, <2>3
    <3>2. at2[i] = p /\ at2[i + 1] = at[j]
      BY <1>4, <2>0, <2>3, <3>1
    <3> QED
      BY <1>2, <3>2
  <2>4. CASE i > j
    <3>1. /\ i + 1 > j /\ (i + 1) - 1 = i /\ i - 1 \in 0..n - 1 /\ (i - 1) + 1 = i
          /\ (j # 0 => j - 1 \in 0..n - 1 /\ j - 1 # i - 1)
      BY <1>1, <2>0, <2>4
    <3>2. at2[i] = at[i - 1] /\ at2[i + 1] = at[i]
      BY <1>4, <2>0, <2>4, <3>1
    <3>3. j # 0 => at[i - 1] # at[j - 1]
      BY <3>1, PersonsCount
    <3>4. links2[at[i - 1]] = links[at[i - 1]]
      BY <1>2, <1>3, <3>1, <3>3
    <3>5. links[at[i - 1]] = at[i] /\ at[i - 1] \in Persons
      BY <3>1 DEF SortedAt
    <3> QED
      BY <3>2, <3>4, <3>5
  <2> QED
    BY <1>1, <2>0, <2>1, <2>2, <2>3, <2>4
<1>7. ASSUME NEW h \in 0..n, NEW i \in 0..n, h < i
      PROVE  m_id(at2[h]) < m_id(at2[i])
  <2>0. h \in Nat /\ i \in Nat /\ h \in 0..n + 1 /\ i \in 0..n + 1 /\ h <= n /\ i <= n
    BY <1>1
  <2>1. CASE i < j
    <3>1. at2[h] = at[h] /\ at2[i] = at[i] /\ h \in 0..n - 1 /\ i \in 0..n - 1
      BY <1>1, <1>4, <1>7, <2>0, <2>1
    <3> QED
      BY <1>7, <3>1 DEF SortedAt
  <2>2. CASE i = j
    <3>1. at2[h] = at[h] /\ at2[i] = p /\ h \in 0..n - 1 /\ h < j
      BY <1>1, <1>4, <1>7, <2>0, <2>2
    <3> QED
      BY <3>1
  <2>3. CASE i > j /\ h = j
    <3>1. at2[h] = p /\ at2[i] = at[i - 1] /\ i - 1 \in 0..n - 1 /\ ~(i - 1 < j)
      BY <1>1, <1>4, <1>7, <2>0, <2>3
    <3> QED
      BY <3>1
  <2>4. CASE i > j /\ h < j
    <3>1. at2[h] = at[h] /\ at2[i] = at[i - 1] /\ h \in 0..n - 1 /\ i - 1 \in 0..n - 1 /\ h < i - 1
      BY <1>1, <1>4, <1>7, <2>0, <2>4
    <3> QED
      BY <3>1 DEF SortedAt
  <2>5. CASE i > j /\ h > j
    <3>1. /\ at2[h] = at[h - 1] /\ at2[i] = at[i - 1] /\ h - 1 \in 0..n - 1
          /\ i - 1 \in 0..n - 1 /\ h - 1 < i - 1
      BY <1>1, <1>4, <1>7, <2>0, <2>5
    <3> QED
      BY <3>1 DEF SortedAt
  <2> QED
    BY <1>1, <2>0, <2>1, <2>2, <2>3, <2>4, <2>5
<1>8. in \cup {p} = {at2[i] : i \in 0..n}
  <2>1. ASSUME NEW q \in in
        PROVE  \E i \in 0..n : q = at2[i]
    <3>1. PICK k \in 0..n - 1 : q = at[k]
      BY DEF SortedAt
    <3>2. CASE k < j
      <4>1. k \in 0..n /\ k \in 0..n + 1
        BY <1>1
      <4> QED
        BY <1>4, <3>1, <3>2, <4>1
    <3>3. CASE ~(k < j)
      <4>1. k + 1 \in 0..n /\ k + 1 > j /\ (k + 1) - 1 = k /\ k + 1 \in 0..n + 1
        BY <1>1, <3>3
      <4> QED
        BY <1>4, <3>1, <4>1
    <3> QED
      BY <3>2, <3>3
  <2>2. ASSUME NEW i \in 0..n
        PROVE  at2[i] \in in \cup {p}
    <3>1. i \in 0..n + 1 /\ (i > j => i - 1 \in 0..n - 1) /\ (i < j \/ i = j \/ i > j)
      BY <1>1
    <3> QED
      BY <1>3, <1>4, <3>1
  <2>3. p = at2[j]
    BY <1>4
  <2> QED
    BY <2>1, <2>2, <2>3
<1>9. ASSUME NEW q \in Persons \ (in \cup {p})
      PROVE  links2[q] = NoPerson
  <2>1. j # 0 => j - 1 \in 0..n - 1
    BY <1>1
  <2>2. q # p /\ (j # 0 => q # at[j - 1])
    BY <1>3, <2>1
  <2> QED
    BY <1>2, <2>2 DEF SortedAt
<1>10. SortedAt(IF j = 0 THEN p ELSE top, links2, in \cup {p}, at2, n + 1)
  BY <1>1, <1>2, <1>4, <1>5, <1>6, <1>7, <1>8, <1>9 DEF SortedAt
<1> QED
  BY <1>10 DEF at2

LEMMA PersonTaken ==
  ASSUME NEW top, NEW links, NEW in, NEW at, NEW n, SortedAt(top, links, in, at, n),
         NEW j \in 0..n - 1,
         NEW links2, links2 = LinksWithout(links, at, j)
  PROVE  SortedAt(IF j = 0 THEN at[1] ELSE top, links2, in \ {at[j]},
                  Narrowed(at, n, j), n - 1)
<1> DEFINE at2 == Narrowed(at, n, j)
<1>1. /\ n \in Nat /\ j \in Nat /\ j < n /\ n - 1 \in Nat
  BY DEF SortedAt
<1>2. /\ links2 \in [Persons -> PersonOrNone]
      /\ links2[at[j]] = NoPerson
      /\ j # 0 => links2[at[j - 1]] = at[j + 1]
      /\ \A q \in Persons : q # at[j] /\ (j # 0 => q # at[j - 1]) => links2[q] = links[q]
  BY LinksWithoutFacts
<1>3. /\ \A i \in 0..n - 1 : at[i] \in Persons /\ at[i] \in in /\ links[at[i]] = at[i + 1]
      /\ \A h, i \in 0..n - 1 : at[h] = at[i] => h = i
  <2>1. \A h, i \in 0..n - 1 : at[h] = at[i] => h = i
    BY PersonsCount
  <2> QED
    BY <2>1 DEF SortedAt
<1>4. /\ at2 \in [0..n - 1 -> PersonOrNone]
      /\ \A i \in 0..n - 1 : /\ i < j => at2[i] = at[i]
                             /\ ~(i < j) => at2[i] = at[i + 1]
  <2>1. /\ at \in [0..n -> PersonOrNone]
        /\ \A i \in 0..n - 1 : i \in 0..n /\ i + 1 \in 0..n
    BY <1>1 DEF SortedAt
  <2> QED
    BY <1>1, <2>1 DEF Narrowed
<1> HIDE DEF at2
<1>5. at2[0] = (IF j = 0 THEN at[1] ELSE top) /\ at2[n - 1] = NoPerson
  <2>1. /\ 0 \in 0..n - 1 /\ (j # 0 => 0 < j) /\ n - 1 \in 0..n - 1 /\ ~(n - 1 < j)
        /\ (n - 1) + 1 = n /\ 0 + 1 = 1 /\ (j = 0 => ~(0 < j))
    BY <1>1
  <2> QED
    BY <1>4, <2>1 DEF SortedAt
<1>6. ASSUME NEW i \in 0..(n - 1) - 1
      PROVE  at2[i] \in Persons /\ links2[at2[i]] = at2[i + 1]
  <2>0. /\ i \in Nat /\ i + 1 <= n - 1 /\ i \in 0..n - 1 /\ i + 1 \in 0..n - 1
    BY <1>1
  <2>1. CASE i + 1 < j
    <3>1. at2[i] = at[i] /\ at2[i + 1] = at[i + 1] /\ i # j /\ j - 1 \in 0..n - 1 /\ i # j - 1
      BY <1>1, <1>4, <2>0, <2>1
    <3>2. at[i] # at[j - 1] /\ at[i] # at[j]
      BY <1>3, <2>0, <3>1
    <3> QED
      BY <1>2, <1>3, <2>0, <3>1, <3>2
  <2>2. CASE i + 1 = j
    <3>1. i = j - 1 /\ j # 0 /\ ~(i + 1 < j) /\ i < j
      BY <1>1, <2>0, <2>2
    <3>2. at2[i] = at[i] /\ at2[i + 1] = at[j + 1]
      BY <1>4, <2>0, <2>2, <3>1
    <3> QED
      BY <1>2, <1>3, <2>0, <3>1, <3>2
  <2>3. CASE i + 1 > j
    <3>1. /\ ~(i < j) /\ ~(i + 1 < j) /\ i + 1 # j
          /\ (j # 0 => j - 1 \in 0..n - 1 /\ i + 1 # j - 1)
      BY <1>1, <2>0, <2>3
    <3>2. at2[i] = at[i + 1] /\ at2[i + 1] = at[(i + 1) + 1]
      BY <1>4, <2>0, <3>1
    <3>3. at[i + 1] # at[j] /\ (j # 0 => at[i + 1] # at[j - 1])
      BY <1>3, <2>0, <3>1
    <3> QED
      BY <1>2, <1>3, <2>0, <3>2, <3>3
  <2> QED
    BY <1>1, <2>0, <2>1, <2>2, <2>3
<1>7. ASSUME NEW h \in 0..(n - 1) - 1, NEW i \in 0..(n - 1) - 1, h < i
      PROVE  m_id(at2[h]) < m_id(at2[i])
  <2>0. h \in 0..n - 1 /\ i \in 0..n - 1 /\ h + 1 \in 0..n - 1 /\ i + 1 \in 0..n - 1
    BY <1>1
  <2>1. CASE i < j
    <3>1. at2[h] = at[h] /\ at2[i] = at[i]
      BY <1>1, <1>4, <1>7, <2>0, <2>1
    <3> QED
      BY <1>7, <2>0, <3>1 DEF SortedAt
  <2>2. CASE ~(i < j) /\ h < j
    <3>1. at2[h] = at[h] /\ at2[i] = at[i + 1] /\ h < i + 1
      BY <1>1, <1>4, <1>7, <2>0, <2>2
    <3> QED
      BY <2>0, <3>1 DEF SortedAt
  <2>3. CASE ~(i < j) /\ ~(h < j)
    <3>1. at2[h] = at[h + 1] /\ at2[i] = at[i + 1] /\ h + 1 < i + 1
      BY <1>1, <1>4, <1>7, <2>0, <2>3
    <3> QED
      BY <2>0, <3>1 DEF SortedAt
  <2> QED
    BY <2>1, <2>2, <2>3
<1>8. in \ {at[j]} = {at2[i] : i \in 0..(n - 1) - 1}
  <2>1. ASSUME NEW q \in in \ {at[j]}
        PROVE  \E i \in 0..(n - 1) - 1 : q = at2[i]
    <3>1. PICK k \in 0..n - 1 : q = at[k]
      BY DEF SortedAt
    <3>2. k # j
      BY <3>1
    <3>3. CASE k < j
      <4>1. k \in 0..(n - 1) - 1
        BY <1>1, <3>3
      <4> QED
        BY <1>4, <3>1, <3>3, <4>1
    <3>4. CASE k > j
      <4>1. k - 1 \in 0..(n - 1) - 1 /\ k - 1 \in 0..n - 1 /\ ~(k - 1 < j) /\ (k - 1) + 1 = k
        BY <1>1, <3>4
      <4> QED
        BY <1>4, <3>1, <4>1
    <3> QED
      BY <1>1, <3>2, <3>3, <3>4
  <2>2. ASSUME NEW i \in 0..(n - 1) - 1
        PROVE  at2[i] \in in \ {at[j]}
    <3>1. /\ i \in 0..n - 1 /\ i + 1 \in 0..n - 1 /\ j \in 0..n - 1
          /\ (i < j => i # j) /\ (~(i < j) => i + 1 # j)
      BY <1>1
    <3> QED
      BY <1>3, <1>4, <3>1
  <2> QED
    BY <2>1, <2>2
<1>9. ASSUME NEW q \in Persons \ (in \ {at[j]})
      PROVE  links2[q] = NoPerson
  <2>1. CASE q = at[j]
    BY <1>2, <2>1
  <2>2. CASE q # at[j]
    <3>1. j # 0 => j - 1 \in 0..n - 1
      BY <1>1
    <3>2. j # 0 => q # at[j - 1]
      BY <1>3, <2>2, <3>1
    <3> QED
      BY <1>2, <2>2, <3>2 DEF SortedAt
  <2> QED
    BY <2>1, <2>2
<1>10. SortedAt(IF j = 0 THEN at[1] ELSE top, links2, in \ {at[j]}, at2, n - 1)
  BY <1>1, <1>2, <1>4, <1>5, <1>6, <1>7, <1>8, <1>9 DEF SortedAt
<1> QED
  BY <1>10 DEF at2

\* What the recursive insertion gives back, j being p's place.
LEMMA InsertedRecValue ==
  ASSUME NEW at, NEW n, SortedAt(first, m_next, inserted, at, n),
         NEW p \in Persons \ inserted, NEW j \in 0..n,
         \A i \in 0..n - 1 : (i < j) <=> m_id(at[i]) < m_id(p)
  PROVE  InsertedRec(p) =
           IF j # n /\ m_id(at[j]) = m_id(p) THEN List(first, m_next)
           ELSE List(IF j = 0 THEN p ELSE first, LinksWith(m_next, at, j, p))
<1> DEFINE N == Cardinality(Persons)
           Known == j # n /\ m_id(at[j]) = m_id(p)
           links == IF Known THEN m_next ELSE LinksWith(m_next, at, j, p)
           base(k) == LET top == Walked[k] IN
                      IF top = NoPerson
                        THEN List(p, [m_next EXCEPT ![p] = NoPerson])
                      ELSE IF m_id(p) < m_id(top)
                        THEN List(p, [m_next EXCEPT ![p] = top])
                      ELSE List(top, m_next)
           sol == [k \in 0..N |-> IF k < j THEN List(at[k], links) ELSE base(k)]
           step(f, k) == LET top == Walked[k] IN
                         IF top = NoPerson
                           THEN List(p, [m_next EXCEPT ![p] = NoPerson])
                         ELSE IF m_id(p) < m_id(top)
                           THEN List(p, [m_next EXCEPT ![p] = top])
                         ELSE IF m_id(p) = m_id(top)
                           THEN List(top, m_next)
                         ELSE List(top, [f[k + 1].links EXCEPT ![top] = f[k + 1].top])
<1>1. /\ N \in Nat /\ n \in Nat /\ n <= N /\ j \in Nat /\ j <= n
      /\ 0..n - 1 \subseteq 0..N
  BY PersonsCount
<1>2. /\ \A i, k \in 0..n - 1 : at[i] = at[k] => i = k
      /\ \A i \in 0..n - 1 : /\ at[i] \in Persons /\ at[i] # p /\ at[i] # NoPerson
                            /\ m_next[at[i]] = at[i + 1] /\ m_id(at[i]) \in Int
      /\ m_id(p) \in Int /\ p # NoPerson /\ first = at[0] /\ at[n] = NoPerson
      /\ m_next \in [Persons -> PersonOrNone] /\ at \in [0..n -> PersonOrNone]
  <2>1. \A i, k \in 0..n - 1 : at[i] = at[k] => i = k
    BY PersonsCount
  <2> QED
    BY <2>1, SingleListAssumption DEF SortedAt
<1>3. /\ DOMAIN Walked = 0..N
      /\ \A k \in 0..N : Walked[k] = IF k < n THEN at[k] ELSE NoPerson
  BY WalkMeets
<1>4. \A k \in 0..n - 1 : k \in 0..N /\ Walked[k] = at[k]
  BY <1>1, <1>3
<1>5. \A k \in 0..N : ~(k < j) => step(sol, k) = base(k)
  <2> SUFFICES ASSUME NEW k \in 0..N, ~(k < j)
               PROVE  step(sol, k) = base(k)
    OBVIOUS
  <2>1. CASE k < n
    <3>1. k \in 0..n - 1
      BY <1>1, <2>1
    <3>2. Walked[k] = at[k] /\ ~(m_id(at[k]) < m_id(p)) /\ m_id(at[k]) \in Int
      BY <1>2, <1>4, <3>1
    <3>3. m_id(p) < m_id(at[k]) \/ m_id(p) = m_id(at[k])
      BY <1>2, <3>2
    <3> HIDE DEF sol
    <3> QED
      BY <3>2, <3>3
  <2>2. CASE ~(k < n)
    <3> HIDE DEF sol
    <3> QED
      BY <1>3, <2>2
  <2> QED
    BY <2>1, <2>2
<1>6. base(j) = IF Known THEN List(at[j], m_next)
                ELSE List(p, [m_next EXCEPT ![p] = at[j]])
  <2>1. CASE j = n
    <3>1. Walked[j] = NoPerson /\ at[j] = NoPerson
      BY <1>1, <1>2, <1>3, <2>1
    <3> QED
      BY <2>1, <3>1
  <2>2. CASE j # n
    <3>1. j \in 0..n - 1
      BY <1>1, <2>2
    <3>2. Walked[j] = at[j] /\ ~(m_id(at[j]) < m_id(p)) /\ at[j] # NoPerson
      BY <1>1, <1>2, <1>4, <3>1
    <3>3. m_id(p) < m_id(at[j]) <=> ~Known
      BY <1>2, <2>2, <3>1, <3>2
    <3> HIDE DEF Known
    <3> QED
      BY <3>2, <3>3
  <2> QED
    BY <2>1, <2>2
<1>7. j # 0 => /\ links \in [Persons -> PersonOrNone]
               /\ \A k \in 0..n - 1 : k < j - 1 => links[at[k]] = at[k + 1]
               /\ links = IF Known THEN [m_next EXCEPT ![at[j - 1]] = at[j]]
                          ELSE [[m_next EXCEPT ![p] = at[j]] EXCEPT ![at[j - 1]] = p]
  <2> SUFFICES ASSUME j # 0
               PROVE  /\ links \in [Persons -> PersonOrNone]
                      /\ \A k \in 0..n - 1 : k < j - 1 => links[at[k]] = at[k + 1]
                      /\ links = IF Known THEN [m_next EXCEPT ![at[j - 1]] = at[j]]
                                 ELSE [[m_next EXCEPT ![p] = at[j]] EXCEPT ![at[j - 1]] = p]
    OBVIOUS
  <2>1. j - 1 \in 0..n - 1 /\ (j - 1) + 1 = j
    BY <1>1
  <2>2. CASE Known
    <3>1. links = m_next
      BY <2>2
    <3>2. m_next[at[j - 1]] = at[j] /\ at[j - 1] \in Persons
      BY <1>2, <2>1
    <3>3. [m_next EXCEPT ![at[j - 1]] = at[j]] = m_next
      BY <1>2, <3>2
    <3> HIDE DEF links, Known
    <3> QED
      BY <1>2, <2>2, <3>1, <3>3
  <2>3. CASE ~Known
    <3>1. links = LinksWith(m_next, at, j, p)
      BY <2>3
    <3> HIDE DEF links, Known
    <3>2. /\ links \in [Persons -> PersonOrNone]
          /\ \A q \in Persons : q # p /\ (j # 0 => q # at[j - 1]) => links[q] = m_next[q]
      BY <3>1, LinksWithFacts
    <3>3. ASSUME NEW k \in 0..n - 1, k < j - 1
          PROVE  links[at[k]] = at[k + 1]
      <4>1. at[k] # at[j - 1] /\ at[k] # p /\ at[k] \in Persons /\ m_next[at[k]] = at[k + 1]
        BY <1>1, <1>2, <2>1, <3>3
      <4> QED
        BY <3>2, <4>1
    <3>4. links = [m_next EXCEPT ![at[j - 1]] = p, ![p] = at[j]]
      BY <3>1 DEF LinksWith
    <3> DEFINE q == at[j - 1]
               r == at[j]
    <3>5. q \in Persons /\ q # p /\ links = [m_next EXCEPT ![q] = p, ![p] = r]
      BY <1>2, <2>1, <3>4
    <3> HIDE DEF q, r
    <3>6. links = [[m_next EXCEPT ![p] = r] EXCEPT ![q] = p]
      BY <1>2, <3>5
    <3> QED
      BY <2>3, <3>2, <3>3, <3>6 DEF q, r
  <2> QED
    BY <2>2, <2>3
<1>8. \A k \in 0..N : k < j => step(sol, k) = List(at[k], links)
  <2> SUFFICES ASSUME NEW k \in 0..N, k < j
               PROVE  step(sol, k) = List(at[k], links)
    OBVIOUS
  <2>1. k \in 0..n - 1 /\ k + 1 \in 0..N /\ k \in Nat /\ j # 0
    BY <1>1
  <2>2. Walked[k] = at[k] /\ m_id(at[k]) < m_id(p) /\ at[k] # NoPerson /\ m_id(at[k]) \in Int
    BY <1>2, <1>4, <2>1
  <2>3. step(sol, k) = List(at[k], [sol[k + 1].links EXCEPT ![at[k]] = sol[k + 1].top])
    <3> HIDE DEF sol
    <3> QED
      BY <1>2, <2>2
  <2>4. CASE k + 1 < j
    <3>1. sol[k + 1] = List(at[k + 1], links)
      BY <2>1, <2>4
    <3>2. sol[k + 1].links = links /\ sol[k + 1].top = at[k + 1]
      <4> HIDE DEF sol, links
      <4> QED
        BY <3>1 DEF List
    <3>3. links \in [Persons -> PersonOrNone] /\ links[at[k]] = at[k + 1]
      <4>1. k < j - 1
        BY <1>1, <2>1, <2>4
      <4> QED
        BY <1>7, <2>1, <4>1
    <3> HIDE DEF sol, links
    <3>4. [links EXCEPT ![at[k]] = at[k + 1]] = links
      BY <1>2, <2>1, <3>3
    <3> QED
      BY <2>3, <3>2, <3>4
  <2>5. CASE ~(k + 1 < j)
    <3>1. k + 1 = j /\ k = j - 1
      BY <1>1, <2>1, <2>5
    <3>2. sol[k + 1] = base(j)
      BY <1>1, <2>1, <3>1
    <3> DEFINE sol1 == sol[k + 1]
    <3>3. sol1 = IF Known THEN List(at[j], m_next)
                 ELSE List(p, [m_next EXCEPT ![p] = at[j]])
      BY <1>6, <3>2
    <3> HIDE DEF sol1, Known
    <3>4. /\ sol1.links = IF Known THEN m_next ELSE [m_next EXCEPT ![p] = at[j]]
          /\ sol1.top = IF Known THEN at[j] ELSE p
      BY <3>3 DEF List
    <3>5. links = [sol1.links EXCEPT ![at[k]] = sol1.top]
      <4> HIDE DEF links
      <4>1. CASE Known
        BY <1>7, <2>1, <3>1, <3>4, <4>1
      <4>2. CASE ~Known
        BY <1>7, <2>1, <3>1, <3>4, <4>2
      <4> QED
        BY <4>1, <4>2
    <3> QED
      BY <2>3, <3>5 DEF sol1
  <2> QED
    BY <2>4, <2>5
<1>9. \A k \in 0..N : sol[k] = step(sol, k)
  BY <1>5, <1>8
<1>10. sol = [k \in 0..N |-> step(sol, k)]
  <2> DEFINE g == [k \in 0..N |-> step(sol, k)]
  <2>1. \A k \in 0..N : sol[k] = g[k]
    BY <1>9
  <2> QED
    BY <2>1
<1> DEFINE rec == CHOOSE f : f = [k \in DOMAIN Walked |-> step(f, k)]
<1>11. rec = [k \in 0..N |-> step(rec, k)]
  <2> HIDE DEF sol, step
  <2> QED
    BY <1>3, <1>10
<1>12. InsertedRec(p) = rec[0]
  BY DEF InsertedRec
<1> HIDE DEF rec, sol
<1>13. \A k \in 0..N : rec[k] = step(rec, k)
  BY <1>11
<1>14. \A k \in 0..N : k + 1 \in 0..N /\ rec[k + 1] = sol[k + 1] => step(rec, k) = step(sol, k)
  OBVIOUS
<1>15. step(rec, N) = step(sol, N)
  <2>1. N \in 0..N /\ Walked[N] = NoPerson
    BY <1>1, <1>3
  <2> QED
    BY <2>1
<1> HIDE DEF step
<1>16. \A k \in 0..N : rec[k] = sol[k]
  <2> DEFINE T == {i \in 0..N : rec[N - i] # sol[N - i]}
  <2> SUFFICES ASSUME T # {}
               PROVE  FALSE
    <3>1. \A k \in 0..N : N - k \in 0..N /\ N - (N - k) = k
      BY <1>1
    <3> QED
      BY <3>1
  <2>1. T \subseteq Nat
    BY <1>1
  <2>2. PICK i \in T : \A h \in T : i <= h
    <3> HIDE DEF T
    <3> QED
      BY <2>1, LeastNatural
  <2>3. i # 0
    <3>1. N \in 0..N /\ N - 0 = N
      BY <1>1
    <3> QED
      BY <1>9, <1>13, <1>15, <3>1
  <2>4. i - 1 \in 0..N /\ i - 1 \notin T /\ N - i \in 0..N /\ (N - i) + 1 = N - (i - 1)
    BY <1>1, <2>2, <2>3
  <2>5. rec[(N - i) + 1] = sol[(N - i) + 1] /\ (N - i) + 1 \in 0..N
    BY <1>1, <2>4
  <2>6. rec[N - i] = sol[N - i]
    BY <1>9, <1>13, <1>14, <2>4, <2>5
  <2> QED
    BY <2>6
<1>17. InsertedRec(p) = sol[0] /\ 0 \in 0..N
  BY <1>1, <1>12, <1>16
<1>18. CASE j = 0
  <2>1. sol[0] = base(0)
    BY <1>1, <1>18, <1>17 DEF sol
  <2>2. LinksWith(m_next, at, j, p) = [m_next EXCEPT ![p] = at[0]]
    BY <1>18 DEF LinksWith
  <2> HIDE DEF base
  <2> QED
    BY <1>2, <1>6, <1>17, <1>18, <2>1, <2>2
<1>19. CASE j # 0
  <2>1. sol[0] = List(at[0], links)
    BY <1>1, <1>19, <1>17 DEF sol
  <2> HIDE DEF base
  <2> QED
    BY <1>2, <1>17, <1>19, <2>1
<1> QED
  BY <1>18, <1>19

\* What the recursive removal gives back, j being the key's place or n.
LEMMA RemovedRecValue ==
  ASSUME NEW at, NEW n, SortedAt(first, m_next, inserted, at, n),
         NEW key \in Int, NEW j \in 0..n,
         j # n => m_id(at[j]) = key,
         \A i \in 0..n - 1 : i # j => m_id(at[i]) # key
  PROVE  RemovedRec(key) =
           IF j = n THEN List(first, m_next)
           ELSE List(IF j = 0 THEN at[1] ELSE first, LinksWithout(m_next, at, j))
<1> DEFINE N == Cardinality(Persons)
           links == IF j = n THEN m_next ELSE LinksWithout(m_next, at, j)
           base == IF j = n THEN List(NoPerson, m_next)
                   ELSE List(at[j + 1], [m_next EXCEPT ![at[j]] = NoPerson])
           sol == [k \in 0..N |-> IF k > j THEN List(Walked[k], m_next)
                                  ELSE IF k = j THEN base
                                  ELSE List(at[k], links)]
           step(f, k) == LET top == Walked[k] IN
                         IF top = NoPerson
                           THEN List(NoPerson, m_next)
                         ELSE IF m_id(top) = key
                           THEN List(m_next[top], [m_next EXCEPT ![top] = NoPerson])
                         ELSE List(top, [f[k + 1].links EXCEPT ![top] = f[k + 1].top])
<1>1. /\ N \in Nat /\ n \in Nat /\ n <= N /\ j \in Nat /\ j <= n
      /\ 0..n - 1 \subseteq 0..N
  BY PersonsCount
<1>2. /\ \A i, k \in 0..n - 1 : at[i] = at[k] => i = k
      /\ \A i \in 0..n - 1 : /\ at[i] \in Persons /\ at[i] # NoPerson
                            /\ m_next[at[i]] = at[i + 1]
      /\ first = at[0] /\ at[n] = NoPerson
      /\ m_next \in [Persons -> PersonOrNone] /\ at \in [0..n -> PersonOrNone]
  <2>1. \A i, k \in 0..n - 1 : at[i] = at[k] => i = k
    BY PersonsCount
  <2> QED
    BY <2>1, SingleListAssumption DEF SortedAt
<1>3. /\ DOMAIN Walked = 0..N
      /\ \A k \in 0..N : Walked[k] = IF k < n THEN at[k] ELSE NoPerson
  BY WalkMeets
<1>4. /\ \A k \in 0..n - 1 : k \in 0..N /\ k + 1 \in 0..N /\ Walked[k] = at[k]
      /\ \A k \in 0..n - 1 : Walked[k + 1] = at[k + 1]
  <2>1. ASSUME NEW k \in 0..n - 1
        PROVE  /\ k \in 0..N /\ k + 1 \in 0..N /\ k < n
               /\ (k + 1 < n \/ (k + 1 = n /\ ~(k + 1 < n)))
    <3>1. k \in Nat /\ k < n /\ k + 1 <= n /\ k + 1 <= N
      BY <1>1
    <3> QED
      BY <1>1, <3>1
  <2> QED
    BY <1>2, <1>3, <2>1
<1>5. \A k \in 0..N : k > j => step(sol, k) = List(Walked[k], m_next)
  <2> SUFFICES ASSUME NEW k \in 0..N, k > j
               PROVE  step(sol, k) = List(Walked[k], m_next)
    OBVIOUS
  <2>1. CASE k < n
    <3>1. k \in 0..n - 1 /\ k + 1 > j /\ k # j
      BY <1>1, <2>1
    <3>2. Walked[k] = at[k] /\ m_id(at[k]) # key /\ at[k] \in Persons /\ at[k] # NoPerson
      BY <1>2, <1>4, <3>1
    <3>3. sol[k + 1] = List(at[k + 1], m_next)
      BY <1>4, <3>1
    <3> HIDE DEF sol
    <3>4. sol[k + 1].links = m_next /\ sol[k + 1].top = at[k + 1]
      BY <3>3 DEF List
    <3>5. [m_next EXCEPT ![at[k]] = at[k + 1]] = m_next
      BY <1>2, <3>1
    <3>6. step(sol, k) = List(at[k], [sol[k + 1].links EXCEPT ![at[k]] = sol[k + 1].top])
      BY <3>2
    <3> QED
      BY <3>2, <3>4, <3>5, <3>6
  <2>2. CASE ~(k < n)
    <3> HIDE DEF sol
    <3> QED
      BY <1>3, <2>2
  <2> QED
    BY <2>1, <2>2
<1>6. step(sol, j) = base
  <2>1. CASE j = n
    <3>1. Walked[j] = NoPerson
      BY <1>1, <1>3, <2>1
    <3> HIDE DEF sol
    <3> QED
      BY <2>1, <3>1
  <2>2. CASE j # n
    <3>1. j \in 0..n - 1
      BY <1>1, <2>2
    <3>2. /\ Walked[j] = at[j] /\ m_id(at[j]) = key /\ at[j] # NoPerson
          /\ m_next[at[j]] = at[j + 1]
      BY <1>2, <1>4, <2>2, <3>1
    <3> HIDE DEF sol
    <3> QED
      BY <2>2, <3>2
  <2> QED
    BY <2>1, <2>2
<1>7. j # 0 => /\ links \in [Persons -> PersonOrNone]
               /\ \A k \in 0..n - 1 : k < j - 1 => links[at[k]] = at[k + 1]
               /\ links = IF j = n THEN [m_next EXCEPT ![at[j - 1]] = at[j]]
                          ELSE [[m_next EXCEPT ![at[j]] = NoPerson]
                                  EXCEPT ![at[j - 1]] = at[j + 1]]
  <2> SUFFICES ASSUME j # 0
               PROVE  /\ links \in [Persons -> PersonOrNone]
                      /\ \A k \in 0..n - 1 : k < j - 1 => links[at[k]] = at[k + 1]
                      /\ links = IF j = n THEN [m_next EXCEPT ![at[j - 1]] = at[j]]
                                 ELSE [[m_next EXCEPT ![at[j]] = NoPerson]
                                         EXCEPT ![at[j - 1]] = at[j + 1]]
    OBVIOUS
  <2>1. j - 1 \in 0..n - 1 /\ (j - 1) + 1 = j
    BY <1>1
  <2>2. CASE j = n
    <3>1. links = m_next
      BY <2>2
    <3>2. m_next[at[j - 1]] = at[j] /\ at[j - 1] \in Persons
      BY <1>2, <2>1
    <3>3. [m_next EXCEPT ![at[j - 1]] = at[j]] = m_next
      BY <1>2, <3>2
    <3> HIDE DEF links
    <3> QED
      BY <1>2, <2>2, <3>1, <3>3
  <2>3. CASE j # n
    <3>1. links = LinksWithout(m_next, at, j) /\ j \in 0..n - 1 /\ j + 1 \in 0..n
      BY <1>1, <2>3
    <3> HIDE DEF links
    <3>2. /\ links \in [Persons -> PersonOrNone]
          /\ \A q \in Persons : q # at[j] /\ (j # 0 => q # at[j - 1]) => links[q] = m_next[q]
      BY <3>1, LinksWithoutFacts
    <3>3. ASSUME NEW k \in 0..n - 1, k < j - 1
          PROVE  links[at[k]] = at[k + 1]
      <4>0. k # j /\ k # j - 1
        BY <1>1, <3>3
      <4>1. at[k] # at[j - 1] /\ at[k] # at[j] /\ at[k] \in Persons /\ m_next[at[k]] = at[k + 1]
        BY <1>2, <2>1, <3>1, <4>0
      <4> QED
        BY <3>2, <4>1
    <3>4. links = [m_next EXCEPT ![at[j - 1]] = at[j + 1], ![at[j]] = NoPerson]
      BY <3>1 DEF LinksWithout
    <3> DEFINE q == at[j - 1]
               p == at[j]
               r == at[j + 1]
    <3>5. /\ q \in Persons /\ p \in Persons /\ q # p
          /\ links = [m_next EXCEPT ![q] = r, ![p] = NoPerson]
      <4>1. j - 1 # j
        BY <1>1
      <4> QED
        BY <1>2, <2>1, <3>1, <3>4, <4>1
    <3> HIDE DEF q, r, p
    <3>6. links = [[m_next EXCEPT ![p] = NoPerson] EXCEPT ![q] = r]
      BY <1>2, <3>5
    <3> QED
      BY <2>3, <3>2, <3>3, <3>6 DEF p, q, r
  <2> QED
    BY <2>2, <2>3
<1>8. \A k \in 0..N : k < j => step(sol, k) = List(at[k], links)
  <2> SUFFICES ASSUME NEW k \in 0..N, k < j
               PROVE  step(sol, k) = List(at[k], links)
    OBVIOUS
  <2>1. k \in 0..n - 1 /\ k + 1 \in 0..N /\ k \in Nat /\ j # 0 /\ k # j
    BY <1>1
  <2>2. Walked[k] = at[k] /\ m_id(at[k]) # key /\ at[k] # NoPerson
    BY <1>2, <1>4, <2>1
  <2>3. step(sol, k) = List(at[k], [sol[k + 1].links EXCEPT ![at[k]] = sol[k + 1].top])
    <3> HIDE DEF sol
    <3> QED
      BY <2>2
  <2>4. CASE k + 1 < j
    <3>1. sol[k + 1] = List(at[k + 1], links)
      <4>1. ~(k + 1 > j) /\ k + 1 # j
        BY <1>1, <2>1, <2>4
      <4> HIDE DEF base, links
      <4> QED
        BY <2>1, <4>1
    <3>2. sol[k + 1].links = links /\ sol[k + 1].top = at[k + 1]
      <4> HIDE DEF sol, links
      <4> QED
        BY <3>1 DEF List
    <3>3. links \in [Persons -> PersonOrNone] /\ links[at[k]] = at[k + 1]
      <4>1. k < j - 1
        BY <1>1, <2>1, <2>4
      <4> QED
        BY <1>7, <2>1, <4>1
    <3> HIDE DEF sol, links
    <3>4. [links EXCEPT ![at[k]] = at[k + 1]] = links
      BY <1>2, <2>1, <3>3
    <3> QED
      BY <2>3, <3>2, <3>4
  <2>5. CASE ~(k + 1 < j)
    <3>1. k + 1 = j /\ k = j - 1 /\ ~(k + 1 > j)
      BY <1>1, <2>1, <2>5
    <3>2. sol[k + 1] = base
      <4> HIDE DEF base, links
      <4> QED
        BY <2>1, <3>1
    <3> DEFINE sol1 == sol[k + 1]
    <3> HIDE DEF sol1
    <3>3. sol1 = IF j = n THEN List(NoPerson, m_next)
                 ELSE List(at[j + 1], [m_next EXCEPT ![at[j]] = NoPerson])
      BY <3>2 DEF sol1
    <3>4. /\ sol1.links = IF j = n THEN m_next ELSE [m_next EXCEPT ![at[j]] = NoPerson]
          /\ sol1.top = IF j = n THEN NoPerson ELSE at[j + 1]
      BY <3>3 DEF List
    <3>5. links = [sol1.links EXCEPT ![at[k]] = sol1.top]
      <4> HIDE DEF links
      <4>1. CASE j = n
        BY <1>2, <1>7, <2>1, <3>1, <3>4, <4>1
      <4>2. CASE j # n
        BY <1>7, <2>1, <3>1, <3>4, <4>2
      <4> QED
        BY <4>1, <4>2
    <3> QED
      BY <2>3, <3>5 DEF sol1
  <2> QED
    BY <2>4, <2>5
<1>9. \A k \in 0..N : sol[k] = step(sol, k)
  <2> SUFFICES ASSUME NEW k \in 0..N
               PROVE  sol[k] = step(sol, k)
    OBVIOUS
  <2>1. k < j \/ k = j \/ k > j
    BY <1>1
  <2>2. sol[k] = IF k > j THEN List(Walked[k], m_next)
                 ELSE IF k = j THEN base ELSE List(at[k], links)
    <3> HIDE DEF base, links
    <3> QED
      OBVIOUS
  <2> HIDE DEF sol, step, base, links
  <2>3. ~(k < j /\ k > j) /\ ~(k < j /\ k = j) /\ ~(k = j /\ k > j)
    BY <1>1
  <2> QED
    BY <1>5, <1>6, <1>8, <2>1, <2>2, <2>3
<1>10. sol = [k \in 0..N |-> step(sol, k)]
  <2> DEFINE g == [k \in 0..N |-> step(sol, k)]
  <2>1. \A k \in 0..N : sol[k] = g[k]
    BY <1>9
  <2> QED
    BY <2>1
<1> DEFINE rec == CHOOSE f : f = [k \in DOMAIN Walked |-> step(f, k)]
<1>11. rec = [k \in 0..N |-> step(rec, k)]
  <2> HIDE DEF sol, step
  <2> QED
    BY <1>3, <1>10
<1>12. RemovedRec(key) = rec[0]
  BY DEF RemovedRec
<1> HIDE DEF rec, sol
<1>13. \A k \in 0..N : rec[k] = step(rec, k)
  BY <1>11
<1>14. \A k \in 0..N : k + 1 \in 0..N /\ rec[k + 1] = sol[k + 1] => step(rec, k) = step(sol, k)
  OBVIOUS
<1>15. step(rec, N) = step(sol, N)
  <2>1. N \in 0..N /\ Walked[N] = NoPerson
    BY <1>1, <1>3
  <2> QED
    BY <2>1
<1> HIDE DEF step
<1>16. \A k \in 0..N : rec[k] = sol[k]
  <2> DEFINE T == {i \in 0..N : rec[N - i] # sol[N - i]}
  <2> SUFFICES ASSUME T # {}
               PROVE  FALSE
    <3>1. \A k \in 0..N : N - k \in 0..N /\ N - (N - k) = k
      BY <1>1
    <3> QED
      BY <3>1
  <2>1. T \subseteq Nat
    BY <1>1
  <2>2. PICK i \in T : \A h \in T : i <= h
    <3> HIDE DEF T
    <3> QED
      BY <2>1, LeastNatural
  <2>3. i # 0
    <3>1. N \in 0..N /\ N - 0 = N
      BY <1>1
    <3> QED
      BY <1>9, <1>13, <1>15, <3>1
  <2>4. i - 1 \in 0..N /\ i - 1 \notin T /\ N - i \in 0..N /\ (N - i) + 1 = N - (i - 1)
    BY <1>1, <2>2, <2>3
  <2>5. rec[(N - i) + 1] = sol[(N - i) + 1] /\ (N - i) + 1 \in 0..N
    BY <1>1, <2>4
  <2>6. rec[N - i] = sol[N - i]
    BY <1>9, <1>13, <1>14, <2>4, <2>5
  <2> QED
    BY <2>6
<1>17. RemovedRec(key) = sol[0] /\ 0 \in 0..N
  BY <1>1, <1>12, <1>16
<1>18. CASE j = 0
  <2>1. sol[0] = base
    <3> HIDE DEF base, links
    <3> QED
      BY <1>1, <1>18, <1>17 DEF sol
  <2>2. LinksWithout(m_next, at, j) = [m_next EXCEPT ![at[0]] = NoPerson]
    BY <1>18 DEF LinksWithout
  <2>3. j + 1 = 1
    BY <1>18
  <2> QED
    BY <1>2, <1>17, <1>18, <2>1, <2>2, <2>3
<1>19. CASE j # 0
  <2>1. sol[0] = List(at[0], links)
    <3>1. ~(0 > j)
      BY <1>1
    <3> HIDE DEF base, links
    <3> QED
      BY <1>19, <1>17, <3>1 DEF sol
  <2> HIDE DEF base
  <2> QED
    BY <1>2, <1>17, <1>19, <2>1
<1> QED
  BY <1>18, <1>19

\* Each keyed call keeps the invariant.
LEMMA KeyedAt ==
  ASSUME NEW at, NEW n, SortedAt(first', m_next', inserted', at, n)
  PROVE  KeyedInv'
  BY DEF SortedAt, KeyedInv

LEMMA KeyedInsertKeeps ==
  ASSUME KeyedInv, NEW p \in Persons \ inserted, ListInsertByKey(p)
  PROVE  KeyedInv'
<1>1. PICK n \in Nat : \E at \in [0..n -> PersonOrNone] :
        SortedAt(first, m_next, inserted, at, n)
  BY DEF KeyedInv
<1>2. PICK at \in [0..n -> PersonOrNone] : SortedAt(first, m_next, inserted, at, n)
  BY <1>1
<1>3. m_id(p) \in Int /\ p # NoPerson
  BY SingleListAssumption
<1>4. PICK j \in 0..n :
        /\ Search(m_id(p)) = [prev |-> IF j = 0 THEN NoPerson ELSE at[j - 1], curr |-> at[j]]
        /\ \A i \in 0..n - 1 : (i < j) <=> m_id(at[i]) < m_id(p)
  BY <1>2, <1>3, SearchEnds
<1>5. /\ first = at[0] /\ at[n] = NoPerson /\ n \in Nat
      /\ \A i \in 0..n - 1 : at[i] \in Persons /\ at[i] # NoPerson /\ m_id(at[i]) \in Int
      /\ m_next \in [Persons -> PersonOrNone] /\ m_next[p] = NoPerson
  BY <1>2, SingleListAssumption DEF SortedAt
<1>6. ASSUME j # n => m_id(at[j]) # m_id(p),
             first' = (IF j = 0 THEN p ELSE first), m_next' = LinksWith(m_next, at, j, p),
             inserted' = inserted \cup {p}
      PROVE  KeyedInv'
  <2>1. ASSUME NEW i \in 0..n - 1
        PROVE  IF i < j THEN m_id(at[i]) < m_id(p) ELSE m_id(p) < m_id(at[i])
    <3>1. CASE i < j
      BY <1>4, <3>1
    <3>2. CASE ~(i < j)
      <4>1. ~(m_id(at[i]) < m_id(p)) /\ m_id(at[i]) \in Int
        BY <1>4, <1>5, <3>2
      <4>2. m_id(at[i]) # m_id(p)
        <5>1. CASE i = j
          BY <1>5, <1>6, <5>1
        <5>2. CASE i # j
          <6>1. j < i /\ j \in 0..n - 1
            BY <1>5, <3>2, <5>2
          <6>2. m_id(at[j]) < m_id(at[i]) /\ ~(m_id(at[j]) < m_id(p))
            <7>1. ~(j < j)
              BY <1>5
            <7> QED
              BY <1>2, <1>4, <6>1, <7>1 DEF SortedAt
          <6>3. m_id(at[j]) \in Int
            BY <1>5, <6>1
          <6> QED
            BY <1>3, <4>1, <6>2, <6>3
        <5> QED
          BY <5>1, <5>2
      <4> QED
        BY <1>3, <3>2, <4>1, <4>2
    <3> QED
      BY <3>1, <3>2
  <2>2. SortedAt(first', m_next', inserted', Widened(at, n, j, p), n + 1)
    BY <1>2, <1>6, <2>1, PersonPut
  <2> QED
    BY <2>2, KeyedAt
<1>7. ASSUME UNCHANGED singleVars
      PROVE  KeyedInv'
  BY <1>7 DEF KeyedInv, singleVars
<1>8. CASE first = NoPerson
  <2>1. n = 0 /\ j = 0
    <3>1. n # 0 => 0 \in 0..n - 1
      BY <1>5
    <3>2. n = 0
      BY <1>5, <1>8, <3>1
    <3> QED
      BY <3>2
  <2>2. first' = p /\ inserted' = inserted \cup {p} /\ m_next' = m_next
    BY <1>8 DEF ListInsertByKey
  <2>3. LinksWith(m_next, at, j, p) = m_next
    <3>1. LinksWith(m_next, at, j, p) = [m_next EXCEPT ![p] = at[0]]
      BY <2>1 DEF LinksWith
    <3> QED
      BY <1>5, <2>1, <3>1
  <2> QED
    BY <1>6, <2>1, <2>2, <2>3
<1>9. CASE first # NoPerson /\ m_id(p) < m_id(first)
  <2>1. n # 0 /\ 0 \in 0..n - 1
    BY <1>5, <1>9
  <2>2. ~(m_id(at[0]) < m_id(p)) /\ m_id(at[0]) # m_id(p)
    BY <1>3, <1>5, <1>9, <2>1
  <2>3. j = 0
    <3>1. ~(0 < j)
      BY <1>4, <2>1, <2>2
    <3> QED
      BY <1>5, <3>1
  <2>4. /\ first' = p
        /\ m_next' = [m_next EXCEPT ![p] = first]
        /\ inserted' = inserted \cup {p}
    BY <1>9 DEF ListInsertByKey
  <2>5. m_next' = LinksWith(m_next, at, j, p)
    BY <1>5, <2>3, <2>4 DEF LinksWith
  <2> QED
    BY <1>6, <2>2, <2>3, <2>4, <2>5
<1>10. CASE first # NoPerson /\ ~(m_id(p) < m_id(first))
  <2>1. n # 0 /\ 0 \in 0..n - 1
    BY <1>5, <1>10
  <2> DEFINE loop == Search(m_id(p))
  <2>2. loop.prev = (IF j = 0 THEN NoPerson ELSE at[j - 1]) /\ loop.curr = at[j]
    BY <1>4
  <2>3. loop.curr # NoPerson <=> j # n
    BY <1>5, <2>2
  <2>4. CASE j # n /\ m_id(at[j]) = m_id(p)
    <3>1. UNCHANGED singleVars
      BY <1>10, <2>2, <2>3, <2>4 DEF ListInsertByKey
    <3> QED
      BY <1>7, <3>1
  <2>5. CASE ~(j # n /\ m_id(at[j]) = m_id(p))
    <3>1. /\ m_next' = [m_next EXCEPT ![loop.prev] = p, ![p] = loop.curr]
          /\ inserted' = inserted \cup {p}
          /\ first' = first
      BY <1>10, <2>2, <2>3, <2>5 DEF ListInsertByKey
    <3>2. j # 0
      <4>1. CASE m_id(first) < m_id(p)
        BY <1>4, <1>5, <2>1, <4>1
      <4>2. CASE ~(m_id(first) < m_id(p))
        <5>1. m_id(first) = m_id(p)
          BY <1>3, <1>5, <1>10, <2>1, <4>2
        <5> QED
          BY <1>5, <2>1, <2>5, <5>1
      <4> QED
        BY <4>1, <4>2
    <3>3. m_next' = LinksWith(m_next, at, j, p)
      <4> HIDE DEF loop
      <4> QED
        BY <2>2, <3>1, <3>2 DEF LinksWith
    <3> QED
      BY <1>6, <2>5, <3>1, <3>2, <3>3
  <2> QED
    BY <2>4, <2>5
<1> QED
  BY <1>8, <1>9, <1>10

LEMMA KeyedInsertRecKeeps ==
  ASSUME KeyedInv, NEW p \in Persons \ inserted, ListInsertByKeyRec(p)
  PROVE  KeyedInv'
<1>1. PICK n \in Nat : \E at \in [0..n -> PersonOrNone] :
        SortedAt(first, m_next, inserted, at, n)
  BY DEF KeyedInv
<1>2. PICK at \in [0..n -> PersonOrNone] : SortedAt(first, m_next, inserted, at, n)
  BY <1>1
<1>3. m_id(p) \in Int /\ p # NoPerson
  BY SingleListAssumption
<1>4. PICK j \in 0..n : \A i \in 0..n - 1 : (i < j) <=> m_id(at[i]) < m_id(p)
  BY <1>2, <1>3, SearchEnds
<1>5. /\ first = at[0] /\ at[n] = NoPerson /\ n \in Nat
      /\ \A i \in 0..n - 1 : /\ at[i] \in Persons /\ at[i] # p /\ m_id(at[i]) \in Int
                            /\ m_next[at[i]] = at[i + 1]
  BY <1>2, SingleListAssumption DEF SortedAt
<1> DEFINE new == InsertedRec(p)
<1>6. new = IF j # n /\ m_id(at[j]) = m_id(p) THEN List(first, m_next)
            ELSE List(IF j = 0 THEN p ELSE first, LinksWith(m_next, at, j, p))
  BY <1>2, <1>4, InsertedRecValue
<1>7. /\ first' = new.top /\ m_next' = new.links
      /\ inserted' = IF new = List(first, m_next) THEN inserted ELSE inserted \cup {p}
  BY DEF ListInsertByKeyRec
<1> HIDE DEF new
<1>8. CASE j # n /\ m_id(at[j]) = m_id(p)
  <2>1. first' = first /\ m_next' = m_next /\ inserted' = inserted
    BY <1>6, <1>7, <1>8 DEF List
  <2> QED
    BY <1>2, <2>1, KeyedAt
<1>9. CASE ~(j # n /\ m_id(at[j]) = m_id(p))
  <2>1. first' = (IF j = 0 THEN p ELSE first) /\ m_next' = LinksWith(m_next, at, j, p)
    BY <1>6, <1>7, <1>9 DEF List
  <2>2. new # List(first, m_next)
    <3>1. CASE j = 0
      <4>1. first # p
        <5>1. n # 0 => 0 \in 0..n - 1
          BY <1>5
        <5> QED
          BY <1>3, <1>5, <5>1
      <4>2. new.top = p
        BY <1>7, <2>1, <3>1
      <4>3. List(first, m_next).top = first
        BY DEF List
      <4> QED
        BY <4>1, <4>2, <4>3
    <3>2. CASE j # 0
      <4>1. j - 1 \in 0..n - 1 /\ (j - 1) + 1 = j /\ (j # n => j \in 0..n - 1)
        BY <1>5, <3>2
      <4>2. m_next'[at[j - 1]] = p
        BY <1>2, <2>1, <3>2, LinksWithFacts
      <4>3. m_next[at[j - 1]] = at[j] /\ at[j] # p
        BY <1>3, <1>5, <4>1
      <4> QED
        BY <1>7, <4>2, <4>3 DEF List
    <3> QED
      BY <3>1, <3>2
  <2>3. inserted' = inserted \cup {p}
    BY <1>7, <2>2
  <2>4. ASSUME NEW i \in 0..n - 1
        PROVE  IF i < j THEN m_id(at[i]) < m_id(p) ELSE m_id(p) < m_id(at[i])
    <3>1. CASE i < j
      BY <1>4, <3>1
    <3>2. CASE ~(i < j)
      <4>1. ~(m_id(at[i]) < m_id(p)) /\ m_id(at[i]) \in Int
        BY <1>4, <1>5, <3>2
      <4>2. m_id(at[i]) # m_id(p)
        <5>1. CASE i = j
          BY <1>5, <1>9, <5>1
        <5>2. CASE i # j
          <6>1. j < i /\ j \in 0..n - 1 /\ ~(j < j)
            BY <1>5, <3>2, <5>2
          <6>2. m_id(at[j]) < m_id(at[i]) /\ ~(m_id(at[j]) < m_id(p))
            BY <1>2, <1>4, <6>1 DEF SortedAt
          <6>3. m_id(at[j]) \in Int
            BY <1>5, <6>1
          <6> QED
            BY <1>3, <4>1, <6>2, <6>3
        <5> QED
          BY <5>1, <5>2
      <4> QED
        BY <1>3, <3>2, <4>1, <4>2
    <3> QED
      BY <3>1, <3>2
  <2>5. SortedAt(first', m_next', inserted', Widened(at, n, j, p), n + 1)
    BY <1>2, <2>1, <2>3, <2>4, PersonPut
  <2> QED
    BY <2>5, KeyedAt
<1> QED
  BY <1>8, <1>9

LEMMA KeyedRemoveKeeps ==
  ASSUME KeyedInv, NEW key \in Int, ListRemoveByKey(key) \/ ListRemoveByKeyRec(key)
  PROVE  KeyedInv'
<1>1. PICK n \in Nat : \E at \in [0..n -> PersonOrNone] :
        SortedAt(first, m_next, inserted, at, n)
  BY DEF KeyedInv
<1>2. PICK at \in [0..n -> PersonOrNone] : SortedAt(first, m_next, inserted, at, n)
  BY <1>1
<1>3. PICK j \in 0..n :
        /\ Find(key) = [prev |-> IF j = 0 THEN NoPerson ELSE at[j - 1], curr |-> at[j]]
        /\ j # n => m_id(at[j]) = key
        /\ \A i \in 0..n - 1 : i # j => m_id(at[i]) # key
  <2>1. \E j \in 0..n : FoundAt(at, n, key, j)
    BY <1>2, FindEnds
  <2> QED
    BY <2>1 DEF FoundAt
<1> DEFINE loop == Find(key)
<1>4. /\ first = at[0] /\ at[n] = NoPerson /\ n \in Nat /\ NoPerson \notin inserted
      /\ \A i \in 0..n - 1 : /\ at[i] \in Persons /\ at[i] # NoPerson
                            /\ m_next[at[i]] = at[i + 1]
  BY <1>2, SingleListAssumption DEF SortedAt
<1>5. loop.prev = (IF j = 0 THEN NoPerson ELSE at[j - 1]) /\ loop.curr = at[j]
  BY <1>3
<1>6. CASE j = n
  <2>1. UNCHANGED <<first, m_next, inserted>>
    <3>1. CASE ListRemoveByKey(key)
      BY <1>4, <1>5, <1>6, <3>1 DEF ListRemoveByKey, singleVars
    <3>2. CASE ListRemoveByKeyRec(key)
      <4>1. RemovedRec(key) = List(first, m_next)
        BY <1>2, <1>3, <1>6, RemovedRecValue
      <4>2. first' = first /\ m_next' = m_next
        BY <3>2, <4>1 DEF ListRemoveByKeyRec, List
      <4>3. inserted' = inserted \ {loop.curr}
        BY <3>2 DEF ListRemoveByKeyRec
      <4> QED
        BY <1>4, <1>5, <1>6, <4>2, <4>3
    <3> QED
      BY <3>1, <3>2
  <2> QED
    BY <1>2, <2>1, KeyedAt
<1>7. CASE j # n
  <2>1. j \in 0..n - 1 /\ (j # 0 => j - 1 \in 0..n - 1) /\ (j = 0 => j + 1 = 1)
    BY <1>4, <1>7
  <2>2. /\ first' = IF j = 0 THEN at[1] ELSE first
        /\ m_next' = LinksWithout(m_next, at, j)
        /\ inserted' = inserted \ {at[j]}
    <3>1. CASE ListRemoveByKey(key)
      <4> DEFINE unlinked == IF loop.prev = NoPerson THEN m_next
                             ELSE [m_next EXCEPT ![loop.prev] = m_next[loop.curr]]
      <4>1. /\ first' = IF loop.prev = NoPerson THEN m_next[first] ELSE first
            /\ m_next' = [unlinked EXCEPT ![loop.curr] = NoPerson]
            /\ inserted' = inserted \ {loop.curr}
        BY <1>4, <1>5, <2>1, <3>1 DEF ListRemoveByKey
      <4>2. loop.prev = NoPerson <=> j = 0
        BY <1>4, <1>5, <2>1
      <4>3. m_next[loop.curr] = at[j + 1]
        BY <1>4, <1>5, <2>1
      <4> HIDE DEF loop
      <4>4. unlinked = IF j = 0 THEN m_next ELSE [m_next EXCEPT ![at[j - 1]] = at[j + 1]]
        BY <1>5, <4>2, <4>3
      <4> HIDE DEF unlinked
      <4>5. CASE j = 0
        BY <1>4, <1>5, <2>1, <4>1, <4>2, <4>3, <4>4, <4>5 DEF LinksWithout
      <4>6. CASE j # 0
        <5>1. m_next' = [[m_next EXCEPT ![at[j - 1]] = at[j + 1]] EXCEPT ![at[j]] = NoPerson]
          BY <1>5, <4>1, <4>4, <4>6
        <5>2. m_next' = LinksWithout(m_next, at, j)
          BY <4>6, <5>1 DEF LinksWithout
        <5> QED
          BY <1>5, <4>1, <4>2, <4>6, <5>2
      <4> QED
        BY <4>5, <4>6
    <3>2. CASE ListRemoveByKeyRec(key)
      <4>1. RemovedRec(key) = List(IF j = 0 THEN at[1] ELSE first, LinksWithout(m_next, at, j))
        BY <1>2, <1>3, <1>7, RemovedRecValue
      <4>2. /\ first' = IF j = 0 THEN at[1] ELSE first
            /\ m_next' = LinksWithout(m_next, at, j)
        BY <3>2, <4>1 DEF ListRemoveByKeyRec, List
      <4>3. inserted' = inserted \ {loop.curr}
        BY <3>2 DEF ListRemoveByKeyRec
      <4> QED
        BY <1>5, <4>2, <4>3
    <3> QED
      BY <3>1, <3>2
  <2>3. SortedAt(first', m_next', inserted', Narrowed(at, n, j), n - 1)
    BY <1>2, <2>1, <2>2, PersonTaken
  <2> QED
    BY <2>3, KeyedAt
<1> QED
  BY <1>6, <1>7

\* ListedInOrder of singleLinkedlist.c, for any persons: by key, through the
\* loops or the recursions, the list stays in order and holds who was put in.
THEOREM ListStaysInOrder == KeyedSpec => []ListedInOrder
<1>1. SingleListInit => KeyedInv
  <2> SUFFICES ASSUME SingleListInit PROVE KeyedInv
    OBVIOUS
  <2> DEFINE at == [i \in 0..0 |-> NoPerson]
  <2>1. /\ at \in [0..0 -> PersonOrNone] /\ at[0] = NoPerson
        /\ m_next \in [Persons -> PersonOrNone] /\ \A p \in Persons : m_next[p] = NoPerson
        /\ first = NoPerson /\ inserted = {}
    BY DEF SingleListInit, PersonOrNone
  <2> HIDE DEF at
  <2>2. SortedAt(first, m_next, inserted, at, 0)
    BY <2>1 DEF SortedAt
  <2> QED
    BY <2>1, <2>2 DEF KeyedInv
<1>2. KeyedInv /\ [Keyed]_singleVars => KeyedInv'
  <2> SUFFICES ASSUME KeyedInv, [Keyed]_singleVars
               PROVE  KeyedInv'
    OBVIOUS
  <2>1. CASE UNCHANGED singleVars
    BY <2>1 DEF KeyedInv, singleVars
  <2>2. ASSUME NEW p \in Persons \ inserted, ListInsertByKey(p)
        PROVE  KeyedInv'
    BY <2>2, KeyedInsertKeeps
  <2>3. ASSUME NEW p \in Persons \ inserted, ListInsertByKeyRec(p)
        PROVE  KeyedInv'
    BY <2>3, KeyedInsertRecKeeps
  <2>4. ASSUME NEW p \in Persons, ListRemoveByKey(m_id(p)) \/ ListRemoveByKeyRec(m_id(p))
        PROVE  KeyedInv'
    <3>1. m_id(p) \in Int
      BY SingleListAssumption
    <3> QED
      BY <2>4, <3>1, KeyedRemoveKeeps
  <2> QED
    BY <2>1, <2>2, <2>3, <2>4 DEF Keyed
<1> QED
  BY <1>1, <1>2, KeyedInOrder, PTL DEF KeyedSpec

-----------------------------------------------------------------------------
\* The hash map.

PairSet == Keys \X MapValues

\* The pairs of a bucket, with a list or without.
Chain(b) == IF buckets[b] = NoList THEN <<>> ELSE buckets[b]

\* Every pair is in its key's bucket, and no key is twice in a bucket.
BucketsOK ==
  /\ BucketCount \in Nat \ {0}
  /\ buckets \in [0..BucketCount - 1 -> Seq(PairSet) \cup {NoList}]
  /\ \A b \in 0..BucketCount - 1 : \A i \in 1..Len(Chain(b)) :
       BucketOf(Chain(b)[i][1]) = b
  /\ \A b \in 0..BucketCount - 1 : \A i, j \in 1..Len(Chain(b)) :
       Chain(b)[i][1] = Chain(b)[j][1] => i = j

\* The inductive invariant.
MapInv == BucketsOK /\ numOfPairs = Cardinality(DOMAIN Pairs)

Holds(p) ==
  \E b \in 0..BucketCount - 1 : \E i \in 1..Len(Chain(b)) : Chain(b)[i] = p

Held(k, v) == Holds(<<k, v>>)

LEMMA ChainType ==
  BucketsOK => \A b \in 0..BucketCount - 1 :
                 /\ Chain(b) \in Seq(PairSet) /\ Len(Chain(b)) \in Nat
                 /\ \A i \in 1..Len(Chain(b)) : Chain(b)[i] \in PairSet
<1> SUFFICES ASSUME BucketsOK, NEW b \in 0..BucketCount - 1
             PROVE  /\ Chain(b) \in Seq(PairSet) /\ Len(Chain(b)) \in Nat
                    /\ \A i \in 1..Len(Chain(b)) : Chain(b)[i] \in PairSet
  OBVIOUS
<1>1. buckets[b] \in Seq(PairSet) \cup {NoList}
  BY DEF BucketsOK
<1>2. Chain(b) \in Seq(PairSet)
  BY <1>1 DEF Chain
<1> QED
  BY <1>2, LenProperties, ElementOfSeq

\* What the walk over the buckets collects, from each bucket on: the function
\* that AllPairs writes down exists, ...
LEMMA WalkExists ==
  BucketsOK => \E f : f = [b \in 0..BucketCount |->
                             IF b = BucketCount THEN <<>> ELSE Chain(b) \o f[b + 1]]
<1> SUFFICES ASSUME BucketsOK
             PROVE  \E f : f = [b \in 0..BucketCount |->
                                  IF b = BucketCount THEN <<>> ELSE Chain(b) \o f[b + 1]]
  OBVIOUS
<1> DEFINE N == BucketCount
           Walks(f, i) == f = [b \in N - i..N |->
                                 IF b = N THEN <<>> ELSE Chain(b) \o f[b + 1]]
           T == {i \in 0..N : ~ \E f : Walks(f, i)}
<1>1. N \in Nat
  BY DEF BucketsOK
<1>2. T = {}
  <2> SUFFICES ASSUME T # {}
               PROVE  FALSE
    OBVIOUS
  <2>1. T \subseteq Nat
    BY <1>1
  <2>2. PICK i \in T : \A j \in T : i <= j
    <3> HIDE DEF T
    <3> QED
      BY <2>1, LeastNatural
  <2>3. i # 0
    <3> DEFINE f == [b \in N..N |-> <<>>]
    <3>1. N - 0 = N /\ \A b \in N..N : b = N
      BY <1>1
    <3>2. Walks(f, 0)
      BY <3>1
    <3> HIDE DEF Walks
    <3> QED
      BY <3>2
  <2>4. i - 1 \in 0..N /\ i - 1 \notin T /\ i \in 0..N
    <3>1. i \in 0..N
      BY <2>2
    <3>2. i - 1 \in 0..N /\ ~(i <= i - 1)
      BY <1>1, <2>3, <3>1
    <3> HIDE DEF T
    <3> QED
      BY <2>2, <3>1, <3>2
  <2>5. PICK f : Walks(f, i - 1)
    <3> HIDE DEF Walks
    <3> QED
      BY <2>4
  <2> DEFINE g == [b \in N - i..N |-> IF b = N - i THEN Chain(b) \o f[b + 1] ELSE f[b]]
  <2>6. Walks(g, i)
    <3>1. ASSUME NEW b \in N - i..N
          PROVE  g[b] = IF b = N THEN <<>> ELSE Chain(b) \o g[b + 1]
      <4>1. CASE b = N - i
        <5>1. b # N /\ b + 1 \in N - i..N /\ b + 1 # N - i
          BY <1>1, <2>3, <2>4, <4>1
        <5>2. g[b] = Chain(b) \o f[b + 1] /\ g[b + 1] = f[b + 1]
          BY <4>1, <5>1
        <5> QED
          BY <5>1, <5>2
      <4>2. CASE b # N - i
        <5>1. b \in N - (i - 1)..N
          BY <1>1, <2>4, <4>2
        <5>2. f[b] = IF b = N THEN <<>> ELSE Chain(b) \o f[b + 1]
          BY <2>5, <5>1
        <5>3. b # N => b + 1 \in N - i..N /\ b + 1 # N - i
          BY <1>1, <2>4, <5>1
        <5>4. g[b] = f[b] /\ (b # N => g[b + 1] = f[b + 1])
          BY <4>2, <5>3
        <5> QED
          BY <5>2, <5>4
      <4> QED
        BY <4>1, <4>2
    <3> DEFINE h == [b \in N - i..N |-> IF b = N THEN <<>> ELSE Chain(b) \o g[b + 1]]
    <3>2. \A b \in N - i..N : g[b] = h[b]
      BY <3>1
    <3>3. g = h
      BY <3>2
    <3> QED
      BY <3>3
  <2> HIDE DEF Walks, g
  <2> QED
    BY <2>2, <2>6
<1>3. \E f : Walks(f, N)
  <2>1. N \in 0..N
    BY <1>1
  <2> HIDE DEF Walks
  <2> QED
    BY <1>2, <2>1
<1>4. N - N = 0
  BY <1>1
<1> QED
  BY <1>3, <1>4

\* ... and collects every pair, once.
LEMMA AllPairsFacts ==
  BucketsOK => /\ AllPairs \in Seq(PairSet)
               /\ \A p : Holds(p) <=> \E n \in 1..Len(AllPairs) : AllPairs[n] = p
               /\ \A m, n \in 1..Len(AllPairs) : AllPairs[m][1] = AllPairs[n][1] => m = n
<1> SUFFICES ASSUME BucketsOK
             PROVE  /\ AllPairs \in Seq(PairSet)
                    /\ \A p : Holds(p) <=> \E n \in 1..Len(AllPairs) : AllPairs[n] = p
                    /\ \A m, n \in 1..Len(AllPairs) :
                         AllPairs[m][1] = AllPairs[n][1] => m = n
  OBVIOUS
<1> DEFINE N == BucketCount
           from == CHOOSE f : f = [b \in 0..N |->
                                     IF b = N THEN <<>> ELSE Chain(b) \o f[b + 1]]
           Collects(s, b) ==
             /\ s \in Seq(PairSet)
             /\ \A p : (\E c \in b..N - 1 : \E i \in 1..Len(Chain(c)) : Chain(c)[i] = p)
                        <=> \E n \in 1..Len(s) : s[n] = p
             /\ \A m, n \in 1..Len(s) : s[m][1] = s[n][1] => m = n
<1>1. N \in Nat
  BY DEF BucketsOK
<1>2. AllPairs = from[0]
  BY DEF AllPairs, Chain
<1>3. from = [b \in 0..N |-> IF b = N THEN <<>> ELSE Chain(b) \o from[b + 1]]
  BY WalkExists
<1> HIDE DEF from
<1>4. from[N] = <<>> /\ \A b \in 0..N - 1 : from[b] = Chain(b) \o from[b + 1]
  <2>1. N \in 0..N /\ \A b \in 0..N - 1 : b \in 0..N /\ b # N
    BY <1>1
  <2> QED
    BY <1>3, <2>1
<1>5. Collects(<<>>, N)
  <2>1. N..N - 1 = {} /\ 1..Len(<<>>) = {}
    BY <1>1
  <2> QED
    BY <2>1
<1>6. ASSUME NEW b \in 0..N - 1, NEW s, Collects(s, b + 1), NEW s2, s2 = Chain(b) \o s
      PROVE  Collects(s2, b)
  <2>1. /\ Chain(b) \in Seq(PairSet) /\ Len(Chain(b)) \in Nat
        /\ \A i \in 1..Len(Chain(b)) : Chain(b)[i] \in PairSet
    BY ChainType
  <2>2. s \in Seq(PairSet) /\ Len(s) \in Nat
    BY <1>6, LenProperties
  <2>3. /\ s2 \in Seq(PairSet)
        /\ Len(s2) = Len(Chain(b)) + Len(s)
        /\ \A i \in 1..Len(Chain(b)) + Len(s) :
             s2[i] = IF i <= Len(Chain(b)) THEN Chain(b)[i] ELSE s[i - Len(Chain(b))]
    BY <1>6, <2>1, <2>2, ConcatProperties
  <2>4. /\ \A i \in 1..Len(Chain(b)) : i \in 1..Len(s2) /\ s2[i] = Chain(b)[i]
        /\ \A n \in 1..Len(s) : /\ n + Len(Chain(b)) \in 1..Len(s2)
                               /\ s2[n + Len(Chain(b))] = s[n]
        /\ \A i \in 1..Len(s2) : i \notin 1..Len(Chain(b)) =>
             i - Len(Chain(b)) \in 1..Len(s) /\ s2[i] = s[i - Len(Chain(b))]
    <3>1. ASSUME NEW i \in 1..Len(Chain(b))
          PROVE  i \in 1..Len(s2) /\ s2[i] = Chain(b)[i]
      <4>1. i \in 1..Len(Chain(b)) + Len(s) /\ i <= Len(Chain(b))
        BY <2>1, <2>2
      <4> QED
        BY <2>3, <4>1
    <3>2. ASSUME NEW n \in 1..Len(s)
          PROVE  n + Len(Chain(b)) \in 1..Len(s2) /\ s2[n + Len(Chain(b))] = s[n]
      <4>1. /\ n + Len(Chain(b)) \in 1..Len(Chain(b)) + Len(s)
            /\ ~(n + Len(Chain(b)) <= Len(Chain(b)))
            /\ (n + Len(Chain(b))) - Len(Chain(b)) = n
        BY <2>1, <2>2
      <4> QED
        BY <2>3, <4>1
    <3>3. ASSUME NEW i \in 1..Len(s2), i \notin 1..Len(Chain(b))
          PROVE  i - Len(Chain(b)) \in 1..Len(s) /\ s2[i] = s[i - Len(Chain(b))]
      <4>1. /\ i \in 1..Len(Chain(b)) + Len(s) /\ ~(i <= Len(Chain(b)))
            /\ i - Len(Chain(b)) \in 1..Len(s)
        BY <2>1, <2>2, <2>3, <3>3
      <4> QED
        BY <2>3, <4>1
    <3> QED
      BY <3>1, <3>2, <3>3
  <2>5. ASSUME NEW p
        PROVE  (\E c \in b..N - 1 : \E i \in 1..Len(Chain(c)) : Chain(c)[i] = p)
                 <=> \E n \in 1..Len(s2) : s2[n] = p
    <3>1. \A c : c \in b..N - 1 <=> c = b \/ c \in b + 1..N - 1
      BY <1>1
    <3>2. (\E c \in b + 1..N - 1 : \E i \in 1..Len(Chain(c)) : Chain(c)[i] = p)
            <=> \E n \in 1..Len(s) : s[n] = p
      BY <1>6
    <3>3. (\E n \in 1..Len(s2) : s2[n] = p)
            <=> \/ \E i \in 1..Len(Chain(b)) : Chain(b)[i] = p
                \/ \E n \in 1..Len(s) : s[n] = p
      BY <2>4
    <3> QED
      BY <3>1, <3>2, <3>3
  <2>6. ASSUME NEW m \in 1..Len(s), NEW i \in 1..Len(Chain(b)), s[m][1] = Chain(b)[i][1]
        PROVE  FALSE
    <3>1. PICK c \in b + 1..N - 1 : \E j \in 1..Len(Chain(c)) : Chain(c)[j] = s[m]
      BY <1>6
    <3>2. PICK j \in 1..Len(Chain(c)) : Chain(c)[j] = s[m]
      BY <3>1
    <3>3. b \in 0..N - 1 /\ c \in 0..N - 1 /\ b # c
      BY <1>1
    <3>4. BucketOf(Chain(b)[i][1]) = b /\ BucketOf(Chain(c)[j][1]) = c
      BY <3>3 DEF BucketsOK
    <3> QED
      BY <2>6, <3>2, <3>3, <3>4
  <2>7. ASSUME NEW m \in 1..Len(s2), NEW n \in 1..Len(s2), s2[m][1] = s2[n][1]
        PROVE  m = n
    <3> DEFINE L == Len(Chain(b))
    <3>1. CASE m \in 1..L /\ n \in 1..L
      <4>1. Chain(b)[m][1] = Chain(b)[n][1]
        BY <2>4, <2>7, <3>1
      <4> QED
        BY <3>1, <4>1 DEF BucketsOK
    <3>2. CASE m \in 1..L /\ n \notin 1..L
      BY <2>4, <2>6, <2>7, <3>2
    <3>3. CASE m \notin 1..L /\ n \in 1..L
      <4>1. m - L \in 1..Len(s) /\ s[m - L][1] = Chain(b)[n][1]
        BY <2>4, <2>7, <3>3
      <4> QED
        BY <2>6, <3>3, <4>1
    <3>4. CASE m \notin 1..L /\ n \notin 1..L
      <4>1. /\ m - L \in 1..Len(s) /\ n - L \in 1..Len(s)
            /\ s[m - L][1] = s[n - L][1]
        BY <2>4, <2>7, <3>4
      <4>2. m - L = n - L
        BY <1>6, <4>1
      <4>3. m \in Int /\ n \in Int /\ L \in Int
        BY <2>1
      <4> QED
        BY <4>2, <4>3
    <3> QED
      BY <3>1, <3>2, <3>3, <3>4
  <2> QED
    BY <2>3, <2>5, <2>7
<1> HIDE DEF Collects
<1>7. \A i \in 0..N : Collects(from[N - i], N - i)
  <2> DEFINE T == {i \in 0..N : ~Collects(from[N - i], N - i)}
  <2> SUFFICES ASSUME T # {}
               PROVE  FALSE
    OBVIOUS
  <2>1. T \subseteq Nat
    BY <1>1
  <2>2. PICK i \in T : \A j \in T : i <= j
    <3> HIDE DEF T
    <3> QED
      BY <2>1, LeastNatural
  <2>3. i # 0
    <3>1. N - 0 = N
      BY <1>1
    <3> QED
      BY <1>4, <1>5, <3>1
  <2>4. /\ i - 1 \in 0..N /\ i - 1 \notin T
        /\ N - i \in 0..N - 1 /\ N - (i - 1) = (N - i) + 1
    BY <1>1, <2>2, <2>3
  <2>5. Collects(from[(N - i) + 1], (N - i) + 1)
    BY <2>4
  <2>6. Collects(from[N - i], N - i)
    BY <1>4, <1>6, <2>4, <2>5
  <2> QED
    BY <2>6
<1>8. Collects(AllPairs, 0)
  <2>1. N \in 0..N /\ N - N = 0
    BY <1>1
  <2> QED
    BY <1>2, <1>7, <2>1
<1> QED
  BY <1>8 DEF Collects, Holds

\* What is in the dictionary.
PairsShown ==
  /\ Pairs = [k \in DOMAIN Pairs |-> Pairs[k]]
  /\ DOMAIN Pairs \subseteq Keys
  /\ \A k \in DOMAIN Pairs : Pairs[k] \in MapValues
  /\ \A k, v : Held(k, v) <=> k \in DOMAIN Pairs /\ v = Pairs[k]
  /\ Cardinality(DOMAIN Pairs) = Len(AllPairs)

LEMMA PairsFacts == BucketsOK => PairsShown
<1> SUFFICES ASSUME BucketsOK
             PROVE  PairsShown
  OBVIOUS
<1>1. /\ AllPairs \in Seq(PairSet)
      /\ \A p : Holds(p) <=> \E n \in 1..Len(AllPairs) : AllPairs[n] = p
      /\ \A m, n \in 1..Len(AllPairs) : AllPairs[m][1] = AllPairs[n][1] => m = n
  BY AllPairsFacts
<1> DEFINE s == AllPairs
<1>2. /\ DOMAIN s = 1..Len(s) /\ Len(s) \in Nat
      /\ \A n \in 1..Len(s) : s[n] \in PairSet
  BY <1>1, LenProperties, ElementOfSeq
<1> DEFINE D == {s[n][1] : n \in DOMAIN s}
           Place(k) == CHOOSE n \in DOMAIN s : s[n][1] = k
<1>3. Pairs = [k \in D |-> s[Place(k)][2]]
  BY DEF Pairs
<1>4. DOMAIN Pairs = D /\ Pairs = [k \in DOMAIN Pairs |-> Pairs[k]]
  <2> HIDE DEF D, Place, s
  <2> QED
    BY <1>3
<1>5. D \subseteq Keys
  BY <1>2 DEF PairSet
<1>6. \A n \in 1..Len(s) : Pairs[s[n][1]] = s[n][2] /\ s[n][1] \in D
  <2> SUFFICES ASSUME NEW n \in 1..Len(s)
               PROVE  Pairs[s[n][1]] = s[n][2] /\ s[n][1] \in D
    OBVIOUS
  <2>1. s[n][1] \in D
    BY <1>2
  <2> DEFINE m == Place(s[n][1])
  <2>2. m \in DOMAIN s /\ s[m][1] = s[n][1]
    BY <1>2
  <2>3. m = n
    <3> HIDE DEF m
    <3> QED
      BY <1>1, <1>2, <2>2
  <2>4. Pairs[s[n][1]] = s[m][2]
    <3> HIDE DEF D, Place, s
    <3> QED
      BY <1>3, <2>1
  <2> HIDE DEF m
  <2> QED
    BY <2>1, <2>3, <2>4
<1>7. \A n \in 1..Len(s) : s[n] = <<s[n][1], s[n][2]>> /\ s[n][2] \in MapValues
  BY <1>2 DEF PairSet
<1>8. \A k \in D : Pairs[k] \in MapValues /\ Holds(<<k, Pairs[k]>>)
  <2> SUFFICES ASSUME NEW k \in D
               PROVE  Pairs[k] \in MapValues /\ Holds(<<k, Pairs[k]>>)
    OBVIOUS
  <2>1. PICK n \in 1..Len(s) : k = s[n][1]
    BY <1>2
  <2>2. s[n] = <<k, Pairs[k]>> /\ Pairs[k] \in MapValues
    BY <1>6, <1>7, <2>1
  <2> QED
    BY <1>1, <2>2
<1>9. ASSUME NEW p, Holds(p)
      PROVE  p \in PairSet /\ p[1] \in D /\ p = <<p[1], Pairs[p[1]]>>
  <2>1. PICK n \in 1..Len(s) : s[n] = p
    BY <1>1, <1>9
  <2> HIDE DEF s, D
  <2> QED
    BY <1>2, <1>6, <1>7, <2>1
<1>10. \A k, v : Held(k, v) <=> k \in D /\ v = Pairs[k]
  <2> SUFFICES ASSUME NEW k, NEW v
               PROVE  Held(k, v) <=> k \in D /\ v = Pairs[k]
    OBVIOUS
  <2> DEFINE p == <<k, v>>
  <2>1. p[1] = k /\ p[2] = v
    OBVIOUS
  <2>2. Held(k, v) => k \in D /\ v = Pairs[k]
    <3>1. Holds(p) => p[1] \in D /\ p = <<p[1], Pairs[p[1]]>>
      BY <1>9
    <3>2. <<k, Pairs[k]>>[2] = Pairs[k]
      OBVIOUS
    <3> HIDE DEF D
    <3> QED
      BY <2>1, <3>1, <3>2 DEF Held
  <2>3. k \in D /\ v = Pairs[k] => Held(k, v)
    BY <1>8 DEF Held
  <2> QED
    BY <2>2, <2>3
<1>11. Cardinality(D) = Len(s)
  <2> DEFINE f == [n \in 1..Len(s) |-> s[n][1]]
  <2>1. f \in [1..Len(s) -> D]
    BY <1>6
  <2>2. \A m, n \in 1..Len(s) : f[m] = f[n] => m = n
    BY <1>1
  <2>3. \A k \in D : \E n \in 1..Len(s) : f[n] = k
    BY <1>2
  <2>4. f \in Bijection(1..Len(s), D)
    <3> HIDE DEF f, D
    <3> QED
      BY <2>1, <2>2, <2>3 DEF Bijection, Injection, Surjection, IsInjective
  <2>5. ExistsBijection(1..Len(s), D)
    BY <2>4 DEF ExistsBijection
  <2>6. IsFiniteSet(1..Len(s)) /\ Cardinality(1..Len(s)) = Len(s)
    <3>1. /\ 1 \in Int /\ Len(s) \in Int /\ (1 > Len(s) <=> Len(s) = 0)
          /\ Len(s) - 1 + 1 = Len(s)
      BY <1>2
    <3> QED
      BY <3>1, FS_Interval
  <2> HIDE DEF s, D
  <2> QED
    BY <2>5, <2>6, FS_Bijection
<1> QED
  <2>1. \A k \in D : Pairs[k] \in MapValues
    BY <1>8
  <2> HIDE DEF D
  <2> QED
    BY <1>4, <1>5, <1>10, <1>11, <2>1 DEF PairsShown

\* What a search for a key finds.
LEMMA Lookup ==
  ASSUME BucketsOK, NEW key \in Keys
  PROVE  /\ BucketOf(key) \in 0..BucketCount - 1
         /\ Matching(key) = {} <=> key \notin DOMAIN Pairs
         /\ \A i \in 1..Len(Chain(BucketOf(key))) :
              Chain(BucketOf(key))[i][1] = key => Matching(key) # {}
         /\ Matching(key) # {} =>
              /\ buckets[BucketOf(key)] # NoList
              /\ FirstMatch(key) \in 1..Len(Chain(BucketOf(key)))
              /\ Chain(BucketOf(key))[FirstMatch(key)] = <<key, Pairs[key]>>
<1> DEFINE b == BucketOf(key)
           n == FirstMatch(key)
<1>1. b \in 0..BucketCount - 1
  <2>1. HashFunction(key) \in Nat /\ BucketCount \in Nat \ {0}
    BY HashMapAssumption DEF BucketsOK
  <2> QED
    BY <2>1 DEF BucketOf
<1> HIDE DEF b
<1>2. /\ Chain(b) \in Seq(PairSet) /\ Len(Chain(b)) \in Nat
      /\ DOMAIN Chain(b) = 1..Len(Chain(b))
  BY <1>1, ChainType, LenProperties
<1>3. Matching(key) = {i \in 1..Len(Chain(b)) : Chain(b)[i][1] = key}
  <2>1. CASE buckets[b] = NoList
    <3>1. Chain(b) = <<>> /\ Matching(key) = {}
      BY <2>1 DEF Chain, Matching, b
    <3>2. 1..Len(<<>>) = {}
      OBVIOUS
    <3> QED
      BY <3>1, <3>2
  <2>2. CASE buckets[b] # NoList
    <3>1. Chain(b) = buckets[b]
      BY <2>2 DEF Chain
    <3> QED
      BY <1>2, <2>2, <3>1 DEF Matching, b
  <2> QED
    BY <2>1, <2>2
<1>4. Matching(key) # {} => buckets[b] # NoList
  BY DEF Matching, b
<1>5. Matching(key) # {} => n \in Matching(key)
  <2>1. Matching(key) \subseteq Nat
    BY <1>2, <1>3
  <2>2. Matching(key) # {} => \E i \in Matching(key) : \A j \in Matching(key) : i <= j
    BY <2>1, LeastNatural
  <2> QED
    BY <2>2 DEF FirstMatch
<1> HIDE DEF n
<1>6. Matching(key) # {} => n \in 1..Len(Chain(b)) /\ Holds(Chain(b)[n]) /\ Chain(b)[n][1] = key
  BY <1>1, <1>3, <1>5 DEF Holds
<1>7. Matching(key) # {} => key \in DOMAIN Pairs /\ Chain(b)[n] = <<key, Pairs[key]>>
  <2> SUFFICES ASSUME Matching(key) # {}
               PROVE  key \in DOMAIN Pairs /\ Chain(b)[n] = <<key, Pairs[key]>>
    OBVIOUS
  <2>1. Chain(b)[n] \in PairSet
    BY <1>1, <1>6, ChainType
  <2>2. PICK v \in MapValues : Chain(b)[n] = <<key, v>>
    BY <1>6, <2>1 DEF PairSet
  <2>3. Held(key, v)
    BY <1>6, <2>2 DEF Held
  <2> QED
    BY <2>2, <2>3, PairsFacts DEF PairsShown
<1>8. key \in DOMAIN Pairs => Matching(key) # {}
  <2> SUFFICES ASSUME key \in DOMAIN Pairs
               PROVE  Matching(key) # {}
    OBVIOUS
  <2>1. Holds(<<key, Pairs[key]>>)
    BY PairsFacts DEF PairsShown, Held
  <2>2. PICK c \in 0..BucketCount - 1 : \E i \in 1..Len(Chain(c)) : Chain(c)[i] = <<key, Pairs[key]>>
    BY <2>1 DEF Holds
  <2>3. PICK i \in 1..Len(Chain(c)) : Chain(c)[i] = <<key, Pairs[key]>>
    BY <2>2
  <2>4. Chain(c)[i][1] = key
    BY <2>3
  <2>5. BucketOf(Chain(c)[i][1]) = c
    BY DEF BucketsOK
  <2>6. c = b
    BY <2>4, <2>5 DEF b
  <2> QED
    BY <1>3, <2>3, <2>4, <2>6
<1> QED
  BY <1>1, <1>3, <1>4, <1>6, <1>7, <1>8 DEF b, n

\* The dictionary after a step is the one whose pairs are then there.
LEMMA NewPairs ==
  ASSUME BucketsOK', NEW D, NEW f, f = [k \in D |-> f[k]],
         \A k, v : Held(k, v)' <=> k \in D /\ v = f[k]
  PROVE  Pairs' = f
<1>1. BucketsOK' => PairsShown'
  BY PairsFacts, PTL
<1>2. PairsShown'
  BY <1>1
<1>3. /\ Pairs' = [k \in DOMAIN Pairs' |-> Pairs'[k]]
      /\ \A k, v : Held(k, v)' <=> k \in DOMAIN Pairs' /\ v = Pairs'[k]
  BY <1>2 DEF PairsShown
<1>4. \A k, v : k \in D /\ v = f[k] <=> k \in DOMAIN Pairs' /\ v = Pairs'[k]
  BY <1>3
<1>5. D = DOMAIN Pairs' /\ \A k \in D : f[k] = Pairs'[k]
  BY <1>4
<1> QED
  BY <1>3, <1>5

\* A step that changes no chain changes nothing in the dictionary.
LEMMA SameChains ==
  ASSUME BucketsOK, BucketCount' = BucketCount,
         buckets' \in [0..BucketCount - 1 -> Seq(PairSet) \cup {NoList}],
         \A b \in 0..BucketCount - 1 : Chain(b)' = Chain(b)
  PROVE  BucketsOK' /\ Pairs' = Pairs
<1>1. BucketsOK'
  <2>1. \A k : BucketOf(k)' = BucketOf(k)
    BY DEF BucketOf
  <2> QED
    BY <2>1 DEF BucketsOK
<1>2. \A k, v : Held(k, v)' <=> Held(k, v)
  BY DEF Held, Holds
<1>3. PairsShown
  BY PairsFacts
<1>4. /\ Pairs = [k \in DOMAIN Pairs |-> Pairs[k]]
      /\ \A k, v : Held(k, v) <=> k \in DOMAIN Pairs /\ v = Pairs[k]
  BY <1>3 DEF PairsShown
<1>5. \A k, v : Held(k, v)' <=> k \in DOMAIN Pairs /\ v = Pairs[k]
  BY <1>2, <1>4
<1>6. Pairs' = Pairs
  BY <1>1, <1>4, <1>5, NewPairs
<1> QED
  BY <1>1, <1>6

\* What a list holds after a pair was put at its end, or taken out.
LEMMA PairAdded ==
  ASSUME NEW s \in Seq(PairSet), NEW pair \in PairSet
  PROVE  /\ Append(s, pair) \in Seq(PairSet)
         /\ Len(Append(s, pair)) = Len(s) + 1
         /\ \A i \in 1..Len(s) + 1 :
              Append(s, pair)[i] = IF i <= Len(s) THEN s[i] ELSE pair
  BY LenProperties, AppendProperties

\* A step that changes one chain, b, to s.
LEMMA OneChain ==
  ASSUME BucketsOK, NEW b \in 0..BucketCount - 1,
         NEW new \in Seq(PairSet) \cup {NoList},
         buckets' = [buckets EXCEPT ![b] = new]
  PROVE  /\ BucketCount' = BucketCount
         /\ buckets' \in [0..BucketCount - 1 -> Seq(PairSet) \cup {NoList}]
         /\ Chain(b)' = IF new = NoList THEN <<>> ELSE new
         /\ \A c \in 0..BucketCount - 1 : c # b => Chain(c)' = Chain(c)
         /\ \A k : BucketOf(k)' = BucketOf(k)
<1>1. buckets \in [0..BucketCount - 1 -> Seq(PairSet) \cup {NoList}]
  BY DEF BucketsOK
<1>2. /\ buckets' \in [0..BucketCount - 1 -> Seq(PairSet) \cup {NoList}]
      /\ DOMAIN buckets' = DOMAIN buckets
      /\ buckets'[b] = new
      /\ \A c \in 0..BucketCount - 1 : c # b => buckets'[c] = buckets[c]
  BY <1>1
<1>3. BucketCount' = BucketCount
  BY <1>2 DEF BucketCount
<1> QED
  BY <1>2, <1>3 DEF Chain, BucketOf

\* An insertion of a new key.
LEMMA MapInsertKeeps ==
  ASSUME MapInv, NEW key \in Keys, NEW value \in MapValues, Matching(key) = {},
         NEW b, b = BucketOf(key),
         buckets' = WithPair(b, <<key, value>>), numOfPairs' = numOfPairs + 1
  PROVE  /\ MapInv'
         /\ Pairs' = [x \in DOMAIN Pairs \cup {key} |-> IF x = key THEN value ELSE Pairs[x]]
<1> DEFINE pair == <<key, value>>
<1>1. BucketsOK
  BY DEF MapInv
<1>2. /\ b \in 0..BucketCount - 1 /\ key \notin DOMAIN Pairs
      /\ \A i \in 1..Len(Chain(b)) : Chain(b)[i][1] # key
  BY <1>1, Lookup
<1>3. pair \in PairSet /\ pair[1] = key
  BY DEF PairSet
<1>4. NoList \notin Seq(PairSet)
  BY HashMapAssumption DEF PairSet
<1> DEFINE old == Chain(b)
           new == Append(old, pair)
<1>5. /\ old \in Seq(PairSet) /\ Len(old) \in Nat
      /\ new \in Seq(PairSet)
      /\ Len(new) = Len(old) + 1
      /\ \A i \in 1..Len(old) + 1 : new[i] = IF i <= Len(old) THEN old[i] ELSE pair
  <2>1. old \in Seq(PairSet) /\ Len(old) \in Nat
    BY <1>1, <1>2, ChainType
  <2> HIDE DEF pair, old
  <2> QED
    BY <1>3, <2>1, PairAdded
<1>6. buckets' = [buckets EXCEPT ![b] = new]
  <2>1. buckets[b] = NoList => new = <<pair>>
    <3>1. Append(<<>>, pair) = <<pair>>
      OBVIOUS
    <3> QED
      BY <3>1 DEF Chain
  <2>2. buckets[b] # NoList => new = Append(buckets[b], pair)
    BY DEF Chain
  <2>3. buckets' = [buckets EXCEPT ![b] = IF buckets[b] = NoList THEN <<pair>>
                                         ELSE Append(buckets[b], pair)]
    BY DEF WithPair
  <2> HIDE DEF pair, old, new
  <2> QED
    BY <2>1, <2>2, <2>3
<1>7. /\ BucketCount' = BucketCount
      /\ buckets' \in [0..BucketCount - 1 -> Seq(PairSet) \cup {NoList}]
      /\ Chain(b)' = new
      /\ \A c \in 0..BucketCount - 1 : c # b => Chain(c)' = Chain(c)
      /\ \A k : BucketOf(k)' = BucketOf(k)
  <2> HIDE DEF new
  <2> QED
    BY <1>1, <1>2, <1>4, <1>5, <1>6, OneChain
<1>8. /\ \A i \in 1..Len(old) : i \in 1..Len(new) /\ new[i] = old[i]
      /\ Len(new) \in 1..Len(new) /\ new[Len(new)] = pair
      /\ \A i \in 1..Len(new) : i # Len(new) => i \in 1..Len(old)
  <2> HIDE DEF new, old, pair
  <2>1. ~(Len(old) + 1 <= Len(old)) /\ Len(old) + 1 \in 1..Len(old) + 1
    BY <1>5
  <2> QED
    BY <1>5, <2>1
<1> HIDE DEF pair, new
<1>9. \A p : Holds(p)' <=> Holds(p) \/ p = pair
  <2> SUFFICES ASSUME NEW p
               PROVE  Holds(p)' <=> Holds(p) \/ p = pair
    OBVIOUS
  <2>1. ASSUME Holds(p)'
        PROVE  Holds(p) \/ p = pair
    <3>1. PICK c \in 0..BucketCount - 1 : \E i \in 1..Len(Chain(c)') : Chain(c)'[i] = p
      BY <1>7, <2>1 DEF Holds
    <3>2. CASE c = b
      <4>1. PICK i \in 1..Len(new) : new[i] = p
        BY <1>7, <3>1, <3>2
      <4> QED
        BY <1>2, <1>8, <4>1 DEF Holds
    <3>3. CASE c # b
      BY <1>7, <3>1, <3>3 DEF Holds
    <3> QED
      BY <3>2, <3>3
  <2>2. ASSUME Holds(p)
        PROVE  Holds(p)'
    <3>1. PICK c \in 0..BucketCount - 1 : \E i \in 1..Len(Chain(c)) : Chain(c)[i] = p
      BY <2>2 DEF Holds
    <3>2. \E i \in 1..Len(Chain(c)') : Chain(c)'[i] = p
      BY <1>7, <1>8, <3>1
    <3> QED
      BY <1>7, <3>2 DEF Holds
  <2>3. ASSUME p = pair
        PROVE  Holds(p)'
    <3>1. Len(new) \in 1..Len(Chain(b)') /\ Chain(b)'[Len(new)] = p
      BY <1>7, <1>8, <2>3
    <3> QED
      BY <1>2, <1>7, <3>1 DEF Holds
  <2> QED
    BY <2>1, <2>2, <2>3
<1>10. BucketsOK'
  <2>1. ASSUME NEW c \in 0..BucketCount - 1
        PROVE  /\ \A i \in 1..Len(Chain(c)') : BucketOf(Chain(c)'[i][1]) = c
               /\ \A i, j \in 1..Len(Chain(c)') : Chain(c)'[i][1] = Chain(c)'[j][1] => i = j
    <3>1. CASE c # b
      BY <1>1, <1>7, <3>1 DEF BucketsOK
    <3>2. CASE c = b
      <4>1. ASSUME NEW i \in 1..Len(new)
            PROVE  BucketOf(new[i][1]) = b
        <5>1. CASE i = Len(new)
          BY <1>3, <1>8, <5>1
        <5>2. CASE i # Len(new)
          BY <1>1, <1>2, <1>8, <5>2 DEF BucketsOK
        <5> QED
          BY <5>1, <5>2
      <4>2. ASSUME NEW i \in 1..Len(new), NEW j \in 1..Len(new), new[i][1] = new[j][1]
            PROVE  i = j
        <5>1. CASE i = Len(new) \/ j = Len(new)
          BY <1>2, <1>3, <1>8, <4>2, <5>1
        <5>2. CASE i # Len(new) /\ j # Len(new)
          BY <1>1, <1>2, <1>8, <4>2, <5>2 DEF BucketsOK
        <5> QED
          BY <5>1, <5>2
      <4> QED
        BY <1>7, <3>2, <4>1, <4>2
    <3> QED
      BY <3>1, <3>2
  <2>2. BucketCount \in Nat \ {0}
    BY <1>1 DEF BucketsOK
  <2> QED
    BY <1>7, <2>1, <2>2 DEF BucketsOK
<1> DEFINE D == DOMAIN Pairs \cup {key}
           f == [x \in D |-> IF x = key THEN value ELSE Pairs[x]]
<1>11. Pairs' = f
  <2>1. \A k, v : Held(k, v)' <=> Held(k, v) \/ (k = key /\ v = value)
    <3> SUFFICES ASSUME NEW k, NEW v
                 PROVE  Held(k, v)' <=> Held(k, v) \/ (k = key /\ v = value)
      OBVIOUS
    <3>1. Holds(<<k, v>>)' <=> Holds(<<k, v>>) \/ <<k, v>> = pair
      BY <1>9
    <3>2. <<k, v>> = pair <=> k = key /\ v = value
      BY DEF pair
    <3> QED
      BY <3>1, <3>2 DEF Held
  <2>2. \A k, v : Held(k, v) <=> k \in DOMAIN Pairs /\ v = Pairs[k]
    BY <1>1, PairsFacts DEF PairsShown
  <2>3. \A k, v : Held(k, v)' <=> k \in D /\ v = f[k]
    BY <1>2, <2>1, <2>2
  <2>4. f = [x \in D |-> f[x]]
    OBVIOUS
  <2> HIDE DEF D, f
  <2> QED
    BY <1>10, <2>3, <2>4, NewPairs
<1>12. numOfPairs' = Cardinality(DOMAIN Pairs')
  <2>1. IsFiniteSet(DOMAIN Pairs)
    BY <1>1, PairsFacts, HashMapAssumption, FS_Subset DEF PairsShown
  <2>2. Cardinality(DOMAIN Pairs \cup {key}) = Cardinality(DOMAIN Pairs) + 1
    BY <1>2, <2>1, FS_AddElement
  <2>3. DOMAIN Pairs' = DOMAIN Pairs \cup {key}
    BY <1>11
  <2> QED
    BY <2>2, <2>3 DEF MapInv
<1> QED
  BY <1>10, <1>11, <1>12 DEF MapInv

\* A removal.
LEMMA MapRemoveKeeps ==
  ASSUME MapInv, NEW key \in Keys, Matching(key) # {},
         NEW b, b = BucketOf(key), NEW n, n = FirstMatch(key),
         buckets' = WithoutPair(b, n), numOfPairs' = numOfPairs - 1
  PROVE  /\ MapInv'
         /\ Pairs' = [x \in DOMAIN Pairs \ {key} |-> Pairs[x]]
<1>1. BucketsOK
  BY DEF MapInv
<1> DEFINE old == Chain(b)
           new == IF Len(old) = 1 THEN NoList ELSE RemoveAt(old, n)
           left == IF Len(old) = 1 THEN <<>> ELSE RemoveAt(old, n)
<1>2. /\ b \in 0..BucketCount - 1 /\ key \in DOMAIN Pairs
      /\ buckets[b] # NoList
      /\ n \in 1..Len(old)
      /\ old[n] = <<key, Pairs[key]>>
  BY <1>1, Lookup
<1>3. NoList \notin Seq(PairSet)
  BY HashMapAssumption DEF PairSet
<1>4. /\ old \in Seq(PairSet) /\ Len(old) \in Nat
      /\ left \in Seq(PairSet) /\ Len(left) = Len(old) - 1
      /\ \A i \in 1..Len(old) - 1 : left[i] = IF i < n THEN old[i] ELSE old[i + 1]
  <2>1. old \in Seq(PairSet) /\ Len(old) \in Nat
    BY <1>1, <1>2, ChainType
  <2>2. CASE Len(old) = 1
    <3>1. left = <<>> /\ 1..Len(old) - 1 = {} /\ Len(<<>>) = 0 /\ <<>> \in Seq(PairSet)
      BY <2>2
    <3> QED
      BY <2>1, <2>2, <3>1
  <2>3. CASE Len(old) # 1
    <3>1. left = RemoveAt(old, n)
      BY <2>3
    <3> HIDE DEF old, left
    <3>2. /\ RemoveAt(old, n) \in Seq(PairSet)
          /\ Len(RemoveAt(old, n)) = Len(old) - 1
          /\ \A j \in 1..Len(old) - 1 :
                RemoveAt(old, n)[j] = IF j < n THEN old[j] ELSE old[j + 1]
      BY <1>2, <2>1, SequenceRemoval
    <3> QED
      BY <2>1, <3>1, <3>2
  <2> QED
    BY <2>2, <2>3
<1>5. buckets' = [buckets EXCEPT ![b] = new]
  <2>1. old = buckets[b]
    BY <1>2 DEF Chain
  <2>2. buckets' = [buckets EXCEPT ![b] = IF Len(buckets[b]) = 1 THEN NoList
                                         ELSE RemoveAt(buckets[b], n)]
    BY DEF WithoutPair
  <2> QED
    BY <2>1, <2>2
<1>6. /\ BucketCount' = BucketCount
      /\ buckets' \in [0..BucketCount - 1 -> Seq(PairSet) \cup {NoList}]
      /\ Chain(b)' = left
      /\ \A c \in 0..BucketCount - 1 : c # b => Chain(c)' = Chain(c)
      /\ \A k : BucketOf(k)' = BucketOf(k)
  <2>1. /\ new \in Seq(PairSet) \cup {NoList}
        /\ left = IF new = NoList THEN <<>> ELSE new
    <3>1. Len(old) # 1 => new = left
      OBVIOUS
    <3>2. Len(old) = 1 => new = NoList /\ left = <<>>
      OBVIOUS
    <3> HIDE DEF new, left
    <3> QED
      BY <1>3, <1>4, <3>1, <3>2
  <2> HIDE DEF new, left, old
  <2> QED
    BY <1>1, <1>2, <1>5, <2>1, OneChain
<1> HIDE DEF new, left
<1> DEFINE was(i) == IF i < n THEN i ELSE i + 1
<1>7. /\ \A i \in 1..Len(left) : /\ was(i) \in 1..Len(old) /\ was(i) # n
                                /\ left[i] = old[was(i)]
      /\ \A i, j \in 1..Len(left) : was(i) = was(j) => i = j
      /\ \A h \in 1..Len(old) : h # n => \E i \in 1..Len(left) : left[i] = old[h]
  <2> HIDE DEF old
  <2>1. n \in Nat /\ n >= 1 /\ n <= Len(old)
    BY <1>2, <1>4
  <2>2. ASSUME NEW i \in 1..Len(left)
        PROVE  was(i) \in 1..Len(old) /\ was(i) # n /\ left[i] = old[was(i)]
    BY <1>4, <2>1
  <2>3. \A i, j \in 1..Len(left) : was(i) = was(j) => i = j
    BY <1>4, <2>1
  <2>4. ASSUME NEW h \in 1..Len(old), h # n
        PROVE  \E i \in 1..Len(left) : left[i] = old[h]
    <3>1. CASE h < n
      <4>1. h \in 1..Len(left) /\ left[h] = old[h]
        BY <1>4, <2>1, <3>1
      <4> QED
        BY <4>1
    <3>2. CASE ~(h < n)
      <4>1. h - 1 \in 1..Len(left) /\ ~(h - 1 < n) /\ (h - 1) + 1 = h
        BY <1>4, <2>1, <2>4, <3>2
      <4>2. left[h - 1] = old[h]
        BY <1>4, <4>1
      <4> QED
        BY <4>1, <4>2
    <3> QED
      BY <3>1, <3>2
  <2> QED
    BY <2>2, <2>3, <2>4
<1> HIDE DEF was
<1>8. /\ \A c \in 0..BucketCount - 1 : \A i \in 1..Len(Chain(c)) : BucketOf(Chain(c)[i][1]) = c
      /\ \A i, j \in 1..Len(old) : old[i][1] = old[j][1] => i = j
  BY <1>1, <1>2 DEF BucketsOK
<1>9. \A p : Holds(p)' <=> Holds(p) /\ p[1] # key
  <2> SUFFICES ASSUME NEW p
               PROVE  Holds(p)' <=> Holds(p) /\ p[1] # key
    OBVIOUS
  <2>1. ASSUME Holds(p)'
        PROVE  Holds(p) /\ p[1] # key
    <3>1. PICK c \in 0..BucketCount - 1 : \E i \in 1..Len(Chain(c)') : Chain(c)'[i] = p
      BY <1>6, <2>1 DEF Holds
    <3>2. CASE c = b
      <4>1. PICK i \in 1..Len(left) : left[i] = p
        BY <1>6, <3>1, <3>2
      <4>2. p = old[was(i)] /\ was(i) \in 1..Len(old) /\ was(i) # n
        BY <1>7, <4>1
      <4>3. p[1] # old[n][1] /\ old[n][1] = key
        BY <1>2, <1>8, <4>2
      <4> QED
        BY <1>2, <4>2, <4>3 DEF Holds
    <3>3. CASE c # b
      <4>1. PICK i \in 1..Len(Chain(c)) : Chain(c)[i] = p
        BY <1>6, <3>1, <3>3
      <4>2. BucketOf(p[1]) = c
        BY <1>8, <4>1
      <4> QED
        BY <3>3, <4>1, <4>2 DEF Holds
    <3> QED
      BY <3>2, <3>3
  <2>2. ASSUME Holds(p), p[1] # key
        PROVE  Holds(p)'
    <3>1. PICK c \in 0..BucketCount - 1 : \E i \in 1..Len(Chain(c)) : Chain(c)[i] = p
      BY <2>2 DEF Holds
    <3>2. PICK i \in 1..Len(Chain(c)) : Chain(c)[i] = p
      BY <3>1
    <3>3. \E h \in 1..Len(Chain(c)') : Chain(c)'[h] = p
      <4>1. CASE c = b
        <5>1. i # n
          BY <1>2, <2>2, <3>2, <4>1
        <5> QED
          BY <1>6, <1>7, <3>2, <4>1, <5>1
      <4>2. CASE c # b
        BY <1>6, <3>2, <4>2
      <4> QED
        BY <4>1, <4>2
    <3> QED
      BY <1>6, <3>3 DEF Holds
  <2> QED
    BY <2>1, <2>2
<1>10. BucketsOK'
  <2>1. ASSUME NEW c \in 0..BucketCount - 1
        PROVE  /\ \A i \in 1..Len(Chain(c)') : BucketOf(Chain(c)'[i][1]) = c
               /\ \A i, j \in 1..Len(Chain(c)') : Chain(c)'[i][1] = Chain(c)'[j][1] => i = j
    <3>1. CASE c # b
      BY <1>1, <1>6, <3>1 DEF BucketsOK
    <3>2. CASE c = b
      <4>1. ASSUME NEW i \in 1..Len(left)
            PROVE  BucketOf(left[i][1]) = b
        <5>1. left[i] = old[was(i)] /\ was(i) \in 1..Len(old)
          BY <1>7
        <5> QED
          BY <1>2, <1>8, <5>1
      <4>2. ASSUME NEW i \in 1..Len(left), NEW j \in 1..Len(left), left[i][1] = left[j][1]
            PROVE  i = j
        <5>1. old[was(i)][1] = old[was(j)][1]
          BY <1>7, <4>2
        <5> QED
          BY <1>7, <1>8, <5>1
      <4> QED
        BY <1>6, <3>2, <4>1, <4>2
    <3> QED
      BY <3>1, <3>2
  <2>2. BucketCount \in Nat \ {0}
    BY <1>1 DEF BucketsOK
  <2> QED
    BY <1>6, <2>1, <2>2 DEF BucketsOK
<1> DEFINE D == DOMAIN Pairs \ {key}
           f == [x \in D |-> Pairs[x]]
<1>11. Pairs' = f
  <2>1. \A k, v : Held(k, v)' <=> Held(k, v) /\ k # key
    <3> SUFFICES ASSUME NEW k, NEW v
                 PROVE  Held(k, v)' <=> Held(k, v) /\ k # key
      OBVIOUS
    <3>1. Holds(<<k, v>>)' <=> Holds(<<k, v>>) /\ <<k, v>>[1] # key
      BY <1>9
    <3>2. <<k, v>>[1] = k
      OBVIOUS
    <3> QED
      BY <3>1, <3>2 DEF Held
  <2>2. \A k, v : Held(k, v) <=> k \in DOMAIN Pairs /\ v = Pairs[k]
    BY <1>1, PairsFacts DEF PairsShown
  <2>3. \A k, v : Held(k, v)' <=> k \in D /\ v = f[k]
    BY <2>1, <2>2
  <2>4. f = [x \in D |-> f[x]]
    OBVIOUS
  <2> HIDE DEF D, f
  <2> QED
    BY <1>10, <2>3, <2>4, NewPairs
<1>12. numOfPairs' = Cardinality(DOMAIN Pairs')
  <2>1. IsFiniteSet(DOMAIN Pairs)
    BY <1>1, PairsFacts, HashMapAssumption, FS_Subset DEF PairsShown
  <2>2. Cardinality(DOMAIN Pairs \ {key}) = Cardinality(DOMAIN Pairs) - 1
    BY <1>2, <2>1, FS_RemoveElement
  <2>3. DOMAIN Pairs' = DOMAIN Pairs \ {key}
    BY <1>11
  <2> QED
    BY <2>2, <2>3 DEF MapInv
<1> QED
  BY <1>10, <1>11, <1>12 DEF MapInv

LEMMA MapInitially ==
  HashMap_Create => MapInv /\ Map!Init
<1> SUFFICES ASSUME HashMap_Create
             PROVE  MapInv /\ Map!Init
  OBVIOUS
<1>1. PICK n \in MapSizes : buckets = [b \in 0..nextPrime(n) - 1 |-> NoList]
  BY DEF HashMap_Create
<1>2. nextPrime(n) \in Nat \ {0}
  BY HashMapAssumption
<1>3. BucketCount = nextPrime(n)
  <2> DEFINE N == nextPrime(n)
  <2>1. DOMAIN buckets = 0..N - 1
    BY <1>1
  <2>2. /\ 0 \in Int /\ N - 1 \in Int /\ ~(0 > N - 1) /\ N - 1 - 0 + 1 = N
    BY <1>2
  <2> HIDE DEF N
  <2>3. Cardinality(0..N - 1) = N
    BY <2>2, FS_Interval
  <2> QED
    BY <2>1, <2>3 DEF BucketCount, N
<1>4. \A b \in 0..BucketCount - 1 : Chain(b) = <<>> /\ 1..Len(Chain(b)) = {}
  <2>1. \A b \in 0..BucketCount - 1 : Chain(b) = <<>>
    BY <1>1, <1>3 DEF Chain
  <2>2. 1..Len(<<>>) = {}
    OBVIOUS
  <2> QED
    BY <2>1, <2>2
<1>5. BucketsOK
  BY <1>1, <1>2, <1>3, <1>4 DEF BucketsOK
<1>6. DOMAIN Pairs = {}
  <2>1. \A k, v : ~Held(k, v)
    BY <1>4 DEF Held, Holds
  <2> QED
    BY <1>5, <2>1, PairsFacts DEF PairsShown
<1>7. Pairs = <<>>
  <2>1. Pairs = [k \in {} |-> Pairs[k]]
    BY <1>5, <1>6, PairsFacts DEF PairsShown
  <2>2. <<>> = [k \in {} |-> Pairs[k]]
    OBVIOUS
  <2> QED
    BY <2>1, <2>2
<1> QED
  BY <1>5, <1>6, <1>7, FS_EmptySet DEF MapInv, HashMap_Create, Map!Init, Map!Answer

LEMMA SameCardinality ==
  \A S : Map!Cardinality(S) = Cardinality(S)
BY DEF Map!Cardinality, Cardinality

LEMMA SaysFits ==
  ASSUME NEW code, mapReturned' = [code |-> code, pairs |-> <<>>], Pairs' = Pairs
  PROVE  Map!Says(code)
BY DEF Map!Says, Map!Answer

LEMMA MapUnchanged ==
  ASSUME MapInv, UNCHANGED <<buckets, numOfPairs>>
  PROVE  MapInv' /\ Pairs' = Pairs
<1>1. Pairs' = Pairs
  BY DEF Pairs, AllPairs, BucketCount
<1>2. BucketsOK'
  BY DEF MapInv, BucketsOK, BucketCount, BucketOf, Chain
<1> QED
  BY <1>1, <1>2 DEF MapInv

LEMMA FindStep ==
  ASSUME MapInv, NEW key \in Keys, HashMap_Find(key)
  PROVE  MapInv' /\ Map!Find(key)
<1>1. MapInv' /\ Pairs' = Pairs
  BY MapUnchanged DEF HashMap_Find
<1>2. BucketsOK
  BY DEF MapInv
<1>3. /\ Matching(key) = {} <=> key \notin DOMAIN Pairs
      /\ Matching(key) # {} =>
           /\ buckets[BucketOf(key)] # NoList
           /\ Chain(BucketOf(key))[FirstMatch(key)] = <<key, Pairs[key]>>
  BY <1>2, Lookup
<1>4. Matching(key) # {} => buckets[BucketOf(key)][FirstMatch(key)] = <<key, Pairs[key]>>
  BY <1>3 DEF Chain
<1>5. mapReturned' = IF key \in DOMAIN Pairs
                       THEN [code |-> "success", pairs |-> <<<<key, Pairs[key]>>>>]
                       ELSE [code |-> "key_not_found", pairs |-> <<>>]
  BY <1>3, <1>4 DEF HashMap_Find, Reply
<1> QED
  BY <1>1, <1>5 DEF Map!Find, Map!Answer

LEMMA RemoveStep ==
  ASSUME MapInv, NEW key \in Keys, HashMap_Remove(key)
  PROVE  MapInv' /\ Map!Remove(key)
<1>1. BucketsOK
  BY DEF MapInv
<1>2. /\ Matching(key) = {} <=> key \notin DOMAIN Pairs
      /\ Matching(key) # {} =>
           /\ buckets[BucketOf(key)] # NoList
           /\ Chain(BucketOf(key))[FirstMatch(key)] = <<key, Pairs[key]>>
  BY <1>1, Lookup
<1>3. CASE Matching(key) = {}
  <2>1. /\ mapReturned' = [code |-> "key_not_found", pairs |-> <<>>]
        /\ UNCHANGED <<buckets, numOfPairs>>
    BY <1>3 DEF HashMap_Remove, Unchanged, Reply
  <2>2. MapInv' /\ Pairs' = Pairs
    BY <2>1, MapUnchanged
  <2>3. Map!Says("key_not_found")
    BY <2>1, <2>2, SaysFits
  <2> QED
    BY <1>2, <1>3, <2>2, <2>3 DEF Map!Remove
<1>4. CASE Matching(key) # {}
  <2> DEFINE b == BucketOf(key)
             n == FirstMatch(key)
  <2>1. /\ mapReturned' = [code |-> "success", pairs |-> <<buckets[b][n]>>]
        /\ buckets' = WithoutPair(b, n)
        /\ numOfPairs' = numOfPairs - 1
    BY <1>4 DEF HashMap_Remove, Reply
  <2>2. MapInv' /\ Pairs' = [x \in DOMAIN Pairs \ {key} |-> Pairs[x]]
    <3> HIDE DEF b, n
    <3>1. b = BucketOf(key) /\ n = FirstMatch(key)
      BY DEF b, n
    <3> QED
      BY <1>4, <2>1, <3>1, MapRemoveKeeps
  <2>3. buckets[b][n] = <<key, Pairs[key]>>
    BY <1>2, <1>4 DEF Chain
  <2>4. Pairs' = Map!Restrict(Pairs, DOMAIN Pairs \ {key})
    BY <2>2 DEF Map!Restrict
  <2>5. mapReturned' = [code |-> "success", pairs |-> <<<<key, Pairs[key]>>>>]
    BY <2>1, <2>3
  <2> QED
    BY <1>2, <1>4, <2>2, <2>4, <2>5 DEF Map!Remove, Map!Answer
<1> QED
  BY <1>3, <1>4

\* The list's node is not allocated: a list that was just made stays, empty.
LEMMA NodeFails ==
  ASSUME MapInv, NEW b \in 0..BucketCount - 1, UNCHANGED numOfPairs,
         buckets' = [buckets EXCEPT ![b] = IF @ = NoList THEN <<>> ELSE @]
  PROVE  MapInv' /\ Pairs' = Pairs
<1> DEFINE new == IF buckets[b] = NoList THEN <<>> ELSE buckets[b]
<1>1. BucketsOK
  BY DEF MapInv
<1>2. buckets' = [buckets EXCEPT ![b] = new]
  OBVIOUS
<1>3. new = Chain(b) /\ new \in Seq(PairSet)
  <2>1. new = Chain(b)
    BY DEF Chain
  <2> HIDE DEF new
  <2> QED
    BY <1>1, <2>1, ChainType
<1>4. NoList \notin Seq(PairSet)
  BY HashMapAssumption DEF PairSet
<1> HIDE DEF new
<1>5. /\ BucketCount' = BucketCount
      /\ buckets' \in [0..BucketCount - 1 -> Seq(PairSet) \cup {NoList}]
      /\ Chain(b)' = IF new = NoList THEN <<>> ELSE new
      /\ \A c \in 0..BucketCount - 1 : c # b => Chain(c)' = Chain(c)
  BY <1>1, <1>2, <1>3, OneChain
<1>6. \A c \in 0..BucketCount - 1 : Chain(c)' = Chain(c)
  <2> SUFFICES ASSUME NEW c \in 0..BucketCount - 1
               PROVE  Chain(c)' = Chain(c)
    OBVIOUS
  <2>1. CASE c # b
    BY <1>5, <2>1
  <2>2. CASE c = b
    BY <1>3, <1>4, <1>5, <2>2
  <2> QED
    BY <2>1, <2>2
<1>7. BucketsOK' /\ Pairs' = Pairs
  BY <1>1, <1>5, <1>6, SameChains
<1> QED
  BY <1>7 DEF MapInv

LEMMA InsertStep ==
  ASSUME MapInv, NEW key \in Keys, NEW value \in MapValues, NEW fault,
         HashMap_Insert(key, value, fault)
  PROVE  MapInv' /\ Map!Insert(key, value)
<1>1. BucketsOK
  BY DEF MapInv
<1> DEFINE b == BucketOf(key)
<1>2. Matching(key) = {} <=> key \notin DOMAIN Pairs
  BY <1>1, Lookup
<1>3. ASSUME Unchanged("allocation")
      PROVE  MapInv' /\ Map!Insert(key, value)
  <2>1. /\ mapReturned' = [code |-> "allocation", pairs |-> <<>>]
        /\ UNCHANGED <<buckets, numOfPairs>>
    BY <1>3 DEF Unchanged, Reply
  <2>2. MapInv' /\ Pairs' = Pairs
    BY <2>1, MapUnchanged
  <2>3. Map!Says("allocation")
    BY <2>1, <2>2, SaysFits
  <2> QED
    BY <2>2, <2>3 DEF Map!Insert
<1>4. ASSUME Matching(key) # {}, Unchanged("key_duplicate")
      PROVE  MapInv' /\ Map!Insert(key, value)
  <2>1. /\ mapReturned' = [code |-> "key_duplicate", pairs |-> <<>>]
        /\ UNCHANGED <<buckets, numOfPairs>>
    BY <1>4 DEF Unchanged, Reply
  <2>2. MapInv' /\ Pairs' = Pairs
    BY <2>1, MapUnchanged
  <2>3. Map!Says("key_duplicate")
    BY <2>1, <2>2, SaysFits
  <2> QED
    BY <1>2, <1>4, <2>2, <2>3 DEF Map!Insert
<1>5. ASSUME buckets' = [buckets EXCEPT ![b] = IF @ = NoList THEN <<>> ELSE @],
             Reply("allocation", <<>>), UNCHANGED numOfPairs
      PROVE  MapInv' /\ Map!Insert(key, value)
  <2>1. b \in 0..BucketCount - 1
    BY <1>1, Lookup
  <2> HIDE DEF b
  <2>2. MapInv' /\ Pairs' = Pairs
    BY <1>5, <2>1, NodeFails
  <2>3. Map!Says("allocation")
    BY <1>5, <2>2, SaysFits DEF Reply
  <2> QED
    BY <2>2, <2>3 DEF Map!Insert
<1>6. ASSUME Matching(key) = {}, buckets' = WithPair(b, <<key, value>>),
             numOfPairs' = numOfPairs + 1, Reply("success", <<>>)
      PROVE  MapInv' /\ Map!Insert(key, value)
  <2>1. b = BucketOf(key)
    OBVIOUS
  <2> HIDE DEF b
  <2>2. /\ MapInv'
        /\ Pairs' = [x \in DOMAIN Pairs \cup {key} |-> IF x = key THEN value ELSE Pairs[x]]
    BY <1>6, <2>1, MapInsertKeeps
  <2> QED
    BY <1>2, <1>6, <2>2 DEF Map!Insert, Map!Answer, Reply
<1> QED
  BY <1>3, <1>4, <1>5, <1>6 DEF HashMap_Insert

LEMMA SizeStep ==
  ASSUME MapInv, HashMap_Size
  PROVE  MapInv' /\ Map!Size
<1>1. MapInv' /\ Pairs' = Pairs
  BY MapUnchanged DEF HashMap_Size
<1>2. mapReturned' = [code |-> "size", pairs |-> <<Cardinality(DOMAIN Pairs)>>]
  BY DEF HashMap_Size, Reply, MapInv
<1> QED
  BY <1>1, <1>2, SameCardinality DEF Map!Size, Map!Answer

LEMMA ForEachStep ==
  ASSUME MapInv, NEW most \in 1..Cardinality(Keys), HashMap_ForEach(most)
  PROVE  MapInv' /\ Map!ForEach(most)
<1>1. MapInv' /\ Pairs' = Pairs
  BY MapUnchanged DEF HashMap_ForEach
<1>2. BucketsOK
  BY DEF MapInv
<1> DEFINE s == AllPairs
           L == IF most < Len(s) THEN most ELSE Len(s)
           shown == SubSeq(s, 1, L)
<1>3. mapReturned' = [code |-> "visited", pairs |-> shown]
  BY DEF HashMap_ForEach, Reply
<1>4. /\ s \in Seq(PairSet)
      /\ \A p : Holds(p) <=> \E n \in 1..Len(s) : s[n] = p
      /\ \A m, n \in 1..Len(s) : s[m][1] = s[n][1] => m = n
  BY <1>2, AllPairsFacts
<1>5. /\ Len(s) = Cardinality(DOMAIN Pairs)
      /\ \A k, v : Held(k, v) <=> k \in DOMAIN Pairs /\ v = Pairs[k]
  BY <1>2, PairsFacts DEF PairsShown
<1> HIDE DEF s
<1>6. Len(s) \in Nat /\ \A n \in 1..Len(s) : s[n] \in PairSet
  BY <1>4, LenProperties, ElementOfSeq
<1>7. L \in Nat /\ L <= Len(s)
  <2>1. Cardinality(Keys) \in Nat
    BY HashMapAssumption, FS_CardinalityType
  <2> QED
    BY <1>6, <2>1
<1> HIDE DEF L
<1>8. /\ Len(shown) = L /\ DOMAIN shown = 1..L
      /\ \A n \in 1..L : n \in 1..Len(s) /\ shown[n] = s[n]
  <2>1. \A n \in 1..L : n \in 1..Len(s) /\ s[n] \in PairSet
    BY <1>6, <1>7
  <2>2. /\ shown \in Seq(PairSet)
        /\ Len(shown) = IF 1 <= L THEN L - 1 + 1 ELSE 0
        /\ \A n \in 1..L - 1 + 1 : shown[n] = s[1 + n - 1]
    BY <1>4, <1>7, <2>1, SubSeqProperties
  <2> HIDE DEF shown
  <2>3. Len(shown) = L
    BY <1>7, <2>2
  <2>4. \A n \in 1..L : n \in 1..L - 1 + 1 /\ 1 + n - 1 = n
    BY <1>7
  <2> QED
    BY <2>1, <2>2, <2>3, <2>4, LenProperties
<1> HIDE DEF shown
<1>9. Map!IsInjective(shown)
  BY <1>4, <1>8 DEF Map!IsInjective
<1>10. ASSUME NEW n \in DOMAIN shown
       PROVE  shown[n][1] \in DOMAIN Pairs /\ shown[n][2] = Pairs[shown[n][1]]
  <2>1. n \in 1..Len(s) /\ shown[n] = s[n] /\ s[n] \in PairSet
    BY <1>6, <1>8
  <2>2. s[n] = <<s[n][1], s[n][2]>>
    BY <2>1 DEF PairSet
  <2>3. Held(s[n][1], s[n][2])
    BY <1>4, <2>1, <2>2 DEF Held
  <2> QED
    BY <1>5, <2>1, <2>3
<1>11. Len(shown) = IF most < Cardinality(DOMAIN Pairs) THEN most ELSE Cardinality(DOMAIN Pairs)
  BY <1>5, <1>8 DEF L
<1>12. mapReturned'.code = "visited" /\ mapReturned'.pairs = shown
  BY <1>3
<1> QED
  BY <1>1, <1>9, <1>10, <1>11, <1>12, SameCardinality DEF Map!ForEach

\* The map implements the dictionary, for any keys, values, hash function and
\* table size: keys that collide, lists that come and go and insertions that
\* fail at any of their allocations neither lose a pair, nor double a key,
\* nor leave the count wrong.
THEOREM MapImplementsDictionary == MapSpec => ImplementsDictionary
<1>1. HashMap_Create => MapInv /\ Map!Init
  BY MapInitially
<1>2. MapInv /\ [MapNext]_mapVars => MapInv' /\ [Map!Next]_<<Pairs, mapReturned>>
  <2> SUFFICES ASSUME MapInv, [MapNext]_mapVars
               PROVE  MapInv' /\ [Map!Next]_<<Pairs, mapReturned>>
    OBVIOUS
  <2>1. ASSUME NEW key \in Keys, HashMap_Find(key)
        PROVE  MapInv' /\ Map!Next
    BY <2>1, FindStep DEF Map!Next
  <2>2. ASSUME NEW key \in Keys, HashMap_Remove(key)
        PROVE  MapInv' /\ Map!Next
    BY <2>2, RemoveStep DEF Map!Next
  <2>3. ASSUME NEW key \in Keys, NEW value \in MapValues,
               NEW fault \in {"none", "pair", "list", "node"},
               HashMap_Insert(key, value, fault)
        PROVE  MapInv' /\ Map!Next
    BY <2>3, InsertStep DEF Map!Next
  <2>4. ASSUME HashMap_Size
        PROVE  MapInv' /\ Map!Next
    BY <2>4, SizeStep DEF Map!Next
  <2>5. ASSUME NEW most \in 1..Cardinality(Keys), HashMap_ForEach(most)
        PROVE  MapInv' /\ Map!Next
    <3>1. MapInv' /\ Map!ForEach(most)
      BY <2>5, ForEachStep
    <3> QED
      BY <3>1, SameCardinality DEF Map!Next
  <2>6. CASE UNCHANGED mapVars
    BY <2>6, MapUnchanged DEF mapVars
  <2> QED
    BY <2>1, <2>2, <2>3, <2>4, <2>5, <2>6 DEF MapNext
<1> QED
  BY <1>1, <1>2, PTL DEF MapSpec, ImplementsDictionary, Map!Spec

-----------------------------------------------------------------------------
\* The heap.

\* Induction over the turns of a loop.
LEMMA EachTurn ==
  ASSUME NEW n \in Nat, NEW T, 0 \in T, \A k \in 0..n - 1 : k \in T => k + 1 \in T
  PROVE  \A k \in 0..n : k \in T
<1> DEFINE D == {k \in 0..n : k \notin T}
<1> SUFFICES ASSUME D # {}
             PROVE  FALSE
  OBVIOUS
<1>1. D \subseteq Nat
  OBVIOUS
<1>2. PICK k \in D : \A j \in D : k <= j
  <2> HIDE DEF D
  <2> QED
    BY <1>1, LeastNatural
<1>3. k \in 0..n /\ k \notin T /\ k # 0
  BY <1>2
<1>4. k - 1 \in 0..n - 1 /\ k - 1 \in 0..n /\ ~(k <= k - 1) /\ (k - 1) + 1 = k
  BY <1>3
<1>5. k - 1 \in T
  BY <1>2, <1>4
<1> QED
  BY <1>3, <1>4, <1>5

\* A loop whose every turn leads from a state in S to one in S has a state
\* after each turn.
Stepwise(f, n, S) == f \in [1..n -> [S -> S]]

LoopRuns(t, f, n, S, s) ==
  /\ t \in [0..n -> S]
  /\ t[0] = s
  /\ \A k \in 1..n : t[k] = f[k][t[k - 1]]

LEMMA LoopExists ==
  ASSUME NEW n \in Nat, NEW S, NEW s \in S, NEW f, Stepwise(f, n, S)
  PROVE  \E t : LoopRuns(t, f, n, S, s)
<1> USE DEF Stepwise
<1> DEFINE Runs(t, m) == /\ t \in [0..m -> S]
                         /\ t = [k \in 0..m |-> IF k = 0 THEN s ELSE f[k][t[k - 1]]]
           T == {m \in 0..n : \E t : Runs(t, m)}
<1>1. 0 \in T
  <2> DEFINE t == [k \in 0..0 |-> s]
  <2>1. Runs(t, 0)
    <3>1. \A k \in 0..0 : k = 0
      OBVIOUS
    <3> QED
      BY <3>1
  <2> HIDE DEF Runs
  <2> QED
    BY <2>1
<1>2. ASSUME NEW m \in 0..n - 1, m \in T
      PROVE  m + 1 \in T
  <2>1. PICK t : Runs(t, m)
    BY <1>2
  <2> DEFINE u == [k \in 0..m + 1 |-> IF k = m + 1 THEN f[m + 1][t[m]] ELSE t[k]]
  <2>2. f[m + 1][t[m]] \in S
    <3>1. m + 1 \in 1..n /\ m \in 0..m
      OBVIOUS
    <3> QED
      BY <2>1, <3>1
  <2>3. \A k \in 0..m + 1 : k # m + 1 => k \in 0..m
    OBVIOUS
  <2>4. u \in [0..m + 1 -> S]
    BY <2>1, <2>2, <2>3
  <2>5. ASSUME NEW k \in 0..m + 1
        PROVE  u[k] = IF k = 0 THEN s ELSE f[k][u[k - 1]]
    <3>1. CASE k = m + 1
      <4>1. k # 0 /\ k - 1 = m /\ m \in 0..m + 1 /\ m # m + 1
        BY <3>1
      <4>2. u[k - 1] = t[m]
        BY <4>1
      <4> QED
        BY <3>1, <4>1, <4>2
    <3>2. CASE k # m + 1
      <4>1. k \in 0..m /\ (k # 0 => k - 1 \in 0..m + 1 /\ k - 1 # m + 1)
        BY <3>2
      <4>2. t[k] = IF k = 0 THEN s ELSE f[k][t[k - 1]]
        BY <2>1, <4>1
      <4>3. u[k] = t[k] /\ (k # 0 => u[k - 1] = t[k - 1])
        BY <3>2, <4>1
      <4> QED
        BY <4>2, <4>3
    <3> QED
      BY <3>1, <3>2
  <2>6. Runs(u, m + 1)
    <3> HIDE DEF u
    <3> DEFINE w == [k \in 0..m + 1 |-> IF k = 0 THEN s ELSE f[k][u[k - 1]]]
    <3>1. \A k \in 0..m + 1 : u[k] = w[k]
      BY <2>5
    <3>2. u = w
      BY <2>4, <3>1
    <3> QED
      BY <2>4, <3>2
  <2>7. m + 1 \in 0..n
    OBVIOUS
  <2> HIDE DEF Runs, u
  <2> QED
    BY <2>6, <2>7
<1>3. n \in T
  <2>1. n \in 0..n
    OBVIOUS
  <2> HIDE DEF T
  <2> QED
    BY <1>1, <1>2, <2>1, EachTurn
<1>4. PICK t : Runs(t, n)
  BY <1>3
<1>5. t[0] = s /\ \A k \in 1..n : t[k] = f[k][t[k - 1]]
  <2>1. 0 \in 0..n /\ \A k \in 1..n : k \in 0..n /\ k # 0
    OBVIOUS
  <2> QED
    BY <1>4, <2>1
<1> QED
  BY <1>4, <1>5 DEF LoopRuns

\* Parents and children.
LEMMA Family ==
  ASSUME NEW j \in Nat, j > 0
  PROVE  /\ ParentIndex(j) \in Nat /\ ParentIndex(j) < j
         /\ j = 2 * ParentIndex(j) + 1 \/ j = 2 * ParentIndex(j) + 2
BY DEF ParentIndex

LEMMA Children ==
  ASSUME NEW p \in Nat
  PROVE  ParentIndex(2 * p + 1) = p /\ ParentIndex(2 * p + 2) = p
BY DEF ParentIndex

\* The comparator.
LEMMA Weak ==
  ASSUME NEW x \in VectorItems, NEW y \in VectorItems, NEW z \in VectorItems
  PROVE  /\ m_pfComp(x, y) => ~m_pfComp(y, x)
         /\ ~m_pfComp(x, x)
         /\ m_pfComp(x, z) => m_pfComp(x, y) \/ m_pfComp(y, z)
         /\ m_pfComp(x, y) /\ m_pfComp(y, z) => m_pfComp(x, z)
BY GenHeapAssumption

\* Arrays with c slots, of which the first n hold items.
Arrays(c) == [0..c - 1 -> VectorItems \cup {Unset}]
Filled(d, n) == \A k \in 0..n - 1 : d[k] \in VectorItems
HeapArrays(c, n) == {d \in Arrays(c) : Filled(d, n)}

\* How often an item is among the first n.
Count(d, n, x) == Cardinality({k \in 0..n - 1 : d[k] = x})
SameItems(d, e, n) == \A x \in VectorItems : Count(d, n, x) = Count(e, n, x)

LEMMA Swap ==
  ASSUME NEW c \in Nat, NEW n \in Nat, n <= c, NEW d \in HeapArrays(c, n),
         NEW i \in 0..n - 1, NEW j \in 0..n - 1
  PROVE  /\ Swapped(d, i, j) \in HeapArrays(c, n)
         /\ \A k \in 0..n - 1 :
              Swapped(d, i, j)[k] = IF k = i THEN d[j] ELSE IF k = j THEN d[i] ELSE d[k]
         /\ SameItems(d, Swapped(d, i, j), n)
<1> DEFINE e == Swapped(d, i, j)
<1>1. d \in Arrays(c) /\ Filled(d, n)
  BY DEF HeapArrays
<1>2. \A k \in 0..n - 1 : k \in 0..c - 1
  OBVIOUS
<1>3. d[i] \in VectorItems /\ d[j] \in VectorItems
  BY <1>1 DEF Filled
<1>4. e \in Arrays(c)
  BY <1>1, <1>2, <1>3 DEF Swapped, Arrays
<1>5. \A k \in 0..n - 1 : e[k] = IF k = i THEN d[j] ELSE IF k = j THEN d[i] ELSE d[k]
  BY <1>1, <1>2 DEF Swapped, Arrays
<1>6. Filled(e, n)
  BY <1>1, <1>3, <1>5 DEF Filled
<1> HIDE DEF e
<1>7. ASSUME NEW x \in VectorItems
      PROVE  Count(d, n, x) = Count(e, n, x)
  <2> DEFINE A == {k \in 0..n - 1 : d[k] = x}
             B == {k \in 0..n - 1 : e[k] = x}
             f == [k \in A |-> IF k = i THEN j ELSE IF k = j THEN i ELSE k]
  <2>1. f \in [A -> B]
    BY <1>5
  <2>2. \A k, l \in A : f[k] = f[l] => k = l
    OBVIOUS
  <2>3. \A m \in B : \E k \in A : f[k] = m
    <3> SUFFICES ASSUME NEW m \in B
                 PROVE  \E k \in A : f[k] = m
      OBVIOUS
    <3> DEFINE k == IF m = i THEN j ELSE IF m = j THEN i ELSE m
    <3>1. k \in A /\ f[k] = m
      BY <1>5
    <3> QED
      BY <3>1
  <2>4. IsFiniteSet(A)
    <3>1. IsFiniteSet(0..n - 1)
      BY FS_Interval
    <3> QED
      BY <3>1, FS_Subset
  <2>5. f \in Bijection(A, B)
    <3> HIDE DEF f, A, B
    <3> QED
      BY <2>1, <2>2, <2>3 DEF Bijection, Injection, Surjection, IsInjective
  <2> HIDE DEF f, A, B
  <2>6. Cardinality(A) = Cardinality(B)
    BY <2>4, <2>5, FS_Bijection DEF ExistsBijection
  <2> QED
    BY <2>6 DEF A, B, Count
<1> QED
  BY <1>4, <1>5, <1>6, <1>7 DEF e, HeapArrays, SameItems

\* The heap's order from index "from" on, but not between a hole and its
\* children; these are at their place under the hole's parent.
Heaped(d, n, from, hole) ==
  \A j \in 1..n - 1 :
    ParentIndex(j) >= from /\ ParentIndex(j) # hole
      => ~m_pfComp(d[j], d[ParentIndex(j)])

\* The same, for a hole that is not at its place under its parent.
Rising(d, n, hole) ==
  \A j \in 1..n - 1 : j # hole => ~m_pfComp(d[j], d[ParentIndex(j)])

Bridged(d, n, from, hole) ==
  hole > 0 /\ ParentIndex(hole) >= from =>
    \A j \in 1..n - 1 :
      ParentIndex(j) = hole => ~m_pfComp(d[j], d[ParentIndex(hole)])

InOrder(d, n, from) ==
  \A j \in 1..n - 1 :
    ParentIndex(j) >= from => ~m_pfComp(d[j], d[ParentIndex(j)])

\* A turn of HeapifyUp that swaps.
LEMMA RisesOne ==
  ASSUME NEW c \in Nat, NEW n \in Nat, n <= c, NEW d \in HeapArrays(c, n),
         NEW i \in 1..n - 1, Rising(d, n, i), Bridged(d, n, 0, i),
         m_pfComp(d[i], d[ParentIndex(i)]),
         NEW e, e = Swapped(d, i, ParentIndex(i))
  PROVE  Rising(e, n, ParentIndex(i)) /\ Bridged(e, n, 0, ParentIndex(i))
<1> DEFINE p == ParentIndex(i)
<1>1. \A j \in 1..n - 1 : ParentIndex(j) \in 0..n - 1 /\ ParentIndex(j) < j
  <2> SUFFICES ASSUME NEW j \in 1..n - 1
               PROVE  ParentIndex(j) \in 0..n - 1 /\ ParentIndex(j) < j
    OBVIOUS
  <2>1. j \in Nat /\ j > 0
    OBVIOUS
  <2>2. ParentIndex(j) \in Nat /\ ParentIndex(j) < j
    BY <2>1, Family
  <2> QED
    BY <2>2
<1>2. \A k \in 0..n - 1 : d[k] \in VectorItems
  BY DEF HeapArrays, Filled
<1>3. i \in 0..n - 1 /\ p \in 0..n - 1 /\ p # i
  BY <1>1
<1>4. \A k \in 0..n - 1 : e[k] = IF k = i THEN d[p] ELSE IF k = p THEN d[i] ELSE d[k]
  <2> HIDE DEF p
  <2>1. e = Swapped(d, i, p)
    BY DEF p
  <2>2. \A k \in 0..n - 1 :
          Swapped(d, i, p)[k] = IF k = i THEN d[p] ELSE IF k = p THEN d[i] ELSE d[k]
    BY <1>3, Swap
  <2> QED
    BY <2>1, <2>2
<1>5. ASSUME NEW j \in 1..n - 1, j # p
      PROVE  ~m_pfComp(e[j], e[ParentIndex(j)])
  <2>1. j \in 0..n - 1 /\ ParentIndex(j) \in 0..n - 1 /\ ParentIndex(j) # j
    BY <1>1
  <2>2. CASE j = i
    <3>1. e[j] = d[p] /\ e[ParentIndex(j)] = d[i]
      BY <1>3, <1>4, <2>2
    <3> QED
      BY <1>2, <1>3, <3>1, Weak
  <2>3. CASE j # i /\ ParentIndex(j) = p
    <3>1. e[j] = d[j] /\ e[ParentIndex(j)] = d[i]
      BY <1>3, <1>4, <1>5, <2>1, <2>3
    <3>2. ~m_pfComp(d[j], d[p])
      BY <2>3 DEF Rising
    <3>3. d[j] \in VectorItems /\ d[i] \in VectorItems /\ d[p] \in VectorItems
      BY <1>2, <1>3, <2>1
    <3> QED
      BY <3>1, <3>2, <3>3, Weak
  <2>4. CASE j # i /\ ParentIndex(j) = i
    <3>1. e[j] = d[j] /\ e[ParentIndex(j)] = d[p]
      BY <1>3, <1>4, <1>5, <2>1, <2>4
    <3>2. i > 0 /\ ParentIndex(i) >= 0
      BY <1>1
    <3> QED
      BY <2>4, <3>1, <3>2 DEF Bridged
  <2>5. CASE j # i /\ ParentIndex(j) # p /\ ParentIndex(j) # i
    <3>1. e[j] = d[j] /\ e[ParentIndex(j)] = d[ParentIndex(j)]
      BY <1>4, <1>5, <2>1, <2>5
    <3> QED
      BY <2>5, <3>1 DEF Rising
  <2> QED
    BY <2>2, <2>3, <2>4, <2>5
<1>6. ASSUME p > 0, NEW j \in 1..n - 1, ParentIndex(j) = p
      PROVE  ~m_pfComp(e[j], e[ParentIndex(p)])
  <2> DEFINE q == ParentIndex(p)
  <2>1. p \in 1..n - 1
    BY <1>3, <1>6
  <2>2. j \in 0..n - 1 /\ j # p /\ q \in 0..n - 1 /\ q # p /\ q # i
    BY <1>1, <1>6, <2>1
  <2>3. e[q] = d[q] /\ ~m_pfComp(d[p], d[q])
    BY <1>3, <1>4, <2>1, <2>2 DEF Rising
  <2>4. d[j] \in VectorItems /\ d[q] \in VectorItems /\ d[p] \in VectorItems
    BY <1>2, <1>3, <2>2
  <2>5. CASE j = i
    <3>1. e[j] = d[p]
      BY <1>4, <2>2, <2>5
    <3> QED
      BY <2>3, <3>1
  <2>6. CASE j # i
    <3>1. e[j] = d[j] /\ ~m_pfComp(d[j], d[p])
      BY <1>4, <1>6, <2>2, <2>6 DEF Rising
    <3> QED
      BY <2>3, <2>4, <3>1, Weak
  <2> QED
    BY <2>5, <2>6
<1> QED
  BY <1>5, <1>6 DEF Rising, Bridged


\* A turn of HeapifyDown that swaps, in a heap from index "from" on.
LEMMA Families ==
  ASSUME NEW n \in Nat
  PROVE  \A j \in 1..n - 1 : ParentIndex(j) \in 0..n - 1 /\ ParentIndex(j) < j
<1> SUFFICES ASSUME NEW j \in 1..n - 1
             PROVE  ParentIndex(j) \in 0..n - 1 /\ ParentIndex(j) < j
  OBVIOUS
<1>1. j \in Nat /\ j > 0
  OBVIOUS
<1>2. ParentIndex(j) \in Nat /\ ParentIndex(j) < j
  BY <1>1, Family
<1> QED
  BY <1>2

LEMMA BestOfChildren ==
  ASSUME NEW c \in Nat, NEW n \in Nat, n <= c, NEW d \in HeapArrays(c, n),
         NEW i \in 0..n - 1, 2 * i + 1 < n
  PROVE  /\ BestChild(d, n, i) \in 1..n - 1 /\ BestChild(d, n, i) > i
         /\ ParentIndex(BestChild(d, n, i)) = i
         /\ \A j \in 1..n - 1 : ParentIndex(j) = i =>
              ~m_pfComp(d[j], d[BestChild(d, n, i)])
<1> DEFINE b == BestChild(d, n, i)
<1>1. \A k \in 0..n - 1 : d[k] \in VectorItems
  BY DEF HeapArrays, Filled
<1>2. b = 2 * i + 1 \/ (b = 2 * i + 2 /\ 2 * i + 2 < n)
  BY DEF BestChild
<1>3. i \in Nat
  OBVIOUS
<1>4. ParentIndex(2 * i + 1) = i /\ ParentIndex(2 * i + 2) = i
  BY <1>3, Children
<1>5. b \in 1..n - 1 /\ b > i /\ ParentIndex(b) = i
  <2> HIDE DEF b
  <2> QED
    BY <1>2, <1>3, <1>4
<1>6. ASSUME NEW j \in 1..n - 1, ParentIndex(j) = i
      PROVE  ~m_pfComp(d[j], d[b])
  <2>1. j = 2 * i + 1 \/ j = 2 * i + 2
    <3>1. j \in Nat /\ j > 0
      OBVIOUS
    <3> QED
      BY <1>6, <3>1, Family
  <2>2. j \in 0..n - 1 /\ b \in 0..n - 1
    <3> HIDE DEF b
    <3> QED
      BY <1>5
  <2>3. d[j] \in VectorItems /\ d[b] \in VectorItems
    BY <1>1, <2>2
  <2>4. CASE 2 * i + 2 < n /\ m_pfComp(d[2 * i + 2], d[2 * i + 1])
    <3>1. b = 2 * i + 2
      BY <2>4 DEF BestChild
    <3> HIDE DEF b
    <3> QED
      BY <2>1, <2>3, <2>4, <3>1, Weak
  <2>5. CASE ~(2 * i + 2 < n /\ m_pfComp(d[2 * i + 2], d[2 * i + 1]))
    <3>1. b = 2 * i + 1
      BY <2>5 DEF BestChild
    <3>2. j = 2 * i + 2 => 2 * i + 2 < n
      OBVIOUS
    <3> HIDE DEF b
    <3> QED
      BY <2>1, <2>3, <2>5, <3>1, <3>2, Weak
  <2> QED
    BY <2>4, <2>5
<1> QED
  BY <1>5, <1>6

LEMMA SinksOne ==
  ASSUME NEW c \in Nat, NEW n \in Nat, n <= c, NEW d \in HeapArrays(c, n),
         NEW i \in 0..n - 1, 2 * i + 1 < n, NEW from \in 0..i,
         Heaped(d, n, from, i), Bridged(d, n, from, i),
         NEW b, b = BestChild(d, n, i), m_pfComp(d[b], d[i]),
         NEW e, e = Swapped(d, i, b)
  PROVE  Heaped(e, n, from, b) /\ Bridged(e, n, from, b)
<1>1. \A j \in 1..n - 1 : ParentIndex(j) \in 0..n - 1 /\ ParentIndex(j) < j
  BY Families
<1>2. \A k \in 0..n - 1 : d[k] \in VectorItems
  BY DEF HeapArrays, Filled
<1>3. /\ b \in 1..n - 1 /\ b > i /\ ParentIndex(b) = i
      /\ \A j \in 1..n - 1 : ParentIndex(j) = i => ~m_pfComp(d[j], d[b])
  BY BestOfChildren
<1>4. b \in 0..n - 1 /\ b # i
  BY <1>3
<1>5. \A k \in 0..n - 1 : e[k] = IF k = i THEN d[b] ELSE IF k = b THEN d[i] ELSE d[k]
  <2>1. \A k \in 0..n - 1 :
          Swapped(d, i, b)[k] = IF k = i THEN d[b] ELSE IF k = b THEN d[i] ELSE d[k]
    BY <1>4, Swap
  <2> QED
    BY <2>1
<1>6. ASSUME NEW j \in 1..n - 1, ParentIndex(j) >= from, ParentIndex(j) # b
      PROVE  ~m_pfComp(e[j], e[ParentIndex(j)])
  <2>1. j \in 0..n - 1 /\ ParentIndex(j) \in 0..n - 1 /\ ParentIndex(j) # j
    BY <1>1
  <2>2. CASE j = b
    <3>1. e[j] = d[i] /\ e[ParentIndex(j)] = d[b]
      BY <1>3, <1>4, <1>5, <2>2
    <3>2. d[i] \in VectorItems /\ d[b] \in VectorItems
      BY <1>2, <1>4
    <3> QED
      BY <3>1, <3>2, Weak
  <2>3. CASE j # b /\ ParentIndex(j) = i
    <3>1. e[j] = d[j] /\ e[ParentIndex(j)] = d[b]
      BY <1>5, <2>1, <2>3
    <3> QED
      BY <1>3, <2>3, <3>1
  <2>4. CASE j = i
    <3>1. e[j] = d[b] /\ e[ParentIndex(j)] = d[ParentIndex(i)]
      BY <1>5, <1>6, <2>1, <2>4
    <3>2. i > 0 /\ ParentIndex(i) >= from
      BY <1>6, <2>4
    <3> QED
      BY <1>3, <3>1, <3>2 DEF Bridged
  <2>5. CASE j # b /\ j # i /\ ParentIndex(j) # i
    <3>1. e[j] = d[j] /\ e[ParentIndex(j)] = d[ParentIndex(j)]
      BY <1>5, <1>6, <2>1, <2>5
    <3> QED
      BY <1>6, <2>5, <3>1 DEF Heaped
  <2> QED
    BY <2>2, <2>3, <2>4, <2>5
<1>7. ASSUME NEW j \in 1..n - 1, ParentIndex(j) = b
      PROVE  ~m_pfComp(e[j], e[ParentIndex(b)])
  <2>1. j \in 0..n - 1 /\ j # b /\ j # i
    BY <1>1, <1>3, <1>7
  <2>2. e[j] = d[j] /\ e[ParentIndex(b)] = d[b]
    BY <1>3, <1>5, <2>1
  <2>3. b >= from /\ b # i
    BY <1>3
  <2> QED
    BY <1>7, <2>2, <2>3 DEF Heaped
<1> QED
  BY <1>6, <1>7 DEF Heaped, Bridged

\* Where HeapifyDown stops, the children are at their place.
LEMMA SinkEnds ==
  ASSUME NEW c \in Nat, NEW n \in Nat, n <= c, NEW d \in HeapArrays(c, n),
         NEW i \in 0..n - 1, NEW from \in 0..i, Heaped(d, n, from, i),
         ~(2 * i + 1 < n /\ m_pfComp(d[BestChild(d, n, i)], d[i]))
  PROVE  InOrder(d, n, from)
<1> SUFFICES ASSUME NEW j \in 1..n - 1, ParentIndex(j) >= from
             PROVE  ~m_pfComp(d[j], d[ParentIndex(j)])
  BY DEF InOrder
<1>1. CASE ParentIndex(j) # i
  BY <1>1 DEF Heaped
<1>2. CASE ParentIndex(j) = i
  <2>1. j = 2 * i + 1 \/ j = 2 * i + 2
    <3>1. j \in Nat /\ j > 0
      OBVIOUS
    <3> QED
      BY <1>2, <3>1, Family
  <2>2. 2 * i + 1 < n
    BY <2>1
  <2> DEFINE b == BestChild(d, n, i)
  <2>3. b \in 1..n - 1 /\ ~m_pfComp(d[j], d[b])
    BY <1>2, <2>2, BestOfChildren
  <2>4. ~m_pfComp(d[b], d[i])
    BY <2>2
  <2> HIDE DEF b
  <2>5. d[j] \in VectorItems /\ d[b] \in VectorItems /\ d[i] \in VectorItems
    <3>1. j \in 0..n - 1 /\ b \in 0..n - 1
      BY <2>3
    <3> QED
      BY <3>1 DEF HeapArrays, Filled
  <2> QED
    BY <1>2, <2>3, <2>4, <2>5, Weak
<1> QED
  BY <1>1, <1>2


\* The states of the loops.
LoopStates(c, n) == {At(d, i) : d \in HeapArrays(c, n), i \in 0..n - 1}

LEMMA LoopState ==
  ASSUME NEW c, NEW n, NEW st \in LoopStates(c, n)
  PROVE  /\ st = At(st.data, st.index)
         /\ st.data \in HeapArrays(c, n) /\ st.index \in 0..n - 1
<1>1. PICK d \in HeapArrays(c, n), i \in 0..n - 1 : st = At(d, i)
  BY DEF LoopStates
<1>2. st.data = d /\ st.index = i
  BY <1>1 DEF At
<1> QED
  BY <1>1, <1>2

LEMMA UpTurnStays ==
  ASSUME NEW c \in Nat, NEW n \in Nat, n <= c, NEW st \in LoopStates(c, n)
  PROVE  UpTurn(st) \in LoopStates(c, n)
<1> DEFINE d == st.data
           i == st.index
           p == ParentIndex(i)
<1>1. d \in HeapArrays(c, n) /\ i \in 0..n - 1
  BY LoopState
<1>2. CASE i > 0 /\ m_pfComp(d[i], d[p])
  <2>1. p \in 0..n - 1
    <3>1. i \in 1..n - 1
      BY <1>1, <1>2
    <3> HIDE DEF i
    <3> QED
      BY <3>1, Families
  <2>2. UpTurn(st) = At(Swapped(d, i, p), p)
    BY <1>2 DEF UpTurn
  <2> HIDE DEF d, i, p
  <2>3. Swapped(d, i, p) \in HeapArrays(c, n)
    BY <1>1, <2>1, Swap
  <2> QED
    BY <2>1, <2>2, <2>3 DEF LoopStates
<1>3. CASE ~(i > 0 /\ m_pfComp(d[i], d[p]))
  BY <1>3 DEF UpTurn
<1> QED
  BY <1>2, <1>3

LEMMA DownTurnStays ==
  ASSUME NEW c \in Nat, NEW n \in Nat, n <= c, NEW st \in LoopStates(c, n)
  PROVE  DownTurn(st, n) \in LoopStates(c, n)
<1> DEFINE d == st.data
           i == st.index
           b == BestChild(d, n, i)
<1>1. d \in HeapArrays(c, n) /\ i \in 0..n - 1
  BY LoopState
<1>2. CASE 2 * i + 1 < n /\ m_pfComp(d[b], d[i])
  <2>1. DownTurn(st, n) = At(Swapped(d, i, b), b)
    BY <1>2 DEF DownTurn
  <2>2. 2 * i + 1 < n
    BY <1>2
  <2> HIDE DEF d, i
  <2>3. b \in 1..n - 1
    BY <1>1, <2>2, BestOfChildren
  <2> HIDE DEF b
  <2>4. b \in 0..n - 1
    BY <2>3
  <2>5. Swapped(d, i, b) \in HeapArrays(c, n)
    BY <1>1, <2>4, Swap
  <2> QED
    BY <2>1, <2>4, <2>5 DEF LoopStates
<1>3. CASE ~(2 * i + 1 < n /\ m_pfComp(d[b], d[i]))
  BY <1>3 DEF DownTurn
<1> QED
  BY <1>2, <1>3

\* The loops, turn by turn.
LEMMA UpLoop ==
  ASSUME NEW c \in Nat, NEW n \in Nat, n <= c, NEW d \in HeapArrays(c, n), NEW i \in 0..n - 1
  PROVE  \E t : /\ HeapifyUp(d, i) = t[i].data
                /\ t[0] = At(d, i)
                /\ \A k \in 0..i : t[k] \in LoopStates(c, n)
                /\ \A k \in 0..i - 1 : t[k + 1] = UpTurn(t[k])
<1> DEFINE S == LoopStates(c, n)
           s == At(d, i)
           f == [k \in 1..i |-> [st \in S |-> UpTurn(st)]]
           loop == CHOOSE t : t = [k \in 0..i |-> IF k = 0 THEN At(d, i) ELSE UpTurn(t[k - 1])]
<1>1. s \in S
  BY DEF LoopStates
<1>2. Stepwise(f, i, S)
  <2>1. \A st \in S : UpTurn(st) \in S
    BY UpTurnStays
  <2> HIDE DEF S
  <2> QED
    BY <2>1 DEF Stepwise
<1>3. \E t : LoopRuns(t, f, i, S, s)
  <2>1. i \in Nat
    OBVIOUS
  <2> HIDE DEF S, s, f
  <2> QED
    BY <1>1, <1>2, <2>1, LoopExists
<1>4. \E t : t = [k \in 0..i |-> IF k = 0 THEN At(d, i) ELSE UpTurn(t[k - 1])]
  <2> PICK t : LoopRuns(t, f, i, S, s)
    BY <1>3
  <2>1. t \in [0..i -> S] /\ t[0] = s /\ \A k \in 1..i : t[k] = f[k][t[k - 1]]
    BY DEF LoopRuns
  <2>2. \A k \in 1..i : f[k][t[k - 1]] = UpTurn(t[k - 1])
    <3> SUFFICES ASSUME NEW k \in 1..i
                 PROVE  f[k][t[k - 1]] = UpTurn(t[k - 1])
      OBVIOUS
    <3>1. t[k - 1] \in S
      BY <2>1
    <3> HIDE DEF S
    <3> QED
      BY <3>1
  <2>3. \A k \in 0..i : k # 0 => k \in 1..i
    OBVIOUS
  <2>4. t = [k \in 0..i |-> t[k]]
    BY <2>1
  <2> HIDE DEF f, S
  <2>5. t = [k \in 0..i |-> IF k = 0 THEN At(d, i) ELSE UpTurn(t[k - 1])]
    BY <2>1, <2>2, <2>3, <2>4
  <2> QED
    BY <2>5
<1>5. HeapifyUp(d, i) = loop[i].data
  BY DEF HeapifyUp
<1>6. loop = [k \in 0..i |-> IF k = 0 THEN At(d, i) ELSE UpTurn(loop[k - 1])]
  BY <1>4
<1> HIDE DEF loop
<1>7. loop[0] = At(d, i)
  <2>1. 0 \in 0..i
    OBVIOUS
  <2> QED
    BY <1>6, <2>1
<1>8. \A k \in 0..i - 1 : loop[k + 1] = UpTurn(loop[k])
  <2> SUFFICES ASSUME NEW k \in 0..i - 1
               PROVE  loop[k + 1] = UpTurn(loop[k])
    OBVIOUS
  <2>1. k + 1 \in 0..i /\ k + 1 # 0 /\ (k + 1) - 1 = k
    OBVIOUS
  <2> QED
    BY <1>6, <2>1
<1>9. \A k \in 0..i : loop[k] \in S
  <2> DEFINE T == {k \in 0..i : loop[k] \in S}
  <2>1. 0 \in T
    BY <1>1, <1>7
  <2>2. ASSUME NEW k \in 0..i - 1, k \in T
        PROVE  k + 1 \in T
    <3>1. k + 1 \in 0..i
      OBVIOUS
    <3>2. UpTurn(loop[k]) \in S
      BY <2>2, UpTurnStays
    <3> HIDE DEF S
    <3> QED
      BY <1>8, <3>1, <3>2
  <2>3. i \in Nat
    OBVIOUS
  <2>4. \A k \in 0..i : k \in T
    <3> HIDE DEF T
    <3> QED
      BY <2>1, <2>2, <2>3, EachTurn
  <2> QED
    BY <2>4
<1> QED
  BY <1>5, <1>7, <1>8, <1>9

LEMMA DownLoop ==
  ASSUME NEW c \in Nat, NEW n \in Nat, n <= c, NEW d \in HeapArrays(c, n), NEW i \in 0..n - 1
  PROVE  \E t : /\ HeapifyDown(d, n, i) = t[n].data
                /\ t[0] = At(d, i)
                /\ \A k \in 0..n : t[k] \in LoopStates(c, n)
                /\ \A k \in 0..n - 1 : t[k + 1] = DownTurn(t[k], n)
<1> DEFINE S == LoopStates(c, n)
           s == At(d, i)
           f == [k \in 1..n |-> [st \in S |-> DownTurn(st, n)]]
           loop == CHOOSE t :
                     t = [k \in 0..n |-> IF k = 0 THEN At(d, i) ELSE DownTurn(t[k - 1], n)]
<1>1. s \in S
  BY DEF LoopStates
<1>2. Stepwise(f, n, S)
  <2>1. \A st \in S : DownTurn(st, n) \in S
    BY DownTurnStays
  <2> HIDE DEF S
  <2> QED
    BY <2>1 DEF Stepwise
<1>3. \E t : LoopRuns(t, f, n, S, s)
  <2>1. n \in Nat
    OBVIOUS
  <2> HIDE DEF S, s, f
  <2> QED
    BY <1>1, <1>2, <2>1, LoopExists
<1>4. \E t : t = [k \in 0..n |-> IF k = 0 THEN At(d, i) ELSE DownTurn(t[k - 1], n)]
  <2> PICK t : LoopRuns(t, f, n, S, s)
    BY <1>3
  <2>1. t \in [0..n -> S] /\ t[0] = s /\ \A k \in 1..n : t[k] = f[k][t[k - 1]]
    BY DEF LoopRuns
  <2>2. \A k \in 1..n : f[k][t[k - 1]] = DownTurn(t[k - 1], n)
    <3> SUFFICES ASSUME NEW k \in 1..n
                 PROVE  f[k][t[k - 1]] = DownTurn(t[k - 1], n)
      OBVIOUS
    <3>1. t[k - 1] \in S
      BY <2>1
    <3> HIDE DEF S
    <3> QED
      BY <3>1
  <2>3. \A k \in 0..n : k # 0 => k \in 1..n
    OBVIOUS
  <2>4. t = [k \in 0..n |-> t[k]]
    BY <2>1
  <2> HIDE DEF f, S
  <2>5. t = [k \in 0..n |-> IF k = 0 THEN At(d, i) ELSE DownTurn(t[k - 1], n)]
    BY <2>1, <2>2, <2>3, <2>4
  <2> QED
    BY <2>5
<1>5. HeapifyDown(d, n, i) = loop[n].data
  BY DEF HeapifyDown
<1>6. loop = [k \in 0..n |-> IF k = 0 THEN At(d, i) ELSE DownTurn(loop[k - 1], n)]
  BY <1>4
<1> HIDE DEF loop
<1>7. loop[0] = At(d, i)
  <2>1. 0 \in 0..n
    OBVIOUS
  <2> QED
    BY <1>6, <2>1
<1>8. \A k \in 0..n - 1 : loop[k + 1] = DownTurn(loop[k], n)
  <2> SUFFICES ASSUME NEW k \in 0..n - 1
               PROVE  loop[k + 1] = DownTurn(loop[k], n)
    OBVIOUS
  <2>1. k + 1 \in 0..n /\ k + 1 # 0 /\ (k + 1) - 1 = k
    OBVIOUS
  <2> QED
    BY <1>6, <2>1
<1>9. \A k \in 0..n : loop[k] \in S
  <2> DEFINE T == {k \in 0..n : loop[k] \in S}
  <2>1. 0 \in T
    BY <1>1, <1>7
  <2>2. ASSUME NEW k \in 0..n - 1, k \in T
        PROVE  k + 1 \in T
    <3>1. k + 1 \in 0..n
      OBVIOUS
    <3>2. DownTurn(loop[k], n) \in S
      BY <2>2, DownTurnStays
    <3> HIDE DEF S
    <3> QED
      BY <1>8, <3>1, <3>2
  <2>3. \A k \in 0..n : k \in T
    <3> HIDE DEF T
    <3> QED
      BY <2>1, <2>2, EachTurn
  <2> QED
    BY <2>3
<1> QED
  BY <1>5, <1>7, <1>8, <1>9


\* What HeapifyUp leaves: an item that is at most not at its place under its
\* parent finds it.
UpOK(d, c, n, st) ==
  /\ Rising(st.data, n, st.index) /\ Bridged(st.data, n, 0, st.index)
  /\ SameItems(d, st.data, n)

UpDone(st) ==
  ~(st.index > 0 /\ m_pfComp(st.data[st.index], st.data[ParentIndex(st.index)]))

LEMMA HeapifiedUp ==
  ASSUME NEW c \in Nat, NEW n \in Nat, n <= c, NEW d \in HeapArrays(c, n), NEW i \in 0..n - 1,
         Rising(d, n, i), Bridged(d, n, 0, i)
  PROVE  /\ HeapifyUp(d, i) \in HeapArrays(c, n)
         /\ InOrder(HeapifyUp(d, i), n, 0)
         /\ SameItems(d, HeapifyUp(d, i), n)
<1>1. PICK t : /\ HeapifyUp(d, i) = t[i].data
               /\ t[0] = At(d, i)
               /\ \A k \in 0..i : t[k] \in LoopStates(c, n)
               /\ \A k \in 0..i - 1 : t[k + 1] = UpTurn(t[k])
  BY UpLoop
<1> DEFINE Good(k) == UpOK(d, c, n, t[k]) /\ (t[k].index <= i - k \/ UpDone(t[k]))
           T == {k \in 0..i : Good(k)}
<1>2. 0 \in T
  <2>1. t[0].data = d /\ t[0].index = i
    BY <1>1 DEF At
  <2>2. UpOK(d, c, n, t[0])
    BY <2>1 DEF UpOK, SameItems
  <2> QED
    BY <2>1, <2>2
<1>3. ASSUME NEW k \in 0..i - 1, k \in T
      PROVE  k + 1 \in T
  <2> DEFINE st == t[k]
             a == st.data
             h == st.index
             p == ParentIndex(h)
             e == Swapped(a, h, p)
  <2>1. k \in 0..i /\ k + 1 \in 0..i
    OBVIOUS
  <2>2. a \in HeapArrays(c, n) /\ h \in 0..n - 1
    BY <1>1, <2>1, LoopState
  <2>3. UpOK(d, c, n, st) /\ (h <= i - k \/ UpDone(st))
    BY <1>3
  <2>4. CASE UpDone(st)
    <3>1. t[k + 1] = st
      BY <1>1, <2>4 DEF UpTurn, UpDone
    <3> QED
      BY <2>1, <2>3, <2>4, <3>1
  <2>5. CASE ~UpDone(st)
    <3>1. h > 0 /\ m_pfComp(a[h], a[p]) /\ h <= i - k
      BY <2>3, <2>5 DEF UpDone
    <3>2. t[k + 1] = At(e, p)
      BY <1>1, <3>1 DEF UpTurn
    <3>3. t[k + 1].data = e /\ t[k + 1].index = p
      BY <3>2 DEF At
    <3>4. Rising(a, n, h) /\ Bridged(a, n, 0, h) /\ SameItems(d, a, n)
      BY <2>3 DEF UpOK
    <3>5. e = Swapped(a, h, p) /\ p = ParentIndex(h)
      OBVIOUS
    <3> HIDE DEF st, a, h, p, e
    <3>6. h \in 1..n - 1
      BY <2>2, <3>1
    <3>7. p \in 0..n - 1 /\ p < h
      BY <3>5, <3>6, Families
    <3>8. Rising(e, n, p) /\ Bridged(e, n, 0, p)
      BY <2>2, <3>1, <3>4, <3>5, <3>6, RisesOne
    <3>9. SameItems(a, e, n)
      BY <2>2, <3>5, <3>7, Swap
    <3>10. SameItems(d, e, n)
      BY <3>4, <3>9 DEF SameItems
    <3>11. p <= i - (k + 1)
      BY <2>2, <3>1, <3>7
    <3>12. Good(k + 1)
      BY <3>3, <3>8, <3>10, <3>11 DEF UpOK
    <3> QED
      BY <2>1, <3>12
  <2> QED
    BY <2>4, <2>5
<1>4. i \in T
  <2>1. i \in Nat /\ i \in 0..i
    OBVIOUS
  <2> HIDE DEF T
  <2> QED
    BY <1>2, <1>3, <2>1, EachTurn
<1> DEFINE a == t[i].data
           h == t[i].index
<1>5. a \in HeapArrays(c, n) /\ h \in 0..n - 1
  <2>1. i \in 0..i
    OBVIOUS
  <2> QED
    BY <1>1, <2>1, LoopState
<1>6. UpOK(d, c, n, t[i]) /\ (h <= 0 \/ UpDone(t[i]))
  BY <1>4
<1>7. UpDone(t[i])
  BY <1>5, <1>6 DEF UpDone
<1>8. InOrder(a, n, 0)
  <2> SUFFICES ASSUME NEW j \in 1..n - 1
               PROVE  ~m_pfComp(a[j], a[ParentIndex(j)])
    BY DEF InOrder
  <2>1. CASE j = h
    BY <1>7, <2>1 DEF UpDone
  <2>2. CASE j # h
    BY <1>6, <2>2 DEF UpOK, Rising
  <2> QED
    BY <2>1, <2>2
<1> QED
  BY <1>1, <1>5, <1>6, <1>8 DEF UpOK

\* What HeapifyDown leaves: the heap's order, where it lacked only between
\* the index and its children.
DownOK(d, n, from, st) ==
  /\ st.index >= from
  /\ Heaped(st.data, n, from, st.index) /\ Bridged(st.data, n, from, st.index)
  /\ SameItems(d, st.data, n)

DownDone(st, n) ==
  ~(/\ 2 * st.index + 1 < n
    /\ m_pfComp(st.data[BestChild(st.data, n, st.index)], st.data[st.index]))

LEMMA HeapifiedDown ==
  ASSUME NEW c \in Nat, NEW n \in Nat, n <= c, NEW d \in HeapArrays(c, n),
         NEW from \in 0..n - 1, Heaped(d, n, from, from)
  PROVE  /\ HeapifyDown(d, n, from) \in HeapArrays(c, n)
         /\ InOrder(HeapifyDown(d, n, from), n, from)
         /\ SameItems(d, HeapifyDown(d, n, from), n)
<1>1. PICK t : /\ HeapifyDown(d, n, from) = t[n].data
               /\ t[0] = At(d, from)
               /\ \A k \in 0..n : t[k] \in LoopStates(c, n)
               /\ \A k \in 0..n - 1 : t[k + 1] = DownTurn(t[k], n)
  BY DownLoop
<1> DEFINE Good(k) == DownOK(d, n, from, t[k]) /\ (t[k].index >= k \/ DownDone(t[k], n))
           T == {k \in 0..n : Good(k)}
<1>2. 0 \in T
  <2>1. t[0].data = d /\ t[0].index = from
    BY <1>1 DEF At
  <2>2. Bridged(d, n, from, from)
    <3>1. from > 0 => ParentIndex(from) \in Nat /\ ParentIndex(from) < from
      BY Family
    <3> QED
      BY <3>1 DEF Bridged
  <2>3. DownOK(d, n, from, t[0])
    BY <2>1, <2>2 DEF DownOK, SameItems
  <2> QED
    BY <2>1, <2>3
<1>3. ASSUME NEW k \in 0..n - 1, k \in T
      PROVE  k + 1 \in T
  <2> DEFINE st == t[k]
             a == st.data
             h == st.index
             b == BestChild(a, n, h)
             e == Swapped(a, h, b)
  <2>1. k \in 0..n /\ k + 1 \in 0..n
    OBVIOUS
  <2>2. a \in HeapArrays(c, n) /\ h \in 0..n - 1
    BY <1>1, <2>1, LoopState
  <2>3. DownOK(d, n, from, st) /\ (h >= k \/ DownDone(st, n))
    BY <1>3
  <2>4. CASE DownDone(st, n)
    <3>1. t[k + 1] = st
      BY <1>1, <2>4 DEF DownTurn, DownDone
    <3> QED
      BY <2>1, <2>3, <2>4, <3>1
  <2>5. CASE ~DownDone(st, n)
    <3>1. 2 * h + 1 < n /\ m_pfComp(a[b], a[h]) /\ h >= k
      BY <2>3, <2>5 DEF DownDone
    <3>2. t[k + 1] = At(e, b)
      BY <1>1, <3>1 DEF DownTurn
    <3>3. t[k + 1].data = e /\ t[k + 1].index = b
      BY <3>2 DEF At
    <3>4. /\ h >= from
          /\ Heaped(a, n, from, h) /\ Bridged(a, n, from, h) /\ SameItems(d, a, n)
      BY <2>3 DEF DownOK
    <3>5. e = Swapped(a, h, b) /\ b = BestChild(a, n, h)
      OBVIOUS
    <3> HIDE DEF st, a, h, b, e
    <3>6. b \in 1..n - 1 /\ b > h
      BY <2>2, <3>1, <3>5, BestOfChildren
    <3>7. b \in 0..n - 1 /\ from \in 0..h
      BY <2>2, <3>4, <3>6
    <3>8. Heaped(e, n, from, b) /\ Bridged(e, n, from, b)
      BY <2>2, <3>1, <3>4, <3>5, <3>7, SinksOne
    <3>9. SameItems(a, e, n)
      BY <2>2, <3>5, <3>7, Swap
    <3>10. SameItems(d, e, n)
      BY <3>4, <3>9 DEF SameItems
    <3>11. b >= k + 1 /\ b >= from
      BY <2>2, <3>1, <3>4, <3>6
    <3>12. Good(k + 1)
      BY <3>3, <3>8, <3>10, <3>11 DEF DownOK
    <3> QED
      BY <2>1, <3>12
  <2> QED
    BY <2>4, <2>5
<1>4. n \in T
  <2>1. n \in 0..n
    OBVIOUS
  <2> HIDE DEF T
  <2> QED
    BY <1>2, <1>3, <2>1, EachTurn
<1> DEFINE a == t[n].data
           h == t[n].index
<1>5. a \in HeapArrays(c, n) /\ h \in 0..n - 1
  <2>1. n \in 0..n
    OBVIOUS
  <2> QED
    BY <1>1, <2>1, LoopState
<1>6. DownOK(d, n, from, t[n]) /\ (h >= n \/ DownDone(t[n], n))
  BY <1>4
<1>7. DownDone(t[n], n)
  BY <1>5, <1>6
<1>8. InOrder(a, n, from)
  <2>1. ~(2 * h + 1 < n /\ m_pfComp(a[BestChild(a, n, h)], a[h]))
    BY <1>7 DEF DownDone
  <2>2. Heaped(a, n, from, h) /\ from \in 0..h
    BY <1>5, <1>6 DEF DownOK
  <2> HIDE DEF a, h
  <2> QED
    BY <1>5, <2>1, <2>2, SinkEnds
<1> QED
  BY <1>1, <1>5, <1>6, <1>8 DEF DownOK


\* HeapBuild's loop puts the families in order from the last one on.
LEMMA HeapifyDownType ==
  ASSUME NEW c \in Nat, NEW n \in Nat, n <= c, NEW d \in HeapArrays(c, n), NEW i \in 0..n - 1
  PROVE  HeapifyDown(d, n, i) \in HeapArrays(c, n)
<1>1. PICK t : /\ HeapifyDown(d, n, i) = t[n].data
               /\ \A k \in 0..n : t[k] \in LoopStates(c, n)
  BY DownLoop
<1>2. t[n] \in LoopStates(c, n)
  <2>1. n \in 0..n
    OBVIOUS
  <2> QED
    BY <1>1, <2>1
<1> QED
  BY <1>1, <1>2, LoopState

LEMMA HeapifiedAll ==
  ASSUME NEW c \in Nat, NEW n \in Nat, n <= c, NEW d \in HeapArrays(c, n)
  PROVE  /\ Heapified(d, n, n \div 2) \in HeapArrays(c, n)
         /\ InOrder(Heapified(d, n, n \div 2), n, 0)
<1> DEFINE h == n \div 2
           S == HeapArrays(c, n)
           f == [k \in 1..h |-> [e \in S |-> HeapifyDown(e, n, h - k)]]
           loop == CHOOSE t :
                     t = [k \in 0..h |-> IF k = 0 THEN d ELSE HeapifyDown(t[k - 1], n, h - k)]
<1>1. h \in Nat /\ n <= 2 * h + 1 /\ 2 * h <= n
  OBVIOUS
<1>2. Heapified(d, n, h) = loop[h]
  BY DEF Heapified
<1> HIDE DEF h
<1>3. \A k \in 1..h : h - k \in 0..n - 1
  BY <1>1
<1>4. Stepwise(f, h, S)
  <2>1. \A k \in 1..h : \A e \in S : HeapifyDown(e, n, h - k) \in S
    BY <1>3, HeapifyDownType
  <2> HIDE DEF S
  <2> QED
    BY <2>1 DEF Stepwise
<1>5. \E t : t = [k \in 0..h |-> IF k = 0 THEN d ELSE HeapifyDown(t[k - 1], n, h - k)]
  <2>1. \E t : LoopRuns(t, f, h, S, d)
    <3> HIDE DEF S, f
    <3>1. d \in S
      BY DEF S
    <3> QED
      BY <1>1, <1>4, <3>1, LoopExists
  <2> PICK t : LoopRuns(t, f, h, S, d)
    BY <2>1
  <2>2. t \in [0..h -> S] /\ t[0] = d /\ \A k \in 1..h : t[k] = f[k][t[k - 1]]
    BY DEF LoopRuns
  <2>3. \A k \in 1..h : f[k][t[k - 1]] = HeapifyDown(t[k - 1], n, h - k)
    <3> SUFFICES ASSUME NEW k \in 1..h
                 PROVE  f[k][t[k - 1]] = HeapifyDown(t[k - 1], n, h - k)
      OBVIOUS
    <3>1. t[k - 1] \in S
      BY <1>1, <2>2
    <3> HIDE DEF S
    <3> QED
      BY <3>1
  <2>4. \A k \in 0..h : k # 0 => k \in 1..h
    BY <1>1
  <2>5. t = [k \in 0..h |-> t[k]]
    BY <2>2
  <2> HIDE DEF f, S
  <2>6. t = [k \in 0..h |-> IF k = 0 THEN d ELSE HeapifyDown(t[k - 1], n, h - k)]
    BY <2>2, <2>3, <2>4, <2>5
  <2> QED
    BY <2>6
<1>6. loop = [k \in 0..h |-> IF k = 0 THEN d ELSE HeapifyDown(loop[k - 1], n, h - k)]
  BY <1>5
<1> HIDE DEF loop
<1> DEFINE T == {k \in 0..h : loop[k] \in S /\ InOrder(loop[k], n, h - k)}
<1>7. 0 \in T
  <2>1. 0 \in 0..h /\ h - 0 = h
    BY <1>1
  <2>2. loop[0] = d
    BY <1>6, <2>1
  <2>3. InOrder(d, n, h)
    <3> SUFFICES ASSUME NEW j \in 1..n - 1, ParentIndex(j) >= h
                 PROVE  FALSE
      BY DEF InOrder
    <3>1. j \in Nat /\ j > 0
      OBVIOUS
    <3>2. j = 2 * ParentIndex(j) + 1 \/ j = 2 * ParentIndex(j) + 2
      BY <3>1, Family
    <3>3. ParentIndex(j) \in Nat
      BY <3>1, Family
    <3> QED
      BY <1>1, <3>2, <3>3
  <2> QED
    BY <2>1, <2>2, <2>3
<1>8. ASSUME NEW k \in 0..h - 1, k \in T
      PROVE  k + 1 \in T
  <2> DEFINE from == h - (k + 1)
             e == loop[k]
  <2>1. k + 1 \in 0..h /\ k + 1 # 0 /\ (k + 1) - 1 = k /\ k + 1 \in 1..h
    BY <1>1
  <2>2. loop[k + 1] = HeapifyDown(e, n, from)
    BY <1>6, <2>1
  <2>3. e \in S /\ InOrder(e, n, h - k)
    BY <1>8
  <2>4. from \in 0..n - 1 /\ from + 1 = h - k
    BY <1>1, <1>3, <2>1
  <2>5. Heaped(e, n, from, from)
    <3> SUFFICES ASSUME NEW j \in 1..n - 1, ParentIndex(j) >= from, ParentIndex(j) # from
                 PROVE  ~m_pfComp(e[j], e[ParentIndex(j)])
      BY DEF Heaped
    <3>1. ParentIndex(j) \in 0..n - 1
      BY Families
    <3>2. ParentIndex(j) >= h - k
      <4> HIDE DEF from
      <4> QED
        BY <1>1, <2>4, <3>1
    <3> QED
      BY <2>3, <3>2 DEF InOrder
  <2> HIDE DEF from, e
  <2>6. HeapifyDown(e, n, from) \in S /\ InOrder(HeapifyDown(e, n, from), n, from)
    BY <2>3, <2>4, <2>5, HeapifiedDown
  <2> QED
    BY <2>1, <2>2, <2>6 DEF from
<1>9. h \in T
  <2>1. h \in 0..h
    BY <1>1
  <2> HIDE DEF T
  <2> QED
    BY <1>1, <1>7, <1>8, <2>1, EachTurn
<1>10. loop[h] \in S /\ InOrder(loop[h], n, 0)
  <2>1. h - h = 0
    BY <1>1
  <2> QED
    BY <1>9, <2>1
<1> QED
  BY <1>2, <1>10 DEF h

\* In order from the root on, the root is the best.
LEMMA RootIsBest ==
  ASSUME NEW c \in Nat, NEW n \in Nat, n <= c, NEW d \in HeapArrays(c, n), InOrder(d, n, 0),
         NEW k \in 0..n - 1
  PROVE  ~m_pfComp(d[k], d[0])
<1> DEFINE D == {j \in 0..n - 1 : m_pfComp(d[j], d[0])}
<1> SUFFICES ASSUME D # {}
             PROVE  FALSE
  OBVIOUS
<1>1. D \subseteq Nat
  OBVIOUS
<1>2. PICK j \in D : \A i \in D : j <= i
  <2> HIDE DEF D
  <2> QED
    BY <1>1, LeastNatural
<1>3. \A i \in 0..n - 1 : d[i] \in VectorItems
  BY DEF HeapArrays, Filled
<1>4. j \in 0..n - 1 /\ m_pfComp(d[j], d[0])
  BY <1>2
<1>5. 0 \in 0..n - 1
  BY <1>4
<1>6. j # 0
  BY <1>3, <1>4, <1>5, Weak
<1>7. j \in 1..n - 1
  BY <1>4, <1>6
<1>8. ParentIndex(j) \in 0..n - 1 /\ ParentIndex(j) < j /\ ParentIndex(j) >= 0
  <2>1. ParentIndex(j) \in 0..n - 1 /\ ParentIndex(j) < j
    BY <1>7, Families
  <2> QED
    BY <2>1
<1>9. ParentIndex(j) \notin D
  <2>1. ~(j <= ParentIndex(j))
    BY <1>4, <1>8
  <2> HIDE DEF D
  <2> QED
    BY <1>2, <2>1
<1>10. ~m_pfComp(d[ParentIndex(j)], d[0])
  BY <1>8, <1>9
<1>11. ~m_pfComp(d[j], d[ParentIndex(j)])
  BY <1>7, <1>8 DEF InOrder
<1>12. d[j] \in VectorItems /\ d[ParentIndex(j)] \in VectorItems /\ d[0] \in VectorItems
  BY <1>3, <1>4, <1>5, <1>8
<1> QED
  BY <1>4, <1>10, <1>11, <1>12, Weak

\* Counting items.
LEMMA Counts ==
  ASSUME NEW d, NEW n \in Nat, NEW x
  PROVE  /\ Count(d, n, x) \in Nat
         /\ Count(d, n, x) > 0 <=> \E k \in 0..n - 1 : d[k] = x
<1> DEFINE A == {k \in 0..n - 1 : d[k] = x}
<1>1. IsFiniteSet(A)
  <2>1. IsFiniteSet(0..n - 1)
    BY FS_Interval
  <2> QED
    BY <2>1, FS_Subset
<1>2. A # {} <=> \E k \in 0..n - 1 : d[k] = x
  OBVIOUS
<1> HIDE DEF A
<1>3. Cardinality(A) \in Nat
  BY <1>1, FS_CardinalityType
<1>4. Cardinality(A) = 0 <=> A = {}
  BY <1>1, FS_EmptySet
<1> QED
  BY <1>2, <1>3, <1>4 DEF A, Count

LEMMA SamePrefix ==
  ASSUME NEW d, NEW e, NEW n \in Nat, \A k \in 0..n - 1 : e[k] = d[k], NEW x
  PROVE  Count(e, n, x) = Count(d, n, x)
<1>1. {k \in 0..n - 1 : e[k] = x} = {k \in 0..n - 1 : d[k] = x}
  OBVIOUS
<1> QED
  BY <1>1 DEF Count

LEMMA OneMore ==
  ASSUME NEW d, NEW n \in Nat, NEW x
  PROVE  Count(d, n + 1, x) = Count(d, n, x) + (IF d[n] = x THEN 1 ELSE 0)
<1> DEFINE A == {k \in 0..n - 1 : d[k] = x}
           B == {k \in 0..(n + 1) - 1 : d[k] = x}
<1>1. IsFiniteSet(A)
  <2>1. IsFiniteSet(0..n - 1)
    BY FS_Interval
  <2> QED
    BY <2>1, FS_Subset
<1>2. Cardinality(A) \in Nat
  <2> HIDE DEF A
  <2> QED
    BY <1>1, FS_CardinalityType
<1>3. \A k : k \in 0..(n + 1) - 1 <=> k \in 0..n - 1 \/ k = n
  OBVIOUS
<1>4. CASE d[n] = x
  <2>1. B = A \cup {n}
    BY <1>3, <1>4
  <2>2. n \notin A
    OBVIOUS
  <2> HIDE DEF A, B
  <2>3. Cardinality(A \cup {n}) = Cardinality(A) + 1
    BY <1>1, <2>2, FS_AddElement
  <2> QED
    BY <1>4, <2>1, <2>3 DEF A, B, Count
<1>5. CASE d[n] # x
  <2>1. B = A
    BY <1>3, <1>5
  <2> HIDE DEF A, B
  <2> QED
    BY <1>2, <1>5, <2>1 DEF A, B, Count
<1> QED
  BY <1>4, <1>5


\* What the vector's calls do to its items.
LEMMA VectorItemsFilled ==
  ASSUME NEW v, VectorOK(v)
  PROVE  /\ v.data \in HeapArrays(v.capacity, v.size)
         /\ v.size \in Nat /\ v.capacity \in Nat /\ v.size <= v.capacity
BY DEF VectorOK, HeapArrays, Arrays, Filled

LEMMA Reordered ==
  ASSUME NEW v, VectorOK(v), NEW e \in HeapArrays(v.capacity, v.size)
  PROVE  /\ VectorOK([v EXCEPT !.data = e])
         /\ [v EXCEPT !.data = e].data = e /\ [v EXCEPT !.data = e].size = v.size
<1> DEFINE w == [v EXCEPT !.data = e]
<1>1. w = [data |-> e, size |-> v.size, capacity |-> v.capacity,
           original |-> v.original, block |-> v.block]
  BY VectorUpdates
<1> HIDE DEF w
<1>2. VectorOK(w)
  BY <1>1 DEF VectorOK, InBlocks, HeapArrays, Arrays, Filled
<1> QED
  BY <1>1, <1>2 DEF w

LEMMA KeptByRealloc ==
  ASSUME NEW v, VectorOK(v), NEW capacity \in Nat, v.size <= capacity
  PROVE  /\ Reallocated(v, capacity).size = v.size
         /\ \A k \in 0..v.size - 1 : Reallocated(v, capacity).data[k] = v.data[k]
<1> DEFINE data == [n \in 0..capacity - 1 |-> IF n < v.capacity THEN v.data[n] ELSE Unset]
           w == Reallocated(v, capacity)
<1>1. w = [data |-> data, size |-> v.size, capacity |-> capacity,
           original |-> v.original, block |-> v.block]
  <2>1. w = [v EXCEPT !.capacity = capacity, !.data = data]
    BY DEF Reallocated
  <2> HIDE DEF w, data
  <2> QED
    BY <2>1, VectorUpdates
<1>2. v.size \in Nat /\ v.capacity \in Nat /\ v.size <= v.capacity
  BY VectorItemsFilled
<1>3. \A k \in 0..v.size - 1 : data[k] = v.data[k]
  BY <1>2
<1> HIDE DEF w, data
<1> QED
  BY <1>1, <1>3 DEF w

LEMMA PutLast ==
  ASSUME NEW v, VectorOK(v), v.size < v.capacity, NEW item \in VectorItems
  PROVE  /\ WithItem(v, item).size = v.size + 1
         /\ WithItem(v, item).data[v.size] = item
         /\ \A k \in 0..v.size - 1 : WithItem(v, item).data[k] = v.data[k]
<1> DEFINE data == [v.data EXCEPT ![v.size] = item]
           w == WithItem(v, item)
<1>1. w = [data |-> data, size |-> v.size + 1, capacity |-> v.capacity,
           original |-> v.original, block |-> v.block]
  <2>1. w = [v EXCEPT !.data = data, !.size = v.size + 1]
    BY DEF WithItem
  <2> HIDE DEF w, data
  <2> QED
    BY <2>1, VectorUpdates
<1>2. /\ v.size \in Nat /\ v.capacity \in Nat /\ v.size \in 0..v.capacity - 1
      /\ v.data \in Arrays(v.capacity)
      /\ \A k \in 0..v.size - 1 : k \in 0..v.capacity - 1 /\ k # v.size
  BY VectorItemsFilled DEF HeapArrays
<1>3. data[v.size] = item /\ \A k \in 0..v.size - 1 : data[k] = v.data[k]
  BY <1>2 DEF Arrays
<1> HIDE DEF w, data
<1> QED
  BY <1>1, <1>3 DEF w

LEMMA AppendPuts ==
  ASSUME NEW v, VectorOK(v), NEW item \in VectorItems, NEW enough \in BOOLEAN,
         AppendCode(v, enough) = "success"
  PROVE  /\ VectorOK(Appended(v, item))
         /\ Appended(v, item).size = v.size + 1
         /\ Appended(v, item).data[v.size] = item
         /\ \A k \in 0..v.size - 1 : Appended(v, item).data[k] = v.data[k]
<1>1. VectorOK(Appended(v, item))
  BY AppendKeeps
<1>2. v.size \in Nat /\ v.capacity \in Nat /\ v.size <= v.capacity /\ v.block \in Nat
  BY DEF VectorOK
<1>3. CASE ~IsFull(v)
  <2>1. v.size < v.capacity
    BY <1>2, <1>3 DEF IsFull
  <2>2. Appended(v, item) = WithItem(v, item)
    BY <1>3 DEF Appended
  <2> QED
    BY <1>1, <2>1, <2>2, PutLast
<1>4. CASE IsFull(v)
  <2> DEFINE more == v.capacity + v.block
             u == Reallocated(v, more)
  <2>1. v.block > 0
    BY <1>2, <1>4 DEF AppendCode
  <2>2. VectorOK(u) /\ u.size = v.size /\ u.capacity = more
    BY Grows
  <2>3. more \in Nat /\ v.size <= more /\ v.size < more
    BY <1>2, <2>1
  <2>4. \A k \in 0..v.size - 1 : u.data[k] = v.data[k]
    BY <2>3, KeptByRealloc
  <2>5. Appended(v, item) = WithItem(u, item)
    BY <1>4 DEF Appended
  <2> HIDE DEF u, more
  <2>6. /\ WithItem(u, item).size = u.size + 1
        /\ WithItem(u, item).data[u.size] = item
        /\ \A k \in 0..u.size - 1 : WithItem(u, item).data[k] = u.data[k]
    BY <2>2, <2>3, PutLast
  <2> QED
    BY <1>1, <2>2, <2>4, <2>5, <2>6
<1> QED
  BY <1>3, <1>4

LEMMA RemoveDrops ==
  ASSUME NEW v, VectorOK(v), v.size # 0, NEW enough \in BOOLEAN
  PROVE  /\ VectorOK(Removed(v, enough))
         /\ Removed(v, enough).size = v.size - 1
         /\ \A k \in 0..v.size - 2 : Removed(v, enough).data[k] = v.data[k]
<1> DEFINE u == [v EXCEPT !.size = @ - 1]
<1>1. u = [data |-> v.data, size |-> v.size - 1, capacity |-> v.capacity,
           original |-> v.original, block |-> v.block]
  BY DEF VectorOK
<1>2. VectorOK(Removed(v, enough))
  BY RemoveKeeps
<1>3. Removed(v, enough) = VectorShrink(u, enough)
  BY DEF Removed
<1> HIDE DEF u
<1>4. VectorOK(u)
  <2>1. v.size - 1 \in Nat /\ v.size - 1 <= v.capacity
    BY DEF VectorOK
  <2>2. \A n \in 0..(v.size - 1) - 1 : v.data[n] \in VectorItems
    BY DEF VectorOK
  <2> QED
    BY <1>1, <2>1, <2>2 DEF VectorOK, InBlocks
<1>5. v.size \in Nat /\ \A k \in 0..v.size - 2 : k \in 0..(v.size - 1) - 1
  BY DEF VectorOK
<1>6. CASE ~(Shrinks(u) /\ enough)
  <2>1. Removed(v, enough) = u
    BY <1>3, <1>6 DEF VectorShrink
  <2> QED
    BY <1>1, <1>2, <2>1
<1>7. CASE Shrinks(u) /\ enough
  <2>1. Removed(v, enough) = Reallocated(u, u.capacity - u.block)
    BY <1>3, <1>7 DEF VectorShrink
  <2>2. u.capacity - u.block \in Nat /\ u.capacity - u.block >= u.size + u.block
    BY <1>4, <1>7, ShrinkBounds
  <2>3. u.size <= u.capacity - u.block
    BY <1>4, <2>2 DEF VectorOK
  <2>4. /\ Reallocated(u, u.capacity - u.block).size = u.size
        /\ \A k \in 0..u.size - 1 : Reallocated(u, u.capacity - u.block).data[k] = u.data[k]
    BY <1>4, <2>2, <2>3, KeptByRealloc
  <2> QED
    BY <1>1, <1>2, <1>5, <2>1, <2>4
<1> QED
  BY <1>6, <1>7

\* The inductive invariant.
HeapInv ==
  /\ VectorOK(vector)
  /\ heapSize = vector.size
  /\ InOrder(vector.data, heapSize, 0)

LEMMA PileCounts ==
  ASSUME HeapInv
  PROVE  /\ Pile = [x \in VectorItems |-> Count(vector.data, heapSize, x)]
         /\ Pile \in [VectorItems -> Nat]
         /\ Queue!Present = {vector.data[k] : k \in 0..heapSize - 1}
<1>1. Pile = [x \in VectorItems |-> Count(vector.data, heapSize, x)]
  BY DEF Pile, Count
<1>2. heapSize \in Nat /\ \A k \in 0..heapSize - 1 : vector.data[k] \in VectorItems
  BY DEF HeapInv, VectorOK
<1>3. \A x \in VectorItems : /\ Pile[x] = Count(vector.data, heapSize, x)
                             /\ Count(vector.data, heapSize, x) \in Nat
                             /\ Count(vector.data, heapSize, x) > 0
                                  <=> \E k \in 0..heapSize - 1 : vector.data[k] = x
  BY <1>1, <1>2, Counts
<1>4. Pile \in [VectorItems -> Nat]
  BY <1>1, <1>3
<1>5. Queue!Present = {vector.data[k] : k \in 0..heapSize - 1}
  BY <1>2, <1>3 DEF Queue!Present
<1> QED
  BY <1>1, <1>4, <1>5

\* The root is a best item.
LEMMA RootOnTop ==
  ASSUME HeapInv, heapSize # 0
  PROVE  vector.data[0] \in VectorItems /\ Queue!IsBest(vector.data[0])
<1>1. /\ vector.data \in HeapArrays(vector.capacity, heapSize)
      /\ heapSize \in Nat /\ vector.capacity \in Nat /\ heapSize <= vector.capacity
  BY VectorItemsFilled DEF HeapInv
<1>2. 0 \in 0..heapSize - 1
  BY <1>1
<1>3. \A k \in 0..heapSize - 1 : ~m_pfComp(vector.data[k], vector.data[0])
  BY <1>1, RootIsBest DEF HeapInv
<1>4. vector.data[0] \in VectorItems
  BY <1>1, <1>2 DEF HeapArrays, Filled
<1>5. Queue!Present = {vector.data[k] : k \in 0..heapSize - 1}
  BY PileCounts
<1> QED
  BY <1>2, <1>3, <1>4, <1>5 DEF Queue!IsBest

LEMMA HeapBuilt ==
  HeapBuild => HeapInv /\ Queue!Init
<1> SUFFICES ASSUME HeapBuild
             PROVE  HeapInv /\ Queue!Init
  OBVIOUS
<1>0. heapSize = vector.size /\ heapReturned = Code("success")
  BY DEF HeapBuild
<1>1. PICK n \in InitialCapacities, block \in BlockSizes :
        \E items \in [1..n -> VectorItems] :
          LET v == [Holding(items) EXCEPT !.block = block]
          IN  vector = [v EXCEPT !.data = Heapified(v.data, n, n \div 2)]
  BY ZenonT(30) DEF HeapBuild
<1>10. PICK items \in [1..n -> VectorItems] :
        LET v == [Holding(items) EXCEPT !.block = block]
        IN  vector = [v EXCEPT !.data = Heapified(v.data, n, n \div 2)]
  BY ZenonT(30), <1>1
<1>2. n \in Nat /\ block \in Nat
  BY DynamicVectorAssumption
<1>3. Len(items) = n
  <2>1. items \in Seq(VectorItems) /\ DOMAIN items = 1..n
    BY <1>2
  <2>2. Len(items) \in Nat /\ 1..Len(items) = 1..n
    BY <2>1, LenProperties
  <2> QED
    BY <1>2, <2>2
<1> DEFINE d == [k \in 0..n - 1 |-> items[k + 1]]
           e == Heapified(d, n, n \div 2)
<1>4. vector = [data |-> e, size |-> n, capacity |-> n, original |-> n, block |-> block]
  <2>1. [Holding(items) EXCEPT !.block = block]
          = [data |-> d, size |-> n, capacity |-> n, original |-> n, block |-> block]
    <3>1. Holding(items)
            = [data |-> d, size |-> n, capacity |-> n, original |-> n, block |-> 0]
      BY <1>3 DEF Holding
    <3> HIDE DEF d
    <3> QED
      BY <3>1
  <2> HIDE DEF d
  <2> QED
    BY <1>10, <2>1
<1>5. d \in HeapArrays(n, n)
  <2>1. \A k \in 0..n - 1 : d[k] \in VectorItems
    BY <1>2
  <2> QED
    BY <2>1 DEF HeapArrays, Arrays, Filled
<1> HIDE DEF d
<1>6. e \in HeapArrays(n, n) /\ InOrder(e, n, 0)
  BY <1>2, <1>5, HeapifiedAll
<1> HIDE DEF e
<1>7. VectorOK(vector)
  <2>1. InBlocks(vector)
    <3>1. n = n + 0 * block /\ 0 \in Nat
      BY <1>2
    <3> QED
      BY <1>4, <3>1 DEF InBlocks
  <2>2. /\ vector.data = e /\ vector.size = n /\ vector.capacity = n
        /\ vector.original = n /\ vector.block = block
    BY <1>4
  <2>3. e \in Arrays(n) /\ \A k \in 0..n - 1 : e[k] \in VectorItems
    BY <1>6 DEF HeapArrays, Filled
  <2> QED
    BY <1>2, <1>4, <2>1, <2>2, <2>3 DEF VectorOK, Arrays
<1>8. heapSize = n
  BY <1>0, <1>4
<1>9. HeapInv
  <2>1. vector.data = e /\ vector.size = n
    BY <1>4
  <2> QED
    BY <1>6, <1>7, <1>8, <2>1 DEF HeapInv
<1> QED
  BY <1>0, <1>9, PileCounts DEF Queue!Init, Queue!Answer, Code, Result

LEMMA HeapUnchanged ==
  ASSUME HeapInv, UNCHANGED <<vector, heapSize>>
  PROVE  HeapInv' /\ Pile' = Pile
BY DEF HeapInv, Pile


LEMMA InsertingFits ==
  ASSUME HeapInv, NEW item \in VectorItems, NEW enough \in BOOLEAN,
         HeapInsert(item, enough)
  PROVE  HeapInv' /\ (Queue!Insert(item) \/ Queue!InsertFails)
<1>1. CASE AppendCode(vector, enough) # "success"
  <2>1. /\ heapReturned' = [code |-> "failed", item |-> Unset]
        /\ UNCHANGED <<vector, heapSize>>
    BY <1>1 DEF HeapInsert, Code, Result
  <2>2. HeapInv' /\ Pile' = Pile
    BY <2>1, HeapUnchanged
  <2> QED
    BY <2>1, <2>2 DEF Queue!InsertFails, Queue!Answer
<1>2. CASE AppendCode(vector, enough) = "success"
  <2> DEFINE v == Appended(vector, item)
             n == heapSize
             e == HeapifyUp(v.data, n)
  <2>1. /\ vector' = [v EXCEPT !.data = e]
        /\ heapSize' = n + 1
        /\ heapReturned' = [code |-> "success", item |-> Unset]
    BY <1>2 DEF HeapInsert, Code, Result
  <2>2. VectorOK(vector) /\ n = vector.size /\ InOrder(vector.data, n, 0)
    BY DEF HeapInv
  <2>3. n \in Nat
    BY <2>2, VectorItemsFilled
  <2>4. /\ VectorOK(v) /\ v.size = n + 1 /\ v.data[n] = item
        /\ \A k \in 0..n - 1 : v.data[k] = vector.data[k]
    BY <1>2, <2>2, AppendPuts
  <2>5. Pile = [x \in VectorItems |-> Count(vector.data, n, x)] /\ Pile \in [VectorItems -> Nat]
    BY PileCounts
  <2> HIDE DEF v, n, e
  <2>6. /\ v.data \in HeapArrays(v.capacity, n + 1)
        /\ n + 1 \in Nat /\ v.capacity \in Nat /\ n + 1 <= v.capacity
    BY <2>4, VectorItemsFilled
  <2>7. n \in 0..(n + 1) - 1
    BY <2>3
  <2>8. Rising(v.data, n + 1, n)
    <3> SUFFICES ASSUME NEW j \in 1..(n + 1) - 1, j # n
                 PROVE  ~m_pfComp(v.data[j], v.data[ParentIndex(j)])
      BY DEF Rising
    <3>1. j \in 1..n - 1
      BY <2>3
    <3>2. j \in 0..n - 1 /\ ParentIndex(j) \in 0..n - 1 /\ ParentIndex(j) >= 0
      <4>1. ParentIndex(j) \in 0..n - 1
        BY <2>3, <3>1, Families
      <4> QED
        BY <3>1, <4>1
    <3>3. v.data[j] = vector.data[j] /\ v.data[ParentIndex(j)] = vector.data[ParentIndex(j)]
      BY <2>4, <3>2
    <3> QED
      BY <2>2, <3>1, <3>2, <3>3 DEF InOrder
  <2>9. Bridged(v.data, n + 1, 0, n)
    <3>1. \A j \in 1..(n + 1) - 1 : ParentIndex(j) < j /\ ParentIndex(j) \in 0..(n + 1) - 1
      BY <2>6, Families
    <3>2. \A j \in 1..(n + 1) - 1 : ParentIndex(j) # n
      <4> SUFFICES ASSUME NEW j \in 1..(n + 1) - 1
                   PROVE  ParentIndex(j) # n
        OBVIOUS
      <4>1. ParentIndex(j) < j /\ ParentIndex(j) \in 0..(n + 1) - 1
        BY <3>1
      <4> QED
        BY <2>3, <4>1
    <3> QED
      BY <3>2 DEF Bridged
  <2>10. /\ e \in HeapArrays(v.capacity, n + 1)
         /\ InOrder(e, n + 1, 0) /\ SameItems(v.data, e, n + 1)
    BY <2>6, <2>7, <2>8, <2>9, HeapifiedUp DEF e
  <2>11. VectorOK(vector') /\ vector'.data = e /\ vector'.size = n + 1
    BY <2>1, <2>4, <2>10, Reordered
  <2>12. HeapInv'
    BY <2>1, <2>10, <2>11 DEF HeapInv
  <2>13. Pile' = [x \in VectorItems |-> Count(e, n + 1, x)]
    BY <2>1, <2>11 DEF Pile, Count
  <2>14. ASSUME NEW x \in VectorItems
         PROVE  Count(e, n + 1, x) = Pile[x] + (IF x = item THEN 1 ELSE 0)
    <3>1. Count(e, n + 1, x) = Count(v.data, n + 1, x)
      BY <2>10 DEF SameItems
    <3>2. Count(v.data, n + 1, x) = Count(v.data, n, x) + (IF v.data[n] = x THEN 1 ELSE 0)
      BY <2>3, OneMore
    <3>3. Count(v.data, n, x) = Count(vector.data, n, x)
      BY <2>3, <2>4, SamePrefix
    <3>4. Pile[x] = Count(vector.data, n, x)
      BY <2>5
    <3> QED
      BY <2>4, <3>1, <3>2, <3>3, <3>4
  <2>15. Pile' = [Pile EXCEPT ![item] = @ + 1]
    <3>1. \A x \in VectorItems : Pile[x] \in Nat
      BY <2>5
    <3>2. \A x \in VectorItems : Count(e, n + 1, x) = IF x = item THEN Pile[x] + 1 ELSE Pile[x]
      <4> SUFFICES ASSUME NEW x \in VectorItems
                   PROVE  Count(e, n + 1, x) = IF x = item THEN Pile[x] + 1 ELSE Pile[x]
        OBVIOUS
      <4>1. Pile[x] \in Nat
        BY <3>1
      <4>2. Count(e, n + 1, x) = Pile[x] + (IF x = item THEN 1 ELSE 0)
        BY <2>14
      <4>3. CASE x = item
        BY <4>2, <4>3
      <4>4. CASE x # item
        <5>1. Count(e, n + 1, x) = Pile[x] + 0
          BY <4>2, <4>4
        <5> QED
          BY <4>1, <4>4, <5>1
      <4> QED
        BY <4>3, <4>4
    <3> HIDE DEF e
    <3>3. Pile' = [x \in VectorItems |-> IF x = item THEN Pile[x] + 1 ELSE Pile[x]]
      BY <2>13, <3>2
    <3> QED
      BY <2>5, <3>3
  <2> QED
    BY <2>1, <2>12, <2>15 DEF Queue!Insert, Queue!Answer
<1> QED
  BY <1>1, <1>2

LEMMA PeekingFits ==
  ASSUME HeapInv, HeapPeek
  PROVE  HeapInv' /\ (Queue!Empty \/ \E x \in VectorItems : Queue!Peek(x))
<1>1. HeapInv' /\ Pile' = Pile
  BY HeapUnchanged DEF HeapPeek
<1>2. CASE heapSize = 0
  <2>1. heapReturned' = [code |-> "null", item |-> Unset]
    BY <1>2 DEF HeapPeek, Code, Result
  <2>2. Queue!Present = {}
    <3>1. Queue!Present = {vector.data[k] : k \in 0..heapSize - 1}
      BY PileCounts
    <3>2. 0..heapSize - 1 = {}
      BY <1>2
    <3> QED
      BY <3>1, <3>2
  <2> QED
    BY <1>1, <2>1, <2>2 DEF Queue!Empty, Queue!Answer
<1>3. CASE heapSize # 0
  <2> DEFINE x == vector.data[0]
  <2>1. heapReturned' = [code |-> "item", item |-> x]
    BY <1>3 DEF HeapPeek, Result
  <2>2. x \in VectorItems /\ Queue!IsBest(x)
    BY <1>3, RootOnTop
  <2> HIDE DEF x
  <2>3. Queue!Peek(x)
    BY <1>1, <2>1, <2>2 DEF Queue!Peek, Queue!Answer
  <2> QED
    BY <1>1, <2>2, <2>3
<1> QED
  BY <1>2, <1>3

\* The array without its root: what another one holds of it, the last item
\* put at the root.
Agreeing(u, d, m) == \A k \in 0..m - 1 : u[k] = d[k]
Uprooted(u, d, m) == [u EXCEPT ![0] = d[m]]
AllBut(r, d, m) == r[0] = d[m] /\ \A k \in 1..m - 1 : r[k] = d[k]

LEMMA Replanted ==
  ASSUME NEW c \in Nat, NEW n \in Nat, n > 0, NEW d \in HeapArrays(c, n), InOrder(d, n, 0),
         NEW b \in Nat, NEW m, m = n - 1, m <= b, m > 0,
         NEW u \in HeapArrays(b, m), Agreeing(u, d, m),
         NEW r, r = Uprooted(u, d, m)
  PROVE  r \in HeapArrays(b, m) /\ Heaped(r, m, 0, 0) /\ AllBut(r, d, m)
<1>0. /\ u \in HeapArrays(b, n - 1) /\ n - 1 > 0 /\ n - 1 <= b
      /\ \A k \in 0..n - 2 : u[k] = d[k]
      /\ r = [u EXCEPT ![0] = d[n - 1]]
  BY DEF Agreeing, Uprooted
<1>1. d[n - 1] \in VectorItems
  <2>1. n - 1 \in 0..n - 1
    OBVIOUS
  <2> QED
    BY <2>1 DEF HeapArrays, Filled
<1>2. u \in Arrays(b) /\ Filled(u, n - 1) /\ 0 \in 0..b - 1
  BY <1>0 DEF HeapArrays
<1>3. r \in Arrays(b) /\ \A k \in 0..b - 1 : r[k] = IF k = 0 THEN d[n - 1] ELSE u[k]
  BY <1>0, <1>1, <1>2 DEF Arrays
<1>4. \A k \in 0..(n - 1) - 1 : k \in 0..b - 1 /\ k \in 0..n - 2
  BY <1>0
<1>5. \A k \in 0..n - 2 : k \in 0..b - 1
  BY <1>0
<1>6. r[0] = d[n - 1] /\ \A k \in 1..n - 2 : r[k] = d[k]
  <2>1. \A k \in 1..n - 2 : k \in 0..n - 2 /\ k # 0
    OBVIOUS
  <2> QED
    BY <1>0, <1>2, <1>3, <1>5, <2>1
<1>7. Filled(r, n - 1)
  BY <1>1, <1>2, <1>3, <1>4 DEF Filled
<1>8. Heaped(r, n - 1, 0, 0)
  <2> SUFFICES ASSUME NEW j \in 1..(n - 1) - 1, ParentIndex(j) # 0
               PROVE  ~m_pfComp(r[j], r[ParentIndex(j)])
    BY DEF Heaped
  <2>1. ParentIndex(j) \in 0..(n - 1) - 1
    <3>1. n - 1 \in Nat
      OBVIOUS
    <3> QED
      BY <3>1, Families
  <2>2. j \in 1..n - 2 /\ ParentIndex(j) \in 1..n - 2
    BY <2>1
  <2>3. r[j] = d[j] /\ r[ParentIndex(j)] = d[ParentIndex(j)]
    BY <1>6, <2>2
  <2>4. j \in 1..n - 1 /\ ParentIndex(j) >= 0
    BY <2>2
  <2> QED
    BY <2>3, <2>4 DEF InOrder
<1>9. r \in HeapArrays(b, n - 1)
  BY <1>3, <1>7 DEF HeapArrays
<1>10. AllBut(r, d, n - 1)
  BY <1>6 DEF AllBut
<1> QED
  BY <1>8, <1>9, <1>10

LEMMA ReplantedCount ==
  ASSUME NEW n \in Nat, n > 0, NEW d, NEW r, n - 1 > 0 => r[0] = d[n - 1],
         \A k \in 1..n - 2 : r[k] = d[k], NEW x
  PROVE  Count(d, n, x) = Count(r, n - 1, x) + (IF d[0] = x THEN 1 ELSE 0)
<1> DEFINE s == [k \in 0..n - 1 |-> IF k = n - 1 THEN d[0] ELSE r[k]]
           A == {k \in 0..n - 1 : d[k] = x}
           B == {k \in 0..n - 1 : s[k] = x}
           f == [k \in A |-> IF k = 0 THEN n - 1 ELSE IF k = n - 1 THEN 0 ELSE k]
<1>1. \A k \in 0..n - 1 : s[k] = IF k = n - 1 THEN d[0] ELSE IF k = 0 THEN d[n - 1] ELSE d[k]
  <2> SUFFICES ASSUME NEW k \in 0..n - 1, k # n - 1
               PROVE  r[k] = IF k = 0 THEN d[n - 1] ELSE d[k]
    OBVIOUS
  <2>1. CASE k = 0
    BY <2>1
  <2>2. CASE k # 0
    <3>1. k \in 1..n - 2
      BY <2>2
    <3> QED
      BY <2>2, <3>1
  <2> QED
    BY <2>1, <2>2
<1>2. 0 \in 0..n - 1 /\ n - 1 \in 0..n - 1
  OBVIOUS
<1>3. IsFiniteSet(A)
  <2>1. IsFiniteSet(0..n - 1)
    BY FS_Interval
  <2> QED
    BY <2>1, FS_Subset
<1>4. f \in Bijection(A, B)
  <2> HIDE DEF s
  <2>1. f \in [A -> B]
    BY <1>1, <1>2
  <2>2. \A k, l \in A : f[k] = f[l] => k = l
    OBVIOUS
  <2>3. \A m \in B : \E k \in A : f[k] = m
    <3> SUFFICES ASSUME NEW m \in B
                 PROVE  \E k \in A : f[k] = m
      OBVIOUS
    <3> DEFINE k == IF m = 0 THEN n - 1 ELSE IF m = n - 1 THEN 0 ELSE m
    <3>1. k \in A /\ f[k] = m
      BY <1>1, <1>2
    <3> QED
      BY <3>1
  <2> HIDE DEF f, A, B
  <2> QED
    BY <2>1, <2>2, <2>3 DEF Bijection, Injection, Surjection, IsInjective
<1> HIDE DEF f, A, B
<1>5. Cardinality(A) = Cardinality(B)
  BY <1>3, <1>4, FS_Bijection DEF ExistsBijection
<1>6. Count(d, n, x) = Count(s, n, x)
  BY <1>5 DEF A, B, Count
<1>7. s[n - 1] = d[0]
  BY <1>2
<1>8. \A k \in 0..(n - 1) - 1 : s[k] = r[k]
  OBVIOUS
<1> HIDE DEF s
<1>9. n - 1 \in Nat /\ (n - 1) + 1 = n
  OBVIOUS
<1>10. Count(s, (n - 1) + 1, x) = Count(s, n - 1, x) + (IF s[n - 1] = x THEN 1 ELSE 0)
  BY <1>9, OneMore
<1>11. Count(s, n - 1, x) = Count(r, n - 1, x)
  <2>1. \A m \in Nat : m = n - 1 => Count(s, m, x) = Count(r, m, x)
    <3> SUFFICES ASSUME NEW m \in Nat, m = n - 1
                 PROVE  Count(s, m, x) = Count(r, m, x)
      OBVIOUS
    <3>1. \A k \in 0..m - 1 : s[k] = r[k]
      BY <1>8
    <3>2. {k \in 0..m - 1 : s[k] = x} = {k \in 0..m - 1 : r[k] = x}
      BY <3>1
    <3> QED
      BY <3>2 DEF Count
  <2> QED
    BY <1>9, <2>1
<1> QED
  BY <1>6, <1>7, <1>9, <1>10, <1>11


LEMMA ExtractingFits ==
  ASSUME HeapInv, NEW enough \in BOOLEAN, HeapExtract(enough)
  PROVE  HeapInv' /\ (Queue!Empty \/ \E x \in VectorItems : Queue!Extract(x))
<1>1. CASE heapSize = 0
  <2>1. /\ heapReturned' = [code |-> "null", item |-> Unset]
        /\ UNCHANGED <<vector, heapSize>>
    BY <1>1 DEF HeapExtract, Code, Result
  <2>2. Queue!Present = {}
    <3>1. Queue!Present = {vector.data[k] : k \in 0..heapSize - 1}
      BY PileCounts
    <3>2. 0..heapSize - 1 = {}
      BY <1>1
    <3> QED
      BY <3>1, <3>2
  <2>3. HeapInv' /\ Pile' = Pile
    BY <2>1, HeapUnchanged
  <2> QED
    BY <2>1, <2>2, <2>3 DEF Queue!Empty, Queue!Answer
<1>2. CASE heapSize # 0
  <2> DEFINE n == heapSize
             d == vector.data
             u == Removed(vector, enough)
             r == [u.data EXCEPT ![0] = d[n - 1]]
             e == HeapifyDown(r, n - 1, 0)
             x == d[0]
  <2>1. VectorOK(vector) /\ n = vector.size /\ InOrder(d, n, 0)
    BY DEF HeapInv
  <2>2. /\ vector' = Unrooted(u, d[n - 1], n - 1)
        /\ heapSize' = n - 1
        /\ heapReturned' = [code |-> "item", item |-> x]
    BY <1>2, <2>1 DEF HeapExtract, Result
  <2>3. x \in VectorItems /\ Queue!IsBest(x)
    BY <1>2, RootOnTop
  <2>4. n - 1 = 0 => vector' = u
    BY <2>2 DEF Unrooted
  <2>5. n - 1 # 0 => vector' = [u EXCEPT !.data = e]
    BY <2>2 DEF Unrooted
  <2>6. Pile = [y \in VectorItems |-> Count(d, n, y)] /\ Pile \in [VectorItems -> Nat]
    BY PileCounts
  <2>7. r = [u.data EXCEPT ![0] = d[n - 1]]
    OBVIOUS
  <2>8. Pile' = [y \in VectorItems |-> Count(vector'.data, n - 1, y)]
    BY <2>2 DEF Pile, Count
  <2>9. x = d[0] /\ n # 0 /\ d = vector.data
    BY <1>2
  <2> HIDE DEF n, d, u, r, e, x
  <2>10. /\ d \in HeapArrays(vector.capacity, n)
         /\ n \in Nat /\ vector.capacity \in Nat /\ n > 0
    <3>1. /\ vector.data \in HeapArrays(vector.capacity, vector.size)
          /\ vector.size \in Nat /\ vector.capacity \in Nat
      BY <2>1, VectorItemsFilled
    <3> QED
      BY <2>1, <2>9, <3>1
  <2>11. /\ VectorOK(u) /\ u.size = n - 1
         /\ \A k \in 0..n - 2 : u.data[k] = d[k]
    BY <2>1, <2>9, RemoveDrops DEF u
  <2>12. /\ u.data \in HeapArrays(u.capacity, n - 1)
         /\ n - 1 \in Nat /\ u.capacity \in Nat /\ n - 1 <= u.capacity
    BY <2>11, VectorItemsFilled
  <2>13. ASSUME \A y \in VectorItems :
                  Count(d, n, y) = Count(vector'.data, n - 1, y) + (IF x = y THEN 1 ELSE 0)
         PROVE  Queue!Extract(x)
    <3>1. \A y \in VectorItems :
            Count(vector'.data, n - 1, y) = IF y = x THEN Pile[y] - 1 ELSE Pile[y]
      <4> SUFFICES ASSUME NEW y \in VectorItems
                   PROVE  Count(vector'.data, n - 1, y) = IF y = x THEN Pile[y] - 1 ELSE Pile[y]
        OBVIOUS
      <4>1. Count(vector'.data, n - 1, y) \in Nat
        BY <2>12, Counts
      <4>2. Pile[y] = Count(d, n, y)
        BY <2>6
      <4>3. Count(d, n, y) = Count(vector'.data, n - 1, y) + (IF x = y THEN 1 ELSE 0)
        BY <2>13
      <4>4. CASE y = x
        <5>1. Count(d, n, y) = Count(vector'.data, n - 1, y) + 1
          BY <4>3, <4>4
        <5> QED
          BY <4>1, <4>2, <4>4, <5>1
      <4>5. CASE y # x
        <5>1. Count(d, n, y) = Count(vector'.data, n - 1, y) + 0
          BY <4>3, <4>5
        <5> QED
          BY <4>1, <4>2, <4>5, <5>1
      <4> QED
        BY <4>4, <4>5
    <3>2. Pile' = [y \in VectorItems |-> IF y = x THEN Pile[y] - 1 ELSE Pile[y]]
      BY <2>8, <3>1
    <3>3. Pile' = [Pile EXCEPT ![x] = @ - 1]
      BY <2>6, <3>2
    <3> QED
      BY <2>2, <2>3, <3>3 DEF Queue!Extract, Queue!Answer
  <2>14. CASE n - 1 = 0
    <3>1. vector' = u /\ vector'.size = n - 1 /\ VectorOK(vector')
      BY <2>4, <2>11, <2>14
    <3>2. InOrder(vector'.data, n - 1, 0)
      <4>1. 1..(n - 1) - 1 = {}
        BY <2>14
      <4> QED
        BY <4>1 DEF InOrder
    <3>3. HeapInv'
      BY <2>2, <3>1, <3>2 DEF HeapInv
    <3>4. ASSUME NEW y \in VectorItems
          PROVE  Count(d, n, y) = Count(vector'.data, n - 1, y) + (IF x = y THEN 1 ELSE 0)
      <4>1. ~(n - 1 > 0) /\ 1..n - 2 = {}
        BY <2>10, <2>14
      <4>2. Count(d, n, y) = Count(u.data, n - 1, y) + (IF d[0] = y THEN 1 ELSE 0)
        BY <2>10, <4>1, ReplantedCount
      <4> QED
        BY <2>9, <3>1, <4>2
    <3>5. Queue!Extract(x)
      BY <2>13, <3>4
    <3> QED
      BY <2>3, <3>3, <3>5
  <2>15. CASE n - 1 # 0
    <3>1. n - 1 > 0
      BY <2>10, <2>12, <2>15
    <3>2. /\ r \in HeapArrays(u.capacity, n - 1)
          /\ Heaped(r, n - 1, 0, 0)
          /\ r[0] = d[n - 1] /\ \A k \in 1..n - 2 : r[k] = d[k]
      <4> DEFINE b == u.capacity
                 w == u.data
                 m == n - 1
      <4>1. InOrder(d, n, 0) /\ Agreeing(w, d, m)
        BY <2>1, <2>10, <2>11 DEF Agreeing
      <4>2. r = Uprooted(w, d, m)
        BY <2>7 DEF Uprooted
      <4>3. w \in HeapArrays(b, m) /\ b \in Nat /\ m <= b /\ m > 0 /\ m = n - 1
        BY <2>12, <3>1
      <4> HIDE DEF b, w, m
      <4>4. r \in HeapArrays(b, m) /\ Heaped(r, m, 0, 0) /\ AllBut(r, d, m)
        BY <2>10, <4>1, <4>2, <4>3, Replanted
      <4> QED
        BY <2>10, <4>3, <4>4 DEF b, AllBut
    <3>3. 0 \in 0..(n - 1) - 1
      BY <2>12, <3>1
    <3>4. /\ e \in HeapArrays(u.capacity, n - 1)
          /\ InOrder(e, n - 1, 0) /\ SameItems(r, e, n - 1)
      BY <2>12, <3>2, <3>3, HeapifiedDown DEF e
    <3>5. VectorOK(vector') /\ vector'.data = e /\ vector'.size = n - 1
      <4>1. VectorOK(u) /\ e \in HeapArrays(u.capacity, u.size)
        BY <2>11, <3>4
      <4>2. /\ VectorOK([u EXCEPT !.data = e])
            /\ [u EXCEPT !.data = e].data = e /\ [u EXCEPT !.data = e].size = u.size
        BY <4>1, Reordered
      <4>3. vector' = [u EXCEPT !.data = e]
        BY <2>5, <2>15
      <4> QED
        BY <2>11, <4>2, <4>3
    <3>6. HeapInv'
      BY <2>2, <3>4, <3>5 DEF HeapInv
    <3>7. ASSUME NEW y \in VectorItems
          PROVE  Count(d, n, y) = Count(vector'.data, n - 1, y) + (IF x = y THEN 1 ELSE 0)
      <4>1. Count(d, n, y) = Count(r, n - 1, y) + (IF d[0] = y THEN 1 ELSE 0)
        BY <2>10, <3>2, ReplantedCount
      <4>2. Count(r, n - 1, y) = Count(e, n - 1, y)
        BY <3>4 DEF SameItems
      <4> QED
        BY <2>9, <3>5, <4>1, <4>2
    <3>8. Queue!Extract(x)
      BY <2>13, <3>7
    <3> QED
      BY <2>3, <3>6, <3>8
  <2> QED
    BY <2>14, <2>15
<1> QED
  BY <1>1, <1>2

\* The heap implements the priority queue, for any items, any weak order of
\* them and any vector: through growing, shrinking and failing allocations it
\* gives its best item, loses none and doubles none.
THEOREM HeapImplementsQueue == HeapSpec => ImplementsPriorityQueue
<1>1. HeapBuild => HeapInv /\ Queue!Init
  BY HeapBuilt
<1>2. HeapInv /\ [HeapNext]_heapVars => HeapInv' /\ [Queue!Next]_<<Pile, heapReturned>>
  <2> SUFFICES ASSUME HeapInv, [HeapNext]_heapVars
               PROVE  HeapInv' /\ [Queue!Next]_<<Pile, heapReturned>>
    OBVIOUS
  <2>1. ASSUME NEW item \in VectorItems, NEW enough \in BOOLEAN, HeapInsert(item, enough)
        PROVE  HeapInv' /\ Queue!Next
    BY <2>1, InsertingFits DEF Queue!Next
  <2>2. ASSUME HeapPeek
        PROVE  HeapInv' /\ Queue!Next
    BY <2>2, PeekingFits DEF Queue!Next
  <2>3. ASSUME NEW enough \in BOOLEAN, HeapExtract(enough)
        PROVE  HeapInv' /\ Queue!Next
    BY <2>3, ExtractingFits DEF Queue!Next
  <2>4. CASE UNCHANGED heapVars
    BY <2>4, HeapUnchanged DEF heapVars
  <2> QED
    BY <2>1, <2>2, <2>3, <2>4 DEF HeapNext
<1> QED
  BY <1>1, <1>2, PTL DEF HeapSpec, ImplementsPriorityQueue, Queue!Spec
=============================================================================

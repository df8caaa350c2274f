------------------------------- MODULE GenHeap -------------------------------
(***************************************************************************)
(* genHeap.c of the shared library: a binary heap in a vector the caller   *)
(* made, with its own count of the items next to the vector's.  The best   *)
(* item by the caller's comparator is on top.                              *)
(***************************************************************************)
EXTENDS DynamicVector, FiniteSets

CONSTANT m_pfComp(_, _)      \* the comparator: the first is strictly better

\* "A less than comparator" (genHeap.h): a strict weak order.
ASSUME GenHeapAssumption ==
  /\ \A x, y \in VectorItems : m_pfComp(x, y) => ~m_pfComp(y, x)
  /\ \A x, y, z \in VectorItems : m_pfComp(x, z) => m_pfComp(x, y) \/ m_pfComp(y, z)

VARIABLES heapSize,          \* m_heapSize
          heapReturned

heapVars == <<vector, heapSize, heapReturned>>

ParentIndex(index) == (index - 1) \div 2

Swapped(data, i, j) == [data EXCEPT ![i] = data[j], ![j] = data[i]]

\* The loops: what "loop" holds after so many turns.  No loop makes more.
At(data, index) == [data |-> data, index |-> index]

UpTurn(at) ==
  LET parent == ParentIndex(at.index)
  IN  IF at.index > 0 /\ m_pfComp(at.data[at.index], at.data[parent])
        THEN At(Swapped(at.data, at.index, parent), parent)
        ELSE at

HeapifyUp(data, index) ==
  LET loop[turn \in 0..index] ==
        IF turn = 0 THEN At(data, index) ELSE UpTurn(loop[turn - 1])
  IN  loop[index].data

\* Mutant: always the left child.
BestChild_Left(data, n, index) == 2 * index + 1

\* The right child when there is one and it is better than the left.
BestChild(data, n, index) ==
  IF 2 * index + 2 < n /\ m_pfComp(data[2 * index + 2], data[2 * index + 1])
    THEN 2 * index + 2
    ELSE 2 * index + 1

DownTurn(at, n) ==
  LET best == BestChild(at.data, n, at.index)
  IN  IF 2 * at.index + 1 < n /\ m_pfComp(at.data[best], at.data[at.index])
        THEN At(Swapped(at.data, at.index, best), best)
        ELSE at

HeapifyDown(data, n, index) ==
  LET loop[turn \in 0..n] ==
        IF turn = 0 THEN At(data, index) ELSE DownTurn(loop[turn - 1], n)
  IN  loop[n].data

\* HeapBuild's loop: from the last parent before "index" down to the root.
Heapified(data, n, index) ==
  LET loop[turn \in 0..index] ==
        IF turn = 0 THEN data ELSE HeapifyDown(loop[turn - 1], n, index - turn)
  IN  loop[index]

Holding(items) ==
  [data |-> [n \in 0..Len(items) - 1 |-> items[n + 1]], size |-> Len(items),
   capacity |-> Len(items), original |-> Len(items), block |-> 0]

\* HeapBuild on a vector that holds anything.
HeapBuild ==
  /\ \E n \in InitialCapacities, block \in BlockSizes :
       \E items \in [1..n -> VectorItems] :
         LET v == [Holding(items) EXCEPT !.block = block]
         IN  vector = [v EXCEPT !.data = Heapified(v.data, n, n \div 2)]
  /\ heapSize = vector.size
  /\ heapReturned = Code("success")

HeapInsert(item, enough) ==
  /\ IsFull(vector) => vector.capacity + vector.block <= MostSlots
  /\ IF AppendCode(vector, enough) = "success"
       THEN LET v == Appended(vector, item)
            IN  /\ vector' = [v EXCEPT !.data = HeapifyUp(v.data, heapSize)]
                /\ heapSize' = heapSize + 1
                /\ heapReturned' = Code("success")
       ELSE heapReturned' = Code("failed") /\ UNCHANGED <<vector, heapSize>>

HeapPeek ==
  /\ heapReturned' = IF heapSize = 0 THEN Code("null")
                                      ELSE Result("item", vector.data[0])
  /\ UNCHANGED <<vector, heapSize>>

\* The vector without the root, n items being left: the last item takes its
\* place and sinks.
Unrooted(v, last, n) ==
  IF n = 0 THEN v
  ELSE [v EXCEPT !.data = HeapifyDown([v.data EXCEPT ![0] = last], n, 0)]

HeapExtract(enough) ==
  IF heapSize = 0
    THEN heapReturned' = Code("null") /\ UNCHANGED <<vector, heapSize>>
    ELSE /\ vector' = Unrooted(Removed(vector, enough),
                               vector.data[vector.size - 1], heapSize - 1)
         /\ heapSize' = heapSize - 1
         /\ heapReturned' = Result("item", vector.data[0])

HeapNext ==
  \/ \E item \in VectorItems, enough \in BOOLEAN : HeapInsert(item, enough)
  \/ HeapPeek
  \/ \E enough \in BOOLEAN : HeapExtract(enough)

HeapSpec == HeapBuild /\ [][HeapNext]_heapVars

-----------------------------------------------------------------------------
\* Properties.

Pile ==
  [x \in VectorItems |->
     Cardinality({n \in 0..heapSize - 1 : vector.data[n] = x})]

Queue == INSTANCE PriorityQueue WITH
  Items <- VectorItems, Better <- m_pfComp, Nothing <- Unset,
  pile <- Pile, answer <- heapReturned

\* Whatever was inserted and taken before, through growing and shrinking and
\* failing allocations, the heap gives its best item, loses none and doubles
\* none.
ImplementsPriorityQueue == Queue!Spec
=============================================================================

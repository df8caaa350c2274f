------------------------------ MODULE SortedSet ------------------------------
(***************************************************************************)
(* What the binary search tree of assignment 11 promises (bin_tree.h): a   *)
(* set without duplicates, walked in its order, and iterators.  An         *)
(* iterator is on an element, at the end, or "lost" when the memory it     *)
(* points to was freed.  Items are numbers and the comparator is <.        *)
(***************************************************************************)
EXTENDS Integers, Sequences, FiniteSets, FiniteSetsExt, Functions

CONSTANT Items

VARIABLES elements, place, answer

Iterator(kind, item) == [kind |-> kind, item |-> item]
AtEnd == Iterator("end", 0)
Lost == Iterator("lost", 0)
On(x) == Iterator("on", x)

\* The last call and what it gave back.
Answer(call, items) == [call |-> call, items |-> items]

Init == elements = {} /\ place = AtEnd /\ answer = Answer("create", <<>>)

Says(call, items) == answer' = Answer(call, items) /\ UNCHANGED <<elements, place>>

Insert(x) ==
  \/ /\ x \notin elements
     /\ elements' = elements \cup {x}
     /\ answer' = Answer("insert", <<x>>)
     /\ UNCHANGED place
  \/ Says("insert", <<>>)       \* there already, or no memory

Above(x) == {y \in elements : y > x}
Below(x) == {y \in elements : y < x}

\* x is removed through some iterator.  An iterator on another element stays
\* on it, unless that is the next one: its node may be the one that is freed
\* while its item moves to x's node.  An iterator on x is lost or is on the
\* next element afterwards.
Remove(x) ==
  /\ x \in elements
  /\ elements' = elements \ {x}
  /\ answer' = Answer("remove", <<x>>)
  /\ \/ place # On(x) /\ place' = place
     \/ place = On(x) /\ place' = Lost
     \/ /\ Above(x) # {}
        /\ \/ place = On(x) /\ place' = On(Min(Above(x)))
           \/ place = On(Min(Above(x))) /\ place' = Lost

RemoveNothing == Says("remove", <<>>)

Moves(call, to) ==
  place' = to /\ answer' = Answer(call, <<>>) /\ UNCHANGED elements

ToBegin == Moves("begin", IF elements = {} THEN AtEnd ELSE On(Min(elements)))
ToEnd == Moves("end", AtEnd)

GoNext ==
  /\ place # Lost
  /\ Moves("next", IF place = AtEnd \/ Above(place.item) = {}
                     THEN AtEnd ELSE On(Min(Above(place.item))))

\* The first element has no previous one: the iterator stays.
GoPrev ==
  /\ place # Lost
  /\ Moves("prev", LET before == IF place = AtEnd THEN elements ELSE Below(place.item)
                   IN  IF before = {} THEN place ELSE On(Max(before)))

Get ==
  /\ place # Lost
  /\ Says("get", IF place = AtEnd THEN <<>> ELSE <<place.item>>)

\* A walk visits the first "most" elements of its order, or all; the order
\* is the items' own for the in-order walk.
Walk(inOrder, most) ==
  LET n == Cardinality(elements)
      visited == answer'.items
  IN  /\ UNCHANGED <<elements, place>>
      /\ answer'.call = IF inOrder THEN "inorder" ELSE "traverse"
      /\ Len(visited) = IF most < n THEN most ELSE n
      /\ IsInjective(visited)
      /\ Range(visited) \subseteq elements
      /\ inOrder => /\ \A i, j \in DOMAIN visited : i < j => visited[i] < visited[j]
                    /\ \A x \in Range(visited) : Below(x) \subseteq Range(visited)

Next ==
  \/ \E x \in Items : Insert(x) \/ Remove(x)
  \/ RemoveNothing
  \/ ToBegin \/ ToEnd \/ GoNext \/ GoPrev \/ Get
  \/ \E inOrder \in BOOLEAN, most \in 1..Cardinality(Items) : Walk(inOrder, most)

Spec == Init /\ [][Next]_<<elements, place, answer>>
=============================================================================

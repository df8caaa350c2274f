---------------------------- MODULE PriorityQueue ----------------------------
(***************************************************************************)
(* What the heap promises (genHeap.h): a collection of items, equal ones   *)
(* counted, of which the best is seen and taken first.                     *)
(***************************************************************************)
EXTENDS Integers, Sequences

CONSTANTS Items, Better(_, _), Nothing

VARIABLES pile,     \* how many there are of each item
          answer

Answer(code, item) == [code |-> code, item |-> item]

Present == {x \in Items : pile[x] > 0}
IsBest(x) == x \in Present /\ \A y \in Present : ~Better(y, x)

Init == pile \in [Items -> Nat] /\ answer = Answer("success", Nothing)

Insert(x) ==
  /\ pile' = [pile EXCEPT ![x] = @ + 1]
  /\ answer' = Answer("success", Nothing)

InsertFails == answer' = Answer("failed", Nothing) /\ UNCHANGED pile

Extract(x) ==
  /\ IsBest(x)
  /\ pile' = [pile EXCEPT ![x] = @ - 1]
  /\ answer' = Answer("item", x)

Peek(x) == IsBest(x) /\ answer' = Answer("item", x) /\ UNCHANGED pile

Empty == Present = {} /\ answer' = Answer("null", Nothing) /\ UNCHANGED pile

Next ==
  \/ \E x \in Items : Insert(x) \/ Extract(x) \/ Peek(x)
  \/ InsertFails
  \/ Empty

Spec == Init /\ [][Next]_<<pile, answer>>
=============================================================================

--------------------------- MODULE SequenceCursor ---------------------------
(***************************************************************************)
(* What the shared library's list promises (doubleLinkedList.h): a         *)
(* sequence of items, and an iterator that stays on its item while others  *)
(* come and go.  The iterator is a position from 1, the begin, to          *)
(* Len(items) + 1, the end.                                                *)
(*                                                                         *)
(* Whoever removes the item the iterator is on moves the iterator on       *)
(* first, as every caller in the repository does.                          *)
(***************************************************************************)
EXTENDS Integers, Sequences, SequencesExt

CONSTANTS Items, MostItems

VARIABLES items, position,
          result     \* the last call and what it gave back

AtItem == position \in 1..Len(items)

Result(call, found) == [call |-> call, items |-> found]

CursorInit == items = <<>> /\ position = 1 /\ result = Result("create", <<>>)

Null(call) == result' = Result(call, <<>>) /\ UNCHANGED <<items, position>>

\* The item x becomes the k-th; the iterator stays on its item.
PutIn(call, k, x) ==
  /\ result' = Result(call, <<x>>)
  /\ Len(items) < MostItems
  /\ items' = InsertAt(items, k, x)
  /\ position' = IF position >= k THEN position + 1 ELSE position

PushHead(x) == PutIn("pushHead", 1, x)
PushTail(x) == PutIn("pushTail", Len(items) + 1, x)
InsertBefore(x) == PutIn("insertBefore", position, x)

TakeOut(call, k) ==
  /\ items' = RemoveAt(items, k)
  /\ position' = IF position > k THEN position - 1 ELSE position
  /\ result' = Result(call, <<items[k]>>)

PopHead == IF items = <<>> THEN Null("popHead") ELSE TakeOut("popHead", 1)
PopTail ==
  IF items = <<>> THEN Null("popTail") ELSE TakeOut("popTail", Len(items))
RemoveHere ==
  IF AtItem THEN TakeOut("remove", position) ELSE Null("remove")

Set(x) ==
  IF AtItem
    THEN /\ items' = [items EXCEPT ![position] = x]
         /\ result' = Result("set", <<items[position]>>)
         /\ UNCHANGED position
    ELSE Null("set")

Moved(call, to) ==
  /\ position' = to
  /\ result' = Result(call, <<>>)
  /\ UNCHANGED items

Begin == Moved("begin", 1)
GoNext ==
  Moved("next", IF position = Len(items) + 1 THEN position ELSE position + 1)
GoPrev == Moved("prev", IF position = 1 THEN position ELSE position - 1)

\* A call of ForEach from the iterator to the end whose action returned 0
\* on the k-th item, or never.
Visit(k) ==
  LET stopped == position + k - 1 <= Len(items)
      last == IF stopped THEN position + k - 1 ELSE Len(items)
  IN  IF ~AtItem
        THEN Moved("forEach", position)
        ELSE /\ position' = IF stopped THEN last ELSE Len(items) + 1
             /\ result' = Result("forEach", SubSeq(items, position, last))
             /\ UNCHANGED items

\* An allocation failed.
Fails == \E call \in {"pushHead", "pushTail", "insertBefore"} : Null(call)

CursorNext ==
  \/ \E x \in Items : PushHead(x) \/ PushTail(x) \/ InsertBefore(x) \/ Set(x)
  \/ PopHead \/ PopTail \/ RemoveHere
  \/ Begin \/ GoNext \/ GoPrev \/ (\E k \in 1..MostItems + 1 : Visit(k))
  \/ Fails

Spec == CursorInit /\ [][CursorNext]_<<items, position, result>>
=============================================================================

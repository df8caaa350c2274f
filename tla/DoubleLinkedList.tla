-------------------------- MODULE DoubleLinkedList --------------------------
(***************************************************************************)
(* doubleLinkedList.c of the shared library, pointer by pointer: a list    *)
(* has a node of its own before the first and after the last item, which   *)
(* point at themselves outwards; that is how an iterator, which is only a  *)
(* pointer to a node, is known to be at an end.                            *)
(*                                                                         *)
(* itr is an iterator the caller keeps.  A caller that removes the node it *)
(* points to takes ListItrNext of it first.  A freed node may be allocated *)
(* again.                                                                  *)
(***************************************************************************)
EXTENDS Integers, Sequences, FiniteSets

CONSTANTS Nodes,            \* the addresses malloc may return
          HeadNode, TailNode,   \* m_head and m_tail of the List
          ListItems, NoData

ASSUME DoubleLinkedListAssumption ==
  /\ IsFiniteSet(Nodes)
  /\ HeadNode # TailNode
  /\ Nodes \cap {HeadNode, TailNode} = {}
  /\ NoData \notin ListItems

VARIABLES node,        \* the nodes: [data, next, prev]
          allocated,   \* the items' nodes that are not free
          itr,
          listReturned

listVars == <<node, allocated, itr, listReturned>>

NodeOf(data, next, prev) == [data |-> data, next |-> next, prev |-> prev]

Pointers == Nodes \cup {HeadNode, TailNode}

ListCreate ==
  /\ node = [p \in Pointers |->
               CASE p = HeadNode -> NodeOf(NoData, TailNode, HeadNode)
                 [] p = TailNode -> NodeOf(NoData, TailNode, HeadNode)
                 [] OTHER -> NodeOf(NoData, p, p)]
  /\ allocated = {}
  /\ itr = TailNode
  /\ listReturned = [call |-> "create", items |-> <<>>]

Returns(call, items) == listReturned' = [call |-> call, items |-> items]
ReturnsNull(call) == Returns(call, <<>>) /\ UNCHANGED <<node, allocated, itr>>

IsSentinel(p) == node[p].next = p \/ node[p].prev = p

-----------------------------------------------------------------------------
InsertBefore(call, p, item) ==
  \E new \in Nodes \ allocated :
    /\ allocated' = allocated \cup {new}
    /\ node' = [node EXCEPT ![new] = NodeOf(item, p, node[p].prev),
                            ![node[p].prev].next = new,
                            ![p].prev = new]
    /\ Returns(call, <<item>>)
    /\ UNCHANGED itr

ListPushHead(item) == InsertBefore("pushHead", node[HeadNode].next, item)
ListPushTail(item) == InsertBefore("pushTail", TailNode, item)

ListItrInsertBefore(item) ==
  IF node[itr].prev = itr THEN ReturnsNull("insertBefore")
                          ELSE InsertBefore("insertBefore", itr, item)

\* malloc returns NULL.
AllocationFails ==
  \E call \in {"pushHead", "pushTail", "insertBefore"} : ReturnsNull(call)

\* Mutant: only the forward chain closes over the removed node.
RemoveNode_Forward(call, p) ==
  /\ node' = [node EXCEPT ![node[p].prev].next = node[p].next,
                          ![p] = NodeOf(NoData, p, p)]
  /\ allocated' = allocated \ {p}
  /\ itr' = IF itr = p THEN node[p].next ELSE itr
  /\ Returns(call, <<node[p].data>>)

\* What a freed node holds is no longer data: it is shown as linked to itself.
RemoveNode(call, p) ==
  /\ node' = [node EXCEPT ![node[p].prev].next = node[p].next,
                          ![node[p].next].prev = node[p].prev,
                          ![p] = NodeOf(NoData, p, p)]
  /\ allocated' = allocated \ {p}
  /\ itr' = IF itr = p THEN node[p].next ELSE itr
  /\ Returns(call, <<node[p].data>>)

ListPopHead ==
  IF node[HeadNode].next = TailNode
    THEN ReturnsNull("popHead")
    ELSE RemoveNode("popHead", node[HeadNode].next)

ListPopTail ==
  IF node[TailNode].prev = HeadNode
    THEN ReturnsNull("popTail")
    ELSE RemoveNode("popTail", node[TailNode].prev)

ListItrRemove ==
  IF IsSentinel(itr) THEN ReturnsNull("remove") ELSE RemoveNode("remove", itr)

-----------------------------------------------------------------------------
\* Iterators.

PointsTo(call, p) ==
  /\ itr' = p
  /\ Returns(call, <<>>)
  /\ UNCHANGED <<node, allocated>>

ListItrBegin == PointsTo("begin", node[HeadNode].next)
ListItrNext == PointsTo("next", node[itr].next)
ListItrPrev == PointsTo("prev", node[itr].prev)

ListItrSet(item) ==
  IF IsSentinel(itr)
    THEN ReturnsNull("set")
    ELSE /\ node' = [node EXCEPT ![itr].data = item]
         /\ Returns("set", <<node[itr].data>>)
         /\ UNCHANGED <<allocated, itr>>

\* The nodes of m from p on, p itself the first.
NodesFrom(m, p) ==
  LET at[k \in 1..Cardinality(Nodes) + 2] ==
        IF k = 1 THEN p ELSE m[at[k - 1]].next
  IN  at

\* How many nodes there are from p on before the tail.
Distance(m, p) ==
  LET nodes == NodesFrom(m, p)
  IN  Cardinality({k \in 1..Cardinality(Nodes) + 2 : nodes[k] # TailNode})

\* ListItrForEach from itr to the end with an action that returns 0 on its
\* k-th item: the iterator of that item, or the end, is returned.  From the
\* head it stops at once, as it finds no data there.
ListItrForEach(k) ==
  LET stopped == k <= Distance(node, itr)
      last == IF stopped THEN k ELSE Distance(node, itr)
  IN  IF itr = HeadNode
        THEN ReturnsNull("forEach")
        ELSE /\ itr' = IF stopped THEN NodesFrom(node, itr)[k] ELSE TailNode
             /\ Returns("forEach",
                        [j \in 1..last |-> node[NodesFrom(node, itr)[j]].data])
             /\ UNCHANGED <<node, allocated>>

ListNext ==
  \/ \E item \in ListItems :
       \/ ListPushHead(item) \/ ListPushTail(item)
       \/ ListItrInsertBefore(item) \/ ListItrSet(item)
  \/ AllocationFails
  \/ ListPopHead \/ ListPopTail \/ ListItrRemove
  \/ ListItrBegin \/ ListItrNext \/ ListItrPrev
  \/ \E k \in 1..Cardinality(Nodes) + 1 : ListItrForEach(k)

ListSpec == ListCreate /\ [][ListNext]_listVars

-----------------------------------------------------------------------------
\* Properties.

ListContents(m) ==
  LET first == m[HeadNode].next
      nodes == NodesFrom(m, first)
  IN  [k \in 1..Distance(m, first) |-> m[nodes[k]].data]

\* The position of the iterator, 0 at the head.
ItrPosition == Len(ListContents(node)) + 1 - Distance(node, itr)

Sequence == INSTANCE SequenceCursor WITH
  items <- ListContents(node), position <- ItrPosition, result <- listReturned,
  Items <- ListItems, MostItems <- Cardinality(Nodes)

\* Where the code leaves doubleLinkedList.h: ListItrPrev of the begin returns
\* the head node, and so does ListItrPrev of that.
PrevToHead ==
  /\ listReturned' = [call |-> "prev", items |-> <<>>]
  /\ ItrPosition \in {0, 1} /\ ItrPosition' = 0
  /\ UNCHANGED ListContents(node)

\* The list is a sequence with an iterator on it: whatever is inserted or
\* removed, at the ends or at the iterator, forwards or backwards, the chain
\* of pointers says what the sequence says, and the iterator stays on its
\* item.  The one step the sequence does not have is PrevToHead; at the head
\* the calls find no item (an insertion there is refused, like one for which
\* there is no memory) and ListItrNext leads back to the begin.
ImplementsSequence ==
  /\ Sequence!CursorInit
  /\ [][Sequence!CursorNext \/ PrevToHead]_<<ListContents(node), ItrPosition, listReturned>>

\* A caller that never asks for the iterator before the begin.
CarefulSpec ==
  ListCreate /\ [][ListNext /\ ~(ListItrPrev /\ itr = node[HeadNode].next)]_listVars

\* doubleLinkedList.h:102 says of ListItrPrev: "if _itr is begin iterator it
\* will be returned".
BeginStaysBegin ==
  [][ListItrPrev /\ itr = node[HeadNode].next => itr' = itr]_listVars
=============================================================================

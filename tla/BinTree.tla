------------------------------ MODULE BinTree ------------------------------
(***************************************************************************)
(* bin_tree.c of assignment 11, pointer by pointer.  The tree has a node   *)
(* of its own above the root (Top, m_root in C): the real root is its left *)
(* child, and it is its own father, which is how an iterator at the end is *)
(* known.  A node with two children is not unlinked: it takes the data of  *)
(* the next node, which is unlinked in its place.                          *)
(*                                                                         *)
(* it is an iterator the caller keeps while it inserts, and removes        *)
(* through other iterators too.                                            *)
(***************************************************************************)
EXTENDS Integers, Sequences, FiniteSets

CONSTANTS TreeNodes, Top, NoNode, TreeItems

ASSUME BinTreeAssumption ==
  /\ Top # NoNode
  /\ TreeNodes \cap {Top, NoNode} = {}
  /\ TreeItems \subseteq Nat

VARIABLES tree,          \* the nodes in use and Top: [data, left, right, father]
          it,            \* a node, or NoNode when the node it was on is freed
          treeReturned

treeVars == <<tree, it, treeReturned>>

TreeNode(data, left, right, father) ==
  [data |-> data, left |-> left, right |-> right, father |-> father]

BSTreeCreate ==
  /\ tree = [p \in {Top} |-> TreeNode(0, NoNode, NoNode, Top)]
  /\ it = Top
  /\ treeReturned = [call |-> "create", items |-> <<>>]

InUse == DOMAIN tree \ {Top}
TreeReturns(call, items) == treeReturned' = [call |-> call, items |-> items]
Answers(call, items) == TreeReturns(call, items) /\ UNCHANGED <<tree, it>>

-----------------------------------------------------------------------------
\* Where an item belongs: the father of its place, or the node that has it.
RECURSIVE PlaceUnder(_, _, _)
PlaceUnder(father, current, item) ==
  IF current = NoNode THEN [father |-> father, found |-> FALSE]
  ELSE IF item < tree[current].data
    THEN PlaceUnder(current, tree[current].left, item)
  ELSE IF tree[current].data < item
    THEN PlaceUnder(current, tree[current].right, item)
  ELSE [father |-> current, found |-> TRUE]

Place(item) == PlaceUnder(Top, tree[Top].left, item)

IsLeftOf(item, father) == father = Top \/ item < tree[father].data

Linked(new, item, father) ==
  [p \in DOMAIN tree \cup {new} |->
     CASE p = new -> TreeNode(item, NoNode, NoNode, father)
       [] p = father -> IF IsLeftOf(item, father)
                          THEN [tree[p] EXCEPT !.left = new]
                          ELSE [tree[p] EXCEPT !.right = new]
       [] OTHER -> tree[p]]

\* Both BSTreeInsert, which compares once more to choose the side, and
\* BSTreeInsert_verson2, which keeps the address of the pointer.
BSTreeInsert(item, enough) ==
  IF Place(item).found \/ ~enough
    THEN Answers("insert", <<>>)
    ELSE \E new \in TreeNodes \ InUse :
           /\ tree' = Linked(new, item, Place(item).father)
           /\ TreeReturns("insert", <<item>>)
           /\ UNCHANGED it

-----------------------------------------------------------------------------
\* Iterators.
RECURSIVE FindLeftMost(_)
FindLeftMost(p) == IF tree[p].left = NoNode THEN p ELSE FindLeftMost(tree[p].left)

RECURSIVE FindRightMost(_)
FindRightMost(p) == IF tree[p].right = NoNode THEN p ELSE FindRightMost(tree[p].right)

RECURSIVE FindFirstLeftParent(_)
FindFirstLeftParent(p) ==
  LET parent == tree[p].father
  IN  IF p = tree[parent].right THEN FindFirstLeftParent(parent) ELSE parent

RECURSIVE FindFirstRightParent(_)
FindFirstRightParent(p) ==
  LET parent == tree[p].father
  IN  IF p = tree[parent].left THEN FindFirstRightParent(parent) ELSE parent

Begin == IF tree[Top].left = NoNode THEN Top ELSE FindLeftMost(tree[Top].left)

NextOf(p) ==
  IF tree[p].right = NoNode THEN FindFirstLeftParent(p)
                          ELSE FindLeftMost(tree[p].right)

\* Mutant: the first element's predecessor is the end.
PrevOf_Circular(p) ==
  IF tree[p].left # NoNode THEN FindRightMost(tree[p].left)
                         ELSE FindFirstRightParent(p)

PrevOf(p) ==
  IF tree[p].left # NoNode THEN FindRightMost(tree[p].left)
  ELSE IF FindFirstRightParent(p) = Top THEN p
  ELSE FindFirstRightParent(p)

Goes(call, p) == it' = p /\ TreeReturns(call, <<>>) /\ UNCHANGED tree

BSTreeItrBegin == Goes("begin", Begin)
BSTreeItrEnd == Goes("end", Top)
BSTreeItrNext == it # NoNode /\ Goes("next", NextOf(it))
BSTreeItrPrev == it # NoNode /\ Goes("prev", PrevOf(it))
BSTreeItrGet ==
  it # NoNode /\ Answers("get", IF it = Top THEN <<>> ELSE <<tree[it].data>>)

-----------------------------------------------------------------------------
\* Removal.

HasTwoChildren(p) == tree[p].left # NoNode /\ tree[p].right # NoNode

\* p is taken out and freed; its only child, if any, takes its place.
ReplaceNodeInParent(nodes, p, child) ==
  LET parent == nodes[p].father
  IN  [q \in DOMAIN nodes \ {p} |->
         CASE q = parent -> IF nodes[parent].left = p
                              THEN [nodes[q] EXCEPT !.left = child]
                              ELSE [nodes[q] EXCEPT !.right = child]
           [] q = child -> [nodes[q] EXCEPT !.father = parent]
           [] OTHER -> nodes[q]]

OnlyChild(p) == IF tree[p].left # NoNode THEN tree[p].left ELSE tree[p].right

\* Through an iterator on p; at the end nothing is removed.
BSTreeItrRemove(p) ==
  LET gone == IF HasTwoChildren(p) THEN FindLeftMost(tree[p].right) ELSE p
      copied == [tree EXCEPT ![p].data = tree[gone].data]
  IN  IF tree[p].father = p
        THEN Answers("remove", <<>>)
        ELSE /\ tree' = ReplaceNodeInParent(copied, gone, OnlyChild(gone))
             /\ it' = IF it = gone THEN NoNode ELSE it
             /\ TreeReturns("remove", <<tree[p].data>>)

-----------------------------------------------------------------------------
\* BSTreeForEach: the items visited when the action returns 0 on the one
\* numbered "most", or never.
InOrderFrom(p) ==
  LET walk[n \in 0..Cardinality(TreeNodes), q \in DOMAIN tree] ==
        IF n = 0 \/ q = Top THEN <<>>
        ELSE <<tree[q].data>> \o walk[n - 1, NextOf(q)]
  IN  walk[Cardinality(TreeNodes), p]

RECURSIVE PreOrder(_)
PreOrder(p) ==
  IF p = NoNode THEN <<>>
  ELSE <<tree[p].data>> \o PreOrder(tree[p].left) \o PreOrder(tree[p].right)

RECURSIVE PostOrder(_)
PostOrder(p) ==
  IF p = NoNode THEN <<>>
  ELSE PostOrder(tree[p].left) \o PostOrder(tree[p].right) \o <<tree[p].data>>

BSTreeForEach(mode, most) ==
  LET order == CASE mode = "inorder" -> InOrderFrom(Begin)
                 [] mode = "preorder" -> PreOrder(tree[Top].left)
                 [] mode = "postorder" -> PostOrder(tree[Top].left)
  IN  Answers(IF mode = "inorder" THEN mode ELSE "traverse",
              SubSeq(order, 1, IF most < Len(order) THEN most ELSE Len(order)))

TreeNext ==
  \/ \E item \in TreeItems, enough \in BOOLEAN : BSTreeInsert(item, enough)
  \/ \E p \in DOMAIN tree : BSTreeItrRemove(p)
  \/ BSTreeItrBegin \/ BSTreeItrEnd \/ BSTreeItrNext \/ BSTreeItrPrev
  \/ BSTreeItrGet
  \/ \E mode \in {"inorder", "preorder", "postorder"},
        most \in 1..Cardinality(TreeNodes) : BSTreeForEach(mode, most)

TreeSpec == BSTreeCreate /\ [][TreeNext]_treeVars

-----------------------------------------------------------------------------
\* Properties.

Position ==
  CASE it = NoNode -> [kind |-> "lost", item |-> 0]
    [] it = Top -> [kind |-> "end", item |-> 0]
    [] OTHER -> [kind |-> "on", item |-> tree[it].data]

Set == INSTANCE SortedSet WITH
  Items <- TreeItems, elements <- {tree[p].data : p \in InUse},
  place <- Position, answer <- treeReturned

\* The tree is a sorted set: whatever is inserted and removed, in whatever
\* order, every walk and iterator sees the elements once and in order, and a
\* removal spoils no iterator but one on the removed element or the next.
ImplementsSortedSet == Set!Spec
=============================================================================

----------------------------- MODULE SingleList -----------------------------
(***************************************************************************)
(* singleLinkedlist.c of assignment 9: persons linked through m_next, in   *)
(* ascending order of m_id when they are inserted by key.  The nodes are   *)
(* the caller's: a removed one is given back and may be inserted again.    *)
(* Each keyed operation is written twice in C, with a loop and with        *)
(* recursion.                                                              *)
(***************************************************************************)
EXTENDS Integers, Sequences, FiniteSets

CONSTANTS Persons, NoPerson, m_id(_)

ASSUME SingleListAssumption ==
  /\ IsFiniteSet(Persons)
  /\ NoPerson \notin Persons
  /\ \A p \in Persons : m_id(p) \in Int

VARIABLES first,       \* the list
          m_next,
          inserted     \* those the caller put in and did not get back

singleVars == <<first, m_next, inserted>>

SingleListInit ==
  /\ first = NoPerson
  /\ m_next = [p \in Persons |-> NoPerson]     \* PersonCreate
  /\ inserted = {}

-----------------------------------------------------------------------------
\* With a loop.

\* The persons from the head on, as a walk meets them; behind the last one
\* NoPerson.
Walked ==
  LET walk[n \in 0..Cardinality(Persons)] ==
        IF n = 0 THEN first
        ELSE IF walk[n - 1] = NoPerson THEN NoPerson
        ELSE m_next[walk[n - 1]]
  IN  walk

FirstOf(S) == CHOOSE n \in S : \A m \in S : n <= m

\* prev and curr when a loop ends at step n.
Pair(n) ==
  [prev |-> IF n = 0 THEN NoPerson ELSE Walked[n - 1], curr |-> Walked[n]]

\* The loop of ListInsertByKey.
Search(key) ==
  Pair(FirstOf({n \in DOMAIN Walked : Walked[n] = NoPerson \/ key <= m_id(Walked[n])}))

\* Mutant: a person with a key that is there already is linked before it.
ListInsertByKey_Twice(p) ==
  LET at == Search(m_id(p))
  IN  IF first = NoPerson \/ at.prev = NoPerson
        THEN /\ first' = p
             /\ m_next' = [m_next EXCEPT ![p] = first]
             /\ inserted' = inserted \cup {p}
        ELSE /\ m_next' = [m_next EXCEPT ![at.prev] = p, ![p] = at.curr]
             /\ inserted' = inserted \cup {p}
             /\ UNCHANGED first

\* In an empty list m_next of the new person is left as it is.
ListInsertByKey(p) ==
  LET at == Search(m_id(p))
  IN  \/ /\ first = NoPerson
         /\ first' = p
         /\ inserted' = inserted \cup {p}
         /\ UNCHANGED m_next
      \/ /\ first # NoPerson /\ m_id(p) < m_id(first)
         /\ first' = p
         /\ m_next' = [m_next EXCEPT ![p] = first]
         /\ inserted' = inserted \cup {p}
      \/ /\ first # NoPerson /\ ~(m_id(p) < m_id(first))
         /\ IF at.curr # NoPerson /\ m_id(at.curr) = m_id(p)
              THEN UNCHANGED singleVars
              ELSE /\ m_next' = [m_next EXCEPT ![at.prev] = p, ![p] = at.curr]
                   /\ inserted' = inserted \cup {p}
                   /\ UNCHANGED first

\* The loop of ListRemoveByKey.
Find(key) ==
  Pair(FirstOf({n \in DOMAIN Walked : Walked[n] = NoPerson \/ key = m_id(Walked[n])}))

ListRemoveByKey(key) ==
  LET at == Find(key)
      unlinked == IF at.prev = NoPerson THEN m_next
                  ELSE [m_next EXCEPT ![at.prev] = m_next[at.curr]]
  IN  IF at.curr = NoPerson THEN UNCHANGED singleVars
      ELSE /\ first' = IF at.prev = NoPerson THEN m_next[first] ELSE first
           /\ m_next' = [unlinked EXCEPT ![at.curr] = NoPerson]
           /\ inserted' = inserted \ {at.curr}

-----------------------------------------------------------------------------
\* With recursion: the result is the new head and the new m_next.

List(top, links) == [top |-> top, links |-> links]

\* The call for the person that the walk meets at step n.
InsertedRec(p) ==
  LET rec[n \in DOMAIN Walked] ==
        LET top == Walked[n] IN
        IF top = NoPerson
          THEN List(p, [m_next EXCEPT ![p] = NoPerson])
        ELSE IF m_id(p) < m_id(top)
          THEN List(p, [m_next EXCEPT ![p] = top])
        ELSE IF m_id(p) = m_id(top)
          THEN List(top, m_next)
        ELSE List(top, [rec[n + 1].links EXCEPT ![top] = rec[n + 1].top])
  IN  rec[0]

ListInsertByKeyRec(p) ==
  LET new == InsertedRec(p)
  IN  /\ first' = new.top
      /\ m_next' = new.links
      /\ inserted' = IF new = List(first, m_next) THEN inserted
                                                  ELSE inserted \cup {p}

RemovedRec(key) ==
  LET rec[n \in DOMAIN Walked] ==
        LET top == Walked[n] IN
        IF top = NoPerson
          THEN List(NoPerson, m_next)
        ELSE IF m_id(top) = key
          THEN List(m_next[top], [m_next EXCEPT ![top] = NoPerson])
        ELSE List(top, [rec[n + 1].links EXCEPT ![top] = rec[n + 1].top])
  IN  rec[0]

ListRemoveByKeyRec(key) ==
  LET new == RemovedRec(key)
  IN  /\ first' = new.top
      /\ m_next' = new.links
      /\ inserted' = inserted \ {Find(key).curr}

-----------------------------------------------------------------------------
\* At the head, whatever its key.
ListInsertHead(p) ==
  /\ first' = p
  /\ m_next' = [m_next EXCEPT ![p] = first]
  /\ inserted' = inserted \cup {p}

\* m_next of the removed node still points into the list.
ListRemoveHead ==
  /\ first # NoPerson
  /\ first' = m_next[first]
  /\ inserted' = inserted \ {first}
  /\ UNCHANGED m_next

\* The caller inserts only persons that are not in the list.
Keyed ==
  \/ \E p \in Persons \ inserted : ListInsertByKey(p) \/ ListInsertByKeyRec(p)
  \/ \E p \in Persons : ListRemoveByKey(m_id(p)) \/ ListRemoveByKeyRec(m_id(p))

KeyedSpec == SingleListInit /\ [][Keyed]_singleVars

SingleListNext ==
  \/ Keyed
  \/ \E p \in Persons \ inserted : ListInsertHead(p)
  \/ ListRemoveHead

SingleListSpec == SingleListInit /\ [][SingleListNext]_singleVars

-----------------------------------------------------------------------------
\* Properties.

\* The persons on the list (a walk that cannot end is cut).
Places == {n \in 0..Cardinality(Persons) - 1 : Walked[n] # NoPerson}
OnList == {Walked[n] : n \in Places}

\* As long as persons come and go by key, through the loops or through the
\* recursions in any mixture, the list is in strictly ascending order and
\* holds exactly the persons inserted and not taken out.
ListedInOrder ==
  /\ OnList = inserted
  /\ \A i, j \in Places : i < j => m_id(Walked[i]) < m_id(Walked[j])

\* "The removed node is detached from the list" (singleLinkedlist.h): no
\* person that was taken out is on the list, until it is inserted again.
RemovedStayOut == OnList \subseteq inserted
=============================================================================

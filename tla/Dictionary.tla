----------------------------- MODULE Dictionary -----------------------------
(***************************************************************************)
(* What the hash map promises (HashMap.h): at most one value for a key, a  *)
(* count of the pairs, and a visit of each pair.  The order of the visit   *)
(* is not promised.                                                        *)
(***************************************************************************)
EXTENDS Integers, Sequences, FiniteSets, Functions

CONSTANTS Keys, Values

VARIABLES entries,      \* a function from the keys that are present
          answer

Answer(code, pairs) == [code |-> code, pairs |-> pairs]
Says(code) == answer' = Answer(code, <<>>) /\ UNCHANGED entries

Init == entries = <<>> /\ answer = Answer("success", <<>>)

Insert(k, v) ==
  IF k \in DOMAIN entries
    THEN Says("key_duplicate") \/ Says("allocation")
    ELSE \/ /\ entries' = [x \in DOMAIN entries \cup {k} |->
                             IF x = k THEN v ELSE entries[x]]
            /\ answer' = Answer("success", <<>>)
         \/ Says("allocation")

Remove(k) ==
  IF k \in DOMAIN entries
    THEN /\ entries' = Restrict(entries, DOMAIN entries \ {k})
         /\ answer' = Answer("success", <<<<k, entries[k]>>>>)
    ELSE Says("key_not_found")

Find(k) ==
  /\ answer' = IF k \in DOMAIN entries
                 THEN Answer("success", <<<<k, entries[k]>>>>)
                 ELSE Answer("key_not_found", <<>>)
  /\ UNCHANGED entries

Size ==
  /\ answer' = Answer("size", <<Cardinality(DOMAIN entries)>>)
  /\ UNCHANGED entries

\* The visit ends after the pair for which the action returned 0.
ForEach(most) ==
  LET n == Cardinality(DOMAIN entries)
      visited == answer'.pairs
  IN  /\ answer'.code = "visited"
      /\ Len(visited) = IF most < n THEN most ELSE n
      /\ IsInjective(visited)
      /\ \A i \in DOMAIN visited :
           visited[i][1] \in DOMAIN entries /\ visited[i][2] = entries[visited[i][1]]
      /\ UNCHANGED entries

Next ==
  \/ \E k \in Keys : Remove(k) \/ Find(k) \/ \E v \in Values : Insert(k, v)
  \/ Size
  \/ \E most \in 1..Cardinality(Keys) : ForEach(most)

Spec == Init /\ [][Next]_<<entries, answer>>
=============================================================================

------------------------------ MODULE HashMap ------------------------------
(***************************************************************************)
(* HashMap.c of the shared library: an array of buckets, a prime number of *)
(* them, each a list of pairs.  A bucket's list is made by the first       *)
(* insertion and destroyed with the last removal, so a bucket without a    *)
(* list (NoList) and one with an empty list are different, and both occur. *)
(* Lists are DoubleLinkedList; here they are the sequences they implement. *)
(***************************************************************************)
EXTENDS Integers, Sequences, FiniteSets, SequencesExt

CONSTANTS Keys, MapValues,
          HashFunction(_),   \* the caller's
          MapSizes,          \* arguments of HashMap_Create
          NoList

VARIABLES buckets,       \* m_data
          numOfPairs,
          mapReturned

mapVars == <<buckets, numOfPairs, mapReturned>>

isPrime(num) == num > 1 /\ \A n \in 2..num - 1 : n * n <= num => num % n # 0

nextOddPrime[num \in Nat] == IF isPrime(num) THEN num ELSE nextOddPrime[num + 2]

nextPrime(number) ==
  IF number + 1 <= 2 THEN 2
  ELSE nextOddPrime[IF (number + 1) % 2 = 0 THEN number + 2 ELSE number + 1]

\* The search for a prime ends: there is always a next one.
ASSUME HashMapAssumption ==
  /\ IsFiniteSet(Keys)
  /\ \A key \in Keys : HashFunction(key) \in Nat
  /\ \A size \in MapSizes : nextPrime(size) \in Nat \ {0}
  /\ NoList \notin Seq(Keys \X MapValues)

Reply(code, pairs) == mapReturned' = [code |-> code, pairs |-> pairs]
Unchanged(code) == Reply(code, <<>>) /\ UNCHANGED <<buckets, numOfPairs>>

HashMap_Create ==
  /\ \E size \in MapSizes : buckets = [b \in 0..nextPrime(size) - 1 |-> NoList]
  /\ numOfPairs = 0
  /\ mapReturned = [code |-> "success", pairs |-> <<>>]

BucketCount == Cardinality(DOMAIN buckets)
BucketOf(key) == HashFunction(key) % BucketCount

\* The pairs of the key's bucket that have the key, first to last.
Matching(key) ==
  IF buckets[BucketOf(key)] = NoList
    THEN {}
    ELSE {n \in DOMAIN buckets[BucketOf(key)] : buckets[BucketOf(key)][n][1] = key}

FirstMatch(key) == CHOOSE n \in Matching(key) : \A m \in Matching(key) : n <= m

HashMap_Find(key) ==
  /\ IF Matching(key) = {}
       THEN Reply("key_not_found", <<>>)
       ELSE Reply("success", <<buckets[BucketOf(key)][FirstMatch(key)]>>)
  /\ UNCHANGED <<buckets, numOfPairs>>

WithPair(b, pair) ==
  [buckets EXCEPT ![b] = IF @ = NoList THEN <<pair>> ELSE Append(@, pair)]

\* "fault" is the allocation that fails: of the pair, of the bucket's list
\* (made when there is none) or of the list's node.  When the last fails, a
\* new list stays, empty.
HashMap_Insert(key, value, fault) ==
  LET b == BucketOf(key) IN
  \/ /\ fault = "pair"
     /\ Unchanged("allocation")
  \/ /\ fault = "list" /\ buckets[b] = NoList
     /\ Unchanged("allocation")
  \/ /\ fault # "pair" /\ Matching(key) # {}
     /\ Unchanged("key_duplicate")
  \/ /\ fault = "node" /\ Matching(key) = {}
     /\ buckets' = [buckets EXCEPT ![b] = IF @ = NoList THEN <<>> ELSE @]
     /\ Reply("allocation", <<>>)
     /\ UNCHANGED numOfPairs
  \/ /\ fault = "none" /\ Matching(key) = {}
     /\ buckets' = WithPair(b, <<key, value>>)
     /\ numOfPairs' = numOfPairs + 1
     /\ Reply("success", <<>>)

\* Mutant: the list is destroyed with the pair, whatever else it holds.
WithoutPair_DropList(b, n) == [buckets EXCEPT ![b] = NoList]

WithoutPair(b, n) ==
  [buckets EXCEPT ![b] = IF Len(@) = 1 THEN NoList ELSE RemoveAt(@, n)]

HashMap_Remove(key) ==
  LET b == BucketOf(key) IN
  IF Matching(key) = {}
    THEN Unchanged("key_not_found")
    ELSE /\ Reply("success", <<buckets[b][FirstMatch(key)]>>)
         /\ buckets' = WithoutPair(b, FirstMatch(key))
         /\ numOfPairs' = numOfPairs - 1

HashMap_Size ==
  /\ Reply("size", <<numOfPairs>>)
  /\ UNCHANGED <<buckets, numOfPairs>>

\* All pairs in the order of the buckets.
AllPairs ==
  LET from[b \in 0..BucketCount] ==
        IF b = BucketCount THEN <<>>
        ELSE (IF buckets[b] = NoList THEN <<>> ELSE buckets[b]) \o from[b + 1]
  IN  from[0]

\* The action returns 0 on the pair numbered "most", or never.
HashMap_ForEach(most) ==
  /\ Reply("visited",
           SubSeq(AllPairs, 1, IF most < Len(AllPairs) THEN most ELSE Len(AllPairs)))
  /\ UNCHANGED <<buckets, numOfPairs>>

MapNext ==
  \/ \E key \in Keys :
       \/ HashMap_Find(key)
       \/ HashMap_Remove(key)
       \/ \E value \in MapValues, fault \in {"none", "pair", "list", "node"} :
            HashMap_Insert(key, value, fault)
  \/ HashMap_Size
  \/ \E most \in 1..Cardinality(Keys) : HashMap_ForEach(most)

MapSpec == HashMap_Create /\ [][MapNext]_mapVars

-----------------------------------------------------------------------------
\* Properties.

Pairs ==
  [k \in {AllPairs[n][1] : n \in DOMAIN AllPairs} |->
     AllPairs[CHOOSE n \in DOMAIN AllPairs : AllPairs[n][1] = k][2]]

Map == INSTANCE Dictionary WITH
  Values <- MapValues, entries <- Pairs, answer <- mapReturned

\* The buckets together are one dictionary: keys that collide, lists that
\* come and go and insertions that fail at any of their allocations neither
\* lose a pair, nor double a key, nor leave the count wrong.
ImplementsDictionary == Map!Spec
=============================================================================

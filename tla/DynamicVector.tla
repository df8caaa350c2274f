--------------------------- MODULE DynamicVector ---------------------------
(***************************************************************************)
(* dynamicVector.c of the shared library, and dynamicStack.c on top of it. *)
(* The array grows by a block when an item does not fit and shrinks by one *)
(* when two blocks are free, with realloc, which may fail.  It never gets  *)
(* smaller than it was created.                                            *)
(*                                                                         *)
(* A vector is a record, so that other containers can be built on it.      *)
(* Indices are those of C.  A slot holds Unset until it is written.        *)
(***************************************************************************)
EXTENDS Integers, Sequences

CONSTANTS VectorItems, Unset,
          InitialCapacities, BlockSizes,   \* arguments of VectorCreate
          MostSlots                        \* the run lets no array grow over it

ASSUME DynamicVectorAssumption ==
  /\ Unset \notin VectorItems
  /\ InitialCapacities \subseteq Nat /\ BlockSizes \subseteq Nat

VARIABLES vector,           \* the vector: m_data, m_size, ...
          vectorReturned    \* the result of the last call, and its item

vectorVars == <<vector, vectorReturned>>

Result(code, item) == [code |-> code, item |-> item]
Code(code) == Result(code, Unset)

Created(capacity, block) ==
  [data |-> [n \in 0..capacity - 1 |-> Unset], size |-> 0,
   capacity |-> capacity, original |-> capacity, block |-> block]

\* VectorCreate returns no vector when both arguments are 0.
VectorCreate ==
  /\ \E capacity \in InitialCapacities, block \in BlockSizes :
       capacity + block > 0 /\ vector = Created(capacity, block)
  /\ vectorReturned = Code("success")

\* realloc keeps what both arrays have room for.
Reallocated(v, capacity) ==
  [v EXCEPT !.capacity = capacity,
            !.data = [n \in 0..capacity - 1 |->
                        IF n < v.capacity THEN v.data[n] ELSE Unset]]

\* Mutant: the array is taken to be full one item too late.
IsFull_Late(v) == v.capacity < v.size

IsFull(v) == v.capacity = v.size

\* Whether an item fits; "enough" says whether realloc succeeds.
AppendCode(v, enough) ==
  CASE ~IsFull(v) -> "success"
    [] IsFull(v) /\ v.block = 0 -> "fixed_size"
    [] IsFull(v) /\ v.block > 0 -> IF enough THEN "success" ELSE "allocation"

WithItem(v, item) == [v EXCEPT !.data[v.size] = item, !.size = v.size + 1]

Appended(v, item) ==
  WithItem(IF IsFull(v) THEN Reallocated(v, v.capacity + v.block) ELSE v, item)

\* Mutant: the array shrinks as soon as a block is free.
Shrinks_AtOnce(v) ==
  /\ v.block > 0
  /\ v.capacity > v.original
  /\ v.capacity - v.size >= v.block

Shrinks(v) ==
  /\ v.block > 0
  /\ v.capacity > v.original
  /\ v.capacity - v.size >= 2 * v.block

\* A realloc that fails is ignored.
VectorShrink(v, enough) ==
  IF Shrinks(v) /\ enough THEN Reallocated(v, v.capacity - v.block) ELSE v

Removed(v, enough) == VectorShrink([v EXCEPT !.size = @ - 1], enough)

-----------------------------------------------------------------------------
\* The calls.

VectorAppend(item, enough) ==
  /\ IsFull(vector) => vector.capacity + vector.block <= MostSlots
  /\ vectorReturned' = Code(AppendCode(vector, enough))
  /\ vector' = IF AppendCode(vector, enough) = "success"
                 THEN Appended(vector, item) ELSE vector

VectorRemove(enough) ==
  IF vector.size = 0
    THEN vectorReturned' = Code("size_is_zero") /\ UNCHANGED vector
    ELSE /\ vectorReturned' = Result("success", vector.data[vector.size - 1])
         /\ vector' = Removed(vector, enough)

VectorGet(index) ==
  /\ vectorReturned' = IF index >= vector.size
                         THEN Code("index_out_of_bounds")
                         ELSE Result("success", vector.data[index])
  /\ UNCHANGED vector

VectorSet(index, item) ==
  IF index >= vector.size
    THEN vectorReturned' = Code("index_out_of_bounds") /\ UNCHANGED vector
    ELSE vectorReturned' = Code("success") /\ vector' = [vector EXCEPT !.data[index] = item]

\* The stack is the vector with its last item on top: StackPush and StackPop
\* are VectorAppend and VectorRemove with the codes renamed.  StackTop of an
\* empty stack must not ask for the index below 0.
StackTop ==
  /\ vectorReturned' = IF vector.size = 0
                         THEN Code("size_is_zero")
                         ELSE Result("success", vector.data[vector.size - 1])
  /\ UNCHANGED vector

VectorNext ==
  \/ \E item \in VectorItems, enough \in BOOLEAN : VectorAppend(item, enough)
  \/ \E enough \in BOOLEAN : VectorRemove(enough)
  \/ \E index \in 0..MostSlots : VectorGet(index)
  \/ \E index \in 0..MostSlots, item \in VectorItems : VectorSet(index, item)
  \/ StackTop

VectorSpec == VectorCreate /\ [][VectorNext]_vectorVars

-----------------------------------------------------------------------------
\* Properties.

\* The items are all in the array, and only they are used: no realloc has
\* cut one off, and no slot below the size is one that was never written.
ItemsInArray ==
  /\ vector.size <= vector.capacity
  /\ DOMAIN vector.data = 0..vector.capacity - 1
  /\ \A n \in 0..vector.size - 1 : vector.data[n] # Unset

\* A removal that gives memory back leaves a whole block of room: appending
\* and removing at the border does not allocate each time, and realloc is
\* never asked for nothing (which would free the array).  What the vector
\* was created with is kept.
ShrinkLeavesRoom ==
  [][vector'.capacity < vector.capacity =>
       /\ vector'.capacity >= vector'.size + vector.block
       /\ vector'.capacity > 0
       /\ vector'.capacity >= vector.original]_vectorVars
=============================================================================

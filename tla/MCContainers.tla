---------------------------- MODULE MCContainers ----------------------------
\* Model-checking instance of the containers; a behaviour is one container's
\* and the others rest.  Lists and trees take their nodes from the same
\* memory; which addresses there are does not matter, so they are symmetric.
EXTENDS CircularQueue, DoubleLinkedList, GenHeap, HashMap, BinTree, MCSingleList,
        TLC

VARIABLE subject     \* the container this behaviour is about

heapAndVector == <<vector, vectorReturned, heapSize, heapReturned>>
containersVars ==
  <<subject, vars, listVars, heapAndVector, mapVars, treeVars, singleVars>>

ContainersInit ==
  /\ subject \in {"queue", "list", "vector", "heap", "map", "tree", "single"}
  /\ QueueCreate
  /\ ListCreate
  /\ HashMap_Create /\ (subject # "map" => BucketCount = 2)
  /\ BSTreeCreate
  /\ SingleListInit
  /\ IF subject = "heap"
       THEN HeapBuild /\ vectorReturned = Code("success")
       ELSE /\ VectorCreate /\ heapSize = 0 /\ heapReturned = Code("success")
            /\ subject # "vector" => vector = Created(1, 1)

ContainersNext ==
  /\ \/ /\ subject = "queue" /\ Next
        /\ UNCHANGED <<listVars, heapAndVector, mapVars, treeVars, singleVars>>
     \/ /\ subject = "list" /\ ListNext
        /\ UNCHANGED <<vars, heapAndVector, mapVars, treeVars, singleVars>>
     \/ /\ subject = "vector" /\ VectorNext /\ UNCHANGED <<heapSize, heapReturned>>
        /\ UNCHANGED <<vars, listVars, mapVars, treeVars, singleVars>>
     \/ /\ subject = "heap" /\ HeapNext /\ UNCHANGED vectorReturned
        /\ UNCHANGED <<vars, listVars, mapVars, treeVars, singleVars>>
     \/ /\ subject = "map" /\ MapNext
        /\ UNCHANGED <<vars, listVars, heapAndVector, treeVars, singleVars>>
     \/ /\ subject = "tree" /\ TreeNext
        /\ UNCHANGED <<vars, listVars, heapAndVector, mapVars, singleVars>>
     \/ /\ subject = "single" /\ Keyed
        /\ UNCHANGED <<vars, listVars, heapAndVector, mapVars, treeVars>>
  /\ UNCHANGED subject

ContainersSpec == ContainersInit /\ [][ContainersNext]_containersVars

-----------------------------------------------------------------------------
\* Values of the constants.

Smaller(a, b) == a < b
Self(key) == key

Symmetry == Permutations(Nodes)
=============================================================================

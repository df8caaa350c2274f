SPECIFICATION ContainersSpec
CONSTANTS
  Items = {a, b}
  Capacity = 3
  Garbage = garbage
  Nodes = {n1, n2, n3, n4}
  HeadNode = headNode
  TailNode = tailNode
  ListItems = {a, b}
  NoData = noData
  VectorItems = {1, 2, 3}
  Unset = unset
  InitialCapacities = {0, 1, 4}
  BlockSizes = {0, 1, 2}
  MostSlots = 4
  m_pfComp <- Smaller
  Keys = {0, 2, 3}
  MapValues = {a, b}
  HashFunction <- Self
  MapSizes = {0, 2}
  NoList = noList
  TreeNodes = {n1, n2, n3, n4}
  Top = top
  NoNode = noNode
  TreeItems = {1, 2, 3, 4}
  Persons = {1, 2, 3, 4}
  NoPerson = 0
  m_id <- IdOf
SYMMETRY Symmetry
INVARIANTS
  RingConsistent
  ItemsInArray
  ListedInOrder
PROPERTIES
  ImplementsFifo
  ImplementsSequence
  ShrinkLeavesRoom
  ImplementsPriorityQueue
  ImplementsDictionary
  ImplementsSortedSet
CHECK_DEADLOCK FALSE

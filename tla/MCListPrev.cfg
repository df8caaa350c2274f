SPECIFICATION ListSpec
CONSTANTS
  Nodes = {n1, n2}
  HeadNode = headNode
  TailNode = tailNode
  ListItems = {a, b}
  NoData = noData
PROPERTY BeginStaysBegin

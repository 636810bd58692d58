SPECIFICATION Spec
CONSTANTS
  n1 = n1
  n2 = n2
  n3 = n3
  n4 = n4
  n5 = n5
  a = a
  b = b
  Node <- FiveNodes
  Path <- TwoPaths
  NULL = NULL
  Lost = Lost
  PageListLen = 2
  MaxPlayListLen = 4
SYMMETRY AnyAddress
INVARIANTS
  WellFormed
PROPERTIES
  CrashOnlyAtTheEdges
  SelectionFollows
  ImplementsPlaySeq

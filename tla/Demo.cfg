SPECIFICATION DemoSpec
CONSTANTS
  n1 = n1
  n2 = n2
  n3 = n3
  n4 = n4
  n5 = n5
  n6 = n6
  n7 = n7
  Node <- SevenNodes
  Path <- EightPaths
  Files <- FirstFiles
  NULL = NULL
  Lost = Lost
  PageListLen = 2
  MaxPlayListLen = 7
SYMMETRY AnyAddress
INVARIANTS
  CrashesOnlyWhenShort
  EverythingShown
PROPERTIES
  SavesWithoutTwo

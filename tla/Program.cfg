SPECIFICATION AllSpec
CONSTANTS
  x = x
  p = p
  a1 = a1
  a2 = a2
  Excs = {x}
  Levels = {0, 5}
  Pats = {p}
  MaxDepth = 3
  MaxCount = 2
  Addrs = {a1, a2}
  Sizes = {1}
  Empty = Empty
  Blocks = {b1, b2, b3, b4}
  Requests = {1, 3, 4, 7, 9}
  MinSize = 2
  Word = 16
SYMMETRY Symmetry
INVARIANTS
  ScopesAgree
  UsedIsLive
  PoolTypeOK
  OnOneList
  UnusedIsSorted
PROPERTIES
  ReportsAreRight
  ReusesWhenItCan
  ImplementsAllocator
CHECK_DEADLOCK FALSE

SPECIFICATION Spec
CONSTANTS
  k1 = k1
  k2 = k2
  k3 = k3
  k4 = k4
  Keys = {k1, k2, k3, k4}
  Vals = {u, v}
  Hash <- HashLow
  Empty = Empty
  Absent = Absent
  Null = Null
  Wild = Wild
  vec_MIN_ELEM = 8
  Word = 1000000
  MaxMax = 16
INVARIANTS
  TypeOK
  EveryElementIsFound
  RobinHoodOrder
PROPERTY
  ImplementsKeyMap

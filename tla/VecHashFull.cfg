SPECIFICATION Spec
CONSTANTS
  k1 = k1
  k2 = k2
  k3 = k3
  k4 = k4
  Keys <- KeysSpread
  Vals = {u}
  Hash <- HashSpread
  Empty = Empty
  Absent = Absent
  Null = Null
  Wild = Wild
  vec_MIN_ELEM = 8
  Word = 1000000
  MaxMax = 16
INVARIANTS
  SomeSlotIsEmpty
  CountBounds

SPECIFICATION Spec
CONSTANTS
  Values = {a, b}
  Null = Null
  Wild = Wild
  Blank = Blank
  vec_MIN_ELEM = 2
  MaxMax = 6
  vec_MAX_CNT = 8
INVARIANTS
  TypeOK
  TailFollowsHead
  NoBlankElement
  GrowthMoveIsLegal
PROPERTIES
  NextVisitsInOrder
  ImplementsFifo

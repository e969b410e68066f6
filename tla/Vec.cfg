SPECIFICATION AllSpec
CONSTANTS
  a = a
  c = c
  d = d
  x = x
  y = y
  Elems = {a, c, d}
  Cmps = {"up", "down"}
  NoCmp = NoCmp
  Rank <- MCRank
  Small = 1
  vec_MIN_ELEM = 2
  MaxMax = 6
  Hole = 1
  Args = {a, c}
  Fill = d
  None = None
  Nul = Nul
  Junk = Junk
  Newline = x
  Letters = {x}
  Texts <- MCTexts
  Names <- MCNames
  Words = {y}
  StrMin <- MCStrMin
  StrLimits <- MCStrLimits
INVARIANTS
  TypeOK
  FlagTellsTheTruth
  RangesInPlace
  StackIsShallow
  StringsAreKept
PROPERTIES
  SetCallsAreRight
  EveryCallReturns
  ImplementsList

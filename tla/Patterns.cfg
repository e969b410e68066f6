SPECIFICATION Spec
CONSTANTS
  Calls <- CallsMore
  MaxCapt = 6
  Inf = 99
  Enough = 5
  Lower <- MCLetters
  None = None
  Grammars = {}
  TextsFor <- NoTexts
  Start = "S"
INVARIANT
  ExampleMatches
CHECK_DEADLOCK FALSE

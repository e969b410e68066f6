SPECIFICATION Spec
CONSTANTS
  Data = {}
  MaxNodes = 8
  QueRoom = 1
  Careful = FALSE
INVARIANT
  DetachAssertion

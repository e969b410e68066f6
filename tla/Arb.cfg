SPECIFICATION Spec
CONSTANTS
  Data = {7}
  MaxNodes = 4
  QueRoom = 1
  Careful = TRUE
INVARIANTS
  TreeOrFree
  LinksAgree
  CountIsTreeAndLost
  DetachAssertion
PROPERTY
  ImplementsArbTree

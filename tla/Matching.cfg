SPECIFICATION LibSpec
CONSTANTS
  Calls <- MCCalls
  MaxCapt = 6
  Inf = 99
  Enough = 5
  Lower <- MCLower
  None = None
  Grammars <- MCGrammars
  TextsFor <- MCTextsFor
  Start = "S"
  c1 = c1
  c2 = c2
  c3 = c3
  Peers = {c1, c2, c3}
  srvsock = 2
  MaxSock = 4
  MaxChunks = 1
  NoPeer = NoPeer
INVARIANTS
  CapturesInText
  MatchesAsDocumented
  MemoChangesNothing
  ParsesAsPEG
  ServesOnlyReady
PROPERTIES
  MatchEnds
  EveryPeerIsServed
CHECK_DEADLOCK FALSE

SPECIFICATION Spec
CONSTANTS
  Inputs <- Mixed
  AllocElts = 3
  MaxMatchSplit = 5
  LargeLook = 4
  Mode <- MCMode
INVARIANTS EncodesWindow BufferSound MatchGoesOn SourceWindowCovers
CHECK_DEADLOCK FALSE

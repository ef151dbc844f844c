SPECIFICATION MatchSpec
CONSTANTS
  Inputs <- MCInputs
  AllocElts = 3
  MaxMatchSplit = 5
  LargeLook = 5
  LargeStep = 4
  SmallChain = 3
  SmallLChain = 2
  LongEnough = 7
  SprevSize = 8
  Far4 = 10
  Far5 = 12
  Mode <- MCMode
  LargeHash <- MCLargeHash
  SmallHash <- MCSmallHash
INVARIANTS EncodesWindow NeverInternal SourceMatchMaximal IndexTrue
PROPERTY MatchTerminates
CHECK_DEADLOCK FALSE

SPECIFICATION MCFairSpec
CONSTANTS
  Radix = 8
  UsizeMod = 512
  XoffMod = 512
  UintMod = 512
  SNear = 1
  SSame = 1
  BlkSize = 4
  Source <- MCSource
  Deltas <- AllDeltas
  FeedSizes = {1, 20}
  Magic <- MCMagic
  CodeTable <- MCCodeTable
  Adler32 <- MCAdler32
  HardMaxWin = 24
  AllocSize = 8
  FlagChoices = {{}, {"ADLER32_NOVER"}, {"SKIP_WINDOW"}, {"SKIP_EMIT"}, {"JUST_HDR"}}
  SourceChoices = {"none", "set_source", "set_source_and_size"}
PROPERTIES DecodesFile Terminates
INVARIANTS TypeOK InputConserved SectionsLive PositionExact EndsAtWindow OutputBounded CopyInside

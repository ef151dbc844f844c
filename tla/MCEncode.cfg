SPECIFICATION FairSpec
CONSTANTS
  Radix = 128
  UsizeMod = 2097152
  XoffMod = 2097152
  UintMod = 2097152
  SNear = 4
  SSame = 3
  BlkSize = 16
  Source <- MCSource
  Magic <- MCMagic
  Adler32 <- MCAdler32
  HardMaxWin = 1000
  PageSize = 6
  Configs <- MCConfigs
INVARIANTS TypeOK InputInOrder FreesEachPageOnce DeltaMeansInput ClosedComplete
PROPERTY Terminates

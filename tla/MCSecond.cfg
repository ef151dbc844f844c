SPECIFICATION MCSpec
CONSTANTS
  ByteBits = 3
  SECONDARY_MIN_SAVINGS = 0
  SECONDARY_MIN_INPUT = 2
  AlphabetSize = 4
  MaxSymbols = 6
  Alphabet = 7
  DJW_MAX_CODELEN = 4
  DJW_CLCLEN_BITS = 2
  DJW_MAX_CLCLEN = 3
  DJW_GBCLEN_BITS = 2
  DJW_MAX_GBCLEN = 3
  DJW_GROUP_BITS = 2
  DJW_MAX_GROUPS = 4
  DJW_SECTORSZ_MULT = 2
  DJW_SECTORSZ_BITS = 2
  DJW_EXTRA_CODE_BITS = 2
  DJW_MAX_ITER = 3
  DJW_MIN_IMPROVEMENT = 2
  EFFICIENCY_BITS = 2
  djw_encode_12basic <- MCBasic
  djw_encode_12extra <- MCExtra
  Suggested <- MCSuggested
  SectorDefault <- MCSectorDefault
  Jobs <- MCJobs
INVARIANTS SameSymbols TreesSound SectionComesBack
CHECK_DEADLOCK FALSE

SPECIFICATION Spec
CONSTANTS
  MaxLruSize = 3
  MaxBlkno = 7
  Files <- MCFiles
INVARIANTS LabelsTrue CurrentBlockHolds WindowKept KeepsRecent EofTrue

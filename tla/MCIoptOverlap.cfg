SPECIFICATION Spec
CONSTANTS
  Inputs <- FewSlots
  AllocElts = 3
  MaxMatchSplit = 5
  LargeLook = 4
  Mode <- MCMode
INVARIANTS Contiguous
CHECK_DEADLOCK FALSE

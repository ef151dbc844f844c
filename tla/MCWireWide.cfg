SPECIFICATION WireSpec
CONSTANTS
  Radix = 2
  UsizeMod = 16
  XoffMod = 16
  UintMod = 8
  SNear = 2
  SSame = 1
  MaxHere = 11
  CopySizes = {1, 4}
  Arrivals <- MCArrivals
  MaxGiven = 3
INVARIANT Shortest
CHECK_DEADLOCK FALSE

SPECIFICATION BreakSpec
CONSTANTS
  AddressMax = 9
  BreakStart = 3
  BreakLimit = 7
  BreakArg = {5, 9}
  Increment <- MCIncrement
  OffMax = 3
  PosMax = 14
  FileSize = 6
  Offset <- MCOffset
INVARIANTS
  BrkZeroMeansMoved

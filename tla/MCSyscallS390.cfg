SPECIFICATION Spec
CONSTANTS
  Arch <- MCArchS390
  WordSize = 16
  MaxErrno = 3
  IntResult = {0, 7}
  PtrResult = {4, 12}
  Error = {1, 3}
  MaxSignals = 1
INVARIANTS
  NumberKept

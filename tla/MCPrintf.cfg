SPECIFICATION Spec
CONSTANTS
  Format <- MCFormat
  Argument <- MCArgument
  Modulus <- MCModulus
  Size = {0, 1, 3}
  SizeMax = 100
  MaxFailures = 1
  CallErrno = 0
  WriteErrno = {5}
INVARIANTS
  TypeOK
  PrintsFormat
  Truncates
  FailureCutsText
CHECK_DEADLOCK FALSE

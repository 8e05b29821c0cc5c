SPECIFICATION Spec
CONSTANTS
  MemSize = 5
  Byte = {0, 1, 255}
  CharArg <- MCCharArg
  SizeMax = 15
  SizeArg = {0, 1, 2, 3, 15}
  Modulus <- MCModulus
  NumberText <- MCNumberText
  BaseArg <- MCBase
  Piece <- MCPiece
  Printing <- MCPrinting
  ScanFormat <- MCScanFormat
  ScanText <- MCScanText
  Word <- MCWord
  Argc = {1, 3, 4}
  OptString <- MCOptString
  MaxRescans = 1
INVARIANTS
  StringsAsDefined
  NumbersReadBack
  GetoptTypeOK
  PositionUnread
  OptionsOfArgv
PROPERTIES
  LoopEnds
CHECK_DEADLOCK FALSE

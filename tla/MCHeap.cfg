SPECIFICATION Spec
CONSTANTS
  PageSize = 4
  HeaderSize = 2
  SizeMax = 31
  Address <- MCAddress
  Request = {0, 2, 3, 11, 29, 31}
  StrLen = {2}
INVARIANTS
  TypeOK
  BlocksDisjoint
  NothingLost
  CapacityCoversRequest
PROPERTIES
  FailedCallKeepsBlocks
  AllocatorSpec
CHECK_DEADLOCK FALSE

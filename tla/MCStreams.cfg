SPECIFICATION Spec
CONSTANTS
  Writer = {1, 2}
  Reader = 0
  Capacity = 2
  Quota <- MCQuota
  MaxBytes = 3
  LineSize = {3}
  MaxErrors = 1
INVARIANTS
  TypeOK
  ItemsCounted
  InOrderOnce
  NothingDropped
PROPERTIES
  CallsReturn
  EverythingRead
CHECK_DEADLOCK FALSE

SPECIFICATION DirentSpec
CONSTANTS
  Process = {p1}
  Parent = p1
  MaxFd = 0
  Desc = {d1}
  Closed = Closed
  NEntries = 3
  Batch = 2
  BadCookie = {3}
  MaxDirErrors = 0
INVARIANTS
  NotSkipped

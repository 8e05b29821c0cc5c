SPECIFICATION DirentSpec
CONSTANTS
  Process = {p1, p2}
  Parent = p1
  MaxFd = 0
  Desc = {d1, d2}
  Closed = Closed
  NEntries = 3
  Batch = 2
  BadCookie = {}
  MaxDirErrors = 1
INVARIANTS
  EachEntryOnce
  ZeroMeansResult
PROPERTIES
  EveryEntryListed
  StreamsAreListings

SPECIFICATION WaitSpec
CONSTANTS
  Child = {2}
  ParentPid = 10
  ExitStatus = {0, 257}
  FatalSignal = {6}
  Options <- MCOptions
  IntMin <- MCIntMin
  MaxInterrupts = 1
INVARIANTS
  SignaledMeansKilled

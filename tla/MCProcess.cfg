SPECIFICATION Spec
CONSTANTS
  Argc = {0, 2}
  EnvV <- MCEnvV
  AuxV <- MCAuxV
  Name <- MCName
  AuxType = {0, 3, 6, 23}
  Bit = {0, 1}
  GuardAddress = {1}
  Preinits = 1
  Inits = 2
  Finis = 2
  ExitCode <- MCExitCode
  MsPerSec = 2
  UsPerMs = 2
  IntMax = 3
  TimeMax = 3
  SleepArg <- MCSleepArg
  MaxSignals = 3
  AddressMax = 9
  BreakStart = 3
  BreakLimit = 7
  BreakArg = {0, 5, 9}
  Increment <- MCIncrement
  OffMax = 3
  PosMax = 14
  FileSize = 6
  Offset <- MCOffset
  KSecMax = 4
  NsPerUs = 2
  NsPerSec = 4
  UserTime <- MCUserTime
  StackTime <- MCStackTime
  FdMax = 2
  FileName = {"a"}
  StreamMode <- MCStreamMode
  Wild = {5}
  Child = {2, 3}
  ParentPid = 10
  ExitStatus = {0, 257}
  FatalSignal = {6}
  Options <- MCOptions
  IntMin <- MCIntMin
  MaxInterrupts = 1
INVARIANTS
  FunctionsInOrder
  LookupsFind
  SleepsAsAsked
  PositionsTold
  HandlesMeanFiles
  StatusIsKernels
PROPERTIES
  TimesTold
  SleepLoopEnds
  SelectedChild
  NoZombieStays
CHECK_DEADLOCK FALSE

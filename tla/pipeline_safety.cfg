CONSTANTS
  MaxFd = 12
  Files <- MCFiles
  NoFile = NoFile
  BadFiles <- MCBadFiles
  Lines <- MCLines
  MaxStages = 3
  PipeCap = 1
  BuiltinOutput = 1
  MaxOutput = 2
  MaxLines = 2
  MaxSignals = 1
  MaxStops = 1
  ExitCodes = {0, 1}
  ModeChangers = {"filter", "quit"}
  ForkMayFail = TRUE
SPECIFICATION Spec
INVARIANTS
  TypeOK
  Inv
  DescriptorInv
  NoChildLeftBehind
  TerminalOwnership
  NoDescriptorLeak
  OnlyEarlierStagesHoldWriteEnd
  PipesConnectNeighbours
PROPERTY
  ImplementsCommandChain
CHECK_DEADLOCK FALSE

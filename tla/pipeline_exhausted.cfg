CONSTANTS
  MaxFd = 5
  Files <- MCFiles
  NoFile = NoFile
  BadFiles <- MCBadFiles
  Lines <- MCLeakyLines
  MaxStages = 2
  PipeCap = 1
  BuiltinOutput = 1
  MaxOutput = 2
  MaxLines = 3
  MaxSignals = 0
  MaxStops = 0
  ExitCodes = {0, 1}
  ModeChangers = {"filter", "quit"}
  ForkMayFail = TRUE
SPECIFICATION Spec
INVARIANTS
  NoChildLeftBehind
  TerminalOwnership
CHECK_DEADLOCK FALSE

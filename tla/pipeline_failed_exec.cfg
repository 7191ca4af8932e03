CONSTANTS
  MaxFd = 12
  Files <- MCFiles
  NoFile = NoFile
  BadFiles <- MCBadFiles
  Lines <- MCMissingFirst
  MaxStages = 3
  PipeCap = 1
  BuiltinOutput = 1
  MaxOutput = 2
  MaxLines = 2
  MaxSignals = 0
  MaxStops = 0
  ExitCodes = {0}
  ModeChangers = {}
  ForkMayFail = FALSE
SPECIFICATION Spec
PROPERTIES
  FailedExecIsHandled

CONSTANTS
  Byte <- MCHistoryByte
  Whitespace <- MCWhitespace
  Nul = "0"
  GrouthBy = 2
  MaxBlocks = 2
  Letters <- MCHistoryLetters
  Space = " "
  Backslash <- MCBackslash
  Garbage <- MCClean
  ReportMayBeLost = FALSE
  MaxHistory = 2
  MaxText = 2
  MaxEntered = 3
SPECIFICATION Spec
INVARIANTS
  HistoryIsLatest
PROPERTY
  ImplementsEditing

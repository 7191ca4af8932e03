CONSTANTS
  Byte <- MCByte
  Whitespace <- MCWhitespace
  Nul = "0"
  GrouthBy = 1
  MaxBlocks = 5
  Letters <- MCLetters
  Space = " "
  Backslash <- MCBackslash
  Garbage <- MCGarbage
  ReportMayBeLost = TRUE
  MaxHistory = 1
  MaxText = 4
  MaxEntered = 0
SPECIFICATION Spec
INVARIANTS
  TypeOK
  ScreenShowsLine
PROPERTY
  ImplementsEditing

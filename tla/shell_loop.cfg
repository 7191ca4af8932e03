CONSTANTS
  Parts <- MCParts
  Lines <- MCLines
  Directories <- MCDirectories
  Chdir <- MCChdir
  NamesInOrder <- MCNames
  Statuses <- MCStatuses
  ListSize = 1
  GrouthBy = 1
  MaxHistory = 1
  MaxTurns = 3
SPECIFICATION Spec
INVARIANTS
  TypeOK
  MemoryInv
  MemoryIsSound
  OnlyKnownLeaks
  SymbolsAreCurrent

CONSTANTS
  Characters <- MCCharacters
  Bursts <- MCBursts
  RowDigit <- MCRowDigit
  ReportSize = 8
  MaxBursts = 2
  MaxDisturbed = 1
SPECIFICATION Spec
INVARIANTS
  TypeOK
  WireInv
  EveryKeyInOrder
  AbortsOnlyDisturbed
  StaysOnItsRow
  TypingAheadOnlyLosesKeys
PROPERTY
  ReportEnds

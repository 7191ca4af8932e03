CONSTANTS
  Lines <- MCLines
  Whitespace <- MCWhitespace
  Unprintable <- MCUnprintable
SPECIFICATION Spec
INVARIANTS
  TypeOK
  ParserInv
  TokensReadBack
  ReadsWhatWasMeant
  RejectsOnlyMalformed
  ParsesAsWritten
  OnlyLastStageRedirects
  PrecautionsFindNothing
PROPERTY
  Terminates

CONSTANTS
  Lines <- MCHighLines
  Whitespace <- MCWhitespace
  Unprintable <- MCUnprintable
SPECIFICATION Spec
INVARIANTS
  AllCasesCovered

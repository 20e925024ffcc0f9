SPECIFICATION FairSpec
CONSTANTS
  Texts <- AllTexts
  MAX_CHARS_IN_NUMERIC_LITERAL = 4
  MaxInt = 255
  MAX_INTERP_DEPTH = 2
INVARIANTS
  NestingMatches
  TokensAsWritten
PROPERTIES
  Terminates
CHECK_DEADLOCK FALSE

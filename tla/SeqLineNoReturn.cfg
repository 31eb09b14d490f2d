SPECIFICATION Spec
CONSTANTS
  Characters <- MCCharacters
  MaxLength = 1
  Lines <- PlainLines
INVARIANT ParsedAsMeant
CHECK_DEADLOCK FALSE

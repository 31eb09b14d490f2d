SPECIFICATION Spec
CONSTANTS
  Characters <- MCCharacters
  MaxLength = 5
  Lines <- GoodLines
INVARIANTS
  TypeOK
  CommentsRemoved
  SpacesRemoved
  ParsedAsMeant
  ThrowsInTextOnly
CHECK_DEADLOCK FALSE

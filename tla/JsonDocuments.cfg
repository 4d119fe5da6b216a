\* Documents of the grammar, with blanks and comments and without, and cut.
SPECIFICATION Spec
CONSTANTS
  Prefix <- MCTexts
  Alphabet = {}
  MaxLength = 0
INVARIANTS AcceptsDocuments CutsAreRefused LeaksOnlyOpenValues
CHECK_DEADLOCK FALSE

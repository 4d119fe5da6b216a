\* Every text of up to seven characters, without comments.
SPECIFICATION Spec
CONSTANTS
  Prefix <- AnyText
  Alphabet <- WithoutComments
  MaxLength = 7
INVARIANTS TypeOK WritesFit PassesAgree NoBadFree LeaksOnlyOpenValues CrashesAtRootOnly ResultIsTheText
CHECK_DEADLOCK FALSE

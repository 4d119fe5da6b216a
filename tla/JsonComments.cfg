\* Every text of up to five characters, with comments.
SPECIFICATION FairSpec
CONSTANTS
  Prefix <- AnyText
  Alphabet <- MCAlphabet
  MaxLength = 5
INVARIANTS ResultIsTheText StaysInText
PROPERTIES Terminates AlwaysForward
CHECK_DEADLOCK FALSE

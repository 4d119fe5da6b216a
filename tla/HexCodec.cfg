\* Bytes to text and back, and text to bytes and back.
SPECIFICATION Spec
CONSTANTS
  Buffers <- MCBuffers
  Strings <- MCStrings
INVARIANTS TypeOK BytesSurvive TextSurvives RejectsAtFirstBadPair BindingsPrintAlike
CHECK_DEADLOCK FALSE

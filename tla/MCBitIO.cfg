SPECIFICATION Spec
CONSTANTS
  ByteBits = 7
  BufferBytes = 5
  Fields <- MCFields
  Fills <- MCFills
INVARIANTS TypeOK
PROPERTIES WritesItsField ReadsItsField
CHECK_DEADLOCK FALSE

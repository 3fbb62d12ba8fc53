SPECIFICATION ModesSpec
CONSTANTS
  ByteBits = 2
  BufferBytes = 5
  TextBits = 14
  BlockName = "length"
  Fields <- MCFieldsHex
  LengthBits = {1, 2}
  MaxOpen = 3
  MaxCalls = 7
INVARIANTS HintsKeepNumbers
CHECK_DEADLOCK FALSE

SPECIFICATION ModesSpec
CONSTANTS
  ByteBits = 2
  BufferBytes = 5
  TextBits = 14
  BlockName = "length"
  Fields <- MCFields
  LengthBits = {1, 2}
  MaxOpen = 3
  MaxCalls = 7
INVARIANTS ModesTypeOK LimitsNest RoundTrip TextRoundTrip TextSimulates
PROPERTIES LengthFits WrittenStays
CHECK_DEADLOCK FALSE

SPECIFICATION ParseSpec
CONSTANTS
  ByteBits = 2
  MessageBytes = 5
  TextBits = 14
  BlockName = "length"
  Fields <- MCFields
  LengthBits = {1, 2}
  Tokens <- MCTokens
  MaxTokens = 4
  MaxOpen = 3
INVARIANTS TypeOK LimitsNest TextLimitsNest
PROPERTIES ExactlyAsAnnounced
CHECK_DEADLOCK FALSE

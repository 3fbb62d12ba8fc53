SPECIFICATION Spec
CONSTANTS
  ByteBits = 4
  BufferBytes = 60
  TextBits = 400
  BlockName = "block_length"
  MaxOpen = 4
  Polynomial <- MCPolynomial
  Quote = 8
  Backslash = 9
  LineEnds = {10}
  Printable <- MCPrintable
  Zero = 0
  Bits <- MCBits
  ServiceListTag = 1
  CableTag = 4
  AdaptationTag = 7
  Objects <- MCObjects
  Malformed <- MCMalformed
  Fragile <- MCFragile
  Bursts = {{0}, {0, 2, 3}}
  Leftovers = {0, 46}
  MaxSectionLength = 45
INVARIANTS TypeOK ConstructsWhatFits RoundTrip SameMessage SectionDivides DamageRefused WorkIsBounded
CHECK_DEADLOCK FALSE

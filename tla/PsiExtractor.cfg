SPECIFICATION FairSpec
CONSTANTS
  TSPacketLen = 8
  CCMod = 2
  RequestedSize = 5
  InputBytes = {0, 2, 255}
  InputAFC = {1, 3}
  CopyOrders = {"ascending"}
INVARIANTS TypeOK BufferBound HeldIsUnfinished SectionWellFormed
PROPERTIES Returns ImplementsReassembly

SPECIFICATION FairSpec
CONSTANTS
  TSPacketLen = 10
  CCMod = 2
  Sections <- MCSections
  PIDs = {1, 2}
  AdaLens = {0, 1, 3, 4, 5, 6}
INVARIANTS TypeOK OpenPacketHasRoom PointerInside
PROPERTIES Returns

SPECIFICATION Spec
CONSTANTS
  TSPacketLen = 9
  CCMod = 3
  SectionSizes = {3, 4, 7}
  MaxSections = 3
  SectionsAt <- LinkSections
  AdaLens = {0, 4}
  LimitOfReceiver = 7
  WireBound = 1
  MaxDamage = 0
  CanRepeat = FALSE
INVARIANTS AllDelivered

SPECIFICATION FairSpec
CONSTANTS
  TSPacketLen = 11
  CCMod = 2
  SectionSizes = {3, 4, 9}
  MaxSections = 3
  SectionsAt <- LinkSections
  AdaLens = {0, 3}
  LimitOfReceiver = 9
  WireBound = 1
  MaxDamage = 1
  CanRepeat = TRUE
INVARIANTS CountersAgree AllDelivered NothingForged InOrder DamageIsLocal
PROPERTIES ImplementsQueue EventuallyDelivered

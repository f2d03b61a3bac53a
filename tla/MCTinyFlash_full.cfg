\* Three keys, whose values may be more than a sector holds.
SPECIFICATION FairSpec
CONSTANTS
  PageSize = 6
  SectorSize = 12
  FlashSize = 36
  Byte <- Bytes
  Erased = 7
  And <- BitAnd
  Or <- BitOr
  TornBits <- SomeTornBits
  Start = 0
  TINY_SECHAD_SIZE = 2
  Keys = {1, 2, 3}
  Values <- TwoValues
  InUseMark = 2
ACTION_CONSTRAINT
  LongWrites
PROPERTIES
  WriteReturns

\* Two keys, whose values always fit, with power loss anywhere.  A write that
\* overruns _buf may end the program for good.
SPECIFICATION FairSpec
CHECK_DEADLOCK FALSE
CONSTANTS
  PageSize = 6
  SectorSize = 12
  FlashSize = 36
  Byte <- Bytes
  Erased = 7
  And <- BitAnd
  Or <- BitOr
  TornBits <- SomeTornBits
  Start = 0
  TINY_SECHAD_SIZE = 2
  Keys = {1, 2}
  Values <- LongValues
  InUseMark = 2
ACTION_CONSTRAINT
  Explored
INVARIANT
  TypeOK
PROPERTIES
  KeepsKeys
  WriteReturns

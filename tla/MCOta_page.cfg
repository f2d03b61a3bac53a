\* A page written to any place of the bank.
SPECIFICATION FairSpec
CONSTANTS
  PageSize = 2
  SectorSize = 4
  FlashSize = 20
  Byte <- Bit
  Erased = 1
  And <- BitAnd
  OTA_MAX_SIZE = 8
  Chunks <- SmallChunks
  Addresses <- SomeAddresses
  InitialFlash <- Leftovers
PROPERTY
  EveryPageWritable
CHECK_DEADLOCK FALSE

\* Every command with addresses in and around the bank, and power loss anywhere.
\* Deadlock is not checked: a device that lost power while installing stops,
\* and one whose memory an append has overwritten is not followed any further.
SPECIFICATION FairSpec
CONSTANTS
  PageSize = 2
  SectorSize = 4
  FlashSize = 20
  Byte <- Bit
  Erased = 1
  And <- BitAnd
  OTA_MAX_SIZE = 8
  Chunks <- SmallChunks
  Addresses <- SomeAddresses
  InitialFlash <- Leftovers
INVARIANTS
  TypeOK
  CopyProgress
  ChecksumFresh
PROPERTIES
  CommandsStayInBank
  InstallKeepsBank
  InstallEnds
  InstallsWhole
CHECK_DEADLOCK FALSE

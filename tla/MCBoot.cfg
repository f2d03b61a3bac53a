\* Every boot, save command and power failure, with the firmware's own bytes.
SPECIFICATION BootSpec
CONSTANTS
  PageSize = 32
  SectorSize = 32
  FlashSize = 64
  Byte <- Bytes
  Erased <- EightBits
  And <- BitAnd
  Address = 40
  Header <- PackedHeader
  Defaults <- DefaultOptions
  Or <- BitOr
  TornBits <- SomeTornBits
  InitialFlash <- FirstContents
  CFG_ADR_MAC = 16
  Company <- CompanyId
  PublicDraws <- DrawsOfThree
  StaticDraws <- DrawsOfTwo
INVARIANTS
  BootTypeOK
  StoredIsCurrent
  OneAddress
PROPERTIES
  OnlyDefaultsReplace

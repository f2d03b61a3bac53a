\* Uploads of every shape between redraws and deep sleep.
SPECIFICATION Spec
CONSTANTS
  BufferSize = 4
  TextSize = 3
  Byte <- SomeBytes
  Zero = "zero"
  White = "white"
  Image <- Picture
  Fills = {"white", "zero"}
  Positions <- SomePositions
  ChunkSizes <- SomeSizes
  Text <- ATime
  TiffPicture <- Decoded
INVARIANTS
  TypeOK
  UploadIntact

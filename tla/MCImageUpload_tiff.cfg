\* What the TIFF command displays.
SPECIFICATION Spec
CONSTANTS
  BufferSize = 4
  TextSize = 3
  Byte <- SomeBytes
  Zero = "zero"
  White = "white"
  Image <- Picture
  Fills = {"white", "zero"}
  Positions <- SomePositions
  ChunkSizes <- SomeSizes
  Text <- ATime
  TiffPicture <- Decoded
PROPERTY
  TiffShowsUpload

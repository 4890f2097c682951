\* One bitmap, uncompressed formats, memory may run out.
CONSTANTS
  Handles = {h1}
  Shapes <- MCShapes
  Formats <- MCFormats
  MipArgs = {0, 1, 4}
  ArraySizes = {1, 3}
  Edges = {0, 1, 3}
  Uint32Max = 6
  AllocMayFail = TRUE
SPECIFICATION Spec
INVARIANTS
  BufferMatchesDimensions
  LevelsTileBuffer
  LoopsStayInside
  DownsampleKeepsElements
  ElementsSurviveMoves
  SuccessMeansValid
PROPERTIES
  FailureKeepsOrDestroys
  NoRevival
  ConversionKeepsPixels

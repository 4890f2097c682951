\* Two bitmaps that are moved and converted into each other, with blocks.
CONSTANTS
  Handles = {h1, h2}
  Shapes <- MCOddShapes
  Formats <- MCBlockFormats
  MipArgs = {1}
  ArraySizes = {1}
  Edges = {0}
  Uint32Max = 6
  AllocMayFail = TRUE
SPECIFICATION Spec
INVARIANTS
  IInv
  LevelsTileBuffer

\* Even sides that do not stay even.
CONSTANTS
  Handles = {h1}
  Shapes <- MCEvenShapes
  Formats <- MCFormats
  MipArgs = {1, 3}
  ArraySizes = {1}
  Edges = {0, 2, 4}
  Uint32Max = 6
  AllocMayFail = FALSE
SPECIFICATION Spec
INVARIANT DownsampleWorksOnEvenSizes

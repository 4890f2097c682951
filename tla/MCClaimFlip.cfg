\* A TGA picture that is stored from right to left, and nothing fails.
CONSTANTS
  Strings = {"k", "v", ""}
  Length <- MCLength
  StreamFails = FALSE
  MemoryFails = FALSE
  Uint16Range = 4
  PngSideMax = 4
  Scenes <- MCMirroredScenes
  LostBytes = {1}
  MaxCalls = 1
SPECIFICATION Spec
PROPERTY EveryReadReturns
CHECK_DEADLOCK FALSE

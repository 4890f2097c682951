\* A PSD picture that loses its last byte, and nothing fails.
CONSTANTS
  Strings = {"k", "v", ""}
  Length <- MCLength
  StreamFails = FALSE
  MemoryFails = FALSE
  Uint16Range = 4
  PngSideMax = 4
  Scenes <- MCTruncatedScenes
  LostBytes = {1}
  MaxCalls = 1
SPECIFICATION Spec
PROPERTY TruncatedReadFails
CHECK_DEADLOCK FALSE

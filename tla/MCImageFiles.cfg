\* A caller that reads and saves through every handler.
CONSTANTS
  Strings = {"k", "v", ""}
  Length <- MCLength
  StreamFails = TRUE
  MemoryFails = TRUE
  Uint16Range = 4
  PngSideMax = 4
  Scenes <- MCScenes
  LostBytes = {1, 27}
  MaxCalls = 2
SPECIFICATION Spec
INVARIANTS
  TypeOK
  PixelsStayInside
  
PROPERTIES
  ImplementsContract
  NoHalfPicture
  CallsReturn
CHECK_DEADLOCK FALSE

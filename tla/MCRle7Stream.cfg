\* Values and runs, kept to 5, 6 or 7 bits, frame after frame.
CONSTANTS
  LengthMax = 1
  GridFrames <- MCFrames
  GridBits = {5, 6, 7}
SPECIFICATION StreamSpec
INVARIANTS
  NothingDrifts
  CodeFitsFrame
PROPERTIES
  StillImageStands

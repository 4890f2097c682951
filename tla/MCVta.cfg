\* Two grids of two frames, a decoder, writes and reads that fail.
CONSTANTS
  LengthMax = 255
  GridLists <- MCGridLists
  FrameCounts = {2}
  Images <- MCImages
  Keys = {k1}
  Values = {v1}
  Views = {d1}
  ReadsMayFail = TRUE
  WritesMayFail = TRUE
SPECIFICATION Spec
INVARIANTS
  TypeOK
  DecodersShowTheFilm
  LoadedIsTheFirstFrame
  OffsetsLeadToFrames
PROPERTIES
  DecodersAreProjectors

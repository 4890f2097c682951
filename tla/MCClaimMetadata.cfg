\* A file with metadata, written and read without failures.
CONSTANTS
  LengthMax = 255
  GridLists <- MCGridLists
  FrameCounts = {1}
  Images <- MCImages
  Keys = {k1}
  Values = {v1}
  Views = {d1}
  ReadsMayFail = FALSE
  WritesMayFail = FALSE
SPECIFICATION Spec
INVARIANT MetadataIsRead

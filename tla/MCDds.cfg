\* Textures of all shapes, saved and read without their largest levels.
CONSTANTS
  Images <- MCImages
  ForeignFiles <- MCForeignFiles
  SkipCounts = {0, 1, 2, 5}
  MaxCounts = {0, 2, 99}
  CallsMayFail = TRUE
SPECIFICATION Spec
INVARIANTS
  SoundBitmap
  LevelsComeFromTheFile
  MetadataFollowsPixels
  SavedIsReadBack
PROPERTIES
  NoHalfImage

\* A wide texture without its largest levels: LowerResolutionIsRead is violated.
CONSTANTS
  Images <- MCImages
  ForeignFiles <- MCForeignFiles
  SkipCounts = {0, 1, 2, 5}
  MaxCounts = {0, 2, 99}
  CallsMayFail = TRUE
SPECIFICATION Spec
INVARIANTS
  LowerResolutionIsRead

SPECIFICATION TestSpec
CONSTANTS
  Resolution = 2
  SampleCount = 2
  TestCount = 2
  Bsdfs = 1
  MaxBsdfs = 1
  MaxScenes = 3
  MaxValues = 3
INVARIANTS CountsThisTest SameCell ReadsInBounds ReturnsOnlyIfAllPassed
CHECK_DEADLOCK FALSE

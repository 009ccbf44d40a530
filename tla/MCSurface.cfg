SPECIFICATION SurfaceSpec
CONSTANTS
  IORs <- SomeIORs
  Grid = 9
  MaxBounces = 4
  Sizes <- Square
  Repeats = 2
INVARIANTS DirectionExists ReadsInImage
CHECK_DEADLOCK FALSE

SPECIFICATION Spec
CONSTANTS MaxBsdfs = 2 MaxScenes = 3 MaxValues = 3
INVARIANT ReadsInBounds
CHECK_DEADLOCK FALSE

\* 3x2 pixels in blocks of 2, a quarter pixel as the unit; filters with a radius
\* of a half (box), of 3/4, 5/4 and 2 pixels (gaussian).
CONSTANTS
    SizeX = 3
    SizeY = 2
    BlockSize = 2
    Unit = 4
    Radii = {2, 3, 5, 8}
    Resolution = 4
    MaxSamples = 2
SPECIFICATION Spec
INVARIANTS TypeOK NothingLost AccessesInBounds

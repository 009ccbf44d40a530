\* 7x5 pixels in blocks of 2: a 4x3 grid with a cut last column and row.
CONSTANTS
    SizeX = 7
    SizeY = 5
    BlockSize = 2
    Threads = {t1, t2, t3}
    NoThread = NoThread
    NoBlock = NoBlock
SPECIFICATION Spec
SYMMETRY ThreadSymmetry
INVARIANTS TypeOK RefusedWhenComplete RegionsTileImage CenterFirst LegsBounded
PROPERTIES NoBlockTwice ImplementsWorkPool

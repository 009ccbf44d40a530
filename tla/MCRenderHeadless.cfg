\* No window; 1x4 blocks of one pixel; the render thread and two more TBB threads.
CONSTANTS
    SizeX = 1
    SizeY = 4
    BlockSize = 1
    Workers = {w1, w2, w3}
    Master = w1
    Main = Main
    None = None
    Gui = FALSE
    DrawMayThrow = FALSE
SPECIFICATION Spec
INVARIANTS NeverRefused SavedImageComplete
\* The process exits.
CHECK_DEADLOCK FALSE

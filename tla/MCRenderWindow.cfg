\* A window that the user may close at any time; 2x2 blocks of one pixel; the
\* render thread and one more TBB thread; a draw may fail while it
\* holds the lock of the image.
CONSTANTS
    SizeX = 2
    SizeY = 2
    BlockSize = 1
    Workers = {w1, w2}
    Master = w1
    Main = Main
    None = None
    Gui = TRUE
    DrawMayThrow = TRUE
SPECIFICATION FairSpec
INVARIANTS TypeOK FrameNotTorn NoWorkerOutlivesJob
PROPERTIES ImplementsProgressiveImage JobEnds
\* The process exits, or hangs after a failed draw.
CHECK_DEADLOCK FALSE

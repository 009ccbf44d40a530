------------------------------- MODULE Render -------------------------------
(***************************************************************************)
(* One rendering job: render() of src/src/core/main.cpp with the threads   *)
(* it runs.                                                                *)
(*                                                                         *)
(*   - The main thread sets the job up, starts the render thread, draws    *)
(*     the window when there is one (nanogui's main loop around            *)
(*     NoriScreen::draw_contents), joins the render thread and writes the  *)
(*     files.                                                              *)
(*   - The render thread runs tbb::parallel_for over as many indices as    *)
(*     there are blocks; TBB cuts the range into chunks, and the render    *)
(*     thread (Master) and the other TBB threads run the lambda on them.   *)
(*   - The threads meet in the block generator, taken here by what it      *)
(*     promises (WorkPool, which BlockGenerator implements), and in the    *)
(*     image under construction, an ImageBlock with its own mutex.         *)
(*                                                                         *)
(* Data.  A cell of the image is the area of one block.  What it contains  *)
(* is the bag of contributions added to it since the buffer was cleared; a *)
(* contribution is the block that was rendered, with the block whose       *)
(* offset seeded the sampler it was rendered with.  A block also reaches   *)
(* the cells around it, by the border of the reconstruction filter.        *)
(***************************************************************************)
EXTENDS BlockGrid, FiniteSets, Bags

CONSTANTS Workers,          \* the threads that run the lambda
          Master,           \* the one that called parallel_for
          Main,             \* the main thread
          None,             \* no thread, no block, no file
          Gui,              \* started with --gui
          DrawMayThrow      \* the graphics library may fail inside a draw

ASSUME WorkersAssumption ==
    /\ Master \in Workers /\ Main \notin Workers /\ None \notin Workers \cup {Main}
    /\ IsFiniteSet(Workers)
ASSUME FlagsAssumption == Gui \in BOOLEAN /\ DrawMayThrow \in BOOLEAN

Rows == 0 .. NumBlocksY - 1

ASSUME NoneAssumption == None \notin Grid /\ None # 0

Near(i, j) == i - j \in -1 .. 1

\* The cells a block of the image adds to: its own and, through the border,
\* the neighbouring ones.  The border is narrower than a block.
Reach(b) == {c \in Grid : Near(b[1], c[1]) /\ Near(b[2], c[2])}

RowOf(y) == {c \in Grid : c[2] = y}
ReachRows(b) == {y \in Rows : Near(b[2], y)}

\* The image in which exactly the blocks of M have been merged, each once and
\* each rendered with the sampler seeded for it.
Merged(M) == [c \in Grid |-> SetToBag({<<b, b>> : b \in {a \in M : c \in Reach(a)}})]

ASSUME NoFileAssumption == None # Merged(Grid)

-----------------------------------------------------------------------------
VARIABLES
    mainPc,     \* where the main thread is
    renderer,   \* the render thread: not started, rendering, finished
    todo,       \* indices of the range that no chunk contains yet
    chunk,      \* per worker: iterations of the lambda's loop it has left
    pc,         \* per worker: where it is in the loop body
    pending,    \* block generator: blocks nobody received      (WorkPool)
    phase,      \* block generator: the call a worker is in     (WorkPool)
    held,       \* per worker: the block its ImageBlock stands for (WorkPool)
    content,    \* per worker: what that ImageBlock contains
    line,       \* per worker: the row of the image it merges into
    loaded,     \* per worker: the cells of that row as it read them
    result,     \* the image under construction
    mutex,      \* the owner of the mutex of the image
    texture,    \* what the GPU has of the image
    drawRow,    \* the next row an upload will copy
    shown,      \* the last frame drawn to the end
    exr, png,   \* the output files
    exitCode    \* of the process

pool    == <<pending, phase, held>>
worker  == <<chunk, pc, content, line, loaded>>
window  == <<texture, drawRow, shown>>
files   == <<exr, png, exitCode>>
vars    == <<mainPc, renderer, todo, pool, worker, result, mutex, window, files>>

Pool == INSTANCE WorkPool WITH Threads <- Workers, Jobs <- Grid, NoJob <- None

IsImage(i) == i = [c \in Grid |-> i[c]] /\ \A c \in Grid : IsABag(i[c])

\* The types of the state of a job: no thread has more iterations left than the
\* image has blocks.
TypeOK ==
    /\ mainPc \in {"setup", "window", "spawn", "mainloop", "draw", "join",
                   "save", "png", "exit"}
    /\ renderer \in {"none", "rendering", "finished"}
    /\ todo \in 0 .. NumBlocksX * NumBlocksY
    /\ chunk \in [Workers -> 0 .. NumBlocksX * NumBlocksY]
    /\ pc \in [Workers -> {"idle", "next", "lock", "load", "store", "unlock"}]
    /\ Pool!TypeOK
    /\ DOMAIN content = Workers /\ \A w \in Workers : IsABag(content[w])
    /\ line \in [Workers -> Rows \cup {0}]
    /\ IsImage(result) /\ IsImage(texture) /\ IsImage(shown)
    /\ mutex \in Workers \cup {Main, None}
    /\ drawRow \in 0 .. NumBlocksY
    /\ exitCode \in {None, 0, -1}

-----------------------------------------------------------------------------
\* Eigen constructs every Color4f of a new ImageBlock, and these start at zero.
Cleared == [c \in Grid |-> EmptyBag]

Init ==
    /\ mainPc = "setup"
    /\ renderer = "none"
    /\ todo = 0
    /\ chunk = [w \in Workers |-> 0]
    /\ pc = [w \in Workers |-> "idle"]
    /\ Pool!Init
    /\ content = [w \in Workers |-> EmptyBag]
    /\ line = [w \in Workers |-> 0]
    /\ loaded = [w \in Workers |-> <<>>]
    /\ result = Cleared
    /\ mutex = None
    /\ texture = Cleared
    /\ drawRow = 0
    /\ shown = Cleared
    /\ exr = None /\ png = None /\ exitCode = None

-----------------------------------------------------------------------------
(* The main thread.                                                        *)

\* preprocess(), the block generator, the image and result.clear().
Setup ==
    /\ mainPc = "setup"
    /\ result' = Cleared
    /\ mainPc' = IF Gui THEN "window" ELSE "spawn"
    /\ UNCHANGED <<renderer, todo, pool, worker, mutex, window, files>>

\* nanogui::init and NoriScreen, whose constructor draws the first frame.  No
\* other thread exists yet.
OpenWindow ==
    /\ mainPc = "window"
    /\ texture' = result
    /\ shown' = result
    /\ mainPc' = "spawn"
    /\ UNCHANGED <<renderer, todo, pool, worker, result, mutex, drawRow, files>>

\* Either of them throws: main() catches, prints and returns -1.
OpenWindowFails ==
    /\ mainPc = "window"
    /\ exitCode' = -1
    /\ mainPc' = "exit"
    /\ UNCHANGED <<renderer, todo, pool, worker, result, mutex, window, exr, png>>

\* Fault: a range that includes its end.
RangeTooLong == Cardinality(Grid) + 1

\* The number of indices of the range: one per block.
RangeSize == Cardinality(Grid)

\* std::thread render_thread(...): the range is built on that thread, before
\* any block is taken.
Spawn ==
    /\ mainPc = "spawn"
    /\ renderer' = "rendering"
    /\ todo' = RangeSize
    /\ mainPc' = IF Gui THEN "mainloop" ELSE "join"
    /\ UNCHANGED <<pool, worker, result, mutex, window, files>>

\* Fault: the window does not lock the image.
DrawWithoutLock ==
    /\ mainPc = "mainloop"
    /\ drawRow' = 0
    /\ mainPc' = "draw"
    /\ UNCHANGED <<renderer, todo, pool, worker, result, mutex, texture, shown, files>>

\* draw_contents: m_block.lock().
DrawLock ==
    /\ mainPc = "mainloop"
    /\ mutex = None
    /\ mutex' = Main
    /\ drawRow' = 0
    /\ mainPc' = "draw"
    /\ UNCHANGED <<renderer, todo, pool, worker, result, texture, shown, files>>

\* m_texture->upload copies the image row by row.
DrawRow ==
    /\ mainPc = "draw"
    /\ drawRow < NumBlocksY
    /\ texture' = [c \in Grid |-> IF c[2] = drawRow THEN result[c] ELSE texture[c]]
    /\ drawRow' = drawRow + 1
    /\ UNCHANGED <<mainPc, renderer, todo, pool, worker, result, mutex, shown, files>>

\* draw_array and m_block.unlock().
DrawUnlock ==
    /\ mainPc = "draw"
    /\ drawRow = NumBlocksY
    /\ shown' = texture
    /\ mutex' = None
    /\ mainPc' = "mainloop"
    /\ UNCHANGED <<renderer, todo, pool, worker, result, texture, drawRow, files>>

\* A call between lock() and unlock() throws.  nanogui's main loop catches it
\* and returns, and nothing unlocks the image.
DrawThrows ==
    /\ DrawMayThrow
    /\ mainPc = "draw"
    /\ mainPc' = "join"
    /\ UNCHANGED <<renderer, todo, pool, worker, result, mutex, window, files>>

\* The user closes the window, at any time.
CloseWindow ==
    /\ mainPc = "mainloop"
    /\ mainPc' = "join"
    /\ UNCHANGED <<renderer, todo, pool, worker, result, mutex, window, files>>

\* Fault: detach instead of join.
Detach ==
    /\ mainPc = "join"
    /\ mainPc' = "save"
    /\ UNCHANGED <<renderer, todo, pool, worker, result, mutex, window, files>>

\* render_thread.join(), then the screen goes and toBitmap() reads the image.
Join ==
    /\ mainPc = "join"
    /\ renderer = "finished"
    /\ mainPc' = "save"
    /\ UNCHANGED <<renderer, todo, pool, worker, result, mutex, window, files>>

SaveEXR ==
    /\ mainPc = "save"
    /\ exr' = result
    /\ mainPc' = "png"
    /\ UNCHANGED <<renderer, todo, pool, worker, result, mutex, window, png, exitCode>>

\* OpenEXR throws, main() catches: no PNG is tried.
SaveEXRFails ==
    /\ mainPc = "save"
    /\ exitCode' = -1
    /\ mainPc' = "exit"
    /\ UNCHANGED <<renderer, todo, pool, worker, result, mutex, window, exr, png>>

\* savePNG only prints that it failed; the process still returns 0.
SavePNG ==
    /\ mainPc = "png"
    /\ png' \in {result, None}
    /\ exitCode' = 0
    /\ mainPc' = "exit"
    /\ UNCHANGED <<renderer, todo, pool, worker, result, mutex, window, exr>>

-----------------------------------------------------------------------------
(* The workers.                                                            *)

\* TBB calls the lambda on a chunk of n indices: a fresh ImageBlock, which is
\* no block of the image yet, and a fresh clone of the sampler.
TakeChunk(w) ==
    /\ renderer = "rendering"
    /\ pc[w] = "idle"
    /\ \E n \in 1 .. todo :
        /\ todo' = todo - n
        /\ chunk' = [chunk EXCEPT ![w] = n]
    /\ pc' = [pc EXCEPT ![w] = "next"]
    /\ held' = [held EXCEPT ![w] = None]
    /\ content' = [content EXCEPT ![w] = EmptyBag]
    /\ UNCHANGED <<mainPc, renderer, pending, phase, line, loaded, result, mutex,
                   window, files>>

\* blockGenerator.next(block), whose answer is not looked at.
CallNext(w) ==
    /\ pc[w] = "next"
    /\ Pool!Ask(w) \/ Pool!Grant(w) \/ Pool!Refuse(w)
    /\ UNCHANGED <<mainPc, renderer, todo, worker, result, mutex, window, files>>

\* sampler->prepare seeds with the offset of the block; a block that was never
\* handed out stands at the origin.
Place(b) == IF b = None THEN <<0, 0>> ELSE b
SeedFor(b) == Place(b)

\* Fault: the block is not cleared.
PaintedOver(old, b) == old (+) SetToBag({<<Place(b), SeedFor(b)>>})

\* What the ImageBlock contains after renderBlock, which clears it first.
Painted(old, b) == SetToBag({<<Place(b), SeedFor(b)>>})

\* next() has returned: sampler->prepare(block) and renderBlock.
RenderBlock(w) ==
    /\ pc[w] = "next"
    /\ Pool!Return(w)
    /\ content' = [content EXCEPT ![w] = Painted(@, held[w])]
    /\ pc' = [pc EXCEPT ![w] = "lock"]
    /\ UNCHANGED <<mainPc, renderer, todo, chunk, line, loaded, result, mutex,
                   window, files>>

FirstRow(b) == CHOOSE y \in ReachRows(b) : \A z \in ReachRows(b) : y <= z
LastRow(b)  == CHOOSE y \in ReachRows(b) : \A z \in ReachRows(b) : z <= y

\* Fault: put() without its lock.
PutWithoutLock(w) ==
    /\ pc[w] = "lock"
    /\ line' = [line EXCEPT ![w] = FirstRow(Place(held[w]))]
    /\ pc' = [pc EXCEPT ![w] = "load"]
    /\ UNCHANGED <<mainPc, renderer, todo, pool, chunk, content, loaded, result,
                   mutex, window, files>>

\* result.put(block): the scoped lock.
PutLock(w) ==
    /\ pc[w] = "lock"
    /\ mutex = None
    /\ mutex' = w
    /\ line' = [line EXCEPT ![w] = FirstRow(Place(held[w]))]
    /\ pc' = [pc EXCEPT ![w] = "load"]
    /\ UNCHANGED <<mainPc, renderer, todo, pool, chunk, content, loaded, result,
                   window, files>>

\* result.put(block): block(...) += b reads a row of the image,
PutLoad(w) ==
    /\ pc[w] = "load"
    /\ loaded' = [loaded EXCEPT ![w] =
                    [c \in Reach(Place(held[w])) \cap RowOf(line[w]) |-> result[c]]]
    /\ pc' = [pc EXCEPT ![w] = "store"]
    /\ UNCHANGED <<mainPc, renderer, todo, pool, chunk, content, line, result, mutex,
                   window, files>>

\* and writes back the sums.
PutStore(w) ==
    /\ pc[w] = "store"
    /\ result' = [c \in Grid |->
                    IF c \in DOMAIN loaded[w] THEN loaded[w][c] (+) content[w] ELSE result[c]]
    /\ loaded' = [loaded EXCEPT ![w] = <<>>]
    /\ IF line[w] = LastRow(Place(held[w]))
         THEN /\ pc' = [pc EXCEPT ![w] = "unlock"]
              /\ line' = [line EXCEPT ![w] = 0]
         ELSE /\ pc' = [pc EXCEPT ![w] = "load"]
              /\ line' = [line EXCEPT ![w] = @ + 1]
    /\ UNCHANGED <<mainPc, renderer, todo, pool, chunk, content, mutex, window, files>>

\* Fault: put() leaves the image locked.
PutStaysLocked(w) ==
    /\ pc[w] = "unlock"
    /\ chunk' = [chunk EXCEPT ![w] = @ - 1]
    /\ pc' = [pc EXCEPT ![w] = IF chunk[w] = 1 THEN "idle" ELSE "next"]
    /\ UNCHANGED <<mainPc, renderer, todo, pool, content, line, loaded, result,
                   mutex, window, files>>

\* The end of put() and of the loop body.
PutUnlock(w) ==
    /\ pc[w] = "unlock"
    /\ mutex' = None
    /\ chunk' = [chunk EXCEPT ![w] = @ - 1]
    /\ pc' = [pc EXCEPT ![w] = IF chunk[w] = 1 THEN "idle" ELSE "next"]
    /\ UNCHANGED <<mainPc, renderer, todo, pool, content, line, loaded, result,
                   window, files>>

\* parallel_for returns when no index is left and no lambda is running.
Finish ==
    /\ renderer = "rendering"
    /\ todo = 0
    /\ \A w \in Workers : pc[w] = "idle"
    /\ renderer' = "finished"
    /\ UNCHANGED <<mainPc, todo, pool, worker, result, mutex, window, files>>

-----------------------------------------------------------------------------
Drawing == DrawLock \/ DrawRow \/ DrawUnlock
Ending  == Join \/ SaveEXR \/ SaveEXRFails \/ SavePNG
Working(w) == \/ CallNext(w) \/ RenderBlock(w) \/ PutLock(w) \/ PutLoad(w)
              \/ PutStore(w) \/ PutUnlock(w)

Next ==
    \/ Setup \/ OpenWindow \/ OpenWindowFails \/ Spawn
    \/ Drawing \/ DrawThrows \/ CloseWindow \/ Ending
    \/ \E w \in Workers : TakeChunk(w) \/ Working(w)
    \/ Finish

Spec == Init /\ [][Next]_vars

\* Threads are scheduled.  TBB promises that the thread that called
\* parallel_for takes part, not that any other one does; a user need not close
\* the window.
Fairness ==
    /\ WF_vars(Setup \/ OpenWindow \/ OpenWindowFails \/ Spawn)
    /\ WF_vars(DrawRow \/ DrawUnlock)
    /\ WF_vars(Ending)
    /\ WF_vars(Finish)
    /\ WF_vars(TakeChunk(Master))
    /\ \A w \in Workers : WF_vars(Working(w))

FairSpec == Spec /\ Fairness

-----------------------------------------------------------------------------
(* Properties.                                                             *)

\* main.cpp:99 ignores what next() returns: with one index per block nobody may
\* ever be refused, or a stale block would be rendered and merged again.
NeverRefused == \A w \in Workers : phase[w] # "refused"

\* Whatever the chunks, the schedule and the window do, a file that is written
\* is the complete image: every block once, on every cell it reaches, rendered
\* with its own seed.  Exit code 0 promises the EXR file, not the PNG.
SavedImageComplete ==
    /\ exr # None => exr = Merged(Grid)
    /\ png # None => png = Merged(Grid)
    /\ exitCode = 0 => exr # None

\* A frame shows whole blocks: for no block only part of the rows it reaches.
FrameNotTorn == \E M \in SUBSET Grid : shown = Merged(M)

\* The lambda runs on variables of render()'s stack frame: no worker is in it
\* once render() went past the join, or was left by an exception.
NoWorkerOutlivesJob ==
    mainPc \in {"save", "png", "exit"} =>
        /\ renderer \in {"none", "finished"}
        /\ \A w \in Workers : pc[w] = "idle"

\* Once the main thread waits for the render thread (after the window was closed,
\* or at once without one) the process ends: no schedule of the workers, the
\* render thread and the mutex leaves it waiting. A draw that threw left the
\* mutex to the main thread; the workers may then wait for it for ever.
JobEnds == mainPc = "join" /\ mutex # Main ~> mainPc = "exit"

-----------------------------------------------------------------------------
(* Render implements ProgressiveImage: a merge becomes visible with the    *)
(* last row it writes, and a frame with the unlock that ends the draw.     *)

BlocksIn(image) == {b \in Grid : \A c \in Reach(b) : BagIn(<<b, b>>, image[c])}

Progress == INSTANCE ProgressiveImage WITH
    Blocks <- Grid,
    merged <- BlocksIn(result),
    shown  <- BlocksIn(shown),
    saved  <- exr # None

\* Frames never lose a block, a merge is never undone by another one, and a
\* file exists only of the finished image.
ImplementsProgressiveImage == Progress!Spec

=============================================================================

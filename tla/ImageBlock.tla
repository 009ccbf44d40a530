----------------------------- MODULE ImageBlock -----------------------------
(***************************************************************************)
(* Samples on their way into the image: class ImageBlock                   *)
(* (src/src/core/block.cpp) as renderBlock, BlockGenerator::next and the   *)
(* final put() of src/src/core/main.cpp use it.  A sample is splatted with *)
(* the tabulated reconstruction filter into the small block that is being  *)
(* rendered, which has a border for what spills over its edges; the block  *)
(* with its border is then added to the image.  Locks and threads are in   *)
(* Render.                                                                 *)
(*                                                                         *)
(* Lengths are in subunits, Unit to a pixel, so that the floating-point    *)
(* positions of the code are exact here.  Every sample has the colour 1,   *)
(* and the filter takes natural numbers as values.                         *)
(***************************************************************************)
EXTENDS BlockGrid, FiniteSets

CONSTANTS Unit,          \* subunits of a pixel
          Radii,         \* the filter radii considered, in subunits
          Resolution,    \* NORI_FILTER_RESOLUTION, the size of the filter table
          MaxSamples     \* how many samples a behaviour takes

ASSUME UnitAssumption == Unit \in Nat \ {0} /\ Unit % 2 = 0
ASSUME RadiiAssumption == Radii \subseteq Nat \ {0}
ASSUME ResolutionAssumption == Resolution \in Nat \ {0}
ASSUME MaxSamplesAssumption == MaxSamples \in Nat

Floor(a) == a \div Unit
Ceil(a)  == -((-a) \div Unit)
Larger(a, b) == IF a < b THEN b ELSE a
Distance(a, b) == IF a < b THEN b - a ELSE a - b

-----------------------------------------------------------------------------
(* The constructor, for a filter of radius r.                              *)

\* Fault: the border is rounded down.
BorderTooNarrow(r) == Floor(r - Unit \div 2)

\* m_borderSize = ceil(m_filterRadius - 0.5)
BorderSize(r) == Ceil(r - Unit \div 2)

\* Fault: one weight per pixel of the diameter.
WeightsTooShort(r) == Ceil(2 * r)

\* The length of m_weightsX and m_weightsY.
WeightsLength(r) == Ceil(2 * r) + 1

\* m_filter, entries 0 .. Resolution: a filter that falls off towards the
\* radius.  The extra last entry, read at distance r exactly, is zero.
FilterTable(i) == IF i = Resolution THEN 0 ELSE Resolution - i

\* rows() and cols(): resize(size + 2 * m_borderSize).
Length(size, r) == <<size[1] + 2 * BorderSize(r), size[2] + 2 * BorderSize(r)>>
Buffer(size, r) == (0 .. Length(size, r)[1] - 1) \X (0 .. Length(size, r)[2] - 1)
Blank(size, r)  == [p \in Buffer(size, r) |-> 0]

-----------------------------------------------------------------------------
(* put(pos, value), one axis at a time.                                    *)

\* Position s of the image in the coordinates of a buffer whose block starts
\* at pixel offset; pixel x of the buffer has its centre at x there.
Local(s, offset, r) == s - Unit \div 2 - (offset - BorderSize(r)) * Unit

\* The pixels that a sample at local position s touches, clipped to a buffer of
\* that length.
Touched(s, length, r) ==
    Larger(Ceil(s - r), 0) .. Smaller(Floor(s + r), length - 1)

TableIndex(x, s, r) == (Distance(x * Unit, s) * Resolution) \div r

Weight(x, s, r) == FilterTable(TableIndex(x, s, r))

\* The buffer of a block of at most size pixels, now at pixel offset, after a
\* sample at position s of the image.  The buffer keeps its length when setSize
\* makes a block at the edge of the image smaller.
Splat(buffer, s, offset, size, r) ==
    LET sx  == Local(s[1], offset[1], r)
        sy  == Local(s[2], offset[2], r)
        box == Touched(sx, Length(size, r)[1], r) \X Touched(sy, Length(size, r)[2], r)
    IN  [p \in DOMAIN buffer |->
            buffer[p] + IF p \in box THEN Weight(p[1], sx, r) * Weight(p[2], sy, r) ELSE 0]

-----------------------------------------------------------------------------
(* put(b): the top left corner of b, borders included, is added to the     *)
(* image where b belongs.                                                  *)

\* The pixel of the buffer of block b under pixel p of the buffer of the image.
Under(p, b) == <<p[1] - OffsetOf(b)[1], p[2] - OffsetOf(b)[2]>>

Corner(b, r) == Buffer(ExtentOf(b), r)

Sum(into, b, from, r) ==
    [p \in DOMAIN into |->
        into[p] + IF Under(p, b) \in Corner(b, r) THEN from[Under(p, b)] ELSE 0]

-----------------------------------------------------------------------------
(* The filter as it is meant: what a sample at s is worth to pixel p.      *)

Kernel(distance, r) ==
    IF distance <= r THEN FilterTable((distance * Resolution) \div r) ELSE 0

MiddleOf(x) == x * Unit + Unit \div 2

Share(p, s, r) == Kernel(Distance(MiddleOf(p[1]), s[1]), r)
                    * Kernel(Distance(MiddleOf(p[2]), s[2]), r)

-----------------------------------------------------------------------------
Image   == <<SizeX, SizeY>>
Full    == <<BlockSize, BlockSize>>
Pixels  == (0 .. SizeX - 1) \X (0 .. SizeY - 1)
NoBlock == <<-1, -1>>

VARIABLES
    radius,     \* m_filterRadius, the same for every ImageBlock
    image,      \* the ImageBlock result
    tile,       \* the ImageBlock of the worker
    block,      \* the block of the image it stands for, NoBlock between two
    left,       \* the blocks nobody has started
    samples,    \* how many samples were recorded
    expected    \* history: what these samples are worth to each pixel

vars == <<radius, image, tile, block, left, samples, expected>>

\* The types of the state; both buffers keep the length the constructor gave
\* them, whatever setSize says later.
TypeOK ==
    /\ radius \in Radii
    /\ image \in [Buffer(Image, radius) -> Nat]
    /\ tile \in [Buffer(Full, radius) -> Nat]
    /\ block \in Grid \cup {NoBlock}
    /\ left \in SUBSET Grid
    /\ samples \in 0 .. MaxSamples
    /\ expected \in [Pixels -> Nat]

Init ==
    /\ radius \in Radii
    /\ image = Blank(Image, radius)
    /\ tile = Blank(Full, radius)
    /\ block = NoBlock
    /\ left = Grid
    /\ samples = 0
    /\ expected = [p \in Pixels |-> 0]

\* Fault: setSize resizes the buffer.
StartBlockResized ==
    /\ block = NoBlock
    /\ block' \in left
    /\ left' = left \ {block'}
    /\ tile' = Blank(ExtentOf(block'), radius)
    /\ UNCHANGED <<radius, image, samples, expected>>

\* next(block), in whatever order the threads come, and block.clear().
StartBlock ==
    /\ block = NoBlock
    /\ block' \in left
    /\ left' = left \ {block'}
    /\ tile' = Blank(Full, radius)
    /\ UNCHANGED <<radius, image, samples, expected>>

\* Adding a random number in [0, 1) to the pixel in single precision may round
\* up to the edge of the next pixel.
PositionsIn(p) ==
    (p[1] * Unit .. (p[1] + 1) * Unit) \X (p[2] * Unit .. (p[2] + 1) * Unit)

Positions(b) == UNION {PositionsIn(p) : p \in PixelsOf(b)}

\* block.put(pixelSample, value) for a sample of the block.  (A value that is
\* not a valid colour is reported and dropped: nothing changes.)
PutSample ==
    /\ block # NoBlock
    /\ samples < MaxSamples
    /\ samples' = samples + 1
    /\ \E s \in Positions(block) :
        /\ tile' = Splat(tile, s, OffsetOf(block), Full, radius)
        /\ expected' = [p \in Pixels |-> expected[p] + Share(p, s, radius)]
    /\ UNCHANGED <<radius, image, block, left>>

\* result.put(block).
PutBlock ==
    /\ block # NoBlock
    /\ image' = Sum(image, block, tile, radius)
    /\ block' = NoBlock
    /\ UNCHANGED <<radius, tile, left, samples, expected>>

\* Every block is in the image.
Finished == block = NoBlock /\ left = {} /\ UNCHANGED vars

Next == StartBlock \/ PutSample \/ PutBlock \/ Finished

Spec == Init /\ [][Next]_vars

-----------------------------------------------------------------------------
(* Properties.                                                             *)

\* Rendering in blocks is invisible: the image together with the block under
\* way holds, in every pixel, exactly what the recorded samples are worth to it
\* under the reconstruction filter.  No sample is cut off at the edge of a
\* block, and none counts twice where the borders of blocks overlap.
NothingLost ==
    LET pending == IF block = NoBlock THEN image ELSE Sum(image, block, tile, radius)
        border  == BorderSize(radius)
    IN  \A p \in Pixels : pending[<<p[1] + border, p[2] + border>>] = expected[p]

\* No access of put() leaves its array: the weights of a sample fit the arrays
\* sized by the constructor, the filter table is read at most at its extra entry,
\* and the corner that is merged lies within both buffers.
AxisInBounds(s, offset) ==
    LET x == Local(s, offset, radius)
        touched == Touched(x, BlockSize + 2 * BorderSize(radius), radius)
    IN  /\ Cardinality(touched) <= WeightsLength(radius)
        /\ \A i \in touched : TableIndex(i, x, radius) \in 0 .. Resolution

AccessesInBounds ==
    block # NoBlock =>
        /\ \A s \in Positions(block) :
            /\ AxisInBounds(s[1], OffsetOf(block)[1])
            /\ AxisInBounds(s[2], OffsetOf(block)[2])
        /\ Corner(block, radius) \subseteq DOMAIN tile
        /\ \A p \in Corner(block, radius) :
            <<p[1] + OffsetOf(block)[1], p[2] + OffsetOf(block)[2]>> \in DOMAIN image
=============================================================================

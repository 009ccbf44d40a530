----------------------------- MODULE BlockGrid -----------------------------
(***************************************************************************)
(* How an image is cut into blocks: the arithmetic of class BlockGenerator *)
(* (src/src/core/block.cpp), shared by the modules that hand blocks out,   *)
(* render them and merge them.  A point is a pair <<column, row>>.         *)
(***************************************************************************)
EXTENDS Integers

CONSTANTS SizeX, SizeY,   \* the image, in pixels
          BlockSize       \* the side of a block, in pixels

ASSUME SizeAssumption == SizeX \in Nat /\ SizeY \in Nat
ASSUME BlockSizeAssumption == BlockSize \in Nat \ {0}

\* Fault: the division rounds down.
FloorDiv(a, b) == a \div b

\* ceil(size / (float) blockSize)
CeilDiv(a, b) == (a + b - 1) \div b

NumBlocksX == CeilDiv(SizeX, BlockSize)
NumBlocksY == CeilDiv(SizeY, BlockSize)

Grid == (0 .. NumBlocksX - 1) \X (0 .. NumBlocksY - 1)

\* What next() stores in the caller's ImageBlock for block b.
Smaller(a, b) == IF a < b THEN a ELSE b

OffsetOf(b) == <<b[1] * BlockSize, b[2] * BlockSize>>
ExtentOf(b) == <<Smaller(SizeX - OffsetOf(b)[1], BlockSize),
                 Smaller(SizeY - OffsetOf(b)[2], BlockSize)>>

\* The pixels of the image that block b covers.
PixelsOf(b) ==
    (OffsetOf(b)[1] .. OffsetOf(b)[1] + ExtentOf(b)[1] - 1)
        \X (OffsetOf(b)[2] .. OffsetOf(b)[2] + ExtentOf(b)[2] - 1)
=============================================================================

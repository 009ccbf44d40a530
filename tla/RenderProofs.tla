---------------------------- MODULE RenderProofs ----------------------------
(***************************************************************************)
(* Theorems about Render, for every image, block size and set of workers,  *)
(* with and without a window.                                              *)
(***************************************************************************)
EXTENDS Render, FiniteSetTheorems, TLAPS

-----------------------------------------------------------------------------
(* Why it works.  A block is pending, in the hand of one worker, or merged; *)
(* what a cell of the image contains follows from where each block is, and *)
(* the pending blocks suffice for the iterations that are left.            *)

\* Worker w has received the block of its iteration, and is not done with it.
InHand(w) == phase[w] = "granted" \/ pc[w] \in {"lock", "load", "store", "unlock"}

\* The iterations of its chunk for which w still has to receive a block.
Owing(w) == IF InHand(w) THEN chunk[w] - 1 ELSE chunk[w]

Phases ==
    \A w \in Workers :
        /\ phase[w] # "refused"
        /\ pc[w] # "next" => phase[w] = "idle"
        /\ IF pc[w] = "idle" THEN chunk[w] = 0 ELSE chunk[w] > 0

InGoodHands ==
    \A w \in Workers : InHand(w) =>
        /\ held[w] \in Grid \ pending
        /\ pc[w] # "next" => content[w] = SetToBag({<<held[w], held[w]>>})
        /\ \A v \in Workers : InHand(v) /\ held[v] = held[w] => v = w

\* The pending blocks f[b] = w go to the iterations w owes, the others, with
\* f[b] = None, to the indices that no chunk contains yet.
Shares(f) ==
    /\ f \in [pending -> Workers \cup {None}]
    /\ Cardinality({b \in pending : f[b] = None}) = todo
    /\ \A w \in Workers : Cardinality({b \in pending : f[b] = w}) = Owing(w)

OneBlockPerIndex == renderer # "none" => \E f \in [pending -> Workers \cup {None}] : Shares(f)

\* Cell c of the image contains block b: a worker that merges b has passed it.
Passed(w, c) == pc[w] = "unlock" \/ (pc[w] \in {"load", "store"} /\ c[2] < line[w])
Contains(c, b) ==
    /\ c \in Reach(b) /\ b \notin pending
    /\ \A w \in Workers : InHand(w) /\ held[w] = b => Passed(w, c)

ImageSoFar == [c \in Grid |-> SetToBag({<<b, b>> : b \in {a \in Grid : Contains(c, a)}})]

ResultExact == result = ImageSoFar

MergeLocked ==
    \A w \in Workers :
        /\ pc[w] \in {"load", "store", "unlock"} <=> mutex = w
        /\ pc[w] \in {"load", "store"} => line[w] \in ReachRows(held[w])
        /\ pc[w] = "store" =>
             loaded[w] = [c \in Reach(held[w]) \cap RowOf(line[w]) |-> result[c]]

DrawLocked ==
    mainPc = "draw" =>
        /\ mutex = Main
        /\ \A c \in Grid : c[2] < drawRow => texture[c] = result[c]

\* Where the main thread is, and what the render thread and the files are then.
Stages ==
    /\ mainPc \in {"setup", "window", "spawn"} => renderer = "none"
    /\ mainPc \in {"mainloop", "draw", "join"} => renderer # "none"
    /\ mainPc \in {"save", "png"} => renderer = "finished"
    /\ mainPc = "exit" => renderer # "rendering"
    /\ renderer = "none" => pending = Grid
    /\ renderer # "rendering" => todo = 0 /\ \A w \in Workers : pc[w] = "idle"

FilesExact ==
    /\ mainPc \notin {"png", "exit"} => exr = None
    /\ mainPc = "png" => exr # None
    /\ exr # None => renderer = "finished"

\* The inductive invariant.
IInv ==
    /\ TypeOK
    /\ DOMAIN loaded = Workers
    /\ Phases /\ InGoodHands /\ OneBlockPerIndex
    /\ ResultExact /\ MergeLocked
    /\ DrawLocked /\ FrameNotTorn
    /\ Stages /\ FilesExact /\ SavedImageComplete

-----------------------------------------------------------------------------
(* The grid, and the cells a block reaches.                                *)

LEMMA DivNat == ASSUME NEW a \in Nat, NEW b \in Nat \ {0}
                PROVE  a \div b \in Nat
  BY SMT

LEMMA NumBlocksNat == NumBlocksX \in Nat /\ NumBlocksY \in Nat
  <1>1. SizeX + BlockSize - 1 \in Nat /\ SizeY + BlockSize - 1 \in Nat
    BY SizeAssumption, BlockSizeAssumption
  <1> QED
    BY <1>1, DivNat, BlockSizeAssumption DEF NumBlocksX, NumBlocksY, CeilDiv

LEMMA GridFinite ==
    /\ IsFiniteSet(Grid)
    /\ Cardinality(Grid) = NumBlocksX * NumBlocksY
  <1> DEFINE Columns == 0 .. NumBlocksX - 1
  <1>1. IsFiniteSet(Columns) /\ Cardinality(Columns) = NumBlocksX
    BY NumBlocksNat, FS_Interval
  <1>2. IsFiniteSet(Rows) /\ Cardinality(Rows) = NumBlocksY
    BY NumBlocksNat, FS_Interval DEF Rows
  <1>3. Grid = Columns \X Rows
    BY DEF Grid, Rows
  <1> HIDE DEF Columns
  <1>4. /\ IsFiniteSet(Columns \X Rows)
        /\ Cardinality(Columns \X Rows) = Cardinality(Columns) * Cardinality(Rows)
    BY <1>1, <1>2, FS_Product
  <1> QED
    BY <1>1, <1>2, <1>3, <1>4

LEMMA CellType ==
    ASSUME NEW c \in Grid
    PROVE  c = <<c[1], c[2]>> /\ c[1] \in 0 .. NumBlocksX - 1 /\ c[2] \in Rows
  BY NumBlocksNat DEF Grid, Rows

\* The rows a block reaches are those from its first to its last one, and it
\* reaches a cell in each.
LEMMA RowsReached ==
    ASSUME NEW b \in Grid
    PROVE  /\ FirstRow(b) \in ReachRows(b) /\ LastRow(b) \in ReachRows(b)
           /\ \A y \in ReachRows(b) : FirstRow(b) <= y /\ y <= LastRow(b)
           /\ \A y \in ReachRows(b) : y # LastRow(b) => y + 1 \in ReachRows(b)
           /\ \A y \in ReachRows(b) : <<b[1], y>> \in Reach(b)
           /\ \A c \in Reach(b) : c[2] \in ReachRows(b)
           /\ ReachRows(b) \subseteq Rows
  <1>1. b = <<b[1], b[2]>> /\ b[1] \in 0 .. NumBlocksX - 1 /\ b[2] \in 0 .. NumBlocksY - 1
    BY CellType DEF Rows
  <1>2. \A y : y \in ReachRows(b) <=> y \in 0 .. NumBlocksY - 1 /\ b[2] - y \in -1 .. 1
    BY DEF ReachRows, Rows, Near
  <1>3. \E y \in ReachRows(b) : \A z \in ReachRows(b) : y <= z
    <2>1. CASE b[2] = 0
      BY <1>1, <1>2, <2>1, NumBlocksNat
    <2>2. CASE b[2] # 0
      <3>1. b[2] - 1 \in ReachRows(b) /\ \A z \in ReachRows(b) : b[2] - 1 <= z
        BY <1>1, <1>2, <2>2, NumBlocksNat
      <3> QED
        BY <3>1
    <2> QED
      BY <2>1, <2>2
  <1>4. \E y \in ReachRows(b) : \A z \in ReachRows(b) : z <= y
    <2>1. CASE b[2] = NumBlocksY - 1
      BY <1>1, <1>2, <2>1, NumBlocksNat
    <2>2. CASE b[2] # NumBlocksY - 1
      <3>1. b[2] + 1 \in ReachRows(b) /\ \A z \in ReachRows(b) : z <= b[2] + 1
        BY <1>1, <1>2, <2>2, NumBlocksNat
      <3> QED
        BY <3>1
    <2> QED
      BY <2>1, <2>2
  <1>5. FirstRow(b) \in ReachRows(b) /\ \A z \in ReachRows(b) : FirstRow(b) <= z
    BY <1>3 DEF FirstRow
  <1>6. LastRow(b) \in ReachRows(b) /\ \A z \in ReachRows(b) : z <= LastRow(b)
    BY <1>4 DEF LastRow
  <1>7. \A y \in ReachRows(b) : y # LastRow(b) => y + 1 \in ReachRows(b)
    BY <1>1, <1>2, <1>6, NumBlocksNat
  <1>8. \A y \in ReachRows(b) : <<b[1], y>> \in Reach(b)
    BY <1>1, <1>2, NumBlocksNat DEF Reach, Near, Grid
  <1>9. \A c \in Reach(b) : c[2] \in ReachRows(b)
    BY <1>2, CellType DEF Reach, Near, Rows
  <1> QED
    BY <1>2, <1>5, <1>6, <1>7, <1>8, <1>9 DEF Rows

LEMMA ReachesItself == ASSUME NEW b \in Grid PROVE b \in Reach(b)
  BY CellType, NumBlocksNat DEF Reach, Near, Rows

-----------------------------------------------------------------------------
(* Bags.                                                                   *)

LEMMA SetIsABag == ASSUME NEW S PROVE IsABag(SetToBag(S)) /\ DOMAIN SetToBag(S) = S
  BY DEF IsABag, SetToBag

\* Bags of different things add up to the bag of all of them.
LEMMA AddedBags ==
    ASSUME NEW S, NEW e, e \notin S
    PROVE  SetToBag(S) (+) SetToBag({e}) = SetToBag(S \cup {e})
  BY DEF (+), SetToBag

\* The bags of the image hold at most one contribution of each block.
CellOf(M) == SetToBag({<<b, b>> : b \in M})

LEMMA CellContains ==
    ASSUME NEW M, NEW b
    PROVE  BagIn(<<b, b>>, CellOf(M)) <=> b \in M
  BY SetIsABag DEF BagIn, BagToSet, CellOf

LEMMA CellPlus ==
    ASSUME NEW M, NEW b, b \notin M
    PROVE  CellOf(M) (+) SetToBag({<<b, b>>}) = CellOf(M \cup {b})
  <1>1. <<b, b>> \notin {<<a, a>> : a \in M}
    OBVIOUS
  <1>2. {<<a, a>> : a \in M} \cup {<<b, b>>} = {<<a, a>> : a \in M \cup {b}}
    OBVIOUS
  <1> QED
    BY <1>1, <1>2, AddedBags DEF CellOf

LEMMA MergedCells ==
    ASSUME NEW M
    PROVE  /\ Merged(M) = [c \in Grid |-> CellOf({a \in M : c \in Reach(a)})]
           /\ IsImage(Merged(M))
  BY SetIsABag DEF Merged, CellOf, IsImage

LEMMA NothingMerged == Cleared = Merged({}) /\ IsImage(Cleared)
  <1>1. \A c : {<<b, b>> : b \in {a \in {} : c \in Reach(a)}} = {}
    OBVIOUS
  <1>2. Merged({}) = [c \in Grid |-> SetToBag({})]
    BY <1>1 DEF Merged
  <1> QED
    BY <1>2, MergedCells DEF Cleared, EmptyBag

-----------------------------------------------------------------------------
(* Where the blocks are, and what the image contains.                      *)

\* The part of the invariant that is about the workers and the image.
WorkInv == Phases /\ InGoodHands /\ ResultExact /\ MergeLocked

LEMMA ImageCells ==
    /\ ImageSoFar = [c \in Grid |-> CellOf({a \in Grid : Contains(c, a)})]
    /\ IsImage(ImageSoFar)
  BY SetIsABag DEF ImageSoFar, CellOf, IsImage

LEMMA SameImage ==
    ASSUME \A c \in Grid, b \in Grid : Contains(c, b)' <=> Contains(c, b)
    PROVE  ImageSoFar' = ImageSoFar
  <1>1. \A c \in Grid : {a \in Grid : Contains(c, a)'} = {a \in Grid : Contains(c, a)}
    OBVIOUS
  <1>2. ImageSoFar' = [c \in Grid |-> SetToBag({<<b, b>> : b \in {a \in Grid : Contains(c, a)'}})]
    BY DEF ImageSoFar, Grid, NumBlocksX, NumBlocksY, CeilDiv
  <1> QED
    BY <1>1, <1>2 DEF ImageSoFar

\* The primed forms of two conjuncts, with the primes where a step gives them.
LEMMA MergeLockedNext ==
    ASSUME \A v \in Workers :
              /\ pc'[v] \in {"load", "store", "unlock"} <=> mutex' = v
              /\ pc'[v] \in {"load", "store"} => line'[v] \in ReachRows(held'[v])
              /\ pc'[v] = "store" =>
                   loaded'[v] = [c \in Reach(held'[v]) \cap RowOf(line'[v]) |-> result'[c]]
    PROVE  MergeLocked'
  BY DEF MergeLocked, ReachRows, Rows, Reach, RowOf, Near, Grid, NumBlocksX, NumBlocksY, CeilDiv

LEMMA MergeLockedOthers ==
    ASSUME MergeLocked, result' = result, NEW w \in Workers,
           \A v \in Workers \ {w} :
              /\ pc'[v] = pc[v] /\ line'[v] = line[v] /\ held'[v] = held[v] /\ loaded'[v] = loaded[v]
              /\ mutex' = v <=> mutex = v,
           pc'[w] \in {"load", "store", "unlock"} <=> mutex' = w,
           pc'[w] \in {"load", "store"} => line'[w] \in ReachRows(held'[w]),
           pc'[w] = "store" =>
             loaded'[w] = [c \in Reach(held'[w]) \cap RowOf(line'[w]) |-> result[c]]
    PROVE  MergeLocked'
  <1> DEFINE Row(b, y) == [c \in Reach(b) \cap RowOf(y) |-> result[c]]
  <1>1. \A v \in Workers : pc'[v] = "store" => loaded'[v] = Row(held'[v], line'[v])
    BY DEF MergeLocked
  <1>2. \A b, y : Row(b, y) = [c \in Reach(b) \cap RowOf(y) |-> result'[c]]
    OBVIOUS
  <1>3. \A v \in Workers : pc'[v] = "store" =>
          loaded'[v] = [c \in Reach(held'[v]) \cap RowOf(line'[v]) |-> result'[c]]
    <2> HIDE DEF Row
    <2> QED
      BY <1>1, <1>2
  <1>4. \A v \in Workers :
           /\ pc'[v] \in {"load", "store", "unlock"} <=> mutex' = v
           /\ pc'[v] \in {"load", "store"} => line'[v] \in ReachRows(held'[v])
    BY DEF MergeLocked
  <1> QED
    BY <1>3, <1>4, MergeLockedNext

LEMMA ContainsNext ==
    ASSUME NEW c, NEW b
    PROVE  Contains(c, b)' <=>
             /\ c \in Reach(b) /\ b \notin pending'
             /\ \A w \in Workers : InHand(w)' /\ held'[w] = b => Passed(w, c)'
  BY DEF Contains, Reach, Near, Grid, NumBlocksX, NumBlocksY, CeilDiv

\* Nothing but the mutex changes, and no worker has it before or after.
LEMMA WorkFrame ==
    ASSUME TypeOK, WorkInv, UNCHANGED <<pool, worker, result>>,
           mutex' = mutex \/ (mutex \in {None, Main} /\ mutex' \in {None, Main})
    PROVE  WorkInv'
  <1> USE DEF pool, worker
  <1>1. Phases' /\ InGoodHands'
    BY DEF WorkInv, Phases, InGoodHands, InHand
  <1>2. ResultExact'
    BY SameImage DEF WorkInv, ResultExact, Contains, InHand, Passed
  <1>3. MergeLocked'
    BY WorkersAssumption DEF WorkInv, MergeLocked
  <1> QED
    BY <1>1, <1>2, <1>3 DEF WorkInv

\* When nobody merges, a cell contains the blocks that reach it and are done.
Done == {b \in Grid \ pending : \A w \in Workers : InHand(w) /\ held[w] = b => pc[w] = "unlock"}

LEMMA QuietImage ==
    ASSUME WorkInv, \A w \in Workers : pc[w] \notin {"load", "store"}
    PROVE  result = Merged(Done)
  <1>1. \A c \in Grid : {a \in Grid : Contains(c, a)} = {a \in Done : c \in Reach(a)}
    BY DEF Contains, Done, Passed
  <1> QED
    BY <1>1, ImageCells, MergedCells DEF WorkInv, ResultExact

\* A block is in every cell it reaches exactly when it is done: the cell in the
\* row that is being merged does not contain it yet.
LEMMA BlocksInResult ==
    ASSUME TypeOK, WorkInv
    PROVE  BlocksIn(result) = Done
  <1>1. ASSUME NEW b \in Grid, NEW c \in Grid
        PROVE  BagIn(<<b, b>>, result[c]) <=> Contains(c, b)
    BY ImageCells, CellContains DEF WorkInv, ResultExact
  <1>2. ASSUME NEW b \in Done PROVE b \in BlocksIn(result)
    <2>1. \A c \in Reach(b) : Contains(c, b)
      BY <1>2 DEF Done, Contains, Passed
    <2> QED
      BY <1>1, <1>2, <2>1 DEF BlocksIn, Done, Reach
  <1>3. ASSUME NEW b \in BlocksIn(result) PROVE b \in Done
    <2>1. b \in Grid /\ \A c \in Reach(b) : Contains(c, b)
      BY <1>1, <1>3 DEF BlocksIn, Reach
    <2>2. b \notin pending
      BY <2>1, ReachesItself DEF Contains
    <2>3. ASSUME NEW w \in Workers, InHand(w), held[w] = b, pc[w] # "unlock"
          PROVE  FALSE
      <3>1. \A c \in Reach(b) : pc[w] \in {"load", "store"} /\ c[2] < line[w]
        BY <2>1, <2>3 DEF Contains, Passed
      <3>2. line[w] \in ReachRows(b)
        BY <2>1, <2>3, <3>1, ReachesItself DEF WorkInv, MergeLocked
      <3>3. <<b[1], line[w]>> \in Reach(b)
        BY <2>1, <3>2, RowsReached
      <3>4. line[w] < line[w]
        BY <3>1, <3>3
      <3>5. line[w] \in Nat
        BY <3>2, NumBlocksNat DEF ReachRows, Rows
      <3> QED
        BY <3>4, <3>5
    <2> QED
      BY <2>1, <2>2, <2>3 DEF Done
  <1> QED
    BY <1>2, <1>3

-----------------------------------------------------------------------------
(* The steps of a worker.                                                  *)

LEMMA StateTypes ==
    ASSUME TypeOK
    PROVE  /\ pc \in [Workers -> {"idle", "next", "lock", "load", "store", "unlock"}]
           /\ phase \in [Workers -> {"idle", "asked", "granted", "refused"}]
           /\ held \in [Workers -> Grid \cup {None}]
           /\ pending \subseteq Grid
           /\ DOMAIN content = Workers
           /\ line \in [Workers -> Int]
           /\ chunk \in [Workers -> Int] /\ todo \in Int
  BY NumBlocksNat DEF TypeOK, Pool!TypeOK, Pool!Phases, Rows

LEMMA TakeChunkWork ==
    ASSUME TypeOK, WorkInv, NEW w \in Workers, TakeChunk(w)
    PROVE  WorkInv'
  <1> USE StateTypes DEF TakeChunk, WorkInv
  <1>1. \A v \in Workers : /\ InHand(v)' <=> InHand(v)
                           /\ InHand(v) => v # w
                           /\ v # w => pc'[v] = pc[v] /\ phase'[v] = phase[v] /\ held'[v] = held[v]
                                       /\ chunk'[v] = chunk[v] /\ content'[v] = content[v]
    BY DEF InHand, Phases
  <1>2. Phases'
    BY <1>1 DEF Phases
  <1>3. InGoodHands'
    BY <1>1 DEF InGoodHands
  <1>4. ResultExact'
    BY <1>1, SameImage DEF ResultExact, Contains, Passed
  <1>5. MergeLocked'
    BY <1>1, MergeLockedOthers DEF MergeLocked
  <1> QED
    BY <1>2, <1>3, <1>4, <1>5

LEMMA AskWork ==
    ASSUME TypeOK, WorkInv, NEW w \in Workers, CallNext(w), Pool!Ask(w)
    PROVE  WorkInv'
  <1> USE StateTypes DEF CallNext, Pool!Ask, WorkInv, worker
  <1>1. \A v \in Workers : /\ InHand(v)' <=> InHand(v)
                           /\ v # w => phase'[v] = phase[v]
    BY DEF InHand
  <1>2. Phases'
    BY <1>1 DEF Phases
  <1>3. InGoodHands'
    BY <1>1 DEF InGoodHands
  <1>4. ResultExact'
    BY <1>1, SameImage DEF ResultExact, Contains, Passed
  <1>5. MergeLocked'
    BY <1>1, MergeLockedOthers DEF MergeLocked
  <1> QED
    BY <1>2, <1>3, <1>4, <1>5

\* The block leaves the pool and is in the hand of w: it is in no cell before
\* and after.
LEMMA GrantWork ==
    ASSUME TypeOK, WorkInv, NEW w \in Workers, CallNext(w), Pool!Grant(w)
    PROVE  WorkInv'
  <1> USE StateTypes DEF CallNext, Pool!Grant, WorkInv, worker
  <1>1. PICK j \in pending : pending' = pending \ {j} /\ held' = [held EXCEPT ![w] = j]
    OBVIOUS
  <1>2. \A v \in Workers : v # w => /\ InHand(v)' <=> InHand(v)
                                    /\ phase'[v] = phase[v] /\ held'[v] = held[v]
    BY <1>1 DEF InHand
  <1>3. ~InHand(w) /\ InHand(w)' /\ held'[w] = j /\ pc[w] = "next"
    BY <1>1 DEF InHand
  <1>4. Phases'
    BY <1>2 DEF Phases
  <1>5. InGoodHands'
    <2>1. \A v \in Workers : InHand(v) => held[v] # j
      BY DEF InGoodHands
    <2> QED
      BY <1>1, <1>2, <1>3, <2>1 DEF InGoodHands
  <1>6. ResultExact'
    <2>1. ASSUME NEW c \in Grid, NEW b \in Grid
          PROVE  Contains(c, b)' <=> Contains(c, b)
      <3>1. CASE b = j
        BY <1>1, <1>3, <3>1 DEF Contains, Passed
      <3>2. CASE b # j
        BY <1>1, <1>2, <1>3, <3>2 DEF Contains, Passed
      <3> QED
        BY <3>1, <3>2
    <2> QED
      BY <2>1, SameImage DEF ResultExact
  <1>7. MergeLocked'
    BY <1>2, <1>3, MergeLockedOthers DEF MergeLocked
  <1> QED
    BY <1>4, <1>5, <1>6, <1>7

LEMMA RenderBlockWork ==
    ASSUME TypeOK, WorkInv, NEW w \in Workers, RenderBlock(w)
    PROVE  WorkInv'
  <1> USE StateTypes DEF RenderBlock, Pool!Return, WorkInv
  <1>1. InHand(w) /\ held[w] \in Grid
    BY DEF InHand, Phases, InGoodHands
  <1>2. content' = [content EXCEPT ![w] = SetToBag({<<held[w], held[w]>>})]
    BY <1>1, NoneAssumption DEF Painted, Place, SeedFor
  <1>3. \A v \in Workers : /\ InHand(v)' <=> InHand(v)
                           /\ v # w => pc'[v] = pc[v] /\ phase'[v] = phase[v] /\ content'[v] = content[v]
    BY <1>1 DEF InHand
  <1>4. Phases'
    BY <1>3 DEF Phases
  <1>5. InGoodHands'
    BY <1>2, <1>3 DEF InGoodHands
  <1>6. ResultExact'
    BY <1>3, SameImage DEF ResultExact, Contains, Passed
  <1>7. MergeLocked'
    BY <1>3, MergeLockedOthers DEF MergeLocked
  <1> QED
    BY <1>4, <1>5, <1>6, <1>7

LEMMA PutLockWork ==
    ASSUME TypeOK, WorkInv, NEW w \in Workers, PutLock(w)
    PROVE  WorkInv'
  <1> USE StateTypes DEF PutLock, WorkInv, pool, files, window
  <1>1. InHand(w) /\ held[w] \in Grid /\ line' = [line EXCEPT ![w] = FirstRow(held[w])]
    BY NoneAssumption DEF InHand, InGoodHands, Place
  <1>2. \A v \in Workers : /\ InHand(v)' <=> InHand(v)
                           /\ v # w => pc'[v] = pc[v] /\ line'[v] = line[v]
    BY <1>1 DEF InHand
  <1>3. Phases'
    BY <1>2 DEF Phases
  <1>4. InGoodHands'
    BY <1>2 DEF InGoodHands
  <1>5. ResultExact'
    <2>1. ASSUME NEW c \in Grid, NEW b \in Grid
          PROVE  Contains(c, b)' <=> Contains(c, b)
      <3>1. CASE b = held[w] /\ c \in Reach(b)
        <4>1. c[2] \in Int /\ FirstRow(b) \in Int /\ ~(c[2] < FirstRow(b))
          BY <1>1, <3>1, RowsReached, NumBlocksNat DEF Rows
        <4>2. ~Passed(w, c) /\ ~Passed(w, c)'
          BY <1>1, <3>1, <4>1 DEF Passed
        <4> QED
          BY <1>1, <1>2, <3>1, <4>2 DEF Contains
      <3>2. CASE ~(b = held[w] /\ c \in Reach(b))
        BY <1>1, <1>2, <3>2, ContainsNext DEF Contains, Passed
      <3> QED
        BY <3>1, <3>2
    <2> QED
      BY <2>1, SameImage DEF ResultExact
  <1>6. MergeLocked'
    <2>1. pc'[w] = "load" /\ line'[w] \in ReachRows(held'[w]) /\ mutex' = w
      BY <1>1, RowsReached
    <2>2. \A v \in Workers \ {w} :
             /\ pc'[v] = pc[v] /\ line'[v] = line[v] /\ held'[v] = held[v] /\ loaded'[v] = loaded[v]
             /\ mutex' = v <=> mutex = v
      BY <1>2, WorkersAssumption
    <2> QED
      BY <2>1, <2>2, MergeLockedOthers
  <1> QED
    BY <1>3, <1>4, <1>5, <1>6

LEMMA PutLoadWork ==
    ASSUME TypeOK, WorkInv, DOMAIN loaded = Workers, NEW w \in Workers, PutLoad(w)
    PROVE  WorkInv'
  <1> USE StateTypes DEF PutLoad, WorkInv, pool, files, window
  <1>1. InHand(w) /\ Place(held[w]) = held[w]
    BY NoneAssumption DEF InHand, InGoodHands, Place
  <1>2. \A v \in Workers : /\ InHand(v)' <=> InHand(v)
                           /\ v # w => pc'[v] = pc[v] /\ loaded'[v] = loaded[v]
    BY <1>1 DEF InHand
  <1>3. Phases'
    BY <1>2 DEF Phases
  <1>4. InGoodHands'
    BY <1>2 DEF InGoodHands
  <1>5. ResultExact'
    BY <1>2, SameImage DEF ResultExact, Contains, Passed
  <1>6. MergeLocked'
    BY <1>1, <1>2, MergeLockedOthers DEF MergeLocked
  <1> QED
    BY <1>3, <1>4, <1>5, <1>6

LEMMA PutUnlockWork ==
    ASSUME TypeOK, WorkInv, NEW w \in Workers, PutUnlock(w)
    PROVE  WorkInv'
  <1> USE StateTypes DEF PutUnlock, WorkInv, pool, files, window
  <1>1. InHand(w) /\ phase[w] = "idle" /\ chunk[w] > 0
    BY DEF InHand, Phases
  <1>2. pc'[w] \in {"idle", "next"} /\ ~InHand(w)'
    BY <1>1 DEF InHand
  <1>3. \A v \in Workers : v # w => /\ InHand(v)' <=> InHand(v)
                                    /\ pc'[v] = pc[v] /\ chunk'[v] = chunk[v]
    BY DEF InHand
  <1>4. Phases'
    BY <1>1, <1>2, <1>3 DEF Phases
  <1>5. InGoodHands'
    BY <1>2, <1>3 DEF InGoodHands
  <1>6. ResultExact'
    <2>1. ASSUME NEW c \in Grid, NEW b \in Grid
          PROVE  Contains(c, b)' <=> Contains(c, b)
      BY <1>1, <1>2, <1>3 DEF Contains, Passed
    <2> QED
      BY <2>1, SameImage DEF ResultExact
  <1>7. MergeLocked'
    BY <1>1, <1>2, <1>3, WorkersAssumption, MergeLockedOthers DEF MergeLocked
  <1> QED
    BY <1>4, <1>5, <1>6, <1>7

\* The row that is stored gains the block of w, and loses nothing: what was
\* loaded is still what the image contains.
LEMMA PutStoreWork ==
    ASSUME TypeOK, WorkInv, DOMAIN loaded = Workers, NEW w \in Workers, PutStore(w)
    PROVE  WorkInv'
  <1> USE StateTypes DEF PutStore, WorkInv, pool, files, window
  <1> DEFINE b == held[w]
             row == Reach(b) \cap RowOf(line[w])
  <1>1. InHand(w) /\ b \in Grid \ pending /\ Place(b) = b
    BY NoneAssumption DEF InHand, InGoodHands, Place
  <1>2. /\ content[w] = SetToBag({<<b, b>>})
        /\ line[w] \in ReachRows(b)
        /\ loaded[w] = [c \in row |-> result[c]]
    BY <1>1 DEF InGoodHands, MergeLocked
  <1>3. line[w] \in Int /\ LastRow(b) \in Int /\ line[w] <= LastRow(b)
    BY <1>1, <1>2, RowsReached, NumBlocksNat DEF Rows
  <1>4. /\ InHand(w)'
        /\ \A v \in Workers : v # w => /\ InHand(v)' <=> InHand(v)
                                       /\ pc'[v] = pc[v] /\ line'[v] = line[v] /\ loaded'[v] = loaded[v]
    BY DEF InHand
  <1>5. Phases'
    BY <1>4 DEF Phases
  <1>6. InGoodHands'
    BY <1>1, <1>4 DEF InGoodHands
  <1>7. \A c \in Reach(b) : Passed(w, c)' <=> c \in row \/ Passed(w, c)
    <2> SUFFICES ASSUME NEW c \in Reach(b)
                 PROVE  Passed(w, c)' <=> c \in row \/ Passed(w, c)
      OBVIOUS
    <2>1. c[2] \in Int /\ c[2] <= LastRow(b) /\ (c \in row <=> c[2] = line[w])
      BY <1>1, RowsReached, NumBlocksNat DEF Rows, RowOf, Reach
    <2>2. CASE line[w] = LastRow(b)
      BY <1>1, <1>3, <2>1, <2>2 DEF Passed
    <2>3. CASE line[w] # LastRow(b)
      BY <1>1, <1>3, <2>1, <2>3 DEF Passed
    <2> QED
      BY <2>2, <2>3
  <1>8. ASSUME NEW c \in Grid, NEW a \in Grid
        PROVE  Contains(c, a)' <=> Contains(c, a) \/ (a = b /\ c \in row)
    <2>1. CASE a = b
      <3>1. \A v \in Workers : InHand(v) /\ held[v] = b => v = w
        BY <1>1 DEF InGoodHands
      <3> QED
        BY <1>1, <1>4, <1>7, <2>1, <3>1 DEF Contains
    <2>2. CASE a # b
      BY <1>4, <2>2 DEF Contains, Passed
    <2> QED
      BY <2>1, <2>2
  <1>9. ResultExact'
    <2>1. ASSUME NEW c \in Grid
          PROVE  result'[c] = CellOf({a \in Grid : Contains(c, a)'})
      <3> DEFINE before == {a \in Grid : Contains(c, a)}
                 after == {a \in Grid : Contains(c, a)'}
      <3>1. result[c] = CellOf(before)
        BY ImageCells DEF ResultExact
      <3>2. CASE c \in row
        <4>1. result'[c] = result[c] (+) SetToBag({<<b, b>>})
          BY <1>2, <3>2
        <4>2. b \notin before
          <5>1. c[2] = line[w] /\ ~(c[2] < line[w])
            BY <1>3, <3>2 DEF RowOf
          <5> QED
            BY <1>1, <5>1 DEF Contains, Passed
        <4>3. after = before \cup {b}
          BY <1>1, <1>8, <3>2
        <4> HIDE DEF before, after, b
        <4>4. CellOf(before) (+) SetToBag({<<b, b>>}) = CellOf(before \cup {b})
          BY <4>2, CellPlus
        <4>5. result'[c] = CellOf(after)
          BY <3>1, <4>1, <4>3, <4>4
        <4> QED
          BY <4>5 DEF after
      <3>3. CASE c \notin row
        <4>1. result'[c] = result[c]
          BY <1>2, <3>3
        <4>2. after = before
          BY <1>8, <3>3
        <4> QED
          BY <3>1, <4>1, <4>2
      <3> QED
        BY <3>2, <3>3
    <2>2. result' = [c \in Grid |-> result'[c]]
      OBVIOUS
    <2>3. ImageSoFar' = [c \in Grid |-> SetToBag({<<a, a>> : a \in {a \in Grid : Contains(c, a)'}})]
      BY DEF ImageSoFar, Grid, NumBlocksX, NumBlocksY, CeilDiv
    <2> QED
      BY <2>1, <2>2, <2>3 DEF ResultExact, CellOf
  <1>10. MergeLocked'
    <2> SUFFICES ASSUME NEW v \in Workers
                 PROVE  /\ pc'[v] \in {"load", "store", "unlock"} <=> mutex' = v
                        /\ pc'[v] \in {"load", "store"} => line'[v] \in ReachRows(held'[v])
                        /\ pc'[v] = "store" =>
                             loaded'[v] = [c \in Reach(held'[v]) \cap RowOf(line'[v]) |-> result'[c]]
      BY MergeLockedNext
    <2>1. CASE v = w
      <3>1. mutex' = w
        BY DEF MergeLocked
      <3>2. CASE line[w] = LastRow(b)
        BY <1>1, <2>1, <3>1, <3>2
      <3>3. CASE line[w] # LastRow(b)
        <4>1. line[w] + 1 \in ReachRows(b)
          BY <1>1, <1>2, <3>3, RowsReached
        <4> QED
          BY <1>1, <2>1, <3>1, <3>3, <4>1
      <3> QED
        BY <3>2, <3>3
    <2>2. CASE v # w
      BY <1>4, <2>2 DEF MergeLocked
    <2> QED
      BY <2>1, <2>2
  <1> QED
    BY <1>5, <1>6, <1>9, <1>10

-----------------------------------------------------------------------------
(* The pending blocks suffice.                                             *)

LEMMA SubsetOfSize ==
    ASSUME NEW S, IsFiniteSet(S), NEW n \in 0 .. Cardinality(S)
    PROVE  \E T \in SUBSET S : Cardinality(T) = n
  <1>1. Cardinality(S) \in Nat /\ n \in Nat
    BY FS_CardinalityType
  <1>2. PICK g \in Bijection(1 .. Cardinality(S), S) : TRUE
    BY FS_CardinalityType DEF ExistsBijection
  <1> DEFINE T == {g[i] : i \in 1 .. n}
             h == [i \in 1 .. n |-> g[i]]
  <1>3. T \subseteq S
    BY <1>1, <1>2 DEF Bijection, Injection, Surjection
  <1>4. h \in Bijection(1 .. n, T)
    BY <1>1, <1>2 DEF Bijection, Injection, Surjection, IsInjective
  <1>5. Cardinality(T) = n
    BY <1>1, <1>4, FS_CountingElements DEF ExistsBijection
  <1> QED
    BY <1>3, <1>5

\* No worker that asks is refused: at least the block it owes is pending.
LEMMA BlockForEach ==
    ASSUME TypeOK, Phases, OneBlockPerIndex, renderer # "none",
           NEW w \in Workers, pc[w] = "next", ~InHand(w)
    PROVE  pending # {}
  <1>1. PICK f \in [pending -> Workers \cup {None}] : Shares(f)
    BY DEF OneBlockPerIndex
  <1>2. Cardinality({b \in pending : f[b] = w}) = chunk[w] /\ chunk[w] > 0
    BY <1>1 DEF Shares, Owing, Phases
  <1>3. SUFFICES ASSUME pending = {} PROVE FALSE
    OBVIOUS
  <1>4. {b \in pending : f[b] = w} = {}
    BY <1>3
  <1>5. chunk[w] = 0
    BY <1>2, <1>4, FS_EmptySet
  <1> QED
    BY <1>2, <1>5

\* With all workers idle and no index left, no block is pending.
LEMMA AllGranted ==
    ASSUME TypeOK, Phases, OneBlockPerIndex, Stages, renderer = "finished"
    PROVE  pending = {}
  <1>1. PICK f \in [pending -> Workers \cup {None}] : Shares(f)
    BY DEF OneBlockPerIndex
  <1>2. todo = 0 /\ \A w \in Workers : Owing(w) = 0
    BY DEF Stages, Owing, InHand, Phases
  <1>3. ASSUME NEW v \in Workers \cup {None} PROVE {b \in pending : f[b] = v} = {}
    <2>1. Cardinality({b \in pending : f[b] = v}) = 0
      BY <1>1, <1>2, WorkersAssumption DEF Shares
    <2>2. IsFiniteSet({b \in pending : f[b] = v})
      <3>1. {b \in pending : f[b] = v} \in SUBSET Grid
        BY StateTypes
      <3> QED
        BY <3>1, GridFinite, FS_Subset
    <2> QED
      BY <2>1, <2>2, FS_EmptySet
  <1> QED
    BY <1>1, <1>3

LEMMA SharesNext ==
    ASSUME renderer' # "none",
           NEW f \in [pending' -> Workers \cup {None}],
           Cardinality({b \in pending' : f[b] = None}) = todo',
           \A w \in Workers : Cardinality({b \in pending' : f[b] = w}) = Owing(w)'
    PROVE  OneBlockPerIndex'
  BY DEF OneBlockPerIndex, Shares

LEMMA SameShares ==
    ASSUME OneBlockPerIndex, renderer' # "none" => renderer # "none",
           pending' = pending, todo' = todo, \A w \in Workers : Owing(w)' = Owing(w)
    PROVE  OneBlockPerIndex'
  <1> SUFFICES ASSUME renderer' # "none" PROVE OneBlockPerIndex'
    BY DEF OneBlockPerIndex
  <1>1. PICK f \in [pending -> Workers \cup {None}] : Shares(f)
    BY DEF OneBlockPerIndex
  <1> QED
    BY <1>1, SharesNext DEF Shares

\* Every block of the grid is for an index of the range.
LEMMA SpawnShares ==
    ASSUME TypeOK, Phases, Stages, Spawn
    PROVE  OneBlockPerIndex'
  <1> DEFINE f == [b \in pending |-> None]
  <1>1. renderer' # "none" /\ pending' = pending /\ pending = Grid /\ todo' = Cardinality(Grid)
    BY DEF Spawn, Stages, pool, RangeSize
  <1>2. {b \in pending : f[b] = None} = Grid
    BY <1>1
  <1>3. ASSUME NEW w \in Workers
        PROVE  Cardinality({b \in pending : f[b] = w}) = Owing(w)'
    <2>1. {b \in pending : f[b] = w} = {}
      BY WorkersAssumption
    <2>2. Owing(w)' = 0
      BY DEF Spawn, Stages, Phases, Owing, InHand, pool, worker
    <2> QED
      BY <2>1, <2>2, FS_EmptySet
  <1> QED
    BY <1>1, <1>2, <1>3, SharesNext

\* A chunk takes its blocks from those of the indices that are left.
LEMMA TakeChunkShares ==
    ASSUME TypeOK, Phases, OneBlockPerIndex, NEW w \in Workers, TakeChunk(w)
    PROVE  OneBlockPerIndex'
  <1> USE StateTypes
  <1>1. PICK n \in 1 .. todo : todo' = todo - n /\ chunk' = [chunk EXCEPT ![w] = n]
    BY DEF TakeChunk
  <1>2. PICK f \in [pending -> Workers \cup {None}] : Shares(f)
    BY DEF OneBlockPerIndex, TakeChunk
  <1> DEFINE Of(v) == {b \in pending : f[b] = v}
  <1>3. \A v : Of(v) \in SUBSET Grid
    OBVIOUS
  <1>4. \A v : IsFiniteSet(Of(v))
    BY <1>3, GridFinite, FS_Subset
  <1>5. PICK T \in SUBSET Of(None) : Cardinality(T) = n
    <2>1. Cardinality(Of(None)) = todo
      BY <1>2 DEF Shares
    <2>2. IsFiniteSet(Of(None))
      BY <1>4
    <2> HIDE DEF Of
    <2>3. n \in 0 .. Cardinality(Of(None))
      BY <1>1, <2>1
    <2> QED
      BY <2>2, <2>3, SubsetOfSize
  <1> DEFINE g == [b \in pending |-> IF b \in T THEN w ELSE f[b]]
  <1>6. pending' = pending /\ renderer' # "none" /\ g \in [pending' -> Workers \cup {None}]
    BY DEF TakeChunk
  <1>7. Cardinality({b \in pending : g[b] = None}) = todo'
    <2>1. {b \in pending : g[b] = None} = Of(None) \ T /\ Of(None) \cap T = T
      BY <1>5, WorkersAssumption
    <2>2. Cardinality(Of(None) \ T) = Cardinality(Of(None)) - n
      <3> HIDE DEF Of
      <3>1. IsFiniteSet(Of(None))
        BY <1>4
      <3>2. Cardinality(Of(None) \ T) = Cardinality(Of(None)) - Cardinality(Of(None) \cap T)
        BY <3>1, FS_Difference
      <3> QED
        BY <1>5, <2>1, <3>2
    <2> QED
      BY <1>1, <1>2, <2>1, <2>2 DEF Shares
  <1>8. ASSUME NEW v \in Workers
        PROVE  Cardinality({b \in pending : g[b] = v}) = Owing(v)'
    <2>1. CASE v = w
      <3>1. Owing(w) = 0 /\ Owing(w)' = n
        BY <1>1 DEF TakeChunk, Owing, InHand, Phases
      <3>2. Of(w) = {}
        BY <1>2, <1>4, <3>1, FS_EmptySet DEF Shares
      <3>3. {b \in pending : g[b] = w} = T
        BY <1>5, <3>2, WorkersAssumption
      <3> QED
        BY <1>5, <2>1, <3>1, <3>3
    <2>2. CASE v # w
      <3>1. Owing(v)' = Owing(v)
        BY <1>1, <2>2 DEF TakeChunk, Owing, InHand
      <3>2. {b \in pending : g[b] = v} = Of(v)
        BY <1>5, <2>2, WorkersAssumption
      <3> QED
        BY <1>2, <3>1, <3>2 DEF Shares
    <2> QED
      BY <2>1, <2>2
  <1> QED
    BY <1>6, <1>7, <1>8, SharesNext

\* The block that is granted may be the share of another worker or index: it
\* gets one of the blocks w was owed instead.
LEMMA GrantShares ==
    ASSUME TypeOK, Phases, OneBlockPerIndex, renderer # "none",
           NEW w \in Workers, CallNext(w), Pool!Grant(w)
    PROVE  OneBlockPerIndex'
  <1> USE StateTypes
  <1>1. PICK j \in pending : pending' = pending \ {j}
    BY DEF Pool!Grant
  <1>2. PICK f \in [pending -> Workers \cup {None}] : Shares(f)
    BY DEF OneBlockPerIndex
  <1> DEFINE Of(v) == {b \in pending : f[b] = v}
  <1>3. \A v : Of(v) \in SUBSET Grid
    OBVIOUS
  <1>4. \A v : IsFiniteSet(Of(v)) /\ Cardinality(Of(v)) \in Nat
    BY <1>3, GridFinite, FS_Subset, FS_CardinalityType
  <1>5. renderer' # "none" /\ todo' = todo
    BY DEF CallNext
  <1>6. Owing(w) = chunk[w] /\ Owing(w)' = chunk[w] - 1 /\ chunk[w] > 0
    BY DEF CallNext, Pool!Grant, Owing, InHand, Phases, worker
  <1>7. \A v \in Workers \ {w} : Owing(v)' = Owing(v)
    BY DEF CallNext, Pool!Grant, Owing, InHand, worker
  <1>8. PICK k \in pending : f[k] = w /\ (f[j] = w => k = j)
    <2>1. Of(w) # {}
      BY <1>2, <1>6, FS_EmptySet DEF Shares
    <2> QED
      BY <2>1
  <1> DEFINE g == [b \in pending \ {j} |-> IF b = k THEN f[j] ELSE f[b]]
             New(v) == {b \in pending \ {j} : g[b] = v}
  <1>9. g \in [pending' -> Workers \cup {None}]
    BY <1>1, <1>8
  <1>10. Cardinality(New(w)) = Owing(w)'
    <2>1. New(w) = Of(w) \ {k}
      BY <1>8
    <2>2. k \in Of(w)
      BY <1>8
    <2> HIDE DEF New, Of
    <2>3. Cardinality(Of(w) \ {k}) = Cardinality(Of(w)) - 1
      BY <1>4, <2>2, FS_RemoveElement
    <2>4. Cardinality(Of(w)) = Owing(w)
      BY <1>2 DEF Shares, Of
    <2> QED
      BY <1>6, <2>1, <2>3, <2>4
  <1>11. ASSUME NEW v \in (Workers \cup {None}) \ {w}
         PROVE  Cardinality(New(v)) = Cardinality(Of(v))
    <2>1. CASE f[j] = v
      <3>1. New(v) = (Of(v) \ {j}) \cup {k} /\ j \in Of(v) /\ k \notin Of(v)
        BY <1>8, <2>1
      <3> HIDE DEF New, Of
      <3>2. IsFiniteSet(Of(v) \ {j}) /\ Cardinality(Of(v) \ {j}) = Cardinality(Of(v)) - 1
        BY <1>4, <3>1, FS_RemoveElement
      <3>3. Cardinality((Of(v) \ {j}) \cup {k}) = Cardinality(Of(v) \ {j}) + 1
        BY <3>1, <3>2, FS_AddElement
      <3> QED
        BY <1>4, <3>1, <3>2, <3>3
    <2>2. CASE f[j] # v
      <3>1. New(v) = Of(v)
        BY <1>8, <2>2
      <3> QED
        BY <3>1
    <2> QED
      BY <2>1, <2>2
  <1>12. Cardinality({b \in pending' : g[b] = None}) = todo'
    BY <1>1, <1>2, <1>5, <1>11, WorkersAssumption DEF Shares
  <1>13. ASSUME NEW v \in Workers
         PROVE  Cardinality({b \in pending' : g[b] = v}) = Owing(v)'
    <2>1. {b \in pending' : g[b] = v} = New(v)
      BY <1>1
    <2>2. CASE v = w
      BY <1>10, <2>1, <2>2
    <2>3. CASE v # w
      <3>1. Cardinality(Of(v)) = Owing(v)
        BY <1>2 DEF Shares
      <3> HIDE DEF New, Of
      <3> QED
        BY <1>7, <1>11, <2>1, <2>3, <3>1
    <2> QED
      BY <2>2, <2>3
  <1> HIDE DEF g
  <1> QED
    BY <1>5, <1>9, <1>12, <1>13, SharesNext

-----------------------------------------------------------------------------
(* The window, the stages of the job and the files.                        *)

LEMMA RigidImages == Grid' = Grid /\ Merged(Grid)' = Merged(Grid) /\ Cleared' = Cleared
  BY DEF Merged, Cleared, Reach, Near, Grid, NumBlocksX, NumBlocksY, CeilDiv

LEMMA FrameNext ==
    ASSUME NEW M \in SUBSET Grid, shown' = Merged(M)
    PROVE  FrameNotTorn'
  BY DEF FrameNotTorn, Merged, Reach, Near, Grid, NumBlocksX, NumBlocksY, CeilDiv

LEMMA SameFrame == ASSUME FrameNotTorn, shown' = shown PROVE FrameNotTorn'
  <1>1. PICK M \in SUBSET Grid : shown = Merged(M)
    BY DEF FrameNotTorn
  <1> QED
    BY <1>1, FrameNext

LEMMA NobodyWorks ==
    ASSUME IInv, renderer # "rendering", NEW w \in Workers
    PROVE  pc[w] = "idle" /\ phase[w] = "idle" /\ ~InHand(w) /\ mutex # w
  BY DEF IInv, Stages, Phases, InHand, MergeLocked

LEMMA WorkOf == ASSUME IInv PROVE WorkInv /\ TypeOK /\ DOMAIN loaded = Workers
  BY DEF IInv, WorkInv

\* Before the render thread starts the image is empty, after it has finished it
\* is complete.
LEMMA ImageAtStart == ASSUME IInv, renderer = "none" PROVE result = Cleared
  <1>1. result = Merged(Done)
    BY WorkOf, NobodyWorks, QuietImage
  <1>2. Done = {}
    BY DEF IInv, Stages, Done
  <1> QED
    BY <1>1, <1>2, NothingMerged

LEMMA ImageAtEnd == ASSUME IInv, renderer = "finished" PROVE result = Merged(Grid)
  <1>1. result = Merged(Done)
    BY WorkOf, NobodyWorks, QuietImage
  <1>2. Done = Grid
    BY NobodyWorks, AllGranted DEF IInv, Done
  <1> QED
    BY <1>1, <1>2

\* Whoever holds the lock of the image while it draws sees whole blocks.
LEMMA ImageLocked ==
    ASSUME IInv, mutex = Main
    PROVE  result = Merged(Done) /\ Done \in SUBSET Grid
  <1>1. \A w \in Workers : pc[w] \notin {"load", "store"}
    BY WorkersAssumption DEF IInv, MergeLocked
  <1> QED
    BY <1>1, WorkOf, QuietImage DEF Done

LEMMA ImageIsImage == ASSUME TypeOK, WorkInv' PROVE IsImage(result)'
  <1>1. result' = [c \in Grid |-> SetToBag({<<b, b>> : b \in {a \in Grid : Contains(c, a)'}})]
    BY DEF WorkInv, ResultExact, ImageSoFar, Grid, NumBlocksX, NumBlocksY, CeilDiv
  <1> QED
    BY <1>1, RigidImages, SetIsABag DEF IsImage

\* The types of what the main thread leaves alone.
LEMMA TypeFrame ==
    ASSUME TypeOK, UNCHANGED <<pool, worker, result>>
    PROVE  /\ chunk' \in [Workers -> 0 .. NumBlocksX * NumBlocksY]
           /\ pc' \in [Workers -> {"idle", "next", "lock", "load", "store", "unlock"}]
           /\ Pool!TypeOK'
           /\ DOMAIN content' = Workers /\ \A w \in Workers : IsABag(content'[w])
           /\ line' \in [Workers -> Rows \cup {0}]
           /\ IsImage(result)'
  BY RigidImages DEF TypeOK, Pool!TypeOK, pool, worker, IsImage

LEMMA TypeNext ==
    ASSUME mainPc' \in {"setup", "window", "spawn", "mainloop", "draw", "join",
                        "save", "png", "exit"},
           renderer' \in {"none", "rendering", "finished"},
           todo' \in 0 .. NumBlocksX * NumBlocksY,
           chunk' \in [Workers -> 0 .. NumBlocksX * NumBlocksY],
           pc' \in [Workers -> {"idle", "next", "lock", "load", "store", "unlock"}],
           Pool!TypeOK',
           DOMAIN content' = Workers /\ \A w \in Workers : IsABag(content'[w]),
           line' \in [Workers -> Rows \cup {0}],
           IsImage(result)' /\ IsImage(texture)' /\ IsImage(shown)',
           mutex' \in Workers \cup {Main, None},
           drawRow' \in 0 .. NumBlocksY,
           exitCode' \in {None, 0, -1}
    PROVE  TypeOK'
  BY DEF TypeOK, Rows, NumBlocksX, NumBlocksY, CeilDiv

\* What the steps of the main thread and of the render thread have in common:
\* the workers and the image are as they were.
LEMMA MainFrame ==
    ASSUME IInv, UNCHANGED <<todo, pool, worker, result>>,
           renderer' # "none" => renderer # "none",
           mutex' = mutex \/ (mutex \in {None, Main} /\ mutex' \in {None, Main})
    PROVE  WorkInv' /\ DOMAIN loaded' = Workers /\ OneBlockPerIndex'
  <1>1. WorkInv' /\ DOMAIN loaded' = Workers
    BY WorkOf, WorkFrame DEF worker
  <1>2. OneBlockPerIndex'
    BY SameShares DEF IInv, Owing, InHand, pool, worker
  <1> QED
    BY <1>1, <1>2

LEMMA InvNext ==
    ASSUME TypeOK', WorkInv', DOMAIN loaded' = Workers, OneBlockPerIndex', DrawLocked',
           FrameNotTorn', Stages', FilesExact', SavedImageComplete'
    PROVE  IInv'
  BY DEF IInv, WorkInv

-----------------------------------------------------------------------------
(* The steps of the main thread and of the render thread.                  *)

LEMMA InitIInv == Init => IInv
  <1> SUFFICES ASSUME Init PROVE IInv
    OBVIOUS
  <1> USE DEF Init, Pool!Init
  <1>1. TypeOK
    <2>1. IsABag(EmptyBag)
      BY SetIsABag DEF EmptyBag
    <2> QED
      BY <2>1, NothingMerged, NumBlocksNat DEF TypeOK, Pool!TypeOK, Pool!Phases
  <1>2. \A w \in Workers : ~InHand(w) /\ mutex # w
    BY WorkersAssumption DEF InHand
  <1>3. Phases /\ InGoodHands /\ MergeLocked
    BY <1>2 DEF Phases, InGoodHands, MergeLocked
  <1>4. ResultExact
    <2>1. \A c \in Grid, b \in Grid : ~Contains(c, b)
      BY DEF Contains
    <2>2. \A c \in Grid : {<<b, b>> : b \in {a \in Grid : Contains(c, a)}} = {}
      BY <2>1
    <2> QED
      BY <2>2 DEF ResultExact, ImageSoFar, Cleared, EmptyBag
  <1>5. DrawLocked /\ Stages /\ FilesExact /\ OneBlockPerIndex
    BY DEF DrawLocked, Stages, FilesExact, OneBlockPerIndex
  <1>6. FrameNotTorn /\ SavedImageComplete
    BY NothingMerged, NoneAssumption DEF FrameNotTorn, SavedImageComplete
  <1> QED
    BY <1>1, <1>3, <1>4, <1>5, <1>6 DEF IInv

LEMMA SetupStep == ASSUME IInv, Setup PROVE IInv'
  <1> USE DEF Setup
  <1>1. result' = result
    BY ImageAtStart DEF IInv, Stages
  <1>2. WorkInv' /\ DOMAIN loaded' = Workers /\ OneBlockPerIndex'
    BY <1>1, MainFrame
  <1>3. TypeOK'
    BY <1>1, TypeFrame, TypeNext, RigidImages DEF IInv, TypeOK, window, files, IsImage
  <1>4. DrawLocked' /\ Stages' /\ FilesExact'
    BY RigidImages DEF DrawLocked, Stages, FilesExact, IInv, pool, worker, files
  <1>5. FrameNotTorn' /\ SavedImageComplete'
    BY SameFrame, RigidImages DEF SavedImageComplete, IInv, window, files
  <1> QED
    BY <1>2, <1>3, <1>4, <1>5, InvNext

LEMMA OpenWindowStep == ASSUME IInv, OpenWindow PROVE IInv'
  <1> USE DEF OpenWindow
  <1>1. WorkInv' /\ DOMAIN loaded' = Workers /\ OneBlockPerIndex'
    BY MainFrame
  <1>2. TypeOK'
    BY TypeFrame, TypeNext, RigidImages DEF IInv, TypeOK, files, IsImage
  <1>3. DrawLocked' /\ Stages' /\ FilesExact'
    BY RigidImages DEF DrawLocked, Stages, FilesExact, IInv, pool, worker, files
  <1>4. FrameNotTorn'
    BY ImageAtStart, NothingMerged, FrameNext DEF IInv, Stages
  <1>5. SavedImageComplete'
    BY RigidImages DEF SavedImageComplete, IInv, files
  <1> QED
    BY <1>1, <1>2, <1>3, <1>4, <1>5, InvNext

LEMMA OpenWindowFailsStep == ASSUME IInv, OpenWindowFails PROVE IInv'
  <1> USE DEF OpenWindowFails
  <1>1. WorkInv' /\ DOMAIN loaded' = Workers /\ OneBlockPerIndex'
    BY MainFrame
  <1>2. TypeOK'
    BY TypeFrame, TypeNext, RigidImages DEF IInv, TypeOK, window, IsImage
  <1>3. DrawLocked' /\ Stages' /\ FilesExact'
    BY RigidImages DEF DrawLocked, Stages, FilesExact, IInv, pool, worker
  <1>4. FrameNotTorn' /\ SavedImageComplete'
    BY SameFrame, RigidImages DEF SavedImageComplete, IInv, window
  <1> QED
    BY <1>1, <1>2, <1>3, <1>4, InvNext

LEMMA SpawnStep == ASSUME IInv, Spawn PROVE IInv'
  <1> USE DEF Spawn
  <1>1. WorkInv' /\ DOMAIN loaded' = Workers
    BY WorkOf, WorkFrame DEF worker
  <1>2. OneBlockPerIndex'
    BY SpawnShares DEF IInv
  <1>3. TypeOK'
    <2>1. todo' \in 0 .. NumBlocksX * NumBlocksY
      BY GridFinite, FS_CardinalityType DEF RangeSize
    <2> QED
      BY <2>1, TypeFrame, TypeNext, RigidImages DEF IInv, TypeOK, window, files, IsImage
  <1>4. DrawLocked' /\ Stages' /\ FilesExact'
    BY RigidImages DEF DrawLocked, Stages, FilesExact, IInv, pool, worker, files
  <1>5. FrameNotTorn' /\ SavedImageComplete'
    BY SameFrame, RigidImages DEF SavedImageComplete, IInv, window, files
  <1> QED
    BY <1>1, <1>2, <1>3, <1>4, <1>5, InvNext

LEMMA DrawLockStep == ASSUME IInv, DrawLock PROVE IInv'
  <1> USE DEF DrawLock
  <1>1. WorkInv' /\ DOMAIN loaded' = Workers /\ OneBlockPerIndex'
    BY MainFrame
  <1>2. TypeOK'
    BY TypeFrame, TypeNext, RigidImages, NumBlocksNat DEF IInv, TypeOK, files, IsImage
  <1>3. DrawLocked'
    BY CellType, NumBlocksNat, RigidImages DEF DrawLocked, Rows
  <1>4. Stages' /\ FilesExact'
    BY RigidImages DEF Stages, FilesExact, IInv, pool, worker, files
  <1>5. FrameNotTorn' /\ SavedImageComplete'
    BY SameFrame, RigidImages DEF SavedImageComplete, IInv, files
  <1> QED
    BY <1>1, <1>2, <1>3, <1>4, <1>5, InvNext

LEMMA DrawRowStep == ASSUME IInv, DrawRow PROVE IInv'
  <1> USE DEF DrawRow
  <1>1. WorkInv' /\ DOMAIN loaded' = Workers /\ OneBlockPerIndex'
    BY MainFrame
  <1>2. TypeOK'
    <2>1. drawRow' \in 0 .. NumBlocksY
      BY NumBlocksNat DEF IInv, TypeOK
    <2>2. IsImage(texture)'
      BY RigidImages DEF IInv, TypeOK, IsImage
    <2> QED
      BY <2>1, <2>2, TypeFrame, TypeNext, RigidImages DEF IInv, TypeOK, files, IsImage
  <1>3. DrawLocked'
    <2>1. ASSUME NEW c \in Grid, c[2] < drawRow' PROVE texture'[c] = result'[c]
      <3>1. c[2] \in Int /\ drawRow \in Int
        BY CellType, NumBlocksNat DEF IInv, TypeOK, Rows
      <3>2. CASE c[2] = drawRow
        BY <3>2
      <3>3. CASE c[2] # drawRow
        BY <2>1, <3>1, <3>3 DEF IInv, DrawLocked
      <3> QED
        BY <3>2, <3>3
    <2> QED
      BY <2>1, RigidImages DEF IInv, DrawLocked
  <1>4. Stages' /\ FilesExact'
    BY RigidImages DEF Stages, FilesExact, IInv, pool, worker, files
  <1>5. FrameNotTorn' /\ SavedImageComplete'
    BY SameFrame, RigidImages DEF SavedImageComplete, IInv, files
  <1> QED
    BY <1>1, <1>2, <1>3, <1>4, <1>5, InvNext

\* All rows were copied under one lock, so the frame is the image of a moment
\* at which nobody merged.
LEMMA FrameWhole ==
    ASSUME IInv, DrawUnlock
    PROVE  shown' = result /\ mutex = Main
  <1>1. mutex = Main /\ \A c \in Grid : c[2] < NumBlocksY => texture[c] = result[c]
    BY DEF IInv, DrawLocked, DrawUnlock
  <1>2. \A c \in Grid : texture[c] = result[c]
    BY <1>1, CellType, NumBlocksNat DEF Rows
  <1>3. texture = [c \in Grid |-> texture[c]] /\ result = [c \in Grid |-> result[c]]
    <2>1. result = ImageSoFar
      BY DEF IInv, ResultExact
    <2> QED
      BY <2>1, ImageCells DEF ImageSoFar, IInv, TypeOK, IsImage
  <1> QED
    BY <1>1, <1>2, <1>3 DEF DrawUnlock

LEMMA DrawUnlockStep == ASSUME IInv, DrawUnlock PROVE IInv'
  <1> USE DEF DrawUnlock
  <1>1. WorkInv' /\ DOMAIN loaded' = Workers /\ OneBlockPerIndex'
    BY FrameWhole, MainFrame
  <1>2. TypeOK'
    BY TypeFrame, TypeNext, RigidImages DEF IInv, TypeOK, files, IsImage
  <1>3. DrawLocked' /\ Stages' /\ FilesExact'
    BY RigidImages DEF DrawLocked, Stages, FilesExact, IInv, pool, worker, files
  <1>4. FrameNotTorn'
    BY FrameWhole, ImageLocked, FrameNext
  <1>5. SavedImageComplete'
    BY RigidImages DEF SavedImageComplete, IInv, files
  <1> QED
    BY <1>1, <1>2, <1>3, <1>4, <1>5, InvNext

\* Three steps after which the main thread waits for, or has joined, the render
\* thread.
LEMMA WaitStep ==
    ASSUME IInv, DrawThrows \/ CloseWindow \/ Join
    PROVE  IInv'
  <1> USE DEF DrawThrows, CloseWindow, Join
  <1>1. WorkInv' /\ DOMAIN loaded' = Workers /\ OneBlockPerIndex'
    BY MainFrame
  <1>2. TypeOK'
    BY TypeFrame, TypeNext, RigidImages DEF IInv, TypeOK, window, files, IsImage
  <1>3. DrawLocked' /\ Stages' /\ FilesExact'
    BY RigidImages DEF DrawLocked, Stages, FilesExact, IInv, pool, worker, files
  <1>4. FrameNotTorn' /\ SavedImageComplete'
    BY SameFrame, RigidImages DEF SavedImageComplete, IInv, window, files
  <1> QED
    BY <1>1, <1>2, <1>3, <1>4, InvNext

LEMMA SaveStep ==
    ASSUME IInv, SaveEXR \/ SaveEXRFails \/ SavePNG
    PROVE  IInv'
  <1> USE DEF SaveEXR, SaveEXRFails, SavePNG
  <1>1. WorkInv' /\ DOMAIN loaded' = Workers /\ OneBlockPerIndex'
    BY MainFrame
  <1>2. TypeOK'
    BY TypeFrame, TypeNext, RigidImages DEF IInv, TypeOK, window, IsImage
  <1>3. result = Merged(Grid)
    BY ImageAtEnd DEF IInv, Stages
  <1>4. DrawLocked' /\ Stages'
    BY RigidImages DEF DrawLocked, Stages, IInv, pool, worker
  <1>5. FilesExact'
    BY <1>3, NoFileAssumption DEF FilesExact, IInv, Stages
  <1>6. SavedImageComplete'
    BY <1>3, RigidImages, NoFileAssumption, NoneAssumption DEF SavedImageComplete, FilesExact, IInv
  <1>7. FrameNotTorn'
    BY SameFrame DEF IInv, window
  <1> QED
    BY <1>1, <1>2, <1>4, <1>5, <1>6, <1>7, InvNext

LEMMA FinishStep == ASSUME IInv, Finish PROVE IInv'
  <1> USE DEF Finish
  <1>1. WorkInv' /\ DOMAIN loaded' = Workers /\ OneBlockPerIndex'
    BY MainFrame
  <1>2. TypeOK'
    BY TypeFrame, TypeNext, RigidImages DEF IInv, TypeOK, window, files, IsImage
  <1>3. DrawLocked' /\ Stages' /\ FilesExact'
    BY RigidImages DEF DrawLocked, Stages, FilesExact, IInv, pool, worker, window, files
  <1>4. FrameNotTorn' /\ SavedImageComplete'
    BY SameFrame, RigidImages DEF SavedImageComplete, IInv, window, files
  <1> QED
    BY <1>1, <1>2, <1>3, <1>4, InvNext

-----------------------------------------------------------------------------
(* The steps of a worker, once more: what is not about blocks.             *)

Step(w) == TakeChunk(w) \/ Working(w)

\* The render thread is rendering, and nothing of the main thread changes.
LEMMA WorkerRuns ==
    ASSUME IInv, NEW w \in Workers, Step(w)
    PROVE  /\ renderer = "rendering" /\ UNCHANGED <<mainPc, renderer, window, files>>
           /\ result' # result => mutex = w /\ mutex' = mutex
           /\ mutex' # mutex => mutex # Main /\ mutex' # Main
  <1>1. renderer = "rendering"
    <2>1. TakeChunk(w) \/ pc[w] # "idle"
      BY DEF Step, Working, CallNext, RenderBlock, PutLock, PutLoad, PutStore, PutUnlock
    <2> QED
      BY <2>1 DEF TakeChunk, IInv, Stages
  <1>2. pc[w] \in {"store", "unlock"} => mutex = w
    BY DEF IInv, MergeLocked
  <1> QED
    BY <1>1, <1>2, WorkersAssumption
       DEF Step, Working, TakeChunk, CallNext, RenderBlock, PutLock, PutLoad, PutStore, PutUnlock

LEMMA WorkerKeepsMain ==
    ASSUME IInv, NEW w \in Workers, Step(w)
    PROVE  DrawLocked' /\ FrameNotTorn' /\ Stages' /\ FilesExact' /\ SavedImageComplete'
  <1>1. DrawLocked'
    <2>1. mainPc = "draw" => mutex = Main
      BY DEF IInv, DrawLocked
    <2>2. mainPc = "draw" => result' = result /\ mutex' = mutex
      BY <2>1, WorkerRuns, WorkersAssumption
    <2> QED
      BY <2>2, WorkerRuns, RigidImages DEF IInv, DrawLocked, window
  <1>2. Stages' /\ FilesExact' /\ SavedImageComplete'
    BY WorkerRuns, RigidImages DEF IInv, Stages, FilesExact, SavedImageComplete, files
  <1>3. FrameNotTorn'
    BY SameFrame, WorkerRuns DEF IInv, window
  <1> QED
    BY <1>1, <1>2, <1>3

LEMMA WorkerKeepsWork ==
    ASSUME IInv, NEW w \in Workers, Step(w)
    PROVE  WorkInv' /\ DOMAIN loaded' = Workers /\ OneBlockPerIndex'
  <1> USE WorkOf
  <1>1. CASE TakeChunk(w)
    BY <1>1, TakeChunkWork, TakeChunkShares DEF TakeChunk, IInv
  <1>2. CASE CallNext(w)
    <2>1. renderer # "none"
      BY WorkerRuns DEF Step
    <2>2. DOMAIN loaded' = Workers
      BY <1>2 DEF CallNext, worker
    <2>3. CASE Pool!Ask(w)
      <3>1. \A v \in Workers : Owing(v)' = Owing(v)
        BY <1>2, <2>3, StateTypes DEF CallNext, Pool!Ask, Owing, InHand, worker
      <3>2. pending' = pending /\ todo' = todo
        BY <1>2, <2>3 DEF CallNext, Pool!Ask
      <3> QED
        BY <1>2, <2>1, <2>2, <2>3, <3>1, <3>2, AskWork, SameShares DEF IInv
    <2>4. CASE Pool!Grant(w)
      BY <1>2, <2>1, <2>2, <2>4, GrantWork, GrantShares DEF IInv
    <2>5. CASE Pool!Refuse(w)
      <3>1. pc[w] = "next" /\ ~InHand(w) /\ pending = {}
        BY <1>2, <2>5 DEF CallNext, Pool!Refuse, InHand
      <3> QED
        BY <2>1, <3>1, BlockForEach DEF IInv
    <2> QED
      BY <1>2, <2>3, <2>4, <2>5 DEF CallNext
  <1>3. CASE RenderBlock(w) \/ PutLock(w) \/ PutLoad(w) \/ PutStore(w) \/ PutUnlock(w)
    <2> USE DEF RenderBlock, PutLock, PutLoad, PutStore, PutUnlock, Pool!Return, pool
    <2>1. WorkInv'
      BY <1>3, RenderBlockWork, PutLockWork, PutLoadWork, PutStoreWork, PutUnlockWork
    <2>2. DOMAIN loaded' = Workers
      BY <1>3
    <2>3. \A v \in Workers : Owing(v)' = Owing(v)
      BY <1>3, StateTypes DEF Owing, InHand, IInv, Phases
    <2>4. pending' = pending /\ todo' = todo /\ renderer' = renderer
      BY <1>3
    <2> QED
      BY <2>1, <2>2, <2>3, <2>4, SameShares DEF IInv
  <1> QED
    BY <1>1, <1>2, <1>3 DEF Step, Working

\* The types of what a worker changes.
LEMMA WorkerPoolTypes ==
    ASSUME IInv, NEW w \in Workers, Step(w)
    PROVE  Pool!TypeOK'
  <1>1. Pool!TypeOK
    BY DEF IInv, TypeOK
  <1>2. CASE TakeChunk(w)
    BY <1>1, <1>2, RigidImages DEF TakeChunk, Pool!TypeOK, Pool!Phases
  <1>3. CASE CallNext(w)
    <2>1. CASE Pool!Ask(w)
      BY <1>1, <2>1, RigidImages DEF Pool!Ask, Pool!TypeOK, Pool!Phases
    <2>2. CASE Pool!Grant(w)
      BY <1>1, <2>2, RigidImages DEF Pool!Grant, Pool!TypeOK, Pool!Phases
    <2>3. CASE Pool!Refuse(w)
      BY <1>1, <2>3, RigidImages DEF Pool!Refuse, Pool!TypeOK, Pool!Phases
    <2> QED
      BY <1>3, <2>1, <2>2, <2>3 DEF CallNext
  <1>4. CASE RenderBlock(w)
    BY <1>1, <1>4, RigidImages DEF RenderBlock, Pool!Return, Pool!TypeOK, Pool!Phases
  <1>5. CASE PutLock(w) \/ PutLoad(w) \/ PutStore(w) \/ PutUnlock(w)
    BY <1>1, <1>5, RigidImages
       DEF PutLock, PutLoad, PutStore, PutUnlock, pool, Pool!TypeOK, Pool!Phases
  <1> QED
    BY <1>2, <1>3, <1>4, <1>5 DEF Step, Working

LEMMA WorkerTypes ==
    ASSUME IInv, NEW w \in Workers, Step(w)
    PROVE  TypeOK'
  <1> USE DEF Step, Working, TakeChunk, CallNext, RenderBlock, PutLock, PutLoad, PutStore,
              PutUnlock, worker
  <1>1. TypeOK /\ chunk \in [Workers -> 0 .. NumBlocksX * NumBlocksY]
                /\ NumBlocksX * NumBlocksY \in Nat
    BY GridFinite, FS_CardinalityType DEF IInv, TypeOK
  <1>2. chunk' \in [Workers -> 0 .. NumBlocksX * NumBlocksY]
    <2>1. pc[w] = "unlock" => chunk[w] - 1 \in 0 .. NumBlocksX * NumBlocksY
      BY <1>1 DEF IInv, Phases
    <2>2. \A n \in 1 .. todo : n \in 0 .. NumBlocksX * NumBlocksY
      BY <1>1 DEF TypeOK
    <2> QED
      BY <1>1, <2>1, <2>2
  <1>3. todo' \in 0 .. NumBlocksX * NumBlocksY
    <2>1. \A n \in 1 .. todo : todo - n \in 0 .. NumBlocksX * NumBlocksY
      BY <1>1 DEF TypeOK
    <2> QED
      BY <1>1, <2>1 DEF TypeOK
  <1>4. pc' \in [Workers -> {"idle", "next", "lock", "load", "store", "unlock"}]
    BY <1>1 DEF TypeOK
  <1>5. DOMAIN content' = Workers /\ \A v \in Workers : IsABag(content'[v])
    <2>1. IsABag(EmptyBag) /\ \A old, b : IsABag(Painted(old, b))
      BY SetIsABag DEF EmptyBag, Painted
    <2> HIDE DEF Painted
    <2> QED
      BY <1>1, <2>1 DEF TypeOK
  <1>6. line' \in [Workers -> Rows \cup {0}]
    <2>1. line \in [Workers -> Rows \cup {0}]
      BY <1>1 DEF TypeOK
    <2>2. CASE PutLock(w)
      <3>1. held[w] \in Grid /\ None \notin Grid
        BY <2>2, NoneAssumption DEF IInv, InGoodHands, InHand
      <3>2. FirstRow(Place(held[w])) \in Rows
        BY <3>1, RowsReached DEF Place
      <3> QED
        BY <2>1, <2>2, <3>2
    <2>3. CASE PutStore(w)
      <3>1. held[w] \in Grid /\ Place(held[w]) = held[w]
        BY <2>3, NoneAssumption DEF IInv, InGoodHands, InHand, Place
      <3>2. line[w] \in ReachRows(held[w])
        BY <2>3 DEF IInv, MergeLocked
      <3>3. line[w] # LastRow(Place(held[w])) => line[w] + 1 \in Rows
        BY <3>1, <3>2, RowsReached
      <3> QED
        BY <2>1, <2>3, <3>3
    <2>4. CASE ~PutLock(w) /\ ~PutStore(w)
      BY <2>1, <2>4
    <2> QED
      BY <2>2, <2>3, <2>4
  <1>7. IsImage(result)'
    BY <1>1, WorkerKeepsWork, ImageIsImage
  <1>8. IsImage(texture)' /\ IsImage(shown)'
    BY <1>1, WorkerRuns, RigidImages DEF TypeOK, IsImage, window
  <1>9. mutex' \in Workers \cup {Main, None}
    BY <1>1 DEF TypeOK
  <1>10. mainPc' = mainPc /\ renderer' = renderer /\ drawRow' = drawRow /\ exitCode' = exitCode
    BY WorkerRuns DEF window, files
  <1> HIDE DEF Step, Working, TakeChunk, CallNext, RenderBlock, PutLock, PutLoad, PutStore,
              PutUnlock, worker
  <1> QED
    BY <1>1, <1>2, <1>3, <1>4, <1>5, <1>6, <1>7, <1>8, <1>9, <1>10, WorkerPoolTypes, TypeNext
       DEF TypeOK

LEMMA WorkerStep ==
    ASSUME IInv, NEW w \in Workers, Step(w)
    PROVE  IInv'
  BY WorkerTypes, WorkerKeepsMain, WorkerKeepsWork, InvNext

-----------------------------------------------------------------------------
(* Theorems.                                                               *)

LEMMA StutterIInv == ASSUME IInv, UNCHANGED vars PROVE IInv'
  <1> USE DEF vars
  <1>1. WorkInv' /\ DOMAIN loaded' = Workers /\ OneBlockPerIndex'
    BY MainFrame
  <1>2. TypeOK'
    BY TypeFrame, TypeNext, RigidImages DEF IInv, TypeOK, window, files, IsImage
  <1>3. DrawLocked' /\ Stages' /\ FilesExact'
    BY RigidImages DEF DrawLocked, Stages, FilesExact, IInv, pool, worker, window, files
  <1>4. FrameNotTorn' /\ SavedImageComplete'
    BY SameFrame, RigidImages DEF SavedImageComplete, IInv, window, files
  <1> QED
    BY <1>1, <1>2, <1>3, <1>4, InvNext

LEMMA NextIInv == ASSUME IInv, [Next]_vars PROVE IInv'
  <1>1. CASE Setup \/ OpenWindow \/ OpenWindowFails \/ Spawn
    BY <1>1, SetupStep, OpenWindowStep, OpenWindowFailsStep, SpawnStep
  <1>2. CASE Drawing \/ DrawThrows \/ CloseWindow
    BY <1>2, DrawLockStep, DrawRowStep, DrawUnlockStep, WaitStep DEF Drawing
  <1>3. CASE Ending
    BY <1>3, WaitStep, SaveStep DEF Ending
  <1>4. ASSUME NEW w \in Workers, TakeChunk(w) \/ Working(w) PROVE IInv'
    BY <1>4, WorkerStep DEF Step
  <1>5. CASE Finish
    BY <1>5, FinishStep
  <1>6. CASE UNCHANGED vars
    BY <1>6, StutterIInv
  <1> QED
    BY <1>1, <1>2, <1>3, <1>4, <1>5, <1>6 DEF Next

\* The invariant the others follow from: where every block is, and what the image,
\* the frame and the files contain because of it.
THEOREM Invariance == Spec => []IInv
  <1>1. Init => IInv
    BY InitIInv
  <1>2. IInv /\ [Next]_vars => IInv'
    BY NextIInv
  <1> QED
    BY <1>1, <1>2, PTL DEF Spec

\* The state of a job has the types its variables are declared with.
THEOREM TypeCorrect == Spec => []TypeOK
  <1>1. IInv => TypeOK
    BY DEF IInv
  <1> QED
    BY <1>1, Invariance, PTL

\* No iteration of main.cpp:97 is refused a block, whatever the chunks TBB cuts:
\* there are as many pending blocks as iterations that still need one.
THEOREM NobodyRefused == Spec => []NeverRefused
  <1>1. IInv => NeverRefused
    BY DEF IInv, Phases, NeverRefused
  <1> QED
    BY <1>1, Invariance, PTL

\* Every frame NoriScreen draws shows whole blocks: draw_contents() holds the lock
\* of the image for as long as it copies it.
THEOREM FramesWhole == Spec => []FrameNotTorn
  <1>1. IInv => FrameNotTorn
    BY DEF IInv
  <1> QED
    BY <1>1, Invariance, PTL

\* No worker is in render()'s lambda once render() is past the join or was left by
\* an exception.
THEOREM NoWorkerOutlives == Spec => []NoWorkerOutlivesJob
  <1>1. ASSUME IInv PROVE NoWorkerOutlivesJob
    BY <1>1 DEF IInv, TypeOK, Stages, NoWorkerOutlivesJob
  <1> QED
    BY <1>1, Invariance, PTL

\* A file that render() wrote is the complete image: every block merged once on
\* every cell it reaches, rendered with its own seed.
THEOREM SavedComplete == Spec => []SavedImageComplete
  <1>1. IInv => SavedImageComplete
    BY DEF IInv
  <1> QED
    BY <1>1, Invariance, PTL

-----------------------------------------------------------------------------
(* Render implements ProgressiveImage.                                     *)

BlocksAreDone == BlocksIn(result) = Done

LEMMA BlocksInvariant == Spec => []BlocksAreDone
  <1>1. IInv => BlocksAreDone
    BY WorkOf, BlocksInResult DEF BlocksAreDone
  <1> QED
    BY <1>1, Invariance, PTL

LEMMA DoneNext ==
    Done' = {b \in Grid \ pending' : \A v \in Workers : InHand(v)' /\ held'[v] = b => pc'[v] = "unlock"}
  BY DEF Done, Grid, NumBlocksX, NumBlocksY, CeilDiv

LEMMA BlocksInNext ==
    BlocksIn(shown)' = {b \in Grid : \A c \in Reach(b) : BagIn(<<b, b>>, shown'[c])}
  BY DEF BlocksIn, BagIn, BagToSet, Reach, Near, Grid, NumBlocksX, NumBlocksY, CeilDiv

\* The frame of the abstract specification changes when the frame does.
LEMMA FrameSame == ASSUME shown' = shown PROVE BlocksIn(shown)' = BlocksIn(shown)
  BY BlocksInNext DEF BlocksIn

LEMMA FrameShown == ASSUME shown' = result PROVE BlocksIn(shown)' = BlocksIn(result)
  BY BlocksInNext DEF BlocksIn

LEMMA SameDone == ASSUME UNCHANGED <<pool, worker>> PROVE Done' = Done
  BY DoneNext DEF Done, InHand, pool, worker

LEMMA InitRefines == Init => Progress!Init
  <1> SUFFICES ASSUME Init PROVE Progress!Init
    OBVIOUS
  <1>1. BlocksIn(result) = Done
    BY InitIInv, WorkOf, BlocksInResult
  <1>2. Done = {} /\ shown = result /\ exr = None
    BY DEF Init, Pool!Init, Done
  <1> QED
    BY <1>1, <1>2 DEF Progress!Init

\* The steps of the main thread: a frame is shown, the file is saved, or nothing
\* happens.
LEMMA MainRefines ==
    ASSUME IInv, BlocksAreDone, BlocksAreDone', UNCHANGED <<pool, worker>>,
           \/ shown' = shown /\ (exr' # None <=> exr # None)
           \/ shown' = result /\ exr = None /\ exr' = None
           \/ shown' = shown /\ renderer = "finished" /\ exr' # None
    PROVE  [Progress!Next]_(Progress!vars)
  <1>1. Done' = Done /\ BlocksIn(result)' = BlocksIn(result)
    BY SameDone DEF BlocksAreDone
  <1>2. CASE shown' = shown /\ (exr' # None <=> exr # None)
    BY <1>1, <1>2, FrameSame DEF Progress!vars
  <1>3. CASE shown' = result /\ exr = None /\ exr' = None
    BY <1>1, <1>3, FrameShown DEF Progress!Show, Progress!Next
  <1>4. CASE shown' = shown /\ renderer = "finished" /\ exr' # None
    <2>1. Done = Grid
      BY <1>4, NobodyWorks, AllGranted DEF IInv, Done
    <2> QED
      BY <1>1, <1>4, <2>1, FrameSame DEF BlocksAreDone, Progress!Save, Progress!Next
  <1> QED
    BY <1>2, <1>3, <1>4

\* The steps of a worker: a block is done with the last row that is merged of it.
LEMMA WorkerDone ==
    ASSUME IInv, NEW w \in Workers, Step(w)
    PROVE  \/ Done' = Done
           \/ \E b \in Grid \ Done : Done' = Done \cup {b}
  <1> USE StateTypes, WorkOf
  <1>1. CASE TakeChunk(w)
    <2>1. \A v \in Workers : /\ InHand(v)' <=> InHand(v)
                             /\ InHand(v) => pc'[v] = pc[v] /\ held'[v] = held[v]
      BY <1>1 DEF TakeChunk, InHand, IInv, Phases
    <2> QED
      BY <1>1, <2>1, DoneNext DEF TakeChunk, Done
  <1>2. CASE CallNext(w)
    <2>1. CASE Pool!Ask(w)
      <3>1. \A v \in Workers : InHand(v)' <=> InHand(v)
        BY <1>2, <2>1 DEF CallNext, Pool!Ask, InHand, worker
      <3> QED
        BY <1>2, <2>1, <3>1, DoneNext DEF CallNext, Pool!Ask, Done, worker
    <2>2. CASE Pool!Grant(w)
      <3>1. PICK j \in pending : pending' = pending \ {j} /\ held' = [held EXCEPT ![w] = j]
        BY <2>2 DEF Pool!Grant
      <3>2. pc' = pc /\ pc[w] = "next" /\ ~InHand(w) /\ InHand(w)'
            /\ \A v \in Workers \ {w} : InHand(v)' <=> InHand(v)
        BY <1>2, <2>2 DEF CallNext, Pool!Grant, InHand, worker
      <3> QED
        BY <3>1, <3>2, DoneNext DEF Done
    <2>3. CASE Pool!Refuse(w)
      <3>1. \A v \in Workers : InHand(v)' <=> InHand(v)
        BY <1>2, <2>3 DEF CallNext, Pool!Refuse, InHand, worker
      <3> QED
        BY <1>2, <2>3, <3>1, DoneNext DEF CallNext, Pool!Refuse, Done, worker
    <2> QED
      BY <1>2, <2>1, <2>2, <2>3 DEF CallNext
  <1>3. CASE RenderBlock(w) \/ PutLock(w) \/ PutLoad(w)
    <2>1. pending' = pending /\ held' = held
          /\ \A v \in Workers : /\ InHand(v)' <=> InHand(v)
                                /\ pc[v] = "unlock" <=> pc'[v] = "unlock"
      BY <1>3 DEF RenderBlock, PutLock, PutLoad, Pool!Return, pool, InHand, IInv, Phases
    <2> QED
      BY <2>1, DoneNext DEF Done
  <1>4. CASE PutStore(w)
    <2>1. pending' = pending /\ held' = held /\ InHand(w) /\ pc[w] # "unlock"
          /\ (\A v \in Workers : InHand(v)' <=> InHand(v))
          /\ \A v \in Workers \ {w} : pc'[v] = pc[v]
      BY <1>4 DEF PutStore, pool, InHand
    <2>2. held[w] \in Grid \ pending /\ held[w] \notin Done
          /\ \A v \in Workers : InHand(v) /\ held[v] = held[w] => v = w
      BY <2>1 DEF IInv, InGoodHands, Done
    <2>3. CASE pc'[w] = "unlock"
      <3>1. Done' = Done \cup {held[w]}
        BY <2>1, <2>2, <2>3, DoneNext DEF Done
      <3> QED
        BY <2>2, <3>1
    <2>4. CASE pc'[w] # "unlock"
      BY <2>1, <2>4, DoneNext DEF Done
    <2> QED
      BY <2>3, <2>4
  <1>5. CASE PutUnlock(w)
    <2>1. pending' = pending /\ held' = held /\ pc[w] = "unlock" /\ ~InHand(w)'
          /\ \A v \in Workers \ {w} : pc'[v] = pc[v] /\ (InHand(v)' <=> InHand(v))
      BY <1>5 DEF PutUnlock, pool, InHand, IInv, Phases
    <2> QED
      BY <2>1, DoneNext DEF Done
  <1> QED
    BY <1>1, <1>2, <1>3, <1>4, <1>5 DEF Step, Working

LEMMA WorkerRefines ==
    ASSUME IInv, BlocksAreDone, BlocksAreDone', NEW w \in Workers, Step(w)
    PROVE  [Progress!Next]_(Progress!vars)
  <1>1. exr = None /\ exr' = None /\ BlocksIn(shown)' = BlocksIn(shown)
    BY WorkerRuns, FrameSame DEF IInv, FilesExact, window, files
  <1>2. CASE Done' = Done
    BY <1>1, <1>2 DEF BlocksAreDone, Progress!vars
  <1>3. ASSUME NEW b \in Grid \ Done, Done' = Done \cup {b} PROVE Progress!Next
    BY <1>1, <1>3 DEF BlocksAreDone, Progress!Merge, Progress!Next
  <1> QED
    BY <1>2, <1>3, WorkerDone

LEMMA NextRefines ==
    ASSUME IInv, BlocksAreDone, BlocksAreDone', [Next]_vars
    PROVE  [Progress!Next]_(Progress!vars)
  <1>1. CASE Setup \/ OpenWindowFails \/ Spawn \/ DrawThrows \/ CloseWindow \/ Finish \/ UNCHANGED vars
    BY <1>1, MainRefines
       DEF Setup, OpenWindowFails, Spawn, DrawThrows, CloseWindow, Finish, vars, window, files
  <1>2. CASE OpenWindow
    BY <1>2, MainRefines DEF OpenWindow, IInv, FilesExact, files
  <1>3. CASE Drawing
    <2>1. CASE DrawLock \/ DrawRow
      BY <2>1, MainRefines DEF DrawLock, DrawRow, files
    <2>2. CASE DrawUnlock
      <3>1. shown' = result /\ exr = None /\ exr' = None
        BY <2>2, FrameWhole DEF DrawUnlock, IInv, FilesExact, files
      <3> QED
        BY <2>2, <3>1, MainRefines DEF DrawUnlock
    <2> QED
      BY <1>3, <2>1, <2>2 DEF Drawing
  <1>4. CASE Ending
    <2>1. CASE Join \/ SaveEXRFails \/ SavePNG
      BY <2>1, MainRefines DEF Join, SaveEXRFails, SavePNG, window, files
    <2>2. CASE SaveEXR
      <3>1. renderer = "finished" /\ exr' # None
        BY <2>2, ImageAtEnd, NoFileAssumption DEF SaveEXR, IInv, Stages
      <3> QED
        BY <2>2, <3>1, MainRefines DEF SaveEXR, window
    <2> QED
      BY <1>4, <2>1, <2>2 DEF Ending
  <1>5. ASSUME NEW w \in Workers, TakeChunk(w) \/ Working(w)
        PROVE  [Progress!Next]_(Progress!vars)
    BY <1>5, WorkerRefines DEF Step
  <1> QED
    BY <1>1, <1>2, <1>3, <1>4, <1>5 DEF Next

\* A rendering job is what ProgressiveImage says: no merge of main.cpp:109 undoes
\* another one, no frame loses a block, and only the finished image is saved.
THEOREM Refinement == Spec => ImplementsProgressiveImage
  <1>1. Init => Progress!Init
    BY InitRefines
  <1>2. IInv /\ BlocksAreDone /\ BlocksAreDone' /\ [Next]_vars => [Progress!Next]_(Progress!vars)
    BY NextRefines
  <1> QED
    BY <1>1, <1>2, Invariance, BlocksInvariant, PTL
       DEF Spec, ImplementsProgressiveImage, Progress!Spec
=============================================================================

--------------------------- MODULE BlockGenerator ---------------------------
(***************************************************************************)
(* The work scheduler of the renderer, class BlockGenerator                *)
(* (src/include/core/block.h, src/src/core/block.cpp): an image is cut     *)
(* into square blocks that threads obtain with next(), the block in the    *)
(* centre first and the others along a spiral.                             *)
(*                                                                         *)
(* One action is one step of a call of next() by a thread: taking the      *)
(* scoped lock, the early return, the hand-out, one round of the do-while  *)
(* loop, and the return that drops the lock.                               *)
(***************************************************************************)
EXTENDS BlockGrid, FiniteSets

CONSTANTS Threads,        \* the callers of next()
          NoThread,       \* the owner of a free mutex
          NoBlock         \* what a thread was handed before its first call

ASSUME NoThreadAssumption == NoThread \notin Threads
ASSUME NoBlockAssumption == NoBlock \notin Grid

-----------------------------------------------------------------------------
(* The spiral.                                                             *)

Center == <<NumBlocksX \div 2, NumBlocksY \div 2>>

ERight == 0
EDown  == 1
ELeft  == 2
EUp    == 3

\* The switch on m_direction: one block along direction d.
StepX(d) == IF d = ERight THEN 1 ELSE IF d = ELeft THEN -1 ELSE 0
StepY(d) == IF d = EDown  THEN 1 ELSE IF d = EUp   THEN -1 ELSE 0

Moved(b, d) == <<b[1] + StepX(d), b[2] + StepY(d)>>

-----------------------------------------------------------------------------
VARIABLES
    block,       \* m_block, the block the next call hands out
    numSteps,    \* m_numSteps, the length of the current leg of the spiral
    stepsLeft,   \* m_stepsLeft, what is left of that leg
    direction,   \* m_direction
    blocksLeft,  \* m_blocksLeft
    mutex,       \* the owner of m_mutex
    pc,          \* where each thread is in next()
    given,       \* the block whose offset and size the thread's ImageBlock has
    answer,      \* the value its last call of next() returned
    handed       \* history: every block that was handed out

generator == <<block, numSteps, stepsLeft, direction>>
vars == <<generator, blocksLeft, mutex, pc, given, answer, handed>>

Labels == {"idle", "lock", "locked", "advance", "unlock"}

\* The types of the members of BlockGenerator and of its callers: the leg under
\* way is never exhausted, and only blocks of the image are handed out.
TypeOK ==
    /\ block \in Int \X Int
    /\ numSteps \in Nat \ {0}
    /\ stepsLeft \in 1 .. numSteps
    /\ direction \in 0 .. 3
    /\ blocksLeft \in Nat
    /\ mutex \in Threads \cup {NoThread}
    /\ pc \in [Threads -> Labels]
    /\ given \in [Threads -> Grid \cup {NoBlock}]
    /\ answer \in [Threads -> BOOLEAN]
    /\ handed \in SUBSET Grid

-----------------------------------------------------------------------------
(* The constructor.                                                        *)
Init ==
    /\ block = Center
    /\ numSteps = 1
    /\ stepsLeft = 1
    /\ direction = ERight
    /\ blocksLeft = NumBlocksX * NumBlocksY
    /\ mutex = NoThread
    /\ pc = [t \in Threads |-> "idle"]
    /\ given = [t \in Threads |-> NoBlock]
    /\ answer = [t \in Threads |-> TRUE]
    /\ handed = {}

Call(t) ==
    /\ pc[t] = "idle"
    /\ pc' = [pc EXCEPT ![t] = "lock"]
    /\ UNCHANGED <<generator, blocksLeft, mutex, given, answer, handed>>

\* Fault: next() without its lock.
LockForgotten(t) ==
    /\ pc[t] = "lock"
    /\ mutex' = t
    /\ pc' = [pc EXCEPT ![t] = "locked"]
    /\ UNCHANGED <<generator, blocksLeft, given, answer, handed>>

\* tbb::mutex::scoped_lock lock(m_mutex)
Lock(t) ==
    /\ pc[t] = "lock"
    /\ mutex = NoThread
    /\ mutex' = t
    /\ pc' = [pc EXCEPT ![t] = "locked"]
    /\ UNCHANGED <<generator, blocksLeft, given, answer, handed>>

\* Fault: the last block is refused too.
RefuseEarly(t) ==
    /\ pc[t] = "locked"
    /\ blocksLeft <= 1
    /\ answer' = [answer EXCEPT ![t] = FALSE]
    /\ pc' = [pc EXCEPT ![t] = "unlock"]
    /\ UNCHANGED <<generator, blocksLeft, mutex, given, handed>>

\* No block left: return false, and the caller's ImageBlock keeps the
\* offset and size it had.
Refuse(t) ==
    /\ pc[t] = "locked"
    /\ blocksLeft = 0
    /\ answer' = [answer EXCEPT ![t] = FALSE]
    /\ pc' = [pc EXCEPT ![t] = "unlock"]
    /\ UNCHANGED <<generator, blocksLeft, mutex, given, handed>>

\* Fault: the walk goes on after the last block.
HandOutWithoutReturn(t) ==
    /\ pc[t] = "locked"
    /\ blocksLeft # 0
    /\ given' = [given EXCEPT ![t] = block]
    /\ handed' = handed \cup {block}
    /\ blocksLeft' = blocksLeft - 1
    /\ answer' = [answer EXCEPT ![t] = TRUE]
    /\ pc' = [pc EXCEPT ![t] = "advance"]
    /\ UNCHANGED <<generator, mutex>>

\* setOffset and setSize, then --m_blocksLeft; the last block is returned at
\* once, any other enters the loop.
HandOut(t) ==
    /\ pc[t] = "locked"
    /\ blocksLeft # 0
    /\ given' = [given EXCEPT ![t] = block]
    /\ handed' = handed \cup {block}
    /\ blocksLeft' = blocksLeft - 1
    /\ answer' = [answer EXCEPT ![t] = TRUE]
    /\ pc' = [pc EXCEPT ![t] = IF blocksLeft = 1 THEN "unlock" ELSE "advance"]
    /\ UNCHANGED <<generator, mutex>>

\* Fault: every leg is longer than the one before.
TurnAlwaysLonger ==
    /\ direction' = (direction + 1) % 4
    /\ numSteps' = numSteps + 1
    /\ stepsLeft' = numSteps'

\* The end of a leg of the spiral: turn, and lengthen the leg every second time.
Turn ==
    /\ direction' = (direction + 1) % 4
    /\ numSteps' = IF direction' \in {ELeft, ERight} THEN numSteps + 1 ELSE numSteps
    /\ stepsLeft' = numSteps'

\* The body of the do-while loop.
Walk ==
    /\ block' = Moved(block, direction)
    /\ IF stepsLeft = 1
         THEN Turn
         ELSE /\ stepsLeft' = stepsLeft - 1
              /\ UNCHANGED <<direction, numSteps>>

\* Fault: one round only, wherever it ends.
AdvanceOnce(t) ==
    /\ pc[t] = "advance"
    /\ Walk
    /\ pc' = [pc EXCEPT ![t] = "unlock"]
    /\ UNCHANGED <<blocksLeft, mutex, given, answer, handed>>

\* One round of the loop, which repeats until the walk is in the grid again.
Advance(t) ==
    /\ pc[t] = "advance"
    /\ Walk
    /\ pc' = [pc EXCEPT ![t] = IF block' \in Grid THEN "unlock" ELSE "advance"]
    /\ UNCHANGED <<blocksLeft, mutex, given, answer, handed>>

\* Every return runs the destructor of the scoped lock.
Unlock(t) ==
    /\ pc[t] = "unlock"
    /\ mutex' = NoThread
    /\ pc' = [pc EXCEPT ![t] = "idle"]
    /\ UNCHANGED <<generator, blocksLeft, given, answer, handed>>

Inside(t) == Refuse(t) \/ HandOut(t) \/ Advance(t) \/ Unlock(t)

Next == \E t \in Threads : Call(t) \/ Lock(t) \/ Inside(t)

Spec == Init /\ [][Next]_vars

-----------------------------------------------------------------------------
(* Properties.                                                             *)

\* next(): a block that is handed out is a block of the image, and no thread
\* received it before, however the calls of the threads interleave.
NoBlockTwice ==
    [][\A t \in Threads : HandOut(t) => block \in Grid \ handed]_vars

\* next(), "false if there were no more blocks": a caller that was refused,
\* or the one that took the last block, can rely on every block having been
\* handed out.
RefusedWhenComplete ==
    blocksLeft = 0 \/ (\E t \in Threads : pc[t] = "unlock" /\ ~answer[t])
        => handed = Grid

\* The regions of the blocks that were handed out never overlap, lie in the
\* image, and once they all were, cover it to the last pixel, whether or not
\* its size is a multiple of the block size.
RegionsTileImage ==
    /\ \A b, c \in handed : b # c => PixelsOf(b) \cap PixelsOf(c) = {}
    /\ blocksLeft = 0 =>
         UNION {PixelsOf(b) : b \in handed} = (0 .. SizeX - 1) \X (0 .. SizeY - 1)

\* The class comment, "the center is rendered first": blocks are handed out
\* ring by ring around the centre block, although the walk leaves the grid
\* and comes back.
Magnitude(i) == IF i < 0 THEN -i ELSE i
Ring(b) == LET dx == Magnitude(b[1] - Center[1])
               dy == Magnitude(b[2] - Center[2])
           IN  IF dx < dy THEN dy ELSE dx

CenterFirst ==
    \A b \in handed, c \in Grid : Ring(c) < Ring(b) => c \in handed

\* The do-while loop stops: no leg of the walk ever outgrows the grid.
Longer == IF NumBlocksX < NumBlocksY THEN NumBlocksY ELSE NumBlocksX

LegsBounded == numSteps <= Longer + 1

-----------------------------------------------------------------------------
(* BlockGenerator implements WorkPool.  The hand-out under the lock is the *)
(* grant; everything the loop does afterwards is invisible.                *)

PoolPhase ==
    [t \in Threads |->
        IF pc[t] = "idle" THEN "idle"
        ELSE IF pc[t] \in {"lock", "locked"} THEN "asked"
        ELSE IF answer[t] THEN "granted" ELSE "refused"]

Pool == INSTANCE WorkPool WITH Jobs <- Grid, NoJob <- NoBlock,
            pending <- Grid \ handed, held <- given, phase <- PoolPhase

ImplementsWorkPool == Pool!Spec
=============================================================================

----------------------- MODULE BlockGeneratorProofs -----------------------
(***************************************************************************)
(* Theorems about BlockGenerator, for every image, block size and set of   *)
(* threads.                                                                *)
(***************************************************************************)
EXTENDS BlockGenerator, FiniteSetTheorems, TLAPS

-----------------------------------------------------------------------------
(* Why it works: where the walk is, in closed form.  The first Radius      *)
(* rings around the centre are finished, and the leg under way runs along  *)
(* one side of the next ring.                                              *)

Radius == (numSteps - 1) \div 2

DX(p) == p[1] - Center[1]
DY(p) == p[2] - Center[2]

\* The position follows from the leg and from what is left of it.
OnSpiral ==
    LET done == numSteps - stepsLeft
        k == Radius
    IN  \/ /\ direction = ERight
           /\ numSteps = 2 * k + 1
           /\ DX(block) = done - k
           /\ DY(block) = -k
        \/ /\ direction = EDown
           /\ numSteps = 2 * k + 1
           /\ DX(block) = k + 1
           /\ DY(block) = done - k
        \/ /\ direction = ELeft
           /\ numSteps = 2 * k + 2
           /\ DX(block) = k + 1 - done
           /\ DY(block) = k + 1
        \/ /\ direction = EUp
           /\ numSteps = 2 * k + 2
           /\ DX(block) = -k - 1
           /\ DY(block) = k + 1 - done

\* The walk was at p before it came to the current block.
Passed(p) ==
    LET k == Radius
    IN  \/ /\ direction = ERight
           /\ \/ DX(p) \in -k .. k /\ DY(p) \in 1 - k .. k
              \/ DX(p) \in -k .. DX(block) - 1 /\ DY(p) = -k
        \/ /\ direction = EDown
           /\ \/ DX(p) \in -k .. k /\ DY(p) \in -k .. k
              \/ DX(p) = k + 1 /\ DY(p) \in -k .. DY(block) - 1
        \/ /\ direction = ELeft
           /\ \/ DX(p) \in -k .. k + 1 /\ DY(p) \in -k .. k
              \/ DX(p) \in DX(block) + 1 .. k + 1 /\ DY(p) = k + 1
        \/ /\ direction = EUp
           /\ \/ DX(p) \in -k .. k + 1 /\ DY(p) \in -k .. k + 1
              \/ DX(p) = -k - 1 /\ DY(p) \in DY(block) + 1 .. k + 1

Advancing == \E t \in Threads : pc[t] = "advance"

\* Exactly the owner of the mutex is inside next().
OwnerInside ==
    \A t \in Threads : mutex = t <=> pc[t] \in {"locked", "advance", "unlock"}

\* While blocks are left, what was handed out is the part of the grid behind
\* the walk, with the block under it while a thread is in the loop; nobody
\* else finds the walk outside the grid.
HandedIsPassed ==
    blocksLeft # 0 =>
        /\ \A p \in Grid : p \in handed <=> Passed(p) \/ (Advancing /\ p = block)
        /\ ~Advancing => block \in Grid

CountsAgree == blocksLeft = NumBlocksX * NumBlocksY - Cardinality(handed)

AnswersAgree ==
    \A t \in Threads :
        /\ pc[t] = "advance" => blocksLeft # 0 /\ answer[t]
        /\ pc[t] = "unlock" /\ ~answer[t] => blocksLeft = 0

\* The inductive invariant.
IInv ==
    /\ TypeOK
    /\ OwnerInside
    /\ OnSpiral
    /\ HandedIsPassed
    /\ CountsAgree
    /\ AnswersAgree

-----------------------------------------------------------------------------
(* The grid.                                                               *)

LEMMA DivNat == ASSUME NEW a \in Nat, NEW b \in Nat \ {0}
                PROVE  a \div b \in Nat
  BY SMT

LEMMA NumBlocksNat == NumBlocksX \in Nat /\ NumBlocksY \in Nat
  <1>1. SizeX + BlockSize - 1 \in Nat /\ SizeY + BlockSize - 1 \in Nat
    BY SizeAssumption, BlockSizeAssumption
  <1> QED
    BY <1>1, DivNat, BlockSizeAssumption DEF NumBlocksX, NumBlocksY, CeilDiv

LEMMA CenterFacts ==
    /\ Center = <<Center[1], Center[2]>>
    /\ Center \in Nat \X Nat
    /\ 2 * Center[1] <= NumBlocksX /\ NumBlocksX <= 2 * Center[1] + 1
    /\ 2 * Center[2] <= NumBlocksY /\ NumBlocksY <= 2 * Center[2] + 1
  BY NumBlocksNat DEF Center

LEMMA GridFinite ==
    /\ IsFiniteSet(Grid)
    /\ Cardinality(Grid) = NumBlocksX * NumBlocksY
  <1>1. IsFiniteSet(0 .. NumBlocksX - 1) /\ Cardinality(0 .. NumBlocksX - 1) = NumBlocksX
    BY NumBlocksNat, FS_Interval
  <1>2. IsFiniteSet(0 .. NumBlocksY - 1) /\ Cardinality(0 .. NumBlocksY - 1) = NumBlocksY
    BY NumBlocksNat, FS_Interval
  <1> QED
    BY <1>1, <1>2, FS_Product DEF Grid

-----------------------------------------------------------------------------
(* The walk.                                                               *)

LEMMA HalfFacts ==
    ASSUME NEW n \in Nat \ {0}
    PROVE  /\ (n - 1) \div 2 \in Nat
           /\ n = 2 * ((n - 1) \div 2) + 1 \/ n = 2 * ((n - 1) \div 2) + 2
  OBVIOUS

LEMMA NextHalf ==
    ASSUME NEW a \in Nat, NEW b \in Nat, NEW n \in Nat,
           n = 2 * b + 1 \/ n = 2 * b + 2
    PROVE  /\ n = 2 * a + 3 => b = a + 1
           /\ n = 2 * a + 2 => b = a
           /\ n = 2 * a + 1 => b = a
  OBVIOUS

LEMMA RadiusFacts ==
    ASSUME numSteps \in Nat \ {0}
    PROVE  /\ Radius \in Nat
           /\ numSteps = 2 * Radius + 1 \/ numSteps = 2 * Radius + 2
  BY HalfFacts DEF Radius

\* The part of TypeOK the walk depends on.
WalkType ==
    /\ block \in Int \X Int
    /\ numSteps \in Nat \ {0}
    /\ stepsLeft \in 1 .. numSteps
    /\ direction \in 0 .. 3

LEMMA CenterInt == Center[1] \in Int /\ Center[2] \in Int
  BY CenterFacts

\* The closed form forbids a second visit to the current position.
LEMMA BlockNotPassed ==
    ASSUME WalkType, OnSpiral
    PROVE  ~Passed(block)
  <1>1. Radius \in Nat
    BY RadiusFacts DEF WalkType
  <1>2. DX(block) \in Int /\ DY(block) \in Int
    BY CenterInt DEF WalkType, DX, DY
  <1> QED
    BY <1>1, <1>2 DEF WalkType, OnSpiral, Passed, ERight, EDown, ELeft, EUp

\* One round of the loop keeps the closed form, and leaves exactly the old
\* position behind.
LEMMA WalkStep ==
    ASSUME WalkType, OnSpiral, Walk
    PROVE  /\ WalkType'
           /\ OnSpiral'
           /\ \A p \in Int \X Int : Passed(p)' <=> Passed(p) \/ p = block
  <1> DEFINE k == Radius
             u == DX(block)
             v == DY(block)
  <1>1. k \in Nat /\ (numSteps = 2 * k + 1 \/ numSteps = 2 * k + 2)
    BY RadiusFacts DEF WalkType
  <1>2. u \in Int /\ v \in Int
    BY CenterInt DEF WalkType, DX, DY
  <1>3. Center' = Center
    BY DEF Center, NumBlocksX, NumBlocksY, CeilDiv
  <1>4. direction = ERight \/ direction = EDown \/ direction = ELeft \/ direction = EUp
    BY DEF WalkType, ERight, EDown, ELeft, EUp
  <1>5. WalkType'
    <2>1. block' \in Int \X Int
      BY DEF WalkType, Walk, Moved, StepX, StepY
    <2>2. direction' \in 0 .. 3 /\ numSteps' \in Nat \ {0} /\ stepsLeft' \in 1 .. numSteps'
      BY <1>4 DEF WalkType, Walk, Turn, ERight, EDown, ELeft, EUp
    <2> QED
      BY <2>1, <2>2 DEF WalkType
  <1>6. Radius' \in Nat /\ (numSteps' = 2 * Radius' + 1 \/ numSteps' = 2 * Radius' + 2)
    <2>1. numSteps' \in Nat \ {0}
      BY <1>5 DEF WalkType
    <2> QED
      BY <2>1, HalfFacts DEF Radius
  <1>7. /\ direction' = IF stepsLeft = 1 THEN (IF direction = EUp THEN ERight ELSE direction + 1)
                                           ELSE direction
        /\ stepsLeft' = IF stepsLeft = 1 THEN numSteps' ELSE stepsLeft - 1
        /\ numSteps' = IF stepsLeft = 1 /\ (direction = EDown \/ direction = EUp)
                         THEN numSteps + 1 ELSE numSteps
    BY <1>4 DEF WalkType, Walk, Turn, ERight, EDown, ELeft, EUp
  <1>8. Radius' = IF stepsLeft = 1 /\ direction = EUp THEN Radius + 1 ELSE Radius
    <2>1. numSteps = IF direction = ERight \/ direction = EDown THEN 2 * Radius + 1
                                                               ELSE 2 * Radius + 2
      BY <1>4 DEF OnSpiral, ERight, EDown, ELeft, EUp
    <2>2. numSteps' \in Nat
      BY <1>5 DEF WalkType
    <2>3. CASE stepsLeft = 1 /\ direction = EUp
      <3>1. numSteps' = 2 * Radius + 3
        BY <2>1, <2>3, <1>1, <1>7 DEF ERight, EDown, EUp
      <3> QED
        BY <3>1, <2>2, <2>3, <1>1, <1>6, NextHalf
    <2>4. CASE stepsLeft = 1 /\ direction = EDown
      <3>1. numSteps' = 2 * Radius + 2
        BY <2>1, <2>4, <1>1, <1>7 DEF ERight, EDown, EUp
      <3>2. Radius' = Radius
        BY <3>1, <2>2, <1>1, <1>6, NextHalf
      <3> QED
        BY <3>2, <2>4 DEF EDown, EUp
    <2>5. CASE ~(stepsLeft = 1 /\ (direction = EUp \/ direction = EDown))
      <3>1. numSteps' = 2 * Radius + 1 \/ numSteps' = 2 * Radius + 2
        BY <2>5, <1>1, <1>7
      <3>2. Radius' = Radius
        BY <3>1, <2>2, <1>1, <1>6, NextHalf
      <3> QED
        BY <3>2, <2>5
    <2> QED
      BY <2>3, <2>4, <2>5
  <1>9. /\ DX(block)' = DX(block) + StepX(direction)
        /\ DY(block)' = DY(block) + StepY(direction)
    BY <1>3, CenterInt DEF Walk, Moved, DX, DY, WalkType, StepX, StepY
  <1> DEFINE k1 == Radius'
             u1 == DX(block)'
             v1 == DY(block)'
  <1>10. OnSpiral'
    <2>1. CASE direction = ERight
      BY <2>1, <1>1, <1>2, <1>8, <1>9, <1>7
         DEF WalkType, OnSpiral, StepX, StepY, ERight, EDown, ELeft, EUp
    <2>2. CASE direction = EDown
      BY <2>2, <1>1, <1>2, <1>8, <1>9, <1>7
         DEF WalkType, OnSpiral, StepX, StepY, ERight, EDown, ELeft, EUp
    <2>3. CASE direction = ELeft
      BY <2>3, <1>1, <1>2, <1>8, <1>9, <1>7
         DEF WalkType, OnSpiral, StepX, StepY, ERight, EDown, ELeft, EUp
    <2>4. CASE direction = EUp
      BY <2>4, <1>1, <1>2, <1>8, <1>9, <1>7
         DEF WalkType, OnSpiral, StepX, StepY, ERight, EDown, ELeft, EUp
    <2> QED
      BY <1>4, <2>1, <2>2, <2>3, <2>4
  <1>11. ASSUME NEW p \in Int \X Int
         PROVE  Passed(p)' <=> Passed(p) \/ p = block
    <2>1. /\ DX(p) \in Int /\ DY(p) \in Int
          /\ DX(p)' = DX(p) /\ DY(p)' = DY(p)
      BY <1>3, CenterInt DEF DX, DY
    <2>2. p = block <=> DX(p) = u /\ DY(p) = v
      BY CenterInt DEF DX, DY, WalkType
    <2>3. CASE direction = ERight
      BY <2>1, <2>2, <2>3, <1>1, <1>2, <1>8, <1>9, <1>7
         DEF WalkType, OnSpiral, Passed, StepX, StepY, ERight, EDown, ELeft, EUp
    <2>4. CASE direction = EDown
      BY <2>1, <2>2, <2>4, <1>1, <1>2, <1>8, <1>9, <1>7
         DEF WalkType, OnSpiral, Passed, StepX, StepY, ERight, EDown, ELeft, EUp
    <2>5. CASE direction = ELeft
      BY <2>1, <2>2, <2>5, <1>1, <1>2, <1>8, <1>9, <1>7
         DEF WalkType, OnSpiral, Passed, StepX, StepY, ERight, EDown, ELeft, EUp
    <2>6. CASE direction = EUp
      BY <2>1, <2>2, <2>6, <1>1, <1>2, <1>8, <1>9, <1>7
         DEF WalkType, OnSpiral, Passed, StepX, StepY, ERight, EDown, ELeft, EUp
    <2> QED
      BY <1>4, <2>3, <2>4, <2>5, <2>6
  <1> QED
    BY <1>5, <1>10, <1>11

-----------------------------------------------------------------------------
(* The inductive invariant.                                                *)

LEMMA TypeGivesWalkType == TypeOK => WalkType
  BY DEF TypeOK, WalkType

LEMMA RadiusOfOne == ASSUME numSteps = 1 PROVE Radius = 0
  BY DEF Radius

LEMMA MinusZero == ASSUME NEW k \in Int, NEW n \in Int, n + k = 0 PROVE n = -k
  OBVIOUS

LEMMA InitIInv == Init => IInv
  <1> SUFFICES ASSUME Init PROVE IInv
    OBVIOUS
  <1>1. Radius = 0
    BY RadiusOfOne DEF Init
  <1>2. /\ block \in Int \X Int
        /\ DX(block) = 0 /\ DY(block) = 0
    BY CenterFacts, CenterInt DEF Init, DX, DY
  <1>3. blocksLeft \in Nat
    BY NumBlocksNat DEF Init
  <1>4. TypeOK
    BY <1>2, <1>3 DEF Init, TypeOK, Labels, ERight
  <1>5. OwnerInside
    BY NoThreadAssumption DEF Init, OwnerInside
  <1>6. OnSpiral
    <2>1. direction = ERight /\ numSteps = 1 /\ stepsLeft = 1
      BY DEF Init
    <2>2. /\ numSteps = 2 * Radius + 1
          /\ DX(block) = (numSteps - stepsLeft) - Radius
      BY <1>1, <1>2, <2>1
    <2>3. DY(block) = -Radius
      <3>1. Radius \in Int /\ DY(block) \in Int /\ DY(block) + Radius = 0
        BY <1>1, <1>2
      <3> QED
        BY <3>1, MinusZero
    <2> QED
      BY <2>1, <2>2, <2>3 DEF OnSpiral
  <1>7. ~Advancing
    BY DEF Init, Advancing
  <1>8. HandedIsPassed
    <2>1. ASSUME NEW p \in Grid PROVE ~Passed(p)
      <3>1. DX(p) \in Int /\ DY(p) \in Int
        BY CenterInt, NumBlocksNat DEF Grid, DX, DY
      <3> QED
        BY <1>1, <1>2, <3>1 DEF Passed, Init, ERight, EDown, ELeft, EUp
    <2>2. blocksLeft # 0 => block \in Grid
      <3> SUFFICES ASSUME blocksLeft # 0 PROVE block \in Grid
        OBVIOUS
      <3>1. NumBlocksX # 0 /\ NumBlocksY # 0
        BY NumBlocksNat DEF Init
      <3> QED
        BY <3>1, NumBlocksNat, CenterFacts DEF Init, Grid
    <2> QED
      BY <1>7, <2>1, <2>2 DEF HandedIsPassed, Init
  <1>9. CountsAgree
    BY FS_EmptySet, NumBlocksNat DEF Init, CountsAgree
  <1>10. AnswersAgree
    BY DEF Init, AnswersAgree
  <1> QED
    BY <1>4, <1>5, <1>6, <1>8, <1>9, <1>10 DEF IInv

\* The grid and the closed form do not change with the state.
LEMMA RigidGrid ==
    /\ Grid' = Grid /\ Center' = Center
    /\ NumBlocksX' = NumBlocksX /\ NumBlocksY' = NumBlocksY
  BY DEF Grid, Center, NumBlocksX, NumBlocksY, CeilDiv

LEMMA GridInt == Grid \subseteq Int \X Int
  BY NumBlocksNat DEF Grid

\* Steps outside the loop leave the walk where it is.
LEMMA WalkUnchanged ==
    ASSUME UNCHANGED generator
    PROVE  /\ OnSpiral' = OnSpiral
           /\ \A p : Passed(p)' = Passed(p)
  <1>1. UNCHANGED <<block, numSteps, stepsLeft, direction>>
    BY DEF generator
  <1>2. Radius' = Radius
    BY <1>1 DEF Radius
  <1>3. \A p : DX(p)' = DX(p) /\ DY(p)' = DY(p)
    BY RigidGrid DEF DX, DY
  <1>4. DX(block)' = DX(block) /\ DY(block)' = DY(block)
    BY <1>1, RigidGrid DEF DX, DY
  <1>5. OnSpiral' = OnSpiral
    BY <1>1, <1>2, <1>4 DEF OnSpiral
  <1>6. \A p : Passed(p)' = Passed(p)
    BY <1>1, <1>2, <1>3, <1>4 DEF Passed
  <1> QED
    BY <1>5, <1>6

LEMMA NextIInv == IInv /\ [Next]_vars => IInv'
  <1> SUFFICES ASSUME IInv, [Next]_vars PROVE IInv'
    OBVIOUS
  <1> USE DEF IInv
  <1>1. ASSUME NEW t \in Threads, Call(t) PROVE IInv'
    <2>1. UNCHANGED <<generator, blocksLeft, mutex, given, answer, handed>>
          /\ pc[t] = "idle" /\ pc' = [pc EXCEPT ![t] = "lock"]
      BY <1>1 DEF Call
    <2>2. TypeOK'
      BY <2>1, RigidGrid DEF TypeOK, generator, Labels
    <2>3. OwnerInside'
      BY <2>1 DEF OwnerInside, TypeOK
    <2>4. Advancing' = Advancing
      BY <2>1 DEF Advancing, TypeOK
    <2>5. HandedIsPassed'
      BY <2>1, <2>4, WalkUnchanged, RigidGrid DEF HandedIsPassed, generator
    <2>6. CountsAgree'
      BY <2>1, RigidGrid DEF CountsAgree
    <2>7. AnswersAgree'
      BY <2>1 DEF AnswersAgree, TypeOK
    <2> QED
      BY <2>1, <2>2, <2>3, <2>5, <2>6, <2>7, WalkUnchanged
  <1>2. ASSUME NEW t \in Threads, Lock(t) PROVE IInv'
    <2>1. UNCHANGED <<generator, blocksLeft, given, answer, handed>>
          /\ mutex = NoThread /\ mutex' = t
          /\ pc[t] = "lock" /\ pc' = [pc EXCEPT ![t] = "locked"]
      BY <1>2 DEF Lock
    <2>2. TypeOK'
      BY <2>1, RigidGrid DEF TypeOK, generator, Labels
    <2>3. OwnerInside'
      BY <2>1, NoThreadAssumption DEF OwnerInside, TypeOK
    <2>4. Advancing' = Advancing
      BY <2>1 DEF Advancing, TypeOK
    <2>5. HandedIsPassed'
      BY <2>1, <2>4, WalkUnchanged, RigidGrid DEF HandedIsPassed, generator
    <2>6. CountsAgree'
      BY <2>1, RigidGrid DEF CountsAgree
    <2>7. AnswersAgree'
      BY <2>1 DEF AnswersAgree, TypeOK
    <2> QED
      BY <2>1, <2>2, <2>3, <2>5, <2>6, <2>7, WalkUnchanged
  <1>3. ASSUME NEW t \in Threads, Refuse(t) PROVE IInv'
    <2>1. UNCHANGED <<generator, blocksLeft, mutex, given, handed>>
          /\ blocksLeft = 0 /\ answer' = [answer EXCEPT ![t] = FALSE]
          /\ pc[t] = "locked" /\ pc' = [pc EXCEPT ![t] = "unlock"]
      BY <1>3 DEF Refuse
    <2>2. TypeOK'
      BY <2>1, RigidGrid DEF TypeOK, generator, Labels
    <2>3. OwnerInside'
      BY <2>1 DEF OwnerInside, TypeOK
    <2>5. HandedIsPassed'
      BY <2>1 DEF HandedIsPassed
    <2>6. CountsAgree'
      BY <2>1, RigidGrid DEF CountsAgree
    <2>7. AnswersAgree'
      BY <2>1 DEF AnswersAgree, TypeOK
    <2> QED
      BY <2>1, <2>2, <2>3, <2>5, <2>6, <2>7, WalkUnchanged
  <1>4. ASSUME NEW t \in Threads, HandOut(t) PROVE IInv'
    <2>1. UNCHANGED <<generator, mutex>>
          /\ given' = [given EXCEPT ![t] = block] /\ handed' = handed \cup {block}
          /\ blocksLeft # 0 /\ blocksLeft' = blocksLeft - 1
          /\ answer' = [answer EXCEPT ![t] = TRUE]
          /\ pc[t] = "locked"
          /\ pc' = [pc EXCEPT ![t] = IF blocksLeft = 1 THEN "unlock" ELSE "advance"]
      BY <1>4 DEF HandOut
    <2>2. mutex = t /\ ~Advancing
      BY <2>1 DEF OwnerInside, Advancing, TypeOK
    <2>3. block \in Grid /\ block \notin handed
      <3>1. ~Passed(block)
        BY BlockNotPassed, TypeGivesWalkType
      <3> QED
        BY <2>1, <2>2, <3>1 DEF HandedIsPassed
    <2>4. TypeOK'
      BY <2>1, <2>3, RigidGrid DEF TypeOK, generator, Labels
    <2>5. OwnerInside'
      BY <2>1, <2>2 DEF OwnerInside, TypeOK
    <2>6. HandedIsPassed'
      <3> SUFFICES ASSUME blocksLeft' # 0
                   PROVE  /\ \A p \in Grid : p \in handed' <=>
                               Passed(p)' \/ (Advancing' /\ p = block')
                          /\ ~Advancing' => block' \in Grid
        BY RigidGrid DEF HandedIsPassed
      <3>1. Advancing'
        BY <2>1 DEF Advancing, TypeOK
      <3> QED
        BY <2>1, <2>2, <3>1, WalkUnchanged DEF HandedIsPassed, generator
    <2>7. CountsAgree'
      <3>1. IsFiniteSet(handed) /\ Cardinality(handed) \in Nat
        BY GridFinite, FS_Subset, FS_CardinalityType DEF TypeOK
      <3>2. Cardinality(handed') = Cardinality(handed) + 1
        BY <2>1, <2>3, <3>1, FS_AddElement
      <3>3. NumBlocksX * NumBlocksY \in Nat
        BY NumBlocksNat
      <3> QED
        BY <2>1, <3>1, <3>2, <3>3, RigidGrid DEF CountsAgree
    <2>8. AnswersAgree'
      BY <2>1, <2>2 DEF AnswersAgree, OwnerInside, TypeOK
    <2> QED
      BY <2>1, <2>4, <2>5, <2>6, <2>7, <2>8, WalkUnchanged
  <1>5. ASSUME NEW t \in Threads, Advance(t) PROVE IInv'
    <2>1. UNCHANGED <<blocksLeft, mutex, given, answer, handed>>
          /\ Walk /\ pc[t] = "advance"
          /\ pc' = [pc EXCEPT ![t] = IF block' \in Grid THEN "unlock" ELSE "advance"]
      BY <1>5 DEF Advance
    <2>2. mutex = t /\ Advancing /\ blocksLeft # 0 /\ answer[t]
      BY <2>1 DEF OwnerInside, Advancing, AnswersAgree
    <2>3. /\ WalkType' /\ OnSpiral'
          /\ \A p \in Int \X Int : Passed(p)' <=> Passed(p) \/ p = block
      BY <2>1, WalkStep, TypeGivesWalkType
    <2>4. TypeOK'
      BY <2>1, <2>3, RigidGrid DEF TypeOK, WalkType, Labels
    <2>5. OwnerInside'
      BY <2>1, <2>2 DEF OwnerInside, TypeOK
    <2>6. Advancing' <=> block' \notin Grid
      BY <2>1, <2>2 DEF Advancing, OwnerInside, TypeOK
    <2>7. HandedIsPassed'
      BY <2>1, <2>2, <2>3, <2>6, RigidGrid, GridInt DEF HandedIsPassed
    <2>8. CountsAgree'
      BY <2>1, RigidGrid DEF CountsAgree
    <2>9. AnswersAgree'
      BY <2>1, <2>2 DEF AnswersAgree, TypeOK
    <2> QED
      BY <2>3, <2>4, <2>5, <2>7, <2>8, <2>9
  <1>6. ASSUME NEW t \in Threads, Unlock(t) PROVE IInv'
    <2>1. UNCHANGED <<generator, blocksLeft, given, answer, handed>>
          /\ mutex' = NoThread
          /\ pc[t] = "unlock" /\ pc' = [pc EXCEPT ![t] = "idle"]
      BY <1>6 DEF Unlock
    <2>2. TypeOK'
      BY <2>1, RigidGrid DEF TypeOK, generator, Labels
    <2>3. OwnerInside'
      BY <2>1, NoThreadAssumption DEF OwnerInside, TypeOK
    <2>4. Advancing' = Advancing
      BY <2>1 DEF Advancing, TypeOK
    <2>5. HandedIsPassed'
      BY <2>1, <2>4, WalkUnchanged, RigidGrid DEF HandedIsPassed, generator
    <2>6. CountsAgree'
      BY <2>1, RigidGrid DEF CountsAgree
    <2>7. AnswersAgree'
      BY <2>1 DEF AnswersAgree, TypeOK
    <2> QED
      BY <2>1, <2>2, <2>3, <2>5, <2>6, <2>7, WalkUnchanged
  <1>7. CASE UNCHANGED vars
    <2>1. UNCHANGED <<generator, blocksLeft, mutex, pc, given, answer, handed>>
      BY <1>7 DEF vars
    <2>2. TypeOK'
      BY <2>1, RigidGrid DEF TypeOK, generator
    <2>3. HandedIsPassed'
      <3>1. Advancing' = Advancing
        BY <2>1 DEF Advancing
      <3> QED
        BY <2>1, <3>1, WalkUnchanged, RigidGrid DEF HandedIsPassed, generator
    <2> QED
      BY <2>1, <2>2, <2>3, WalkUnchanged, RigidGrid
         DEF OwnerInside, CountsAgree, AnswersAgree
  <1> QED
    BY <1>1, <1>2, <1>3, <1>4, <1>5, <1>6, <1>7 DEF Next, Inside

\* The closed form of the walk, and everything that rests on it, holds for every
\* image size, block size and set of threads.
THEOREM Invariance == Spec => []IInv
  <1> QED
    BY InitIInv, NextIInv, PTL DEF Spec

-----------------------------------------------------------------------------
(* What next() promises.                                                   *)

\* Every variable keeps its type: in particular the walk, which leaves the grid,
\* never hands out a position outside it.
THEOREM TypeCorrect == Spec => []TypeOK
  <1>1. IInv => TypeOK
    BY DEF IInv
  <1> QED
    BY <1>1, Invariance, PTL

\* No block is handed out twice, and none outside the image.
THEOREM HandedOnce == Spec => NoBlockTwice
  <1>1. IInv /\ [Next]_vars => [\A t \in Threads : HandOut(t) => block \in Grid \ handed]_vars
    <2> SUFFICES ASSUME IInv, NEW t \in Threads, HandOut(t)
                 PROVE  block \in Grid \ handed
      OBVIOUS
    <2>1. blocksLeft # 0 /\ ~Advancing
      BY DEF HandOut, IInv, TypeOK, OwnerInside, Advancing
    <2>2. ~Passed(block)
      BY BlockNotPassed, TypeGivesWalkType DEF IInv
    <2> QED
      BY <2>1, <2>2 DEF IInv, HandedIsPassed
  <1> QED
    BY <1>1, Invariance, PTL DEF Spec, NoBlockTwice

\* The counter reaches zero exactly with the last block.
LEMMA CompleteAtZero == ASSUME IInv, blocksLeft = 0 PROVE handed = Grid
  <1>1. NumBlocksX * NumBlocksY \in Nat
    BY NumBlocksNat
  <1>2. handed \subseteq Grid
    BY DEF IInv, TypeOK
  <1>3. IsFiniteSet(handed) /\ Cardinality(handed) \in Nat
    BY <1>2, GridFinite, FS_Subset, FS_CardinalityType
  <1>4. Cardinality(handed) = Cardinality(Grid)
    BY <1>1, <1>3, GridFinite DEF IInv, CountsAgree
  <1> QED
    BY <1>2, <1>4, GridFinite, FS_Subset

\* Whoever is told that no block is left, or takes the last one, can rely on all
\* of them having been handed out.
THEOREM RefusedOnlyWhenComplete == Spec => []RefusedWhenComplete
  <1>1. IInv => RefusedWhenComplete
    BY CompleteAtZero DEF IInv, AnswersAgree, RefusedWhenComplete
  <1> QED
    BY <1>1, Invariance, PTL

\* While a block is left, the walk is not past the last ring of the grid.
LEMMA BoundWhileLeft == ASSUME IInv, blocksLeft # 0 PROVE LegsBounded
  <1>1. PICK p \in Grid : p \notin handed
    <2> SUFFICES ASSUME handed = Grid PROVE FALSE
      BY DEF IInv, TypeOK
    <2> QED
      BY GridFinite, NumBlocksNat DEF IInv, CountsAgree
  <1>2. ~Passed(p)
    BY <1>1 DEF IInv, HandedIsPassed
  <1>3. /\ DX(p) \in Int /\ DY(p) \in Int
        /\ p[1] \in 0 .. NumBlocksX - 1 /\ p[2] \in 0 .. NumBlocksY - 1
        /\ DX(p) = p[1] - Center[1] /\ DY(p) = p[2] - Center[2]
    BY CenterInt, NumBlocksNat DEF Grid, DX, DY
  <1>4. Radius \in Nat /\ WalkType /\ OnSpiral
    BY RadiusFacts, TypeGivesWalkType DEF IInv, TypeOK
  <1>5. DX(block) \in Int /\ DY(block) \in Int
    BY <1>4, CenterInt DEF WalkType, DX, DY
  <1>6. numSteps <= NumBlocksX + 1 \/ numSteps <= NumBlocksY + 1
    <2>1. CASE direction = ERight
      BY <2>1, <1>2, <1>3, <1>4, <1>5, CenterFacts, NumBlocksNat
         DEF Passed, OnSpiral, WalkType, ERight, EDown, ELeft, EUp
    <2>2. CASE direction = EDown
      BY <2>2, <1>2, <1>3, <1>4, <1>5, CenterFacts, NumBlocksNat
         DEF Passed, OnSpiral, WalkType, ERight, EDown, ELeft, EUp
    <2>3. CASE direction = ELeft
      BY <2>3, <1>2, <1>3, <1>4, <1>5, CenterFacts, NumBlocksNat
         DEF Passed, OnSpiral, WalkType, ERight, EDown, ELeft, EUp
    <2>4. CASE direction = EUp
      BY <2>4, <1>2, <1>3, <1>4, <1>5, CenterFacts, NumBlocksNat
         DEF Passed, OnSpiral, WalkType, ERight, EDown, ELeft, EUp
    <2> QED
      BY <2>1, <2>2, <2>3, <2>4, <1>4 DEF WalkType, ERight, EDown, ELeft, EUp
  <1> QED
    BY <1>6, <1>4, NumBlocksNat DEF LegsBounded, Longer, WalkType

\* No leg of the walk outgrows the longer side of the grid by more than one
\* block, so the loop in next() is bounded.
THEOREM SpiralBounded == Spec => []LegsBounded
  <1> DEFINE BlocksRemain == blocksLeft # 0
  <1>1. Init => LegsBounded
    BY NumBlocksNat DEF Init, LegsBounded, Longer
  <1>2. IInv /\ BlocksRemain => LegsBounded
    BY BoundWhileLeft
  <1>3. IInv /\ LegsBounded /\ [Next]_vars => LegsBounded' \/ BlocksRemain'
    <2> SUFFICES ASSUME IInv, LegsBounded, [Next]_vars, ~BlocksRemain'
                 PROVE  LegsBounded'
      OBVIOUS
    <2>1. ~ \E t \in Threads : Advance(t)
      BY DEF Advance, IInv, AnswersAgree
    <2>2. numSteps' = numSteps
      BY <2>1 DEF Next, Inside, Call, Lock, Refuse, HandOut, Unlock, generator, vars
    <2>3. Longer' = Longer
      BY RigidGrid DEF Longer
    <2> QED
      BY <2>2, <2>3 DEF LegsBounded
  <1> HIDE DEF BlocksRemain
  <1> QED
    BY <1>1, <1>2, <1>3, Invariance, PTL DEF Spec

\* Blocks are handed out ring by ring around the centre.
THEOREM CenterIsFirst == Spec => []CenterFirst
  <1>1. ASSUME IInv, blocksLeft # 0, NEW b \in handed, NEW c \in Grid, Ring(c) < Ring(b)
        PROVE  c \in handed
    <2>1. /\ DX(b) \in Int /\ DY(b) \in Int /\ DX(c) \in Int /\ DY(c) \in Int
          /\ b \in Grid
      BY <1>1, CenterInt, NumBlocksNat DEF Grid, DX, DY, IInv, TypeOK
    <2>2. /\ Ring(c) \in Nat
          /\ DX(c) \in -Ring(c) .. Ring(c) /\ DY(c) \in -Ring(c) .. Ring(c)
      BY <2>1 DEF Ring, Magnitude, DX, DY
    <2>3. /\ Ring(b) \in Nat
          /\ DX(b) = Ring(b) \/ DX(b) = -Ring(b) \/ DY(b) = Ring(b) \/ DY(b) = -Ring(b)
      BY <2>1 DEF Ring, Magnitude, DX, DY
    <2>4. Radius \in Nat /\ WalkType /\ OnSpiral
      BY <1>1, RadiusFacts, TypeGivesWalkType DEF IInv, TypeOK
    <2>5. DX(block) \in Int /\ DY(block) \in Int
      BY <2>4, CenterInt DEF WalkType, DX, DY
    <2>6. Passed(b) \/ b = block
      BY <1>1, <2>1 DEF IInv, HandedIsPassed
    <2>7. Passed(c)
      <3>1. CASE direction = ERight
        BY <3>1, <1>1, <2>1, <2>2, <2>3, <2>4, <2>5, <2>6
           DEF Passed, OnSpiral, WalkType, ERight, EDown, ELeft, EUp
      <3>2. CASE direction = EDown
        BY <3>2, <1>1, <2>1, <2>2, <2>3, <2>4, <2>5, <2>6
           DEF Passed, OnSpiral, WalkType, ERight, EDown, ELeft, EUp
      <3>3. CASE direction = ELeft
        BY <3>3, <1>1, <2>1, <2>2, <2>3, <2>4, <2>5, <2>6
           DEF Passed, OnSpiral, WalkType, ERight, EDown, ELeft, EUp
      <3>4. CASE direction = EUp
        BY <3>4, <1>1, <2>1, <2>2, <2>3, <2>4, <2>5, <2>6
           DEF Passed, OnSpiral, WalkType, ERight, EDown, ELeft, EUp
      <3> QED
        BY <3>1, <3>2, <3>3, <3>4, <2>4 DEF WalkType, ERight, EDown, ELeft, EUp
    <2> QED
      BY <1>1, <2>7 DEF IInv, HandedIsPassed
  <1>2. IInv => CenterFirst
    <2> SUFFICES ASSUME IInv, NEW b \in handed, NEW c \in Grid, Ring(c) < Ring(b)
                 PROVE  c \in handed
      BY DEF CenterFirst
    <2> QED
      BY <1>1, CompleteAtZero
  <1> QED
    BY <1>2, Invariance, PTL

-----------------------------------------------------------------------------
(* The regions, one axis at a time: block i of an axis holds the pixels x  *)
(* of the image with i * B <= x < i * B + B.                               *)

LEMMA DivBounds ==
    ASSUME NEW x \in Nat, NEW B \in Nat \ {0}
    PROVE  x \div B \in Nat /\ (x \div B) * B <= x /\ x < (x \div B) * B + B
  BY SMT

LEMMA LaterSlot ==
    ASSUME NEW B \in Nat \ {0}, NEW i \in Nat, NEW j \in Nat, i < j
    PROVE  i * B + B <= j * B
  BY SMT

LEMMA ProductNat == ASSUME NEW i \in Nat, NEW B \in Nat PROVE i * B \in Nat
  OBVIOUS

\* A pixel lies in one slot only.
LEMMA OneSlot ==
    ASSUME NEW B \in Nat \ {0}, NEW i \in Nat, NEW j \in Nat, NEW x \in Nat,
           i * B <= x, x < i * B + B, j * B <= x, x < j * B + B
    PROVE  i = j
  <1>1. ASSUME NEW m \in Nat, NEW n \in Nat, m < n, x < m * B + B, n * B <= x
        PROVE  FALSE
    <2>1. m * B + B <= n * B
      BY <1>1, LaterSlot
    <2>2. m * B \in Nat /\ n * B \in Nat
      BY ProductNat
    <2> QED
      BY <1>1, <2>1, <2>2
  <1> QED
    BY <1>1

\* Every pixel of an axis of S pixels lies in a slot of its ceil(S / B) blocks,
\* and every one of these blocks starts inside the image.
LEMMA SlotOfPixel ==
    ASSUME NEW S \in Nat, NEW B \in Nat \ {0}, NEW x \in 0 .. S - 1
    PROVE  /\ x \div B \in 0 .. CeilDiv(S, B) - 1
           /\ (x \div B) * B <= x /\ x < (x \div B) * B + B
  <1> DEFINE q == x \div B
             n == (S + B - 1) \div B
  <1>1. q \in Nat /\ q * B \in Nat /\ q * B <= x /\ x < q * B + B
    BY DivBounds, ProductNat
  <1>2. n \in Nat /\ n * B \in Nat /\ S + B - 1 < n * B + B
    <2>1. S + B - 1 \in Nat
      OBVIOUS
    <2> HIDE DEF n
    <2>2. n \in Nat /\ S + B - 1 < n * B + B
      BY <2>1, DivBounds DEF n
    <2> QED
      BY <2>2, ProductNat
  <1> HIDE DEF q, n
  <1>3. q < n
    <2> SUFFICES ASSUME ~(q < n) PROVE FALSE
      OBVIOUS
    <2>1. n = q \/ n * B + B <= q * B
      BY <1>1, <1>2, LaterSlot
    <2> QED
      BY <1>1, <1>2, <2>1
  <1> QED
    BY <1>1, <1>2, <1>3 DEF q, n, CeilDiv

LEMMA BlockStartsInside ==
    ASSUME NEW S \in Nat, NEW B \in Nat \ {0}, NEW i \in 0 .. CeilDiv(S, B) - 1
    PROVE  i * B \in Nat /\ i * B < S
  <1> DEFINE n == (S + B - 1) \div B
  <1>1. n \in Nat /\ n * B \in Nat /\ n * B <= S + B - 1
    <2>1. S + B - 1 \in Nat
      OBVIOUS
    <2> HIDE DEF n
    <2>2. n \in Nat /\ n * B <= S + B - 1
      BY <2>1, DivBounds DEF n
    <2> QED
      BY <2>2, ProductNat
  <1>2. i \in Nat /\ i < n
    BY <1>1 DEF CeilDiv
  <1> HIDE DEF n
  <1>3. i * B \in Nat /\ i * B + B <= n * B
    BY <1>1, <1>2, LaterSlot, ProductNat
  <1> QED
    BY <1>1, <1>3

\* The pixels of a block are those of the image in its two slots.
LEMMA PixelsInSlots ==
    ASSUME NEW b \in Grid, NEW p \in Int \X Int
    PROVE  p \in PixelsOf(b) <=>
             /\ p[1] \in 0 .. SizeX - 1
             /\ b[1] * BlockSize <= p[1] /\ p[1] < b[1] * BlockSize + BlockSize
             /\ p[2] \in 0 .. SizeY - 1
             /\ b[2] * BlockSize <= p[2] /\ p[2] < b[2] * BlockSize + BlockSize
  <1> DEFINE ox == b[1] * BlockSize
             oy == b[2] * BlockSize
  <1>1. b[1] \in 0 .. NumBlocksX - 1 /\ b[2] \in 0 .. NumBlocksY - 1
    BY DEF Grid
  <1>2. ox \in Nat /\ ox < SizeX
    BY <1>1, BlockStartsInside, SizeAssumption, BlockSizeAssumption DEF NumBlocksX
  <1>3. oy \in Nat /\ oy < SizeY
    BY <1>1, BlockStartsInside, SizeAssumption, BlockSizeAssumption DEF NumBlocksY
  <1>4. p = <<p[1], p[2]>> /\ p[1] \in Int /\ p[2] \in Int
    OBVIOUS
  <1>5. PixelsOf(b) = (ox .. ox + Smaller(SizeX - ox, BlockSize) - 1)
                        \X (oy .. oy + Smaller(SizeY - oy, BlockSize) - 1)
    BY DEF PixelsOf, OffsetOf, ExtentOf
  <1> HIDE DEF ox, oy
  <1>6. p[1] \in ox .. ox + Smaller(SizeX - ox, BlockSize) - 1 <=>
          p[1] \in 0 .. SizeX - 1 /\ ox <= p[1] /\ p[1] < ox + BlockSize
    BY <1>2, <1>4, SizeAssumption, BlockSizeAssumption DEF Smaller
  <1>7. p[2] \in oy .. oy + Smaller(SizeY - oy, BlockSize) - 1 <=>
          p[2] \in 0 .. SizeY - 1 /\ oy <= p[2] /\ p[2] < oy + BlockSize
    BY <1>3, <1>4, SizeAssumption, BlockSizeAssumption DEF Smaller
  <1>8. p \in PixelsOf(b) <=>
          /\ p[1] \in ox .. ox + Smaller(SizeX - ox, BlockSize) - 1
          /\ p[2] \in oy .. oy + Smaller(SizeY - oy, BlockSize) - 1
    BY <1>4, <1>5
  <1> QED
    BY <1>6, <1>7, <1>8 DEF ox, oy

\* The regions handed out never overlap and end up covering the image exactly,
\* whatever its size.
THEOREM RegionsTile == Spec => []RegionsTileImage
  <1>1. ASSUME NEW b \in Grid PROVE PixelsOf(b) \subseteq Int \X Int
    <2>1. OffsetOf(b)[1] \in Int /\ OffsetOf(b)[2] \in Int
          /\ ExtentOf(b)[1] \in Int /\ ExtentOf(b)[2] \in Int
      BY NumBlocksNat, SizeAssumption, BlockSizeAssumption
         DEF Grid, OffsetOf, ExtentOf, Smaller
    <2> QED
      BY <2>1 DEF PixelsOf
  <1>2. ASSUME NEW b \in Grid, NEW c \in Grid, NEW p \in PixelsOf(b), p \in PixelsOf(c)
        PROVE  b = c
    <2>1. p \in Int \X Int
      BY <1>1
    <2>2. /\ b = <<b[1], b[2]>> /\ b[1] \in Nat /\ b[2] \in Nat
          /\ c = <<c[1], c[2]>> /\ c[1] \in Nat /\ c[2] \in Nat
      BY NumBlocksNat DEF Grid
    <2>3. p[1] \in Nat /\ p[2] \in Nat
      BY <2>1, PixelsInSlots, SizeAssumption
    <2>4. b[1] = c[1]
      BY <1>2, <2>1, <2>2, <2>3, PixelsInSlots, OneSlot, BlockSizeAssumption
    <2>5. b[2] = c[2]
      BY <1>2, <2>1, <2>2, <2>3, PixelsInSlots, OneSlot, BlockSizeAssumption
    <2> QED
      BY <2>2, <2>4, <2>5
  <1>3. UNION {PixelsOf(b) : b \in Grid} = (0 .. SizeX - 1) \X (0 .. SizeY - 1)
    <2>1. ASSUME NEW b \in Grid, NEW p \in PixelsOf(b)
          PROVE  p \in (0 .. SizeX - 1) \X (0 .. SizeY - 1)
      <3>1. p \in Int \X Int
        BY <1>1
      <3>2. p = <<p[1], p[2]>> /\ p[1] \in 0 .. SizeX - 1 /\ p[2] \in 0 .. SizeY - 1
        BY <3>1, PixelsInSlots
      <3> QED
        BY <3>2
    <2>2. ASSUME NEW p \in (0 .. SizeX - 1) \X (0 .. SizeY - 1)
          PROVE  \E b \in Grid : p \in PixelsOf(b)
      <3> DEFINE b == <<p[1] \div BlockSize, p[2] \div BlockSize>>
      <3>1. /\ p[1] \div BlockSize \in 0 .. NumBlocksX - 1
            /\ b[1] * BlockSize <= p[1] /\ p[1] < b[1] * BlockSize + BlockSize
        BY SlotOfPixel, SizeAssumption, BlockSizeAssumption DEF NumBlocksX
      <3>2. /\ p[2] \div BlockSize \in 0 .. NumBlocksY - 1
            /\ b[2] * BlockSize <= p[2] /\ p[2] < b[2] * BlockSize + BlockSize
        BY SlotOfPixel, SizeAssumption, BlockSizeAssumption DEF NumBlocksY
      <3>3. b \in Grid
        BY <3>1, <3>2 DEF Grid
      <3>4. p \in Int \X Int /\ p[1] \in 0 .. SizeX - 1 /\ p[2] \in 0 .. SizeY - 1
        BY SizeAssumption
      <3> HIDE DEF b
      <3> QED
        BY <3>1, <3>2, <3>3, <3>4, PixelsInSlots
    <2> QED
      BY <2>1, <2>2
  <1>4. IInv => RegionsTileImage
    <2> SUFFICES ASSUME IInv PROVE RegionsTileImage
      OBVIOUS
    <2>1. \A b, c \in handed : b # c => PixelsOf(b) \cap PixelsOf(c) = {}
      BY <1>2 DEF IInv, TypeOK
    <2> QED
      BY <1>3, <2>1, CompleteAtZero DEF RegionsTileImage
  <1> QED
    BY <1>4, Invariance, PTL

-----------------------------------------------------------------------------
(* The refinement.                                                         *)

\* However the lock, the loop and the counters interleave, a caller sees the
\* atomic pool of jobs of WorkPool.
THEOREM Refinement == Spec => ImplementsWorkPool
  <1>1. Init => Pool!Init
    BY DEF Init, Pool!Init, PoolPhase
  <1>2. IInv /\ [Next]_vars => [Pool!Next]_Pool!vars
    <2> SUFFICES ASSUME IInv, [Next]_vars PROVE [Pool!Next]_Pool!vars
      OBVIOUS
    <2>1. ASSUME NEW t \in Threads, Call(t) PROVE Pool!Ask(t)
      <3>1. PoolPhase' = [PoolPhase EXCEPT ![t] = "asked"]
        BY <2>1 DEF Call, PoolPhase, IInv, TypeOK
      <3> QED
        BY <2>1, <3>1, RigidGrid DEF Call, Pool!Ask, PoolPhase
    <2>2. ASSUME NEW t \in Threads, Lock(t) PROVE UNCHANGED Pool!vars
      <3>1. PoolPhase' = PoolPhase
        BY <2>2 DEF Lock, PoolPhase, IInv, TypeOK
      <3> QED
        BY <2>2, <3>1, RigidGrid DEF Lock, Pool!vars
    <2>3. ASSUME NEW t \in Threads, Refuse(t) PROVE Pool!Refuse(t)
      <3>1. PoolPhase' = [PoolPhase EXCEPT ![t] = "refused"]
        BY <2>3 DEF Refuse, PoolPhase, IInv, TypeOK
      <3>2. handed = Grid
        BY <2>3, CompleteAtZero DEF Refuse
      <3> QED
        BY <2>3, <3>1, <3>2, RigidGrid DEF Refuse, Pool!Refuse, PoolPhase
    <2>4. ASSUME NEW t \in Threads, HandOut(t) PROVE Pool!Grant(t)
      <3>1. PoolPhase' = [PoolPhase EXCEPT ![t] = "granted"]
        BY <2>4 DEF HandOut, PoolPhase, IInv, TypeOK
      <3>2. block \in Grid \ handed
        BY <2>4, BlockNotPassed, TypeGivesWalkType
           DEF HandOut, IInv, TypeOK, OwnerInside, Advancing, HandedIsPassed
      <3>3. Grid' \ handed' = (Grid \ handed) \ {block}
        BY <2>4, RigidGrid DEF HandOut
      <3> QED
        BY <2>4, <3>1, <3>2, <3>3 DEF HandOut, Pool!Grant, PoolPhase
    <2>5. ASSUME NEW t \in Threads, Advance(t) PROVE UNCHANGED Pool!vars
      <3>1. PoolPhase' = PoolPhase
        BY <2>5 DEF Advance, PoolPhase, IInv, TypeOK
      <3> QED
        BY <2>5, <3>1, RigidGrid DEF Advance, Pool!vars
    <2>6. ASSUME NEW t \in Threads, Unlock(t) PROVE Pool!Return(t)
      <3>1. PoolPhase' = [PoolPhase EXCEPT ![t] = "idle"]
        BY <2>6 DEF Unlock, PoolPhase, IInv, TypeOK
      <3> QED
        BY <2>6, <3>1, RigidGrid DEF Unlock, Pool!Return, PoolPhase
    <2>7. CASE UNCHANGED vars
      BY <2>7, RigidGrid DEF vars, Pool!vars, PoolPhase
    <2> QED
      BY <2>1, <2>2, <2>3, <2>4, <2>5, <2>6, <2>7 DEF Next, Inside, Pool!Next
  <1> QED
    BY <1>1, <1>2, Invariance, PTL DEF Spec, ImplementsWorkPool, Pool!Spec
=============================================================================

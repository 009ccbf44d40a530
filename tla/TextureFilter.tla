----------------------------- MODULE TextureFilter -----------------------------
(***************************************************************************)
(* Which texels the texture filters read (tfilter.cpp), called by an image  *)
(* texture with scale = (cols, rows) and offset -1/2 (image.cpp 51-54). A   *)
(* texture coordinate u is in steps of half a texel, so that p is P / 2 for *)
(* an integer P. Conversion to int truncates toward zero, % takes the sign  *)
(* of its left operand, coeff() takes a row and a column.                   *)
(***************************************************************************)
EXTENDS Integers, FiniteSets

CONSTANTS Sizes,       \* <<cols, rows>> of the images tried, as many of each, two or more
          Repeats      \* coordinates tried: this many images to each side

VARIABLES size, filter, u, v, reads    \* reads: texels read, <<row, column>>

vars == <<size, filter, u, v, reads>>

cols == size[1]
rows == size[2]

Abs(n) == IF n < 0 THEN -n ELSE n
Trunc(P) == IF P < 0 THEN -(Abs(P) \div 2) ELSE P \div 2
CRemainder(a, n) == IF a < 0 THEN -(Abs(a) % n) ELSE a % n

\* Fault: a negative remainder is left as it is.
WrapPositive(P, n) == CRemainder(Trunc(P), n)

Wrap(P, n) == LET x == CRemainder(Trunc(P), n) IN IF x < 0 THEN n + x ELSE x

\* The texel after the last one does not exist; the first is read instead.
NotLast(x, n) == IF x = n - 1 THEN 0 ELSE x

Init ==
  /\ size \in Sizes /\ filter \in {"bilinear", "nearest"}
  /\ u \in (-2 * Repeats * cols)..(2 * Repeats * cols)
  /\ v \in (-2 * Repeats * rows)..(2 * Repeats * rows)
  /\ reads = {}

Bilinear ==
  /\ filter = "bilinear" /\ reads = {}
  /\ LET x == NotLast(Wrap(u - 1, cols), cols)
         y == NotLast(Wrap(v - 1, rows), rows) IN
     reads' = {<<x, y>>, <<x + 1, y>>, <<x, y + 1>>, <<x + 1, y + 1>>}
  /\ UNCHANGED <<size, filter, u, v>>

Nearest ==
  /\ filter = "nearest" /\ reads = {}
  /\ reads' = {<<Wrap(u - 1, cols), Wrap(v - 1, rows)>>}
  /\ UNCHANGED <<size, filter, u, v>>

Next == Bilinear \/ Nearest

Spec == Init /\ [][Next]_vars

-------------------------------------------------------------------------------
(* Properties                                                              *)

\* Whatever the coordinate, and however often the image repeats before it,
\* every texel read is one of the image.
ReadsInImage == \A r \in reads : r[1] \in 0..(rows - 1) /\ r[2] \in 0..(cols - 1)
===============================================================================

------------------------------ MODULE MCAccel ------------------------------
(* Instances of Accel for TLC. *)
EXTENDS Accel

P(x, y) == <<x, y>>
Segment(x, y, dx, dy, len) == [at |-> <<x, y>>, along |-> <<dx, dy>>, len |-> len]

\* Upright, level and slanted triangles, some of them crossing or sharing a point.
SomeMeshes ==
    { << Segment(2, 0, 0, 1, 4) >>,
      << Segment(4, 0, 1, 1, 4), Segment(2, 4, 1, 0, 4) >>,
      << Segment(6, 0, -1, 1, 4), Segment(6, 2, 0, 1, 0) >> }

Ray_(x, y, dx, dy, mint, max) ==
    [o |-> <<x, y>>, d |-> <<dx, dy>>, mint |-> mint, maxt |-> max]

\* Along the axes and diagonally, from outside and from between the triangles,
\* some with a bounded extent that ends on a triangle.
SomeQueries ==
    { Ray_(0, 2, 1, 0, 1, Infinity), Ray_(8, 2, -1, 0, 1, Infinity),
      Ray_(4, 8, 0, -1, 1, Infinity), Ray_(0, 0, 1, 1, 0, Infinity),
      Ray_(8, 0, -1, 1, 1, 4), Ray_(4, 2, 1, 0, 1, 2), Ray_(0, 6, 1, 0, 1, Infinity) }
=============================================================================

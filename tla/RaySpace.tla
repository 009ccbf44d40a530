------------------------------ MODULE RaySpace ------------------------------
(***************************************************************************)
(* The geometry behind ray queries: rays, triangles and bounding boxes     *)
(* (src/include/tools/bbox.h, Mesh::rayIntersect in src/src/core/mesh.cpp) *)
(* in a plane with integer coordinates.  Where the plane cuts a triangle   *)
(* there is a segment, from the point "at", in steps of "along", to its    *)
(* step number "len".  Components of a direction are -1, 0 or 1, so that a *)
(* direction is its own reciprocal (dRcp) and distances are exact.         *)
(***************************************************************************)
EXTENDS Integers

CONSTANTS Infinity    \* beyond every distance in the scene

ASSUME InfinityAssumption == Infinity \in Nat \ {0}

Axes == 1 .. 2
Points == [Axes -> Int]
Directions == [Axes -> -1 .. 1]
Triangles == [at : Points, along : Directions, len : Nat]
Rays == [o : Points, d : Directions, mint : Nat, maxt : 0 .. Infinity]
Boxes == [min : Points, max : Points]

Least(i, j) == IF i < j THEN i ELSE j
Greatest(i, j) == IF i < j THEN j ELSE i

On(tri, k) == [a \in Axes |-> tri.at[a] + k * tri.along[a]]
End(tri) == On(tri, tri.len)

\* getCentroid, which is only compared: twice the middle.
Centroid(tri) == [a \in Axes |-> tri.at[a] + End(tri)[a]]

-----------------------------------------------------------------------------
EmptyBox == [min |-> [a \in Axes |-> Infinity], max |-> [a \in Axes |-> -Infinity]]

\* Mesh::getBoundingBox(index)
BoxOf(tri) == [min |-> [a \in Axes |-> Least(tri.at[a], End(tri)[a])],
               max |-> [a \in Axes |-> Greatest(tri.at[a], End(tri)[a])]]

\* expandBy
Expanded(box, other) ==
    [min |-> [a \in Axes |-> Least(box.min[a], other.min[a])],
     max |-> [a \in Axes |-> Greatest(box.max[a], other.max[a])]]

\* A box contains what it was expanded by.
Covers(box, tri) ==
    \A a \in Axes : /\ box.min[a] <= BoxOf(tri).min[a]
                    /\ BoxOf(tri).max[a] <= box.max[a]

\* getLargestAxis
LargestAxis(box) ==
    IF box.max[1] - box.min[1] >= box.max[2] - box.min[2] THEN 1 ELSE 2

\* The slab of an axis: where the ray enters and leaves it.
Near(box, ray, a) ==
    IF ray.d[a] = 0 THEN -Infinity
    ELSE Least((box.min[a] - ray.o[a]) * ray.d[a], (box.max[a] - ray.o[a]) * ray.d[a])
Far(box, ray, a) ==
    IF ray.d[a] = 0 THEN Infinity
    ELSE Greatest((box.min[a] - ray.o[a]) * ray.d[a], (box.max[a] - ray.o[a]) * ray.d[a])

\* rayIntersect of a box: the slabs overlap within the extent of the ray.
BoxHit(box, ray) ==
    LET nearT == Greatest(Near(box, ray, 1), Near(box, ray, 2))
        farT  == Least(Far(box, ray, 1), Far(box, ray, 2))
    IN  /\ \A a \in Axes : ray.d[a] = 0 => box.min[a] <= ray.o[a] /\ ray.o[a] <= box.max[a]
        /\ nearT <= farT
        /\ ray.mint <= farT
        /\ nearT <= ray.maxt

-----------------------------------------------------------------------------
Parallel(tri, ray) == ray.d[1] * tri.along[2] = ray.d[2] * tri.along[1]

\* Mesh::rayIntersect succeeds with distance t.
Hit(tri, ray, t) ==
    /\ ~Parallel(tri, ray)
    /\ ray.mint <= t /\ t <= ray.maxt
    /\ \E k \in 0 .. tri.len : \A a \in Axes : ray.o[a] + t * ray.d[a] = On(tri, k)[a]

Times == 0 .. Infinity - 1
HitTimes(tri, ray) == {t \in Times : Hit(tri, ray, t)}
=============================================================================

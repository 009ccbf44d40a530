---------------------------- MODULE MeshSampling ----------------------------
(***************************************************************************)
(* A mesh from its file to the points an area light samples on it: the      *)
(* constructor (WavefrontOBJ), then activate() with the distribution over   *)
(* the triangles (DiscretePDF), which getSampleResult() draws from.         *)
(* Positions lie in a plane, at integer points, so areas are exact.         *)
(***************************************************************************)
EXTENDS WavefrontOBJ

CONSTANT Points       \* where the k-th position of the file is, <<x, y>>

ASSUME PointsAssumption ==
  Points \in Seq(Int \X Int) /\ Len(Points) >= MaxListed

VARIABLES cdf, scale

areaDP == INSTANCE DiscretePDF

\* The corners of a triangle as indices into V, triangles counted from 0.
F(t) == [c \in 1..3 |-> indices[3 * t + c] + 1]
TriangleCount == Len(indices) \div 3

\* Twice the area: the length of the cross product of two edges.
Area(p0, p1, p2) ==
  LET cross == (p1[1] - p0[1]) * (p2[2] - p0[2]) - (p1[2] - p0[2]) * (p2[1] - p0[1])
  IN IF cross < 0 THEN -cross ELSE cross

surfaceArea(t) == Area(Points[V[F(t)[1]]], Points[V[F(t)[2]]], Points[V[F(t)[3]]])

MeshInit == Init /\ areaDP!Init

Construct == Next /\ UNCHANGED <<cdf, scale>>

AppendArea ==
  /\ result = "loaded" /\ areaDP!Entries < TriangleCount
  /\ areaDP!AppendEntry(surfaceArea(areaDP!Entries))
  /\ UNCHANGED vars

NormalizeAreas ==
  /\ result = "loaded" /\ areaDP!Entries = TriangleCount
  /\ areaDP!Normalize
  /\ UNCHANGED vars

MeshNext == Construct \/ AppendArea \/ NormalizeAreas

MeshSpec == MeshInit /\ [][MeshNext]_<<vars, cdf, scale>>

-------------------------------------------------------------------------------
(* Properties                                                              *)

\* Of the samples that divide (0,1] evenly the k-th triangle of the file gets a
\* number that is its area: light leaves the surface evenly, whatever the order
\* of the faces, and no triangle without area, which has no normal, is sampled.
SharesAreAreas ==
  scale > 0 =>
    LET inFile == FlattenSeq([i \in DOMAIN faces |-> Split(faces[i])])
        area(t) == Area(Points[inFile[3 * t + 1].p], Points[inFile[3 * t + 2].p],
                        Points[inFile[3 * t + 3].p])
    IN /\ areaDP!Entries = Len(inFile) \div 3
       /\ \A t \in 0..(areaDP!Entries - 1) :
            Cardinality({s \in 1..scale : areaDP!Index(s) = t}) = area(t)
===============================================================================

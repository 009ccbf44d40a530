--------------------------- MODULE MCMeshSampling ---------------------------
EXTENDS MeshSampling

Corner(p, uv, n) == [p |-> p, uv |-> uv, n |-> n]
A == Corner(1, 1, 1)
B == Corner(2, 1, 1)
C == Corner(3, 2, 1)
D == Corner(4, 1, 2)
OtherNormal == Corner(1, 1, 2)
NoTexture == Corner(1, 0, 1)

\* A, B and D are on a line: a triangle and a quad with a part that has no area.
SomePoints == <<<<0, 0>>, <<2, 0>>, <<0, 1>>, <<4, 0>>>>

\* Triangles of three areas, of none, of both orientations and with a corner
\* twice; quads; corners that differ in their normal or texture coordinate only.
SomeFaces ==
  {<<A, B, C>>, <<C, B, A>>, <<A, D, C>>, <<A, B, D>>, <<OtherNormal, B, C>>, <<A, OtherNormal, B>>,
   <<NoTexture, B, C>>, <<A, B, D, C>>, <<OtherNormal, D, C, B>>}
===============================================================================

------------------------------ MODULE MeshProofs ------------------------------
(***************************************************************************)
(* What holds of a mesh for every OBJ file and every bound: its triangles   *)
(* are those of the file, and an area light samples each by its area.       *)
(***************************************************************************)
EXTENDS MeshSampling, FiniteSetTheorems, TLAPS

Corners == [p : Nat, uv : Nat, n : Nat]

\* Indices into a list of vertices that has none twice.
Indexed(vs, is) ==
  /\ vs \in Seq(Corners) /\ is \in Seq(Nat)
  /\ \A j, k \in DOMAIN vs : vs[j] = vs[k] => j = k
  /\ \A k \in DOMAIN is : is[k] < Len(vs)

\* The lists ws, js go on from vs, is with one more index, to the vertex c.
Adds(vs, is, ws, js, c) ==
  /\ Indexed(ws, js)
  /\ Len(vs) <= Len(ws) /\ \A k \in DOMAIN vs : ws[k] = vs[k]
  /\ Len(js) = Len(is) + 1 /\ \A k \in DOMAIN is : js[k] = is[k]
  /\ ws[js[Len(is) + 1] + 1] = c

LEMMA AppendFacts ==
    ASSUME NEW S, NEW s \in Seq(S), NEW e \in S
    PROVE  /\ Append(s, e) \in Seq(S) /\ Len(Append(s, e)) = Len(s) + 1
           /\ Append(s, e)[Len(s) + 1] = e
           /\ \A k \in DOMAIN s : Append(s, e)[k] = s[k]
           /\ DOMAIN s = 1..Len(s) /\ DOMAIN Append(s, e) = 1..(Len(s) + 1)
           /\ Len(s) \in Nat
  OBVIOUS

LEMMA IsItsEntries ==
    ASSUME NEW S, NEW s \in Seq(S), NEW n, n = Len(s)
    PROVE  s = [i \in 1..n |-> s[i]]
  OBVIOUS

LEMMA ConcatFacts ==
    ASSUME NEW S, NEW s \in Seq(S), NEW t \in Seq(S)
    PROVE  /\ s \o t \in Seq(S) /\ Len(s \o t) = Len(s) + Len(t)
           /\ \A k \in 1..Len(s) : (s \o t)[k] = s[k]
           /\ \A k \in 1..Len(t) : (s \o t)[Len(s) + k] = t[k]
  OBVIOUS

LEMMA AddCornerAdds ==
    ASSUME NEW vs, NEW is, Indexed(vs, is), NEW c \in Corners
    PROVE  \E ws, js : AddCorner(<<vs, is>>, c) = <<ws, js>> /\ Adds(vs, is, ws, js, c)
  <1>1. vs \in Seq(Corners) /\ is \in Seq(Nat)
    BY DEF Indexed
  <1>2. /\ DOMAIN vs = 1..Len(vs) /\ Len(vs) \in Nat
        /\ DOMAIN is = 1..Len(is) /\ Len(is) \in Nat
    BY <1>1
  <1>3. CASE Known(vs, c)
    <2> DEFINE i == IndexOf(vs, c)
               js == Append(is, i)
    <2>1. \E k \in 0..(Len(vs) - 1) : SameVertex(vs[k + 1], c)
      <3>1. PICK k \in DOMAIN vs : SameVertex(vs[k], c)
        BY <1>3 DEF Known
      <3>2. k - 1 \in 0..(Len(vs) - 1) /\ (k - 1) + 1 = k
        BY <1>2
      <3> QED
        BY <3>1, <3>2
    <2>2. i \in 0..(Len(vs) - 1) /\ SameVertex(vs[i + 1], c)
      BY <2>1 DEF IndexOf
    <2> HIDE DEF i
    <2>3. i \in Nat /\ i < Len(vs)
      BY <1>2, <2>2
    <2>4. /\ js \in Seq(Nat) /\ Len(js) = Len(is) + 1 /\ js[Len(is) + 1] = i
          /\ \A k \in DOMAIN is : js[k] = is[k]
          /\ DOMAIN js = 1..(Len(is) + 1)
      BY <1>1, <2>3, AppendFacts
    <2> HIDE DEF js
    <2>5. \A k \in DOMAIN js : js[k] < Len(vs)
      <3> SUFFICES ASSUME NEW k \in DOMAIN js PROVE js[k] < Len(vs)
        OBVIOUS
      <3>1. k \in DOMAIN is \/ k = Len(is) + 1
        BY <1>2, <2>4
      <3> QED
        BY <2>3, <2>4, <3>1 DEF Indexed
    <2>6. Adds(vs, is, vs, js, c)
      BY <1>1, <1>2, <2>2, <2>4, <2>5 DEF Adds, Indexed, SameVertex
    <2>7. AddCorner(<<vs, is>>, c) = <<vs, js>>
      BY <1>3 DEF AddCorner, i, js
    <2> QED
      BY <2>6, <2>7
  <1>4. CASE ~Known(vs, c)
    <2> DEFINE ws == Append(vs, c)
               js == Append(is, Len(vs))
    <2>1. /\ ws \in Seq(Corners) /\ Len(ws) = Len(vs) + 1 /\ ws[Len(vs) + 1] = c
          /\ \A k \in DOMAIN vs : ws[k] = vs[k]
          /\ DOMAIN ws = 1..(Len(vs) + 1)
      BY <1>1, AppendFacts
    <2>2. /\ js \in Seq(Nat) /\ Len(js) = Len(is) + 1 /\ js[Len(is) + 1] = Len(vs)
          /\ \A k \in DOMAIN is : js[k] = is[k]
          /\ DOMAIN js = 1..(Len(is) + 1)
      BY <1>1, <1>2, AppendFacts
    <2>3. AddCorner(<<vs, is>>, c) = <<ws, js>>
      BY <1>4 DEF AddCorner
    <2> HIDE DEF ws, js
    <2>4. \A k \in DOMAIN vs : vs[k] # c
      BY <1>4 DEF Known, SameVertex
    <2>5. ASSUME NEW j \in DOMAIN ws, NEW k \in DOMAIN ws, ws[j] = ws[k] PROVE j = k
      <3>1. (j \in DOMAIN vs \/ j = Len(vs) + 1) /\ (k \in DOMAIN vs \/ k = Len(vs) + 1)
        BY <1>2, <2>1
      <3>2. CASE j \in DOMAIN vs /\ k \in DOMAIN vs
        BY <2>1, <2>5, <3>2 DEF Indexed
      <3>3. CASE j = Len(vs) + 1 \/ k = Len(vs) + 1
        BY <2>1, <2>4, <2>5, <3>1, <3>3
      <3> QED
        BY <3>1, <3>2, <3>3
    <2>6. \A k \in DOMAIN js : js[k] < Len(ws)
      <3> SUFFICES ASSUME NEW k \in DOMAIN js PROVE js[k] < Len(ws)
        OBVIOUS
      <3>1. k \in DOMAIN is \/ k = Len(is) + 1
        BY <1>2, <2>2
      <3>2. CASE k \in DOMAIN is
        <4>1. is[k] < Len(vs) /\ is[k] \in Nat /\ js[k] = is[k]
          BY <1>1, <2>2, <3>2 DEF Indexed
        <4> QED
          BY <1>2, <2>1, <4>1
      <3>3. CASE k = Len(is) + 1
        BY <1>2, <2>1, <2>2, <3>3
      <3> QED
        BY <3>1, <3>2, <3>3
    <2>7. Adds(vs, is, ws, js, c)
      BY <1>2, <2>1, <2>2, <2>5, <2>6 DEF Adds, Indexed
    <2> QED
      BY <2>3, <2>7
  <1> QED
    BY <1>3, <1>4

\* The lists go on with a triangle.
AddsTriangle(vs, is, ws, js, a, b, c) ==
  /\ Indexed(ws, js)
  /\ Len(vs) <= Len(ws) /\ \A k \in DOMAIN vs : ws[k] = vs[k]
  /\ Len(js) = Len(is) + 3 /\ \A k \in DOMAIN is : js[k] = is[k]
  /\ ws[js[Len(is) + 1] + 1] = a
  /\ ws[js[Len(is) + 2] + 1] = b
  /\ ws[js[Len(is) + 3] + 1] = c

\* What an index stands for is not changed by what is added later.
LEMMA StaysNamed ==
    ASSUME NEW vs, NEW is, NEW ws, NEW js, NEW c, Indexed(vs, is), Adds(vs, is, ws, js, c),
           NEW k \in DOMAIN is
    PROVE  k \in DOMAIN js /\ js[k] = is[k] /\ ws[js[k] + 1] = vs[is[k] + 1]
  <1>1. /\ DOMAIN vs = 1..Len(vs) /\ Len(vs) \in Nat /\ is[k] \in Nat /\ is[k] < Len(vs)
        /\ DOMAIN is = 1..Len(is) /\ Len(is) \in Nat
        /\ DOMAIN js = 1..Len(js) /\ Len(js) = Len(is) + 1
    BY DEF Indexed, Adds
  <1>2. js[k] = is[k] /\ \A j \in DOMAIN vs : ws[j] = vs[j]
    BY DEF Adds
  <1>3. is[k] + 1 \in DOMAIN vs /\ k \in DOMAIN js
    BY <1>1
  <1> QED
    BY <1>2, <1>3

LEMMA AddTriangleAdds ==
    ASSUME NEW vs, NEW is, Indexed(vs, is), NEW a \in Corners, NEW b \in Corners, NEW c \in Corners
    PROVE  \E ws, js : /\ AddTriangle(<<vs, is>>, a, b, c) = <<ws, js>>
                       /\ AddsTriangle(vs, is, ws, js, a, b, c)
  <1>1. PICK v1, i1 : AddCorner(<<vs, is>>, a) = <<v1, i1>> /\ Adds(vs, is, v1, i1, a)
    BY AddCornerAdds
  <1>2. Indexed(v1, i1)
    BY <1>1 DEF Adds
  <1>3. PICK v2, i2 : AddCorner(<<v1, i1>>, b) = <<v2, i2>> /\ Adds(v1, i1, v2, i2, b)
    BY <1>2, AddCornerAdds
  <1>4. Indexed(v2, i2)
    BY <1>3 DEF Adds
  <1>5. PICK ws, js : AddCorner(<<v2, i2>>, c) = <<ws, js>> /\ Adds(v2, i2, ws, js, c)
    BY <1>4, AddCornerAdds
  <1>6. AddTriangle(<<vs, is>>, a, b, c) = <<ws, js>>
    BY <1>1, <1>3, <1>5 DEF AddTriangle
  <1> DEFINE n == Len(is)
  <1>7. /\ n \in Nat /\ Len(i1) = n + 1 /\ Len(i2) = n + 2 /\ Len(js) = n + 3
        /\ DOMAIN is = 1..n /\ DOMAIN i1 = 1..(n + 1) /\ DOMAIN i2 = 1..(n + 2)
    <2>1. n \in Nat /\ DOMAIN is = 1..n
      BY DEF Indexed
    <2>2. Len(i1) = n + 1
      BY <1>1 DEF Adds
    <2>3. Len(i2) = Len(i1) + 1
      BY <1>3 DEF Adds
    <2>4. Len(js) = Len(i2) + 1
      BY <1>5 DEF Adds
    <2>5. DOMAIN i1 = 1..Len(i1) /\ DOMAIN i2 = 1..Len(i2)
      BY <1>2, <1>4 DEF Indexed
    <2>6. Len(i2) = n + 2 /\ Len(js) = n + 3
      BY <2>1, <2>2, <2>3, <2>4
    <2> QED
      BY <2>1, <2>2, <2>5, <2>6
  <1>8. /\ Len(vs) \in Nat /\ Len(v1) \in Nat /\ Len(v2) \in Nat /\ Len(ws) \in Nat
        /\ Len(vs) <= Len(v1) /\ Len(v1) <= Len(v2) /\ Len(v2) <= Len(ws)
        /\ DOMAIN vs = 1..Len(vs) /\ DOMAIN v1 = 1..Len(v1) /\ DOMAIN v2 = 1..Len(v2)
    <2>1. Len(vs) \in Nat /\ DOMAIN vs = 1..Len(vs)
      BY DEF Indexed
    <2>2. Len(v1) \in Nat /\ DOMAIN v1 = 1..Len(v1)
      BY <1>2 DEF Indexed
    <2>3. Len(v2) \in Nat /\ DOMAIN v2 = 1..Len(v2)
      BY <1>4 DEF Indexed
    <2>4. Len(ws) \in Nat
      BY <1>5 DEF Adds, Indexed
    <2>5. Len(vs) <= Len(v1) /\ Len(v1) <= Len(v2) /\ Len(v2) <= Len(ws)
      BY <1>1, <1>3, <1>5 DEF Adds
    <2> QED
      BY <2>1, <2>2, <2>3, <2>4, <2>5
  <1>9. \A k \in DOMAIN vs : ws[k] = vs[k]
    <2> SUFFICES ASSUME NEW k \in DOMAIN vs PROVE ws[k] = vs[k]
      OBVIOUS
    <2>1. k \in DOMAIN v1 /\ k \in DOMAIN v2
      BY <1>8
    <2>2. v1[k] = vs[k]
      BY <1>1 DEF Adds
    <2>3. v2[k] = v1[k]
      BY <1>3, <2>1 DEF Adds
    <2>4. ws[k] = v2[k]
      BY <1>5, <2>1 DEF Adds
    <2> QED
      BY <2>2, <2>3, <2>4
  <1>10. \A k \in DOMAIN is : js[k] = is[k]
    <2> SUFFICES ASSUME NEW k \in DOMAIN is PROVE js[k] = is[k]
      OBVIOUS
    <2>1. k \in DOMAIN i1 /\ i1[k] = is[k]
      BY <1>1, StaysNamed
    <2>2. k \in DOMAIN i2 /\ i2[k] = i1[k]
      BY <1>2, <1>3, <2>1, StaysNamed
    <2>3. js[k] = i2[k]
      BY <1>4, <1>5, <2>2, StaysNamed
    <2> QED
      BY <2>1, <2>2, <2>3
  <1>11. ws[js[n + 1] + 1] = a
    <2>1. n + 1 \in DOMAIN i1 /\ v1[i1[n + 1] + 1] = a
      BY <1>1, <1>7 DEF Adds
    <2>2. n + 1 \in DOMAIN i2 /\ v2[i2[n + 1] + 1] = a
      BY <1>2, <1>3, <2>1, StaysNamed
    <2> QED
      BY <1>4, <1>5, <2>2, StaysNamed
  <1>12. ws[js[n + 2] + 1] = b
    <2>1. n + 2 \in DOMAIN i2
      BY <1>7
    <2>2. v2[i2[n + 2] + 1] = b
      <3>1. v2[i2[Len(i1) + 1] + 1] = b
        BY <1>3 DEF Adds
      <3>2. Len(i1) + 1 = n + 2
        BY <1>7
      <3> QED
        BY <3>1, <3>2
    <2> QED
      BY <1>4, <1>5, <2>1, <2>2, StaysNamed
  <1>13. ws[js[n + 3] + 1] = c
    <2>1. ws[js[Len(i2) + 1] + 1] = c
      BY <1>5 DEF Adds
    <2>2. Len(i2) + 1 = n + 3
      BY <1>7
    <2> QED
      BY <2>1, <2>2
  <1>14. Indexed(ws, js)
    BY <1>5 DEF Adds
  <1>15. AddsTriangle(vs, is, ws, js, a, b, c)
    BY <1>7, <1>8, <1>9, <1>10, <1>11, <1>12, <1>13, <1>14 DEF AddsTriangle
  <1> QED
    BY <1>6, <1>15

-----------------------------------------------------------------------------
(* The inductive invariant.                                                *)

\* The triangles of the mesh, and those of the faces of the file.
MeshTriangles == {Rotations(Triangle(3 * t + 1)) : t \in 0..(Len(indices) \div 3 - 1)}
FileTriangles == UNION {Fan(faces[i]) : i \in DOMAIN faces}

\* The indices are those of m triangles.
Triples(is, m) == Len(is) = 3 * m

Shape ==
  /\ {positions, texcoords, normals} \subseteq 0..MaxListed
  /\ Indexed(vertices, indices)
  /\ faces \in Seq(Faces)
  /\ \E t \in Nat : Triples(indices, t)
  /\ result \in {"reading", "loaded", "failed"}

\* What the end of the file made of the vertices.
Built ==
  result = "loaded" =>
    /\ Found("p", positions) /\ V = Column("p")
    /\ IF normals > 0 THEN Found("n", normals) /\ N = Column("n") ELSE N = <<>>
    /\ IF texcoords > 0 THEN Found("uv", texcoords) /\ UV = Column("uv") ELSE UV = <<>>

\* The corners of the file in their order. FlattenSeq joins them by a function
\* of which nothing is known but its recursion, so what is kept of it holds of
\* each function that obeys it, and there is one.
InFile == [i \in DOMAIN faces |-> Split(faces[i])]
Flattens(g, s) == g = [i \in 1..Len(s) |-> IF i = 1 THEN s[i] ELSE g[i - 1] \o s[i]]
Names(vs, is, s) ==
  /\ s \in Seq(Corners) /\ Len(s) = Len(is)
  /\ \A k \in DOMAIN is : vs[is[k] + 1] = s[k]
InOrder ==
  /\ faces = <<>> => indices = <<>>
  /\ \E g : Flattens(g, InFile)
  /\ \A g : Flattens(g, InFile) /\ faces # <<>> => Names(vertices, indices, g[Len(faces)])

MInv == Shape /\ MeshTriangles = FileTriangles /\ InOrder /\ Built

\* A face is a triangle or a quad.
LEMMA FaceIs ==
    ASSUME NEW f \in Faces
    PROVE  /\ f \in Seq(Corners) /\ (Len(f) = 3 \/ Len(f) = 4)
           /\ f[1] \in Corners /\ f[2] \in Corners /\ f[3] \in Corners
           /\ Len(f) = 4 => f[4] \in Corners
  <1>1. f \in Seq(Corners) /\ (Len(f) = 3 \/ Len(f) = 4)
    BY OBJAssumption DEF Corners
  <1> QED
    BY <1>1

LEMMA FanIs ==
    ASSUME NEW f \in Faces
    PROVE  /\ Len(f) = 3 => Fan(f) = {Rotations(<<f[1], f[2], f[3]>>)}
           /\ Len(f) = 4 => Fan(f) = {Rotations(<<f[1], f[2], f[3]>>), Rotations(<<f[4], f[1], f[3]>>)}
  <1> DEFINE R(k) == Rotations(<<f[1], f[k], f[k + 1]>>)
  <1>1. Fan(f) = {R(k) : k \in 2..(Len(f) - 1)}
    BY DEF Fan
  <1>2. R(2) = Rotations(<<f[1], f[2], f[3]>>) /\ R(3) = Rotations(<<f[1], f[3], f[4]>>)
    OBVIOUS
  <1>3. Rotations(<<f[1], f[3], f[4]>>) = Rotations(<<f[4], f[1], f[3]>>)
    BY DEF Rotations
  <1>4. (Len(f) = 3 => 2..(Len(f) - 1) = {2}) /\ (Len(f) = 4 => 2..(Len(f) - 1) = {2, 3})
    <2>1. 2..(3 - 1) = {2} /\ 2..(4 - 1) = {2, 3}
      OBVIOUS
    <2> QED
      BY <2>1
  <1> HIDE DEF R
  <1>5. (Len(f) = 3 => Fan(f) = {R(2)}) /\ (Len(f) = 4 => Fan(f) = {R(2), R(3)})
    BY <1>1, <1>4
  <1> QED
    BY <1>2, <1>3, <1>5


\* The triangles of a mesh with the vertices vs and the indices is.
Corner(vs, is, k) == vs[is[k] + 1]
TriangleOf(vs, is, k) == <<Corner(vs, is, k), Corner(vs, is, k + 1), Corner(vs, is, k + 2)>>
TrianglesOf(vs, is) == {Rotations(TriangleOf(vs, is, 3 * t + 1)) : t \in 0..(Len(is) \div 3 - 1)}

LEMMA Thirds ==
    ASSUME NEW t \in Nat
    PROVE  (3 * t) \div 3 = t /\ (3 * t + 3) \div 3 = t + 1 /\ 3 * t + 3 = 3 * (t + 1)
  OBVIOUS

\* A triangle more in the lists is one more in the mesh.
LEMMA OneTriangleMore ==
    ASSUME NEW vs, NEW is, NEW ws, NEW js, NEW a, NEW b, NEW c, Indexed(vs, is),
           AddsTriangle(vs, is, ws, js, a, b, c), NEW m \in Nat, Triples(is, m)
    PROVE  /\ Triples(js, m + 1)
           /\ TrianglesOf(ws, js) = TrianglesOf(vs, is) \cup {Rotations(<<a, b, c>>)}
  <1>1. Len(is) = 3 * m /\ Len(js) = 3 * (m + 1)
    BY Thirds DEF AddsTriangle, Triples
  <1>2. Len(is) \div 3 = m /\ Len(js) \div 3 = m + 1
    BY <1>1, Thirds
  <1>3. 0..(Len(js) \div 3 - 1) = 0..(Len(is) \div 3 - 1) \cup {m}
    BY <1>2
  <1>4. TriangleOf(ws, js, 3 * m + 1) = <<a, b, c>>
    <2>1. 3 * m + 1 = Len(is) + 1 /\ (3 * m + 1) + 1 = Len(is) + 2 /\ (3 * m + 1) + 2 = Len(is) + 3
      BY <1>1
    <2>2. /\ Corner(ws, js, Len(is) + 1) = a /\ Corner(ws, js, Len(is) + 2) = b
          /\ Corner(ws, js, Len(is) + 3) = c
      BY DEF AddsTriangle, Corner
    <2> QED
      BY <2>1, <2>2 DEF TriangleOf
  <1>5. ASSUME NEW k \in DOMAIN is PROVE Corner(ws, js, k) = Corner(vs, is, k)
    <2>1. is[k] \in Nat /\ is[k] < Len(vs) /\ DOMAIN vs = 1..Len(vs) /\ Len(vs) \in Nat
      BY DEF Indexed
    <2>2. is[k] + 1 \in DOMAIN vs /\ js[k] = is[k]
      BY <2>1 DEF AddsTriangle
    <2> QED
      BY <2>2 DEF Corner, AddsTriangle
  <1>6. ASSUME NEW t \in 0..(Len(is) \div 3 - 1)
        PROVE  TriangleOf(ws, js, 3 * t + 1) = TriangleOf(vs, is, 3 * t + 1)
    <2>1. DOMAIN is = 1..Len(is)
      BY DEF Indexed
    <2>2. 3 * t + 1 \in DOMAIN is /\ (3 * t + 1) + 1 \in DOMAIN is /\ (3 * t + 1) + 2 \in DOMAIN is
      BY <1>2, <2>1
    <2> QED
      BY <1>5, <2>2 DEF TriangleOf
  <1>7. TrianglesOf(ws, js) = TrianglesOf(vs, is) \cup {Rotations(<<a, b, c>>)}
    <2> DEFINE R(t) == Rotations(TriangleOf(ws, js, 3 * t + 1))
    <2>1. TrianglesOf(ws, js) = {R(t) : t \in 0..(Len(is) \div 3 - 1) \cup {m}}
      BY <1>3 DEF TrianglesOf
    <2>2. R(m) = Rotations(<<a, b, c>>)
      BY <1>4
    <2>3. TrianglesOf(vs, is) = {R(t) : t \in 0..(Len(is) \div 3 - 1)}
      BY <1>6 DEF TrianglesOf
    <2> HIDE DEF R
    <2> QED
      BY <2>1, <2>2, <2>3
  <1> QED
    BY <1>1, <1>7 DEF Triples

\* The lists ws, js go on from vs, is with the corners of s.
Follows(vs, is, ws, js, s) ==
  /\ Len(js) = Len(is) + Len(s)
  /\ \A k \in DOMAIN is : k \in DOMAIN js /\ Corner(ws, js, k) = Corner(vs, is, k)
  /\ \A k \in 1..Len(s) : Corner(ws, js, Len(is) + k) = s[k]

LEMMA TriangleFollows ==
    ASSUME NEW vs, NEW is, Indexed(vs, is), NEW ws, NEW js, NEW a, NEW b, NEW c,
           AddsTriangle(vs, is, ws, js, a, b, c)
    PROVE  /\ Len(js) = Len(is) + 3 /\ Len(is) \in Nat
           /\ \A k \in DOMAIN is : k \in DOMAIN js /\ Corner(ws, js, k) = Corner(vs, is, k)
           /\ Corner(ws, js, Len(is) + 1) = a /\ Corner(ws, js, Len(is) + 2) = b
           /\ Corner(ws, js, Len(is) + 3) = c
  <1>1. /\ DOMAIN vs = 1..Len(vs) /\ Len(vs) \in Nat
        /\ DOMAIN is = 1..Len(is) /\ Len(is) \in Nat
        /\ \A k \in DOMAIN is : is[k] \in Nat /\ is[k] < Len(vs)
    BY DEF Indexed
  <1>2. Len(js) = Len(is) + 3 /\ DOMAIN js = 1..Len(js)
    BY DEF AddsTriangle, Indexed
  <1>3. ASSUME NEW k \in DOMAIN is
        PROVE  k \in DOMAIN js /\ Corner(ws, js, k) = Corner(vs, is, k)
    <2>1. is[k] + 1 \in DOMAIN vs /\ js[k] = is[k]
      BY <1>1 DEF AddsTriangle
    <2>2. k \in DOMAIN js
      BY <1>1, <1>2
    <2> QED
      BY <2>1, <2>2 DEF Corner, AddsTriangle
  <1>4. /\ Corner(ws, js, Len(is) + 1) = a /\ Corner(ws, js, Len(is) + 2) = b
        /\ Corner(ws, js, Len(is) + 3) = c
    BY DEF Corner, AddsTriangle
  <1> QED
    BY <1>1, <1>2, <1>3, <1>4

\* The corners of a face, as triangles.
LEMMA SplitIs ==
    ASSUME NEW f \in Faces
    PROVE  /\ Split(f) \in Seq(Corners)
           /\ Len(f) = 3 => Split(f) = f
           /\ Len(f) = 4 => /\ Len(Split(f)) = 6
                            /\ Split(f)[1] = f[1] /\ Split(f)[2] = f[2] /\ Split(f)[3] = f[3]
                            /\ Split(f)[4] = f[4] /\ Split(f)[5] = f[1] /\ Split(f)[6] = f[3]
  <1> DEFINE s == <<f[1], f[2], f[3], f[4], f[1], f[3]>>
  <1>1. CASE Len(f) = 3
    BY <1>1, FaceIs DEF Split
  <1>2. CASE Len(f) = 4
    <2>1. Split(f) = s
      BY <1>2 DEF Split
    <2>2. s \in Seq(Corners)
      BY <1>2, FaceIs
    <2>3. /\ Len(s) = 6 /\ s[1] = f[1] /\ s[2] = f[2] /\ s[3] = f[3]
          /\ s[4] = f[4] /\ s[5] = f[1] /\ s[6] = f[3]
      OBVIOUS
    <2> HIDE DEF s
    <2> QED
      BY <1>2, <2>1, <2>2, <2>3
  <1> QED
    BY <1>1, <1>2, FaceIs

\* A face adds its corners, and the triangles of its fan.
LEMMA FaceAdds ==
    ASSUME NEW vs, NEW is, Indexed(vs, is), NEW m \in Nat, Triples(is, m), NEW f \in Faces
    PROVE  \E ws, js : /\ AddCorners(<<vs, is>>, Split(f)) = <<ws, js>>
                       /\ Indexed(ws, js) /\ \E t \in Nat : Triples(js, t)
                       /\ TrianglesOf(ws, js) = TrianglesOf(vs, is) \cup Fan(f)
                       /\ Follows(vs, is, ws, js, Split(f))
  <1>1. PICK v1, i1 : /\ AddTriangle(<<vs, is>>, f[1], f[2], f[3]) = <<v1, i1>>
                      /\ AddsTriangle(vs, is, v1, i1, f[1], f[2], f[3])
    BY FaceIs, AddTriangleAdds
  <1>2. Indexed(v1, i1)
    BY <1>1 DEF AddsTriangle
  <1>3. /\ \E n \in Nat : Triples(i1, n)
        /\ TrianglesOf(v1, i1) = TrianglesOf(vs, is) \cup {Rotations(<<f[1], f[2], f[3]>>)}
    <2>1. m + 1 \in Nat
      OBVIOUS
    <2> QED
      BY <1>1, <2>1, OneTriangleMore
  <1>4. /\ Len(i1) = Len(is) + 3 /\ Len(is) \in Nat
        /\ \A k \in DOMAIN is : k \in DOMAIN i1 /\ Corner(v1, i1, k) = Corner(vs, is, k)
        /\ Corner(v1, i1, Len(is) + 1) = f[1] /\ Corner(v1, i1, Len(is) + 2) = f[2]
        /\ Corner(v1, i1, Len(is) + 3) = f[3]
    BY <1>1, TriangleFollows
  <1>5. CASE Len(f) = 3
    <2>1. AddCorners(<<vs, is>>, Split(f)) = <<v1, i1>>
      BY <1>1, <1>5 DEF AddCorners, Split
    <2>2. TrianglesOf(v1, i1) = TrianglesOf(vs, is) \cup Fan(f)
      BY <1>3, <1>5, FanIs
    <2>3. Follows(vs, is, v1, i1, Split(f))
      <3>1. Split(f) = f
        BY <1>5, SplitIs
      <3>2. 1..Len(f) = {1, 2, 3}
        <4>1. 1..3 = {1, 2, 3}
          OBVIOUS
        <4> QED
          BY <1>5, <4>1
      <3> QED
        BY <1>4, <1>5, <3>1, <3>2 DEF Follows
    <2> QED
      BY <1>2, <1>3, <2>1, <2>2, <2>3
  <1>6. CASE Len(f) = 4
    <2>1. PICK ws, js : /\ AddTriangle(<<v1, i1>>, f[4], f[1], f[3]) = <<ws, js>>
                        /\ AddsTriangle(v1, i1, ws, js, f[4], f[1], f[3])
      BY <1>2, <1>6, FaceIs, AddTriangleAdds
    <2>2. /\ \E t \in Nat : Triples(js, t)
          /\ TrianglesOf(ws, js) = TrianglesOf(v1, i1) \cup {Rotations(<<f[4], f[1], f[3]>>)}
      <3>1. PICK n \in Nat : Triples(i1, n)
        BY <1>3
      <3>2. n + 1 \in Nat
        OBVIOUS
      <3> QED
        BY <1>2, <2>1, <3>1, <3>2, OneTriangleMore
    <2> DEFINE s == Split(f)
    <2>3. /\ Len(s) = 6 /\ s[1] = f[1] /\ s[2] = f[2] /\ s[3] = f[3]
          /\ s[4] = f[4] /\ s[5] = f[1] /\ s[6] = f[3]
      BY <1>6, SplitIs
    <2> HIDE DEF s
    <2>4. AddCorners(<<vs, is>>, s) = <<ws, js>>
      BY <1>1, <2>1, <2>3 DEF AddCorners
    <2>5. TrianglesOf(ws, js) = TrianglesOf(vs, is) \cup Fan(f)
      BY <1>3, <1>6, <2>2, FanIs
    <2>6. Indexed(ws, js)
      BY <2>1 DEF AddsTriangle
    <2>7. Follows(vs, is, ws, js, s)
      <3>1. /\ Len(js) = Len(i1) + 3
            /\ \A k \in DOMAIN i1 : k \in DOMAIN js /\ Corner(ws, js, k) = Corner(v1, i1, k)
            /\ Corner(ws, js, Len(i1) + 1) = f[4] /\ Corner(ws, js, Len(i1) + 2) = f[1]
            /\ Corner(ws, js, Len(i1) + 3) = f[3]
        BY <1>2, <2>1, TriangleFollows
      <3>2. /\ Len(js) = Len(is) + Len(s) /\ Len(i1) + 1 = Len(is) + 4
            /\ Len(i1) + 2 = Len(is) + 5 /\ Len(i1) + 3 = Len(is) + 6
        BY <1>4, <2>3, <3>1
      <3>3. \A k \in DOMAIN is : k \in DOMAIN js /\ Corner(ws, js, k) = Corner(vs, is, k)
        BY <1>4, <3>1
      <3>4. /\ Len(is) + 1 \in DOMAIN i1 /\ Len(is) + 2 \in DOMAIN i1 /\ Len(is) + 3 \in DOMAIN i1
        <4>1. DOMAIN i1 = 1..Len(i1)
          BY <1>2 DEF Indexed
        <4> QED
          BY <1>4, <4>1
      <3>5. /\ Corner(ws, js, Len(is) + 1) = s[1] /\ Corner(ws, js, Len(is) + 2) = s[2]
            /\ Corner(ws, js, Len(is) + 3) = s[3] /\ Corner(ws, js, Len(is) + 4) = s[4]
            /\ Corner(ws, js, Len(is) + 5) = s[5] /\ Corner(ws, js, Len(is) + 6) = s[6]
        BY <1>4, <2>3, <3>1, <3>2, <3>4
      <3>6. 1..Len(s) = {1, 2, 3, 4, 5, 6}
        <4>1. 1..6 = {1, 2, 3, 4, 5, 6}
          OBVIOUS
        <4> QED
          BY <2>3, <4>1
      <3> QED
        BY <3>2, <3>3, <3>5, <3>6 DEF Follows
    <2> QED
      BY <2>2, <2>4, <2>5, <2>6, <2>7 DEF s
  <1> QED
    BY <1>5, <1>6, FaceIs

LEMMA MeshTrianglesAre == MeshTriangles = TrianglesOf(vertices, indices)
  <1>1. ASSUME NEW k PROVE Triangle(k) = TriangleOf(vertices, indices, k)
    BY DEF Triangle, TriangleOf, Corner
  <1> QED
    BY <1>1 DEF MeshTriangles, TrianglesOf

-----------------------------------------------------------------------------
IsAppended(t, s, e) == t = Append(s, e)

\* Joining one sequence more.
LEMMA FlattensOneMore ==
    ASSUME NEW S, NEW s \in Seq(Seq(S)), NEW e \in Seq(S), NEW t, IsAppended(t, s, e)
    PROVE  /\ (\E g : Flattens(g, s)) => \E g : Flattens(g, t)
           /\ \A g : Flattens(g, t) =>
                \E h : /\ Flattens(h, s)
                       /\ g[Len(s) + 1] = IF s = <<>> THEN e ELSE h[Len(s)] \o e
  <1> DEFINE n == Len(s)
  <1>1. /\ n \in Nat /\ Len(t) = n + 1 /\ t[n + 1] = e /\ DOMAIN s = 1..n
        /\ \A i \in 1..n : t[i] = s[i]
    BY AppendFacts DEF IsAppended
  <1>2. s = <<>> <=> n = 0
    OBVIOUS
  <1> HIDE DEF n
  <1>3. ASSUME NEW g, Flattens(g, s) PROVE \E h : Flattens(h, t)
    <2> DEFINE last == IF n = 0 THEN e ELSE g[n] \o e
               h == [i \in 1..(n + 1) |-> IF i = n + 1 THEN last ELSE g[i]]
    <2>1. ASSUME NEW i \in 1..(n + 1)
          PROVE  h[i] = IF i = 1 THEN t[i] ELSE h[i - 1] \o t[i]
      <3>1. CASE i = n + 1 /\ n = 0
        BY <1>1, <3>1
      <3>2. CASE i = n + 1 /\ n # 0
        <4>1. h[i] = g[n] \o e /\ h[i - 1] = g[n] /\ i # 1
          BY <1>1, <3>2
        <4> QED
          BY <1>1, <3>2, <4>1
      <3>3. CASE i # n + 1
        <4>1. i \in 1..n /\ t[i] = s[i] /\ h[i] = g[i]
          BY <1>1, <3>3
        <4>2. g[i] = IF i = 1 THEN s[i] ELSE g[i - 1] \o s[i]
          BY <1>3, <4>1 DEF Flattens, n
        <4>3. i # 1 => h[i - 1] = g[i - 1]
          BY <1>1, <4>1
        <4> QED
          BY <4>1, <4>2, <4>3
      <3> QED
        BY <3>1, <3>2, <3>3
    <2>2. h = [i \in 1..(n + 1) |-> h[i]]
      OBVIOUS
    <2> HIDE DEF h
    <2>3. Flattens(h, t)
      BY <1>1, <2>1, <2>2 DEF Flattens
    <2> QED
      BY <2>3
  <1>4. ASSUME NEW g, Flattens(g, t)
        PROVE  \E h : Flattens(h, s) /\ g[n + 1] = IF n = 0 THEN e ELSE h[n] \o e
    <2> DEFINE h == [i \in 1..n |-> g[i]]
    <2>1. \A i \in 1..(n + 1) : g[i] = IF i = 1 THEN t[i] ELSE g[i - 1] \o t[i]
      BY <1>1, <1>4 DEF Flattens
    <2>2. ASSUME NEW i \in 1..n PROVE h[i] = IF i = 1 THEN s[i] ELSE h[i - 1] \o s[i]
      <3>1. h[i] = g[i] /\ t[i] = s[i] /\ i \in 1..(n + 1) /\ (i # 1 => i - 1 \in 1..n)
        BY <1>1
      <3>2. i # 1 => h[i - 1] = g[i - 1]
        BY <3>1
      <3> QED
        BY <2>1, <3>1, <3>2
    <2>3. h = [i \in 1..n |-> h[i]]
      OBVIOUS
    <2>4. n # 0 => h[n] = g[n] /\ (n + 1) - 1 = n /\ n + 1 # 1
      BY <1>1
    <2>5. n + 1 \in 1..(n + 1)
      BY <1>1
    <2> HIDE DEF h
    <2>6. Flattens(h, s)
      BY <2>2, <2>3 DEF Flattens, n
    <2>7. g[n + 1] = IF n = 0 THEN e ELSE h[n] \o e
      BY <1>1, <2>1, <2>4, <2>5
    <2> QED
      BY <2>6, <2>7
  <1> QED
    BY <1>2, <1>3, <1>4 DEF n

LEMMA FlattenSeqIs ==
    ASSUME NEW s, Len(s) # 0, \E g : Flattens(g, s)
    PROVE  \E g : Flattens(g, s) /\ FlattenSeq(s) = g[Len(s)]
  <1> DEFINE g == CHOOSE f : f = [i \in 1..Len(s) |-> IF i = 1 THEN s[i] ELSE f[i - 1] \o s[i]]
  <1>1. Flattens(g, s)
    BY DEF Flattens
  <1>2. FlattenSeq(s) = g[Len(s)]
    BY DEF FlattenSeq
  <1> QED
    BY <1>1, <1>2

LEMMA InFileIs ==
    ASSUME faces \in Seq(Faces)
    PROVE  /\ InFile \in Seq(Seq(Corners)) /\ Len(InFile) = Len(faces)
           /\ InFile = <<>> <=> faces = <<>>
  <1>1. DOMAIN faces = 1..Len(faces) /\ Len(faces) \in Nat
    OBVIOUS
  <1>2. \A i \in 1..Len(faces) : Split(faces[i]) \in Seq(Corners)
    BY <1>1, SplitIs
  <1>3. InFile \in [1..Len(faces) -> Seq(Corners)]
    BY <1>1, <1>2 DEF InFile
  <1>4. InFile \in Seq(Seq(Corners)) /\ Len(InFile) = Len(faces)
    BY <1>1, <1>3
  <1> QED
    BY <1>4

LEMMA InitMInv == MeshInit => MInv
  <1> SUFFICES ASSUME Init PROVE MInv
    BY DEF MeshInit
  <1>1. Indexed(vertices, indices) /\ Len(indices) = 0 /\ faces = <<>>
    BY DEF Init, Indexed
  <1>2. MeshTriangles = {}
    <2>1. 0..(Len(indices) \div 3 - 1) = {}
      BY <1>1
    <2> QED
      BY <2>1 DEF MeshTriangles
  <1>3. FileTriangles = {}
    BY <1>1 DEF FileTriangles
  <1>4. Triples(indices, 0) /\ 0 \in Nat
    BY <1>1 DEF Triples
  <1>5. Shape
    BY <1>1, <1>4, OBJAssumption DEF Shape, Init
  <1>6. InOrder
    <2>1. Len(InFile) = 0
      BY <1>5, InFileIs, <1>1 DEF Shape
    <2>2. 1..Len(InFile) = {}
      BY <2>1
    <2>3. Flattens([i \in {} |-> 0], InFile)
      BY <2>2 DEF Flattens
    <2>4. indices = <<>>
      BY DEF Init
    <2> QED
      BY <1>1, <2>3, <2>4 DEF InOrder
  <1> QED
    BY <1>2, <1>3, <1>5, <1>6 DEF MInv, Built, Init

\* The mesh and the lists stay as they are.
LEMMA SameMesh ==
    ASSUME UNCHANGED <<vertices, indices, faces>>
    PROVE  /\ MeshTriangles' = MeshTriangles /\ FileTriangles' = FileTriangles
           /\ InOrder' <=> InOrder
  <1>1. MeshTriangles' = MeshTriangles /\ FileTriangles' = FileTriangles
    BY DEF MeshTriangles, FileTriangles, Triangle
  <1>2. InFile' = InFile
    BY DEF InFile
  <1>3. InOrder' <=> InOrder
    BY <1>2 DEF InOrder, Flattens, Names
  <1> QED
    BY <1>1, <1>3

LEMMA FaceKeeps == ASSUME MInv, NEW f \in Faces, Face(f) PROVE MInv'
  <1>1. PICK m \in Nat : Triples(indices, m)
    BY DEF MInv, Shape
  <1>2. PICK ws, js : /\ AddCorners(<<vertices, indices>>, Split(f)) = <<ws, js>>
                      /\ Indexed(ws, js) /\ \E t \in Nat : Triples(js, t)
                      /\ TrianglesOf(ws, js) = TrianglesOf(vertices, indices) \cup Fan(f)
                      /\ Follows(vertices, indices, ws, js, Split(f))
    BY <1>1, FaceAdds DEF MInv, Shape
  <1>3. vertices' = ws /\ indices' = js /\ faces' = Append(faces, f) /\ faces \in Seq(Faces)
    BY <1>2 DEF Face, MInv, Shape
  <1>4. MeshTriangles' = MeshTriangles \cup Fan(f)
    <2>1. (MeshTriangles = TrianglesOf(vertices, indices))'
      BY MeshTrianglesAre, PTL
    <2>2. TrianglesOf(vertices, indices)' = TrianglesOf(ws, js)
      BY <1>3 DEF TrianglesOf, TriangleOf, Corner
    <2> QED
      BY <1>2, <2>1, <2>2, MeshTrianglesAre
  <1>5. FileTriangles' = FileTriangles \cup Fan(f)
    <2>1. /\ DOMAIN faces' = DOMAIN faces \cup {Len(faces) + 1}
          /\ faces'[Len(faces) + 1] = f
          /\ \A i \in DOMAIN faces : faces'[i] = faces[i]
      BY <1>3, AppendFacts
    <2>2. FileTriangles' = UNION {Fan(faces'[i]) : i \in DOMAIN faces'}
      BY DEF FileTriangles, Fan
    <2> QED
      BY <2>1, <2>2 DEF FileTriangles
  <1>6. Shape'
    <2>1. faces' \in Seq(Faces)
      BY <1>3, AppendFacts
    <2>2. UNCHANGED <<positions, texcoords, normals, result>>
      BY DEF Face, lists
    <2>3. Indexed(vertices, indices)' /\ (\E t \in Nat : Triples(indices, t))'
      BY <1>2, <1>3 DEF Indexed, Triples
    <2> QED
      BY <2>1, <2>2, <2>3 DEF MInv, Shape
  <1>7. Built'
    BY DEF Built, Face
  <1>8. InOrder'
    <2> SUFFICES ASSUME NEW n, n = Len(faces), NEW c, c = Split(f) PROVE InOrder'
      OBVIOUS
    <2>1. /\ InFile \in Seq(Seq(Corners)) /\ Len(InFile) = Len(faces) /\ Len(faces) \in Nat
          /\ InFile = <<>> <=> faces = <<>>
          /\ c \in Seq(Corners) /\ Len(c) \in Nat
      BY <1>3, InFileIs, SplitIs
    <2>2. InFile' = Append(InFile, c)
      <3>1. /\ DOMAIN faces = 1..Len(faces) /\ DOMAIN faces' = 1..(Len(faces) + 1)
            /\ faces'[Len(faces) + 1] = f
            /\ \A i \in DOMAIN faces : faces'[i] = faces[i]
        BY <1>3, AppendFacts
      <3>2. /\ DOMAIN Append(InFile, c) = 1..(Len(faces) + 1)
            /\ Append(InFile, c)[Len(faces) + 1] = c
            /\ \A i \in 1..Len(faces) : Append(InFile, c)[i] = InFile[i]
            /\ Append(InFile, c) \in Seq(Seq(Corners))
            /\ Len(Append(InFile, c)) = Len(faces) + 1
        BY <2>1, AppendFacts
      <3>3. InFile' = [i \in 1..(Len(faces) + 1) |-> Split(faces'[i])]
        BY <3>1 DEF InFile, Split
      <3>4. ASSUME NEW i \in 1..(Len(faces) + 1) PROVE Split(faces'[i]) = Append(InFile, c)[i]
        <4>1. i \in 1..Len(faces) \/ i = Len(faces) + 1
          BY <2>1
        <4>2. i \in 1..Len(faces) => InFile[i] = Split(faces[i]) /\ faces'[i] = faces[i]
          BY <3>1 DEF InFile
        <4> QED
          BY <3>1, <3>2, <4>1, <4>2
      <3>5. Append(InFile, c) = [i \in 1..(Len(faces) + 1) |-> Append(InFile, c)[i]]
        BY <3>2, IsItsEntries
      <3> QED
        BY <3>3, <3>4, <3>5
    <2>3. PICK t : IsAppended(t, InFile, c)
      BY DEF IsAppended
    <2>4. InFile' = t
      BY <2>2, <2>3 DEF IsAppended
    <2>5. /\ (\E g : Flattens(g, InFile)) => \E g : Flattens(g, t)
          /\ \A g : Flattens(g, t) =>
                \E h : /\ Flattens(h, InFile)
                       /\ g[Len(faces) + 1] = IF faces = <<>> THEN c ELSE h[Len(faces)] \o c
      <3>1. /\ (\E g : Flattens(g, InFile)) => \E g : Flattens(g, t)
            /\ \A g : Flattens(g, t) =>
                 \E h : /\ Flattens(h, InFile)
                        /\ g[Len(InFile) + 1] = IF InFile = <<>> THEN c ELSE h[Len(InFile)] \o c
        <4>1. InFile \in Seq(Seq(Corners))
          BY <2>1
        <4>2. c \in Seq(Corners)
          BY <2>1
        <4> QED
          BY ONLY <2>3, <4>1, <4>2, FlattensOneMore
      <3> QED
        BY <2>1, <3>1
    <2>6. (\E g : Flattens(g, InFile)) /\ (faces = <<>> => indices = <<>>)
          /\ \A g : Flattens(g, InFile) /\ faces # <<>> => Names(vertices, indices, g[Len(faces)])
      BY DEF MInv, InOrder
    <2>7. /\ Len(indices) \in Nat /\ DOMAIN indices = 1..Len(indices)
          /\ Follows(vertices, indices, ws, js, c) /\ DOMAIN js = 1..Len(js)
      BY <1>2 DEF MInv, Shape, Indexed
    <2>8. ASSUME NEW g, Flattens(g, t) PROVE Names(ws, js, g[n + 1])
      <3>1. PICK h : /\ Flattens(h, InFile)
                     /\ g[Len(faces) + 1] = IF faces = <<>> THEN c ELSE h[Len(faces)] \o c
        BY <2>5, <2>8
      <3>2. PICK r : r = IF faces = <<>> THEN <<>> ELSE h[Len(faces)]
        OBVIOUS
      <3>3. Names(vertices, indices, r)
        <4>1. CASE faces = <<>>
          <5>1. Len(indices) = 0 /\ DOMAIN indices = {}
            BY <2>6, <4>1
          <5> QED
            BY <3>2, <4>1, <5>1 DEF Names
        <4>2. CASE faces # <<>>
          BY <2>6, <3>1, <3>2, <4>2
        <4> QED
          BY <4>1, <4>2
      <3>4. r \in Seq(Corners) /\ Len(r) = Len(indices)
        BY <3>3 DEF Names
      <3>5. g[n + 1] = r \o c
        BY <2>1, <3>1, <3>2
      <3>6. /\ r \o c \in Seq(Corners) /\ Len(r \o c) = Len(r) + Len(c)
            /\ \A k \in 1..Len(r) : (r \o c)[k] = r[k]
            /\ \A k \in 1..Len(c) : (r \o c)[Len(r) + k] = c[k]
        <4>1. c \in Seq(Corners)
          BY <2>1
        <4> QED
          BY ONLY <3>4, <4>1
      <3>7. Len(js) = Len(r \o c)
        BY <2>7, <3>4, <3>6 DEF Follows
      <3>8. ASSUME NEW k \in DOMAIN js PROVE ws[js[k] + 1] = (r \o c)[k]
        <4>1. CASE k <= Len(indices)
          <5>1. k \in DOMAIN indices /\ k \in 1..Len(r)
            BY <2>7, <3>4, <4>1
          <5>2. Corner(ws, js, k) = Corner(vertices, indices, k)
            BY <2>7, <5>1 DEF Follows
          <5>3. Corner(vertices, indices, k) = r[k]
            BY <3>3, <5>1 DEF Names, Corner
          <5> QED
            BY <3>6, <5>1, <5>2, <5>3 DEF Corner
        <4>2. CASE k > Len(indices)
          <5>1. PICK i : i = k - Len(indices)
            OBVIOUS
          <5>2. i \in 1..Len(c) /\ k = Len(indices) + i
            <6>1. k \in 1..(Len(indices) + Len(c)) /\ Len(indices) \in Nat /\ Len(c) \in Nat
              BY <2>1, <2>7 DEF Follows
            <6> QED
              BY <4>2, <5>1, <6>1
          <5>3. Corner(ws, js, Len(indices) + i) = c[i]
            BY <2>7, <5>2 DEF Follows
          <5> QED
            BY <3>4, <3>6, <5>2, <5>3 DEF Corner
        <4>3. k \in Nat /\ Len(indices) \in Nat
          <5>1. Len(js) = Len(indices) + Len(c)
            BY <2>7 DEF Follows
          <5> QED
            BY <2>1, <2>7, <5>1
        <4>4. k <= Len(indices) \/ k > Len(indices)
          BY <4>3
        <4> QED
          BY <4>1, <4>2, <4>4
      <3> QED
        <4>1. /\ g[n + 1] \in Seq(Corners) /\ Len(g[n + 1]) = Len(js)
              /\ \A k \in DOMAIN js : ws[js[k] + 1] = g[n + 1][k]
          BY <3>5, <3>6, <3>7, <3>8
        <4> QED
          BY <4>1 DEF Names
    <2>9. faces' # <<>> /\ Len(faces') = n + 1
      <3>1. Len(faces') = Len(faces) + 1 /\ Len(faces) \in Nat
        BY <1>3, AppendFacts
      <3> QED
        BY <3>1
    <2>10. \E g : Flattens(g, t)
      BY <2>5, <2>6
    <2> QED
      <3>1. \E g : Flattens(g, InFile')
        BY <2>4, <2>10
      <3>2. \A g : Flattens(g, InFile') => Names(vertices', indices', g[Len(faces')])
        BY <1>3, <2>4, <2>8, <2>9
      <3> QED
        BY <2>9, <3>1, <3>2 DEF InOrder, Flattens, Names
  <1> QED
    BY <1>4, <1>5, <1>6, <1>7, <1>8 DEF MInv

LEMMA ListedKeeps == MInv /\ Listed => MInv'
  <1> SUFFICES ASSUME MInv, Listed PROVE MInv'
    OBVIOUS
  <1>1. UNCHANGED <<vertices, indices, faces, mesh, result>> /\ result = "reading"
    BY DEF Listed
  <1>2. {positions, texcoords, normals}' \subseteq 0..MaxListed
    BY OBJAssumption DEF Listed, MInv, Shape
  <1>3. Shape'
    BY <1>1, <1>2 DEF Shape, MInv
  <1>4. Built'
    BY <1>1 DEF Built
  <1> QED
    BY <1>1, <1>3, <1>4, SameMesh DEF MInv

LEMMA EndOfFileKeeps == MInv /\ EndOfFile => MInv'
  <1> SUFFICES ASSUME MInv, EndOfFile PROVE MInv'
    OBVIOUS
  <1>1. UNCHANGED <<vertices, indices, faces, positions, texcoords, normals>>
    BY DEF EndOfFile, lists
  <1>2. result' \in {"loaded", "failed"}
    BY DEF EndOfFile
  <1>3. Shape'
    BY <1>1, <1>2 DEF Shape, MInv
  <1>4. Built'
    <2> SUFFICES ASSUME result' = "loaded" PROVE Built'
      BY DEF Built
    <2>1. positions \in Nat /\ texcoords \in Nat /\ normals \in Nat
      BY OBJAssumption DEF MInv, Shape
    <2>2. /\ Found("p", positions)
          /\ normals > 0 => Found("n", normals)
          /\ texcoords > 0 => Found("uv", texcoords)
          /\ V' = Column("p")
          /\ N' = IF normals > 0 THEN Column("n") ELSE <<>>
          /\ UV' = IF texcoords > 0 THEN Column("uv") ELSE <<>>
      BY DEF EndOfFile, Filled
    <2>3. \A field, size : /\ Found(field, size) => \A k \in DOMAIN vertices' : vertices'[k][field] \in 1..size
                           /\ Column(field)' = Column(field)
      BY <1>1 DEF Found, Column
    <2> QED
      BY <1>1, <2>2, <2>3 DEF Built, Found
  <1> QED
    BY <1>1, <1>3, <1>4, SameMesh DEF MInv

LEMMA NextMInv == MInv /\ [MeshNext]_<<vars, cdf, scale>> => MInv'
  <1> SUFFICES ASSUME MInv, [MeshNext]_<<vars, cdf, scale>> PROVE MInv'
    OBVIOUS
  <1>1. CASE Listed
    BY <1>1, ListedKeeps
  <1>2. CASE BadFace
    <2>1. UNCHANGED <<vertices, indices, faces, positions, texcoords, normals>> /\ result' = "failed"
      BY <1>2 DEF BadFace, lists
    <2> QED
      BY <2>1, SameMesh DEF MInv, Shape, Built
  <1>3. CASE EndOfFile
    BY <1>3, EndOfFileKeeps
  <1>4. CASE \E f \in Faces : Face(f)
    BY <1>4, FaceKeeps
  <1>5. CASE UNCHANGED vars
    <2>1. UNCHANGED <<vertices, indices, faces, positions, texcoords, normals, result, V, N, UV>>
      BY <1>5 DEF vars
    <2>2. Shape' /\ Built'
      BY <2>1 DEF MInv, Shape, Built, Found, Column
    <2> QED
      BY <2>1, <2>2, SameMesh DEF MInv
  <1>6. MeshNext => Next \/ UNCHANGED vars
    BY DEF MeshNext, Construct, AppendArea, NormalizeAreas
  <1> QED
    BY <1>1, <1>2, <1>3, <1>4, <1>5, <1>6 DEF Next, vars

\* The triangles of the mesh and of the file agree after every line, no vertex
\* is stored twice, and what was built at the end came from entries that exist.
THEOREM Invariance == MeshSpec => []MInv
  BY InitMInv, NextMInv, PTL DEF MeshSpec

\* However the faces share corners, the triangles of the mesh are those of the
\* faces of the file, in their orientation, and no vertex is stored twice.
THEOREM MeshIsTheFile == MeshSpec => []FacesAreKept
  <1>1. MInv => FacesAreKept
    <2> SUFFICES ASSUME MInv PROVE FacesAreKept
      OBVIOUS
    <2>1. VerticesDistinct
      BY DEF VerticesDistinct, MInv, Shape, Indexed
    <2>2. \A k \in DOMAIN indices : indices[k] \in 0..(Len(vertices) - 1)
      <3>1. /\ \A k \in DOMAIN indices : indices[k] \in Nat /\ indices[k] < Len(vertices)
            /\ Len(vertices) \in Nat
        BY DEF MInv, Shape, Indexed
      <3> QED
        BY <3>1
    <2>3. MeshTriangles = FileTriangles
      BY DEF MInv
    <2> QED
      BY <2>1, <2>2, <2>3 DEF FacesAreKept, MeshTriangles, FileTriangles
  <1> QED
    BY <1>1, Invariance, PTL

\* Each index of a loaded mesh has a position in the list, and a normal and a
\* texture coordinate when the mesh has any.
THEOREM NothingIsMissing == MeshSpec => []AttributesExist
  <1>1. MInv => AttributesExist
    <2> SUFFICES ASSUME MInv, result = "loaded", NEW k \in DOMAIN indices,
                        NEW i, i = indices[k] + 1
                 PROVE  /\ V[i] \in 1..positions
                        /\ N # <<>> => N[i] \in 1..normals
                        /\ UV # <<>> => UV[i] \in 1..texcoords
                        /\ normals > 0 => N # <<>>
      BY DEF AttributesExist
    <2>1. i \in DOMAIN vertices
      <3>1. /\ indices[k] \in Nat /\ indices[k] < Len(vertices)
            /\ Len(vertices) \in Nat /\ DOMAIN vertices = 1..Len(vertices)
        BY DEF MInv, Shape, Indexed
      <3> QED
        BY <3>1
    <2>2. \A field : /\ DOMAIN Column(field) = DOMAIN vertices
                     /\ Column(field)[i] = vertices[i][field]
      BY <2>1 DEF Column
    <2>3. \A field, size : Found(field, size) => Column(field)[i] \in 1..size
      BY <2>1, <2>2 DEF Found
    <2>4. \A field : Column(field) # <<>>
      BY <2>1, <2>2
    <2> HIDE DEF Column, Found
    <2> QED
      BY <2>3, <2>4 DEF MInv, Built
  <1> QED
    BY <1>1, Invariance, PTL

-----------------------------------------------------------------------------
(* The distribution over the triangles.                                    *)

\* The sums of the areas do not decrease, leave no sample without an entry,
\* and each exceeds the one before it by the area of a triangle.
Sums ==
  /\ cdf \in Seq(Nat) /\ cdf # <<>> /\ cdf[1] = 0 /\ scale \in Nat
  /\ \A j, k \in DOMAIN cdf : j <= k => cdf[j] <= cdf[k]
  /\ \A s \in 1..cdf[Len(cdf)] : \E k \in 1..(Len(cdf) - 1) : cdf[k] < s /\ s <= cdf[k + 1]
Summed ==
  /\ Len(cdf) > 1 \/ scale > 0 => result = "loaded"
  /\ \A k \in 1..(Len(cdf) - 1) : cdf[k + 1] = cdf[k] + surfaceArea(k - 1)
  /\ Len(cdf) - 1 <= TriangleCount
  /\ scale > 0 => scale = cdf[Len(cdf)] /\ Len(cdf) - 1 = TriangleCount

CInv == Sums /\ Summed

LEMMA AreaIs ==
    ASSUME NEW p \in Int \X Int, NEW q \in Int \X Int, NEW r \in Int \X Int
    PROVE  Area(p, q, r) \in Nat
  <1> DEFINE cross == (q[1] - p[1]) * (r[2] - p[2]) - (q[2] - p[2]) * (r[1] - p[1])
  <1>1. /\ q[1] - p[1] \in Int /\ r[2] - p[2] \in Int /\ q[2] - p[2] \in Int
        /\ r[1] - p[1] \in Int
    OBVIOUS
  <1>2. \A a, b \in Int : a * b \in Int
    OBVIOUS
  <1>3. cross \in Int
    <2>1. (q[1] - p[1]) * (r[2] - p[2]) \in Int /\ (q[2] - p[2]) * (r[1] - p[1]) \in Int
      BY <1>1, <1>2
    <2> QED
      BY <2>1
  <1>4. Area(p, q, r) = IF cross < 0 THEN -cross ELSE cross
    BY DEF Area
  <1> HIDE DEF cross
  <1> QED
    BY <1>3, <1>4

\* The area of a triangle of the mesh is that of the positions its corners name.
LEMMA SurfaceAreaIs ==
    ASSUME MInv, result = "loaded", NEW t \in Nat, t < TriangleCount
    PROVE  /\ surfaceArea(t) = Area(Points[Corner(vertices, indices, 3 * t + 1).p],
                                    Points[Corner(vertices, indices, 3 * t + 2).p],
                                    Points[Corner(vertices, indices, 3 * t + 3).p])
           /\ surfaceArea(t) \in Nat
  <1>1. PICK m \in Nat : Len(indices) = 3 * m
    BY DEF MInv, Shape, Triples
  <1>2. TriangleCount = m
    BY <1>1, Thirds DEF TriangleCount
  <1>3. /\ \A k \in DOMAIN indices : indices[k] \in Nat /\ indices[k] < Len(vertices)
        /\ DOMAIN indices = 1..Len(indices)
        /\ DOMAIN vertices = 1..Len(vertices) /\ Len(vertices) \in Nat
    BY DEF MInv, Shape, Indexed
  <1>4. 3 * t + 1 \in DOMAIN indices /\ 3 * t + 2 \in DOMAIN indices /\ 3 * t + 3 \in DOMAIN indices
    BY <1>1, <1>2, <1>3
  <1>5. ASSUME NEW k \in DOMAIN indices
        PROVE  /\ V[indices[k] + 1] = Corner(vertices, indices, k).p
               /\ Points[V[indices[k] + 1]] \in Int \X Int
    <2>1. indices[k] + 1 \in DOMAIN vertices
      BY <1>3
    <2>2. V = Column("p") /\ Found("p", positions)
      BY DEF MInv, Built
    <2>3. V[indices[k] + 1] = vertices[indices[k] + 1]["p"]
      BY <2>1, <2>2 DEF Column
    <2>4. V[indices[k] + 1] \in 1..positions
      BY <2>1, <2>2, <2>3 DEF Found
    <2>5. positions \in 0..MaxListed /\ MaxListed \in Nat
      BY OBJAssumption DEF MInv, Shape
    <2>6. DOMAIN Points = 1..Len(Points) /\ Len(Points) \in Nat /\ MaxListed <= Len(Points)
      BY PointsAssumption, <2>5
    <2>7. V[indices[k] + 1] \in DOMAIN Points
      BY <2>4, <2>5, <2>6
    <2>8. Points[V[indices[k] + 1]] \in Int \X Int
      BY <2>7, PointsAssumption
    <2> QED
      BY <2>3, <2>8 DEF Corner
  <1> DEFINE p(k) == Points[V[indices[k] + 1]]
  <1>6. surfaceArea(t) = Area(p(3 * t + 1), p(3 * t + 2), p(3 * t + 3))
    BY DEF surfaceArea, F
  <1>7. p(3 * t + 1) \in Int \X Int /\ p(3 * t + 2) \in Int \X Int /\ p(3 * t + 3) \in Int \X Int
    BY <1>4, <1>5
  <1>8. /\ p(3 * t + 1) = Points[Corner(vertices, indices, 3 * t + 1).p]
        /\ p(3 * t + 2) = Points[Corner(vertices, indices, 3 * t + 2).p]
        /\ p(3 * t + 3) = Points[Corner(vertices, indices, 3 * t + 3).p]
    BY <1>4, <1>5
  <1> HIDE DEF p
  <1> QED
    BY <1>6, <1>7, <1>8, AreaIs

LEMMA SumsAre ==
    ASSUME Sums
    PROVE  /\ Len(cdf) \in Nat /\ Len(cdf) >= 1 /\ DOMAIN cdf = 1..Len(cdf) /\ cdf \in Seq(Nat)
           /\ 1 \in DOMAIN cdf /\ Len(cdf) \in DOMAIN cdf /\ cdf[Len(cdf)] \in Nat
  <1>1. Len(cdf) \in Nat /\ Len(cdf) >= 1 /\ DOMAIN cdf = 1..Len(cdf) /\ cdf \in Seq(Nat)
    BY DEF Sums
  <1> QED
    BY <1>1

\* One sum more.
LEMMA OneSumMore ==
    ASSUME Sums, NEW v \in Nat, cdf' = Append(cdf, cdf[Len(cdf)] + v), scale' = scale
    PROVE  Sums'
  <1> DEFINE n == Len(cdf)
             last == cdf[n] + v
  <1>1. /\ n \in Nat /\ n >= 1 /\ DOMAIN cdf = 1..n /\ cdf \in Seq(Nat) /\ cdf[n] \in Nat
        /\ 1 \in DOMAIN cdf /\ n \in DOMAIN cdf
    BY SumsAre
  <1>2. last \in Nat /\ cdf[n] <= last
    BY <1>1
  <1>3. /\ cdf' \in Seq(Nat) /\ Len(cdf') = n + 1 /\ cdf'[n + 1] = last
        /\ \A k \in DOMAIN cdf : cdf'[k] = cdf[k]
        /\ DOMAIN cdf' = 1..(n + 1)
    BY <1>1, <1>2, AppendFacts
  <1> HIDE DEF last
  <1>4. cdf' # <<>> /\ cdf'[1] = 0 /\ scale' \in Nat
    <2>1. cdf[1] = 0 /\ scale \in Nat
      BY DEF Sums
    <2>2. cdf' # <<>>
      BY <1>1, <1>3
    <2> QED
      BY <1>1, <1>3, <2>1, <2>2
  <1>5. ASSUME NEW j \in DOMAIN cdf', NEW k \in DOMAIN cdf', j <= k PROVE cdf'[j] <= cdf'[k]
    <2>1. CASE k \in DOMAIN cdf
      <3>1. j \in DOMAIN cdf
        BY <1>1, <1>3, <1>5, <2>1
      <3> QED
        BY <1>3, <1>5, <2>1, <3>1 DEF Sums
    <2>2. CASE k = n + 1 /\ j \in DOMAIN cdf
      <3>1. cdf[j] <= cdf[n] /\ cdf[j] \in Nat
        <4>1. n \in DOMAIN cdf /\ j <= n /\ cdf[j] \in Nat
          BY <1>1, <2>2
        <4> QED
          BY <2>2, <4>1 DEF Sums
      <3> QED
        BY <1>1, <1>2, <1>3, <2>2, <3>1
    <2>3. CASE k = n + 1 /\ j = n + 1
      BY <1>2, <1>3, <2>3
    <2> QED
      BY <1>1, <1>3, <2>1, <2>2, <2>3
  <1>6. ASSUME NEW s \in 1..last
        PROVE  \E k \in 1..n : cdf'[k] < s /\ s <= cdf'[k + 1]
    <2>1. CASE s <= cdf[n]
      <3>1. s \in 1..cdf[n]
        BY <1>1, <1>2, <2>1
      <3>2. PICK k \in 1..(n - 1) : cdf[k] < s /\ s <= cdf[k + 1]
        BY <3>1 DEF Sums
      <3>3. k \in 1..n /\ k \in DOMAIN cdf /\ k + 1 \in DOMAIN cdf
        BY <1>1
      <3> QED
        BY <1>3, <3>2, <3>3
    <2>2. CASE ~(s <= cdf[n])
      <3>1. cdf[n] < s /\ s <= last /\ n \in 1..n /\ n \in DOMAIN cdf
        BY <1>1, <1>2, <2>2
      <3> QED
        BY <1>3, <3>1
    <2> QED
      BY <2>1, <2>2
  <1>7. \A s \in 1..cdf'[Len(cdf')] :
          \E k \in 1..(Len(cdf') - 1) : cdf'[k] < s /\ s <= cdf'[k + 1]
    <2>1. Len(cdf') - 1 = n /\ cdf'[Len(cdf')] = last
      BY <1>1, <1>3
    <2> HIDE DEF n
    <2> QED
      BY <1>6, <2>1
  <1> QED
    BY <1>3, <1>4, <1>5, <1>7 DEF Sums

LEMMA AppendAreaKeeps == MInv /\ CInv /\ AppendArea => CInv'
  <1> SUFFICES ASSUME MInv, CInv, AppendArea PROVE CInv'
    OBVIOUS
  <1> DEFINE n == Len(cdf)
  <1>1. n \in Nat /\ n >= 1 /\ DOMAIN cdf = 1..n /\ cdf \in Seq(Nat)
    BY DEF CInv, Sums
  <1>2. /\ result = "loaded" /\ n - 1 < TriangleCount /\ scale = 0 /\ scale' = scale
        /\ cdf' = Append(cdf, cdf[n] + surfaceArea(n - 1))
        /\ UNCHANGED vars
    BY DEF AppendArea, areaDP!AppendEntry, areaDP!NextSum, areaDP!Entries
  <1>3. n - 1 \in Nat
    BY <1>1
  <1>4. surfaceArea(n - 1) \in Nat
    BY <1>2, <1>3, SurfaceAreaIs
  <1>5. Sums'
    BY <1>2, <1>4, OneSumMore DEF CInv
  <1>6. /\ result' = result /\ TriangleCount' = TriangleCount
        /\ \A k : surfaceArea(k)' = surfaceArea(k)
    BY <1>2 DEF vars, mesh, TriangleCount, surfaceArea, F
  <1>7. TriangleCount \in Int
    BY DEF TriangleCount, MInv, Shape, Indexed
  <1>8. cdf[n] + surfaceArea(n - 1) \in Nat
    BY <1>1, <1>4
  <1>9. /\ Len(cdf') = n + 1 /\ cdf'[n + 1] = cdf[n] + surfaceArea(n - 1)
        /\ \A k \in DOMAIN cdf : cdf'[k] = cdf[k]
    BY <1>1, <1>2, <1>8, AppendFacts
  <1>10. ASSUME NEW k \in 1..n PROVE cdf'[k + 1] = cdf'[k] + surfaceArea(k - 1)
    <2>1. CASE k = n
      BY <1>1, <1>9, <2>1
    <2>2. CASE k # n
      <3>1. k \in 1..(n - 1) /\ k \in DOMAIN cdf /\ k + 1 \in DOMAIN cdf
        <4> HIDE DEF n
        <4>1. k \in Nat /\ k >= 1 /\ k <= n /\ k # n
          BY <1>1, <2>2
        <4> QED
          BY <1>1, <4>1
      <3>2. cdf[k + 1] = cdf[k] + surfaceArea(k - 1)
        BY <3>1 DEF CInv, Summed
      <3> QED
        BY <1>9, <3>1, <3>2
    <2> QED
      BY <2>1, <2>2
  <1>11. Len(cdf') - 1 = n /\ n <= TriangleCount
    BY <1>1, <1>2, <1>7, <1>9
  <1>12. Summed'
    <2>1. ~(scale' > 0)
      BY <1>2
    <2> HIDE DEF n
    <2> QED
      BY <1>2, <1>6, <1>10, <1>11, <2>1 DEF Summed
  <1> QED
    BY <1>5, <1>12 DEF CInv

LEMMA NormalizeKeeps == MInv /\ CInv /\ NormalizeAreas => CInv'
  <1> SUFFICES ASSUME MInv, CInv, NormalizeAreas PROVE CInv'
    OBVIOUS
  <1>1. /\ result = "loaded" /\ Len(cdf) - 1 = TriangleCount
        /\ scale' = cdf[Len(cdf)] /\ cdf' = cdf /\ UNCHANGED vars
    BY DEF NormalizeAreas, areaDP!Normalize, areaDP!Entries
  <1>2. cdf[Len(cdf)] \in Nat
    BY DEF CInv, Sums
  <1>3. Sums'
    BY <1>1, <1>2 DEF CInv, Sums
  <1>4. /\ result' = result /\ TriangleCount' = TriangleCount
        /\ \A k : surfaceArea(k)' = surfaceArea(k)
    BY <1>1 DEF vars, mesh, TriangleCount, surfaceArea, F
  <1>5. Summed'
    BY <1>1, <1>4 DEF CInv, Summed
  <1> QED
    BY <1>3, <1>5 DEF CInv

\* The file is read before the first area is appended.
LEMMA ConstructKeeps == MInv /\ MInv' /\ CInv /\ Construct => CInv'
  <1> SUFFICES ASSUME MInv, MInv', CInv, Construct PROVE CInv'
    OBVIOUS
  <1>1. cdf' = cdf /\ scale' = scale /\ result = "reading"
    BY DEF Construct, Next, Listed, Face, BadFace, EndOfFile
  <1>2. Sums'
    BY <1>1 DEF CInv, Sums
  <1>3. Len(cdf) \in Nat /\ ~(Len(cdf) > 1) /\ ~(scale > 0)
    BY <1>1 DEF CInv, Sums, Summed
  <1>4. TriangleCount' >= 0
    <2>1. PICK m \in Nat : Len(indices') = 3 * m
      BY DEF MInv, Shape, Triples
    <2> QED
      BY <2>1, Thirds DEF TriangleCount
  <1>5. Len(cdf) = 1
    <2>1. Len(cdf) \in Nat /\ Len(cdf) >= 1
      BY SumsAre DEF CInv
    <2> QED
      BY <1>3, <2>1
  <1>6. TriangleCount' \in Int
    BY DEF TriangleCount, MInv, Shape, Indexed
  <1>7. Summed'
    BY <1>1, <1>3, <1>4, <1>5, <1>6 DEF Summed
  <1> QED
    BY <1>2, <1>7 DEF CInv

LEMMA InitCInv == MeshInit /\ MInv => CInv
  <1> SUFFICES ASSUME MeshInit, MInv PROVE CInv
    OBVIOUS
  <1>1. cdf = <<0>> /\ scale = 0 /\ indices = <<>>
    BY DEF MeshInit, areaDP!Init, Init
  <1>2. Len(cdf) = 1 /\ DOMAIN cdf = {1} /\ cdf[1] = 0 /\ cdf \in Seq(Nat) /\ cdf # <<>>
    BY <1>1
  <1>3. 1..cdf[Len(cdf)] = {} /\ 1..(Len(cdf) - 1) = {}
    BY <1>2
  <1>4. Sums
    BY <1>1, <1>2, <1>3 DEF Sums
  <1>5. TriangleCount = 0
    <2>1. Len(indices) = 0 /\ 3 * 0 = 0
      BY <1>1
    <2> QED
      BY <2>1, Thirds DEF TriangleCount
  <1>6. Summed
    BY <1>1, <1>2, <1>3, <1>5 DEF Summed
  <1> QED
    BY <1>4, <1>6 DEF CInv

LEMMA NextCInv == MInv /\ MInv' /\ CInv /\ [MeshNext]_<<vars, cdf, scale>> => CInv'
  <1> SUFFICES ASSUME MInv, MInv', CInv, [MeshNext]_<<vars, cdf, scale>> PROVE CInv'
    OBVIOUS
  <1>1. CASE Construct
    BY <1>1, ConstructKeeps
  <1>2. CASE AppendArea
    BY <1>2, AppendAreaKeeps
  <1>3. CASE NormalizeAreas
    BY <1>3, NormalizeKeeps
  <1>4. CASE UNCHANGED <<vars, cdf, scale>>
    <2>1. /\ result' = result /\ TriangleCount' = TriangleCount /\ cdf' = cdf /\ scale' = scale
          /\ \A k : surfaceArea(k)' = surfaceArea(k)
      BY <1>4 DEF vars, mesh, TriangleCount, surfaceArea, F
    <2> QED
      BY <2>1 DEF CInv, Sums, Summed
  <1> QED
    BY <1>1, <1>2, <1>3, <1>4 DEF MeshNext

LEMMA SumsInvariant == MeshSpec => []CInv
  BY InitMInv, InitCInv, NextCInv, Invariance, PTL DEF MeshSpec

\* The samples that fall to an entry are those between its two sums.
LEMMA IndexIs ==
    ASSUME Sums, NEW s \in 1..cdf[Len(cdf)], NEW k \in 1..(Len(cdf) - 1),
           cdf[k] < s, s <= cdf[k + 1]
    PROVE  areaDP!Index(s) = k - 1
  <1> DEFINE n == Len(cdf)
             S == {j \in 0..n : j = n \/ cdf[j + 1] >= s}
  <1>1. /\ n \in Nat /\ DOMAIN cdf = 1..n /\ k \in 1..(n - 1) /\ s \in Nat
        /\ k \in DOMAIN cdf /\ k + 1 \in DOMAIN cdf /\ k \in 0..n
    BY SumsAre
  <1>2. \A i \in DOMAIN cdf : cdf[i] \in Nat
    BY SumsAre
  <1>3. k \in S
    BY <1>1, <1>2
  <1>4. ASSUME NEW j \in S PROVE k <= j
    <2>1. j \in 0..n /\ (j = n \/ cdf[j + 1] >= s)
      BY <1>4
    <2> HIDE DEF S, n
    <2>2. j \in Nat /\ j <= n /\ k \in Nat /\ k <= n
      BY <1>1, <2>1
    <2>3. ~(j < k)
      <3> SUFFICES ASSUME j < k PROVE FALSE
        OBVIOUS
      <3>1. j # n /\ j + 1 <= k /\ j + 1 \in DOMAIN cdf
        BY <1>1, <2>2
      <3>2. cdf[j + 1] <= cdf[k]
        BY <1>1, <3>1 DEF Sums
      <3>3. cdf[j + 1] >= s /\ cdf[j + 1] \in Nat /\ cdf[k] \in Nat
        BY <1>1, <1>2, <2>1, <3>1
      <3> QED
        BY <1>1, <3>2, <3>3
    <2> QED
      BY <2>2, <2>3
  <1>5. S \subseteq Nat
    BY <1>1
  <1> HIDE DEF S
  <1>6. areaDP!LowerBound(s) = k
    <2>1. areaDP!LowerBound(s) = CHOOSE x \in S : \A y \in S : x <= y
      BY DEF areaDP!LowerBound, areaDP!Min, S
    <2>2. \A x \in S : (\A y \in S : x <= y) => x = k
      BY <1>1, <1>3, <1>4, <1>5
    <2> QED
      BY <1>3, <1>4, <2>1, <2>2
  <1>7. k # 0 /\ ~(k - 1 > n - 2)
    BY <1>1
  <1> HIDE DEF n
  <1> QED
    BY <1>6, <1>7 DEF areaDP!Index, n

LEMMA SamplesOf ==
    ASSUME Sums, NEW t \in 0..(Len(cdf) - 2), NEW all, all = cdf[Len(cdf)]
    PROVE  {s \in 1..all : areaDP!Index(s) = t} = (cdf[t + 1] + 1)..cdf[t + 2]
  <1>1. /\ DOMAIN cdf = 1..Len(cdf) /\ Len(cdf) \in Nat /\ Len(cdf) \in DOMAIN cdf
        /\ \A i \in DOMAIN cdf : cdf[i] \in Nat
    BY SumsAre
  <1>2. /\ t + 1 \in 1..(Len(cdf) - 1) /\ t + 1 \in DOMAIN cdf /\ t + 2 \in DOMAIN cdf
        /\ (t + 1) - 1 = t /\ (t + 1) + 1 = t + 2
    BY <1>1
  <1>3. cdf[t + 1] \in Nat /\ cdf[t + 2] \in Nat /\ all \in Nat
    BY <1>1, <1>2
  <1>4. ASSUME NEW s \in 1..all, areaDP!Index(s) = t PROVE s \in (cdf[t + 1] + 1)..cdf[t + 2]
    <2>1. PICK k \in 1..(Len(cdf) - 1) : cdf[k] < s /\ s <= cdf[k + 1]
      BY <1>4 DEF Sums
    <2>2. k - 1 = t
      BY <1>4, <2>1, IndexIs
    <2>3. k = t + 1 /\ k + 1 = t + 2
      BY <1>1, <2>2
    <2>4. cdf[t + 1] < s /\ s <= cdf[t + 2] /\ s \in Nat
      BY <1>3, <2>1, <2>3
    <2> QED
      BY <1>3, <2>4
  <1>5. ASSUME NEW s \in (cdf[t + 1] + 1)..cdf[t + 2]
        PROVE  s \in 1..all /\ areaDP!Index(s) = t
    <2>1. s \in Nat /\ s >= 1 /\ cdf[t + 1] < s /\ s <= cdf[t + 2]
      BY <1>3
    <2>2. cdf[t + 2] <= all
      <3>1. t + 2 <= Len(cdf)
        BY <1>1
      <3> QED
        BY <1>1, <1>2, <3>1 DEF Sums
    <2>3. s \in 1..all
      BY <1>3, <2>1, <2>2
    <2> QED
      BY <1>2, <2>1, <2>3, IndexIs
  <1> QED
    BY <1>4, <1>5

\* The corners of the file, joined, are those the indices name.
LEMMA InFileNames ==
    ASSUME MInv
    PROVE  Names(vertices, indices, FlattenSeq(InFile))
  <1>1. /\ faces \in Seq(Faces) /\ InOrder /\ Len(faces) \in Nat
    BY DEF MInv, Shape
  <1>2. InFile \in Seq(Seq(Corners)) /\ Len(InFile) = Len(faces) /\ (InFile = <<>> <=> faces = <<>>)
    BY <1>1, InFileIs
  <1>3. CASE faces = <<>>
    <2>1. Len(InFile) = 0 /\ InFile = <<>> /\ indices = <<>>
      BY <1>1, <1>2, <1>3 DEF InOrder
    <2>2. FlattenSeq(InFile) = <<>>
      BY <2>1 DEF FlattenSeq
    <2> QED
      <3>1. Len(indices) = 0 /\ DOMAIN indices = {}
        BY <2>1
      <3> QED
        <4>1. <<>> \in Seq(Corners) /\ Len(<<>>) = Len(indices)
          BY <3>1
        <4>2. Names(vertices, indices, <<>>)
          BY <3>1, <4>1 DEF Names
        <4> QED
          BY <2>2, <4>2
  <1>4. CASE faces # <<>>
    <2>1. Len(InFile) # 0
      BY <1>1, <1>2, <1>4
    <2>2. PICK g : Flattens(g, InFile) /\ FlattenSeq(InFile) = g[Len(InFile)]
      BY <1>1, <2>1, FlattenSeqIs DEF InOrder
    <2> QED
      BY <1>1, <1>2, <1>4, <2>2 DEF InOrder
  <1> QED
    BY <1>3, <1>4

\* An area light draws each triangle of the file by its share of the area.
THEOREM SamplesFollowAreas == MeshSpec => []SharesAreAreas
  <1>1. MInv /\ CInv => SharesAreAreas
    <2> SUFFICES ASSUME MInv, CInv, scale > 0, NEW all, all = FlattenSeq(InFile)
                 PROVE  /\ areaDP!Entries = Len(all) \div 3
                        /\ \A t \in 0..(areaDP!Entries - 1) :
                             Cardinality({s \in 1..scale : areaDP!Index(s) = t})
                               = Area(Points[all[3 * t + 1].p], Points[all[3 * t + 2].p],
                                      Points[all[3 * t + 3].p])
      BY DEF SharesAreAreas, InFile
    <2>1. Names(vertices, indices, all)
      BY InFileNames
    <2>2. /\ result = "loaded" /\ scale = cdf[Len(cdf)] /\ Len(cdf) - 1 = TriangleCount
      BY DEF CInv, Summed
    <2>3. areaDP!Entries = Len(cdf) - 1 /\ areaDP!Entries = Len(all) \div 3
      BY <2>1, <2>2 DEF areaDP!Entries, TriangleCount, Names
    <2>4. PICK m \in Nat : Len(indices) = 3 * m
      BY DEF MInv, Shape, Triples
    <2>5. TriangleCount = m /\ DOMAIN indices = 1..Len(indices)
      BY <2>4, Thirds DEF TriangleCount, MInv, Shape, Indexed
    <2>6. ASSUME NEW t \in 0..(m - 1)
          PROVE  Cardinality({s \in 1..scale : areaDP!Index(s) = t})
                   = Area(Points[all[3 * t + 1].p], Points[all[3 * t + 2].p],
                          Points[all[3 * t + 3].p])
      <3>1. /\ t \in Nat /\ t < TriangleCount /\ t \in 0..(Len(cdf) - 2)
            /\ t + 1 \in 1..(Len(cdf) - 1) /\ (t + 1) + 1 = t + 2 /\ (t + 1) - 1 = t
        BY <2>2, <2>4, <2>5, SumsAre DEF CInv
      <3>2. /\ surfaceArea(t) = Area(Points[Corner(vertices, indices, 3 * t + 1).p],
                                     Points[Corner(vertices, indices, 3 * t + 2).p],
                                     Points[Corner(vertices, indices, 3 * t + 3).p])
            /\ surfaceArea(t) \in Nat
        BY <2>2, <3>1, SurfaceAreaIs
      <3>3. /\ 3 * t + 1 \in DOMAIN indices /\ 3 * t + 2 \in DOMAIN indices
            /\ 3 * t + 3 \in DOMAIN indices
        BY <2>4, <2>5, <3>1
      <3>4. /\ Corner(vertices, indices, 3 * t + 1) = all[3 * t + 1]
            /\ Corner(vertices, indices, 3 * t + 2) = all[3 * t + 2]
            /\ Corner(vertices, indices, 3 * t + 3) = all[3 * t + 3]
        BY <2>1, <3>3 DEF Names, Corner
      <3>5. cdf[t + 2] = cdf[t + 1] + surfaceArea(t)
        <4>1. cdf[(t + 1) + 1] = cdf[t + 1] + surfaceArea((t + 1) - 1)
          BY <3>1 DEF CInv, Summed
        <4> QED
          BY <3>1, <4>1
      <3>6. {s \in 1..scale : areaDP!Index(s) = t} = (cdf[t + 1] + 1)..cdf[t + 2]
        BY <2>2, <3>1, SamplesOf DEF CInv
      <3>7. cdf[t + 1] \in Nat
        BY <3>1, SumsAre DEF CInv
      <3>8. Cardinality((cdf[t + 1] + 1)..(cdf[t + 1] + surfaceArea(t))) = surfaceArea(t)
        <4> DEFINE a == cdf[t + 1] + 1
                   b == cdf[t + 1] + surfaceArea(t)
        <4>1. a \in Int /\ b \in Int /\ (IF a > b THEN 0 ELSE b - a + 1) = surfaceArea(t)
          BY <3>2, <3>7
        <4> HIDE DEF a, b
        <4>2. Cardinality(a..b) = surfaceArea(t)
          BY <4>1, FS_Interval
        <4> QED
          BY <4>2 DEF a, b
      <3> QED
        BY <3>2, <3>4, <3>5, <3>6, <3>8
    <2> QED
      BY <2>2, <2>3, <2>5, <2>6
  <1> QED
    BY <1>1, Invariance, SumsInvariant, PTL
=============================================================================

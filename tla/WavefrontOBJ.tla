----------------------------- MODULE WavefrontOBJ -----------------------------
(***************************************************************************)
(* The constructor of a mesh from an OBJ file (obj.cpp 20-120), line by     *)
(* line: corners of faces that name the same position, texture coordinate   *)
(* and normal become one vertex of the mesh. The file is any sequence of    *)
(* lines; a position, coordinate or normal is its place in its list, which  *)
(* is all a face refers to.                                                 *)
(***************************************************************************)
EXTENDS Integers, Sequences, SequencesExt, FiniteSets

CONSTANTS Faces,        \* faces tried: three or four corners [p, uv, n], 0 for no reference
          MaxFaces, MaxListed    \* bounds: faces of a file, entries of each list

ASSUME OBJAssumption ==
  /\ \A f \in Faces : Len(f) \in {3, 4} /\ f \in Seq([p : Nat, uv : Nat, n : Nat])
  /\ {MaxFaces, MaxListed} \subseteq Nat

VARIABLES
  positions, texcoords, normals,   \* entries read so far
  vertices, indices,               \* the distinct corners; three indices a triangle
  faces,                           \* the faces as the file has them, for the properties
  V, UV, N,                        \* m_V, m_UV, m_N: the entry each vertex was given
  result                           \* "reading", "loaded", "failed"

vars == <<positions, texcoords, normals, vertices, indices, faces, V, UV, N, result>>
mesh == <<V, UV, N>>
lists == <<positions, texcoords, normals>>

Init ==
  /\ positions = 0 /\ texcoords = 0 /\ normals = 0
  /\ vertices = <<>> /\ indices = <<>> /\ faces = <<>>
  /\ V = <<>> /\ UV = <<>> /\ N = <<>>
  /\ result = "reading"

Listed ==
  /\ result = "reading"
  /\ \/ positions < MaxListed /\ positions' = positions + 1 /\ UNCHANGED <<texcoords, normals>>
     \/ texcoords < MaxListed /\ texcoords' = texcoords + 1 /\ UNCHANGED <<positions, normals>>
     \/ normals < MaxListed /\ normals' = normals + 1 /\ UNCHANGED <<positions, texcoords>>
  /\ UNCHANGED <<vertices, indices, faces, mesh, result>>

\* A quad becomes two triangles.
Split(f) == IF Len(f) = 3 THEN f ELSE <<f[1], f[2], f[3], f[4], f[1], f[3]>>

\* Fault: vertices are looked up by their position alone.
SamePosition(v, w) == v.p = w.p

SameVertex(v, w) == v = w

\* vertexMap: looked up, and the corner added when it is new.
Known(vs, c) == \E k \in DOMAIN vs : SameVertex(vs[k], c)
IndexOf(vs, c) == CHOOSE k \in 0..(Len(vs) - 1) : SameVertex(vs[k + 1], c)

AddCorner(acc, c) ==
  IF Known(acc[1], c)
  THEN <<acc[1], Append(acc[2], IndexOf(acc[1], c))>>
  ELSE <<Append(acc[1], c), Append(acc[2], Len(acc[1]))>>

\* The loop over the corners, which come in threes.
AddTriangle(acc, a, b, c) == AddCorner(AddCorner(AddCorner(acc, a), b), c)

AddCorners(acc, s) ==
  LET first == AddTriangle(acc, s[1], s[2], s[3]) IN
  IF Len(s) = 3 THEN first ELSE AddTriangle(first, s[4], s[5], s[6])

Face(f) ==
  /\ result = "reading" /\ Len(faces) < MaxFaces
  /\ LET added == AddCorners(<<vertices, indices>>, Split(f)) IN
     vertices' = added[1] /\ indices' = added[2]
  /\ faces' = Append(faces, f)
  /\ UNCHANGED <<lists, mesh, result>>

\* A corner that cannot be parsed.
BadFace ==
  /\ result = "reading" /\ result' = "failed"
  /\ UNCHANGED <<lists, vertices, indices, faces, mesh>>

\* Fault: operator[] in place of at().
Unchecked(field, size) == TRUE

\* at(ref - 1): a reference that is absent or past the end of its list throws.
Found(field, size) == \A k \in DOMAIN vertices : vertices[k][field] \in 1..size
Column(field) == [k \in DOMAIN vertices |-> vertices[k][field]]

\* Normals and texture coordinates are optional for the whole file only.
Filled(size) == size > 0

EndOfFile ==
  /\ result = "reading"
  /\ IF /\ Found("p", positions)
        /\ Filled(normals) => Found("n", normals)
        /\ Filled(texcoords) => Found("uv", texcoords)
     THEN /\ V' = Column("p")
          /\ N' = IF Filled(normals) THEN Column("n") ELSE <<>>
          /\ UV' = IF Filled(texcoords) THEN Column("uv") ELSE <<>>
          /\ result' = "loaded"
     ELSE result' = "failed" /\ UNCHANGED mesh
  /\ UNCHANGED <<lists, vertices, indices, faces>>

Next ==
  \/ Listed \/ BadFace \/ EndOfFile
  \/ \E f \in Faces : Face(f)

Spec == Init /\ [][Next]_vars

-------------------------------------------------------------------------------
(* Properties                                                              *)

VerticesDistinct == \A j, k \in DOMAIN vertices : vertices[j] = vertices[k] => j = k

\* The area a face covers: the fan of triangles from its first corner, each
\* with the corners in the order of the file up to rotation.
Rotations(t) == {t, <<t[2], t[3], t[1]>>, <<t[3], t[1], t[2]>>}
Fan(f) == {Rotations(<<f[1], f[k], f[k + 1]>>) : k \in 2..(Len(f) - 1)}
Triangle(k) == <<vertices[indices[k] + 1], vertices[indices[k + 1] + 1], vertices[indices[k + 2] + 1]>>

\* The triangles of the mesh are those of the faces, corner by corner and with
\* their orientation, and no vertex is stored twice.
FacesAreKept ==
  /\ VerticesDistinct
  /\ \A k \in DOMAIN indices : indices[k] \in 0..(Len(vertices) - 1)
  /\ {Rotations(Triangle(3 * t + 1)) : t \in 0..(Len(indices) \div 3 - 1)}
       = UNION {Fan(faces[i]) : i \in DOMAIN faces}

\* A mesh that was loaded has, at each index of a triangle, a position, and a
\* normal and texture coordinate if it has any: what a hit interpolates.
AttributesExist ==
  result = "loaded" =>
    \A k \in DOMAIN indices : LET i == indices[k] + 1 IN
      /\ V[i] \in 1..positions
      /\ N # <<>> => N[i] \in 1..normals
      /\ UV # <<>> => UV[i] \in 1..texcoords
      /\ normals > 0 => N # <<>>
===============================================================================

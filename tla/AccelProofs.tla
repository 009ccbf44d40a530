----------------------------- MODULE AccelProofs -----------------------------
(***************************************************************************)
(* The tree of Accel and its queries, proved for every scene, every ray,    *)
(* every size of the leaves and every outcome of the sorting.              *)
(***************************************************************************)
EXTENDS Accel, FiniteSetTheorems, TLAPS

-----------------------------------------------------------------------------
(* Why it works.  The pending calls of buildBvhTree go over disjoint ranges *)
(* of tris from left to right, and what they will still sort lies within   *)
(* the range of a node or apart from it.                                   *)

Span(range) == range.begin .. range.end
Before(range, other) == range.end < other.begin
Apart(range, other) == Before(range, other) \/ Before(other, range)
Within(range, other) == other.begin <= range.begin /\ range.end <= other.end

\* Node n is built, or will be by a pending call, over that range.
Placed(n, begin, end) ==
    \/ n \in DOMAIN tree /\ tree[n].begin = begin /\ tree[n].end = end
    \/ \E c \in DOMAIN calls : calls[c] = [node |-> n, begin |-> begin, end |-> end]

Phases ==
    /\ pc = "adding" => tris = <<>> /\ gathered = 0 /\ its.tri = None /\ scan = <<>>
    /\ pc \in {"adding", "gathering"} => tree = <<>> /\ calls = <<>>
    /\ pc \notin {"adding", "gathering"} => gathered = Len(meshes)
    /\ pc \in {"ready", "traversing", "answered"} => calls = <<>>
    /\ pc \in {"traversing", "answered"} => query \in Queries
    /\ pc = "answered" => scan = <<>> /\ stack = <<>>

AllGathered ==
    \A ti \in TriInfos : ti.mesh <= gathered => \E i \in DOMAIN tris : tris[i] = ti

CallsOrdered ==
    \A c \in DOMAIN calls :
        /\ calls[c].begin <= calls[c].end
        /\ tris # <<>> => calls[c].end < Len(tris)
        /\ \A d \in DOMAIN calls : c < d => Before(calls[c], calls[d])

\* The loop of the innermost call: the box covers the triangles so far.
LoopCovers ==
    pc = "building" =>
        /\ calls # <<>>
        /\ index \in Head(calls).begin .. Head(calls).end + 1
        /\ \A i \in Head(calls).begin .. index - 1 :
             i < Len(tris) /\ Covers(bbox, Shape(Tri(i)))

NodesCover ==
    \A n \in DOMAIN tree :
        /\ tree[n].begin <= tree[n].end /\ tree[n].end < Len(tris)
        /\ \A i \in Span(tree[n]) : Covers(tree[n].box, Shape(Tri(i)))
        /\ \A c \in DOMAIN calls : Within(calls[c], tree[n]) \/ Apart(calls[c], tree[n])

LeavesComplete ==
    \A n \in DOMAIN tree : tree[n].list # <<>> =>
        /\ \A c \in DOMAIN calls : Apart(calls[c], tree[n])
        /\ \A i \in Span(tree[n]) : \E k \in DOMAIN tree[n].list : tree[n].list[k] = Tri(i)

InnerSplit ==
    \A n \in DOMAIN tree : tree[n].list = <<>> =>
        \E mid \in Span(tree[n]) :
            /\ mid = (tree[n].begin + tree[n].end) \div 2
            /\ Placed(2 * n, tree[n].begin, mid) /\ Placed(2 * n + 1, mid + 1, tree[n].end)

\* The numbers of the nodes: no two alike, and every parent is an inner node.
HasParent(n) == n = 1 \/ (n \div 2 \in DOMAIN tree /\ tree[n \div 2].list = <<>>)

Numbered ==
    /\ \A n \in DOMAIN tree : HasParent(n)
    /\ \A c \in DOMAIN calls :
        /\ HasParent(calls[c].node)
        /\ calls[c].node \notin DOMAIN tree
        /\ \A d \in DOMAIN calls : calls[d].node = calls[c].node => d = c

RootPlaced ==
    pc \in {"building", "ready", "traversing", "answered"} => Placed(1, 0, LastIndex)

\* The triangles of a node, and those that the traversal may still come to.
Below(n) == {Tri(i) : i \in Span(tree[n])}
Pending == {scan[k] : k \in DOMAIN scan} \cup UNION {Below(stack[k]) : k \in DOMAIN stack}

\* No hit that would improve on the answer is lost.
NothingSkipped ==
    pc \in {"traversing", "answered"} =>
        \A h \in Hits : h[2] < its.t /\ ~(shadowRay /\ intersected) => h[1] \in Pending

ExtentAgrees ==
    pc \in {"traversing", "answered"} =>
        maxt = IF its.t = Infinity THEN query.maxt ELSE its.t

AnswerSound ==
    pc \in {"traversing", "answered"} =>
        /\ intersected => IF shadowRay THEN Hits # {} ELSE <<its.tri, its.t>> \in Hits
        /\ ~intersected \/ shadowRay => its.t = Infinity

TreeInv ==
    /\ TypeOK
    /\ Phases
    /\ AllGathered
    /\ CallsOrdered
    /\ LoopCovers
    /\ NodesCover
    /\ LeavesComplete
    /\ InnerSplit
    /\ Numbered
    /\ RootPlaced

\* The inductive invariant.
IInv ==
    /\ TreeInv
    /\ NothingSkipped
    /\ ExtentAgrees
    /\ AnswerSound

-----------------------------------------------------------------------------
(* Why the leaves hold every triangle once: each place of tris belongs to  *)
(* one pending call or to one leaf, and no triangle is at two places.      *)

GatheredOnce ==
    /\ \A i \in DOMAIN tris : tris[i].mesh <= gathered
    /\ \A i, j \in DOMAIN tris : tris[i] = tris[j] => i = j

LeavesExact ==
    \A n \in DOMAIN tree : tree[n].list # <<>> =>
        /\ Len(tree[n].list) = tree[n].end - tree[n].begin + 1
        /\ \A k \in DOMAIN tree[n].list : tree[n].list[k] = tris[tree[n].begin + k]
        /\ \A m \in DOMAIN tree : tree[m].list # <<>> /\ m # n => Apart(tree[m], tree[n])

PlacesTaken ==
    pc \in {"building", "ready", "traversing", "answered"} =>
        \A i \in 0 .. LastIndex :
            \/ \E c \in DOMAIN calls : i \in Span(calls[c])
            \/ \E n \in DOMAIN tree : tree[n].list # <<>> /\ i \in Span(tree[n])

LeafInv == GatheredOnce /\ LeavesExact /\ PlacesTaken

\* Why the boxes are nested: a call expands its box within that of the parent.
Capped(box) == \A a \in Axes : box.min[a] <= Infinity /\ -Infinity <= box.max[a]

BoxInv ==
    /\ Capped(bbox) /\ \A n \in DOMAIN tree : Capped(tree[n].box)
    /\ BoxesNested
    /\ pc = "building" =>
         \A n \in DOMAIN tree : Head(calls).node \div 2 = n => Encloses(tree[n].box, bbox)

-----------------------------------------------------------------------------
(* Rays, triangles and boxes.                                              *)

\* A step count times a component of a direction.
LEMMA Scaled ==
    ASSUME NEW k \in Int, NEW e \in -1 .. 1
    PROVE  /\ k * e \in Int
           /\ e = 0 => k * e = 0
           /\ e = 1 => k * e = k
           /\ e = -1 => k * e = -k
  OBVIOUS

\* The points of a triangle lie between its ends on every axis.
LEMMA Between ==
    ASSUME NEW x \in Int, NEW e \in -1 .. 1, NEW n \in Nat, NEW k \in 0 .. n
    PROVE  /\ x + k * e \in Int
           /\ x + n * e \in Int
           /\ Least(x, x + n * e) <= x + k * e
           /\ x + k * e <= Greatest(x, x + n * e)
  <1>1. CASE e = 0
    BY <1>1, Scaled DEF Least, Greatest
  <1>2. CASE e = 1
    BY <1>2, Scaled DEF Least, Greatest
  <1>3. CASE e = -1
    BY <1>3, Scaled DEF Least, Greatest
  <1> QED
    BY <1>1, <1>2, <1>3

\* On one axis: a ray at time t inside the slab of a box.
LEMMA SlabTime ==
    ASSUME NEW lo \in Int, NEW hi \in Int, NEW o \in Int, NEW d \in -1 .. 1, NEW t \in Int,
           lo <= o + t * d, o + t * d <= hi
    PROVE  /\ d = 0 => lo <= o /\ o <= hi
           /\ d # 0 => /\ Least((lo - o) * d, (hi - o) * d) <= t
                       /\ t <= Greatest((lo - o) * d, (hi - o) * d)
                       /\ Least((lo - o) * d, (hi - o) * d) \in Int
                       /\ Greatest((lo - o) * d, (hi - o) * d) \in Int
  <1>1. CASE d = 0
    BY <1>1, Scaled
  <1>2. CASE d = 1
    BY <1>2, Scaled DEF Least, Greatest
  <1>3. CASE d = -1
    BY <1>3, Scaled DEF Least, Greatest
  <1> QED
    BY <1>1, <1>2, <1>3

LEMMA HitInBox ==
    ASSUME NEW tri \in Triangles, NEW ray \in Rays, NEW box \in Boxes, NEW t \in Times,
           Hit(tri, ray, t), Covers(box, tri)
    PROVE  BoxHit(box, ray)
  <1>1. PICK k \in 0 .. tri.len : \A a \in Axes : ray.o[a] + t * ray.d[a] = On(tri, k)[a]
    BY DEF Hit
  <1> /\ t \in Int /\ 0 <= t /\ t < Infinity /\ Infinity \in Int
    BY InfinityAssumption DEF Times
  <1>2. ASSUME NEW a \in Axes
        PROVE  /\ box.min[a] \in Int /\ box.max[a] \in Int
               /\ ray.o[a] \in Int /\ ray.d[a] \in -1 .. 1
               /\ box.min[a] <= ray.o[a] + t * ray.d[a]
               /\ ray.o[a] + t * ray.d[a] <= box.max[a]
    <2>1. /\ box.min[a] \in Int /\ box.max[a] \in Int
          /\ ray.o[a] \in Int /\ ray.d[a] \in -1 .. 1
          /\ tri.at[a] \in Int /\ tri.along[a] \in -1 .. 1 /\ tri.len \in Nat
      BY DEF Boxes, Rays, Triangles, Points, Directions
    <2>2. ray.o[a] + t * ray.d[a] = tri.at[a] + k * tri.along[a]
      BY <1>1 DEF On
    <2>3. /\ BoxOf(tri).min[a] = Least(tri.at[a], tri.at[a] + tri.len * tri.along[a])
          /\ BoxOf(tri).max[a] = Greatest(tri.at[a], tri.at[a] + tri.len * tri.along[a])
      BY DEF BoxOf, End, On
    <2>4. /\ BoxOf(tri).min[a] <= tri.at[a] + k * tri.along[a]
          /\ tri.at[a] + k * tri.along[a] <= BoxOf(tri).max[a]
          /\ tri.at[a] + k * tri.along[a] \in Int
      BY <2>1, <2>3, Between
    <2>5. BoxOf(tri).min[a] \in Int /\ BoxOf(tri).max[a] \in Int
      BY <2>1, <2>3, Between DEF Least, Greatest
    <2>6. box.min[a] <= BoxOf(tri).min[a] /\ BoxOf(tri).max[a] <= box.max[a]
      BY DEF Covers
    <2> QED
      BY <2>1, <2>2, <2>4, <2>5, <2>6
  <1>3. ASSUME NEW a \in Axes
        PROVE  /\ ray.d[a] = 0 => box.min[a] <= ray.o[a] /\ ray.o[a] <= box.max[a]
               /\ Near(box, ray, a) \in Int /\ Near(box, ray, a) <= t
               /\ Far(box, ray, a) \in Int /\ t <= Far(box, ray, a)
    <2>1. CASE ray.d[a] = 0
      <3>1. Near(box, ray, a) = -Infinity /\ Far(box, ray, a) = Infinity
        BY <2>1 DEF Near, Far
      <3>2. box.min[a] <= ray.o[a] /\ ray.o[a] <= box.max[a]
        BY <1>2, <2>1, Scaled
      <3> QED
        BY <3>1, <3>2
    <2>2. CASE ray.d[a] # 0
      <3> DEFINE entry == Least((box.min[a] - ray.o[a]) * ray.d[a], (box.max[a] - ray.o[a]) * ray.d[a])
                 exit == Greatest((box.min[a] - ray.o[a]) * ray.d[a], (box.max[a] - ray.o[a]) * ray.d[a])
      <3>1. Near(box, ray, a) = entry /\ Far(box, ray, a) = exit
        BY <2>2 DEF Near, Far
      <3>2. entry \in Int /\ exit \in Int /\ entry <= t /\ t <= exit
        BY <1>2, <2>2, SlabTime
      <3> QED
        BY <2>2, <3>1, <3>2
    <2> QED
      BY <2>1, <2>2
  <1>4. ray.mint <= t /\ t <= ray.maxt /\ ray.mint \in Int /\ ray.maxt \in Int
    BY DEF Hit, Rays
  <1>5. 1 \in Axes /\ 2 \in Axes
    BY DEF Axes
  <1>6. /\ Greatest(Near(box, ray, 1), Near(box, ray, 2)) <= t
        /\ Greatest(Near(box, ray, 1), Near(box, ray, 2)) \in Int
        /\ t <= Least(Far(box, ray, 1), Far(box, ray, 2))
        /\ Least(Far(box, ray, 1), Far(box, ray, 2)) \in Int
    BY <1>3, <1>5 DEF Greatest, Least
  <1> QED
    BY <1>3, <1>4, <1>6 DEF BoxHit

\* A product that the provers need not look into.
Steps(k, e) == k * e

LEMMA StepsOf ==
    ASSUME NEW k \in Int, NEW e \in -1 .. 1
    PROVE  /\ e = -1 \/ e = 0 \/ e = 1
           /\ e = 0 => Steps(k, e) = 0
           /\ e = 1 => Steps(k, e) = k
           /\ e = -1 => Steps(k, e) = -k
  BY DEF Steps

LEMMA Difference ==
    ASSUME NEW o \in Int, NEW x \in Int, NEW t \in Int, NEW u \in Int, NEW k \in Int,
           NEW j \in Int, NEW d \in -1 .. 1, NEW e \in -1 .. 1,
           o + Steps(t, d) = x + Steps(k, e), o + Steps(u, d) = x + Steps(j, e)
    PROVE  Steps(t - u, d) = Steps(k - j, e)
  <1>1. t - u \in Int /\ k - j \in Int
    OBVIOUS
  <1> QED
    BY <1>1, StepsOf

\* Two directions that are not parallel share no displacement but none.
LEMMA NoCommonStep ==
    ASSUME NEW s \in Int, NEW r \in Int, NEW d1 \in -1 .. 1, NEW d2 \in -1 .. 1,
           NEW e1 \in -1 .. 1, NEW e2 \in -1 .. 1,
           Steps(s, d1) = Steps(r, e1), Steps(s, d2) = Steps(r, e2),
           Steps(d1, e2) # Steps(d2, e1)
    PROVE  s = 0
  <1>1. d1 \in Int /\ d2 \in Int
    OBVIOUS
  <1> QED
    BY <1>1, StepsOf

\* A triangle that is not parallel to a ray is hit once at most.
LEMMA OneHit ==
    ASSUME NEW tri \in Triangles, NEW ray \in Rays, NEW t \in Times, NEW u \in Times,
           Hit(tri, ray, t), Hit(tri, ray, u)
    PROVE  t = u
  <1>1. PICK k \in 0 .. tri.len : \A a \in Axes : ray.o[a] + t * ray.d[a] = On(tri, k)[a]
    BY DEF Hit
  <1>2. PICK j \in 0 .. tri.len : \A a \in Axes : ray.o[a] + u * ray.d[a] = On(tri, j)[a]
    BY DEF Hit
  <1> t \in Int /\ u \in Int /\ k \in Int /\ j \in Int
    BY InfinityAssumption DEF Times, Triangles
  <1>3. ASSUME NEW a \in Axes
        PROVE  /\ Steps(t - u, ray.d[a]) = Steps(k - j, tri.along[a])
               /\ ray.d[a] \in -1 .. 1 /\ tri.along[a] \in -1 .. 1
    <2>1. /\ ray.o[a] \in Int /\ ray.d[a] \in -1 .. 1
          /\ tri.at[a] \in Int /\ tri.along[a] \in -1 .. 1
      BY DEF Rays, Triangles, Points, Directions
    <2>2. /\ ray.o[a] + Steps(t, ray.d[a]) = tri.at[a] + Steps(k, tri.along[a])
          /\ ray.o[a] + Steps(u, ray.d[a]) = tri.at[a] + Steps(j, tri.along[a])
      BY <1>1, <1>2 DEF On, Steps
    <2> DEFINE o == ray.o[a]  d == ray.d[a]  x == tri.at[a]  e == tri.along[a]
    <2>3. /\ o \in Int /\ d \in -1 .. 1 /\ x \in Int /\ e \in -1 .. 1
          /\ o + Steps(t, d) = x + Steps(k, e) /\ o + Steps(u, d) = x + Steps(j, e)
      BY <2>1, <2>2
    <2> HIDE DEF o, d, x, e
    <2>4. Steps(t - u, d) = Steps(k - j, e)
      BY <2>3, Difference
    <2> QED
      BY <2>1, <2>4 DEF d, e
  <1>4. 1 \in Axes /\ 2 \in Axes
    BY DEF Axes
  <1>5. Steps(ray.d[1], tri.along[2]) # Steps(ray.d[2], tri.along[1])
    BY DEF Hit, Parallel, Steps
  <1>6. t - u \in Int /\ k - j \in Int
    OBVIOUS
  <1>7. t - u = 0
    BY <1>3, <1>4, <1>5, <1>6, NoCommonStep
  <1> QED
    BY <1>7

-----------------------------------------------------------------------------
(* Queries leave the tree alone.                                           *)

LEMMA TreeUnchanged ==
    ASSUME TreeInv, UNCHANGED build, pc \notin {"adding", "gathering", "building"},
           pc' \in {"ready", "traversing", "answered"},
           pc \in {"ready", "traversing", "answered"}
    PROVE  /\ TriInfos' = TriInfos /\ TreeTypes'
           /\ AllGathered' /\ CallsOrdered' /\ LoopCovers' /\ NodesCover'
           /\ LeavesComplete' /\ InnerSplit' /\ Numbered' /\ RootPlaced'
  <1> USE DEF TreeInv, build
  <1>1. TriInfos' = TriInfos
    BY DEF TriInfos
  <1>2. TreeTypes' /\ AllGathered'
    BY <1>1 DEF AllGathered, TypeOK, TreeTypes, Nodes
  <1>3. CallsOrdered'
    BY DEF CallsOrdered, Before
  <1>4. LoopCovers'
    BY DEF LoopCovers
  <1>5. NodesCover'
    BY DEF NodesCover, Span, Covers, Shape, Tri, Within, Apart, Before
  <1>6. LeavesComplete'
    BY DEF LeavesComplete, Span, Tri, Apart, Before
  <1>7. InnerSplit'
    BY DEF InnerSplit, Span, Placed
  <1>8. Numbered'
    BY DEF Numbered, HasParent
  <1>9. RootPlaced'
    BY DEF RootPlaced, Placed, LastIndex
  <1> QED
    BY <1>1, <1>2, <1>3, <1>4, <1>5, <1>6, <1>7, <1>8, <1>9

LEMMA ShapeType == ASSUME TypeOK, NEW ti \in TriInfos PROVE Shape(ti) \in Triangles
  <1>1. PICK m \in DOMAIN meshes : \E f \in DOMAIN meshes[m] : ti = [mesh |-> m, f |-> f]
    BY DEF TriInfos
  <1>2. meshes[m] \in Seq(Triangles)
    BY MeshesAssumption DEF TypeOK, TreeTypes
  <1> QED
    BY <1>1, <1>2 DEF Shape

LEMMA RayType == ASSUME TypeOK, query \in Queries PROVE query \in Rays /\ Ray \in Rays
  BY QueriesAssumption DEF TypeOK, QueryTypes, Ray, Rays

\* The extent of the copied ray cuts off only what is no nearer than the answer.
LEMMA RayHits ==
    ASSUME TypeOK, ExtentAgrees, AnswerSound, pc = "traversing", query \in Queries,
           NEW tri, NEW t \in Times
    PROVE  /\ Hit(tri, query, t) /\ t < its.t => Hit(tri, Ray, t)
           /\ Hit(tri, Ray, t) => Hit(tri, query, t)
  <1>1. /\ query.maxt \in 0 .. Infinity /\ query \in Rays
        /\ t \in Int /\ t < Infinity /\ maxt \in Int /\ its.t \in Int /\ Infinity \in Int
    BY RayType, InfinityAssumption DEF Rays, TypeOK, QueryTypes, Times
  <1>2. maxt = query.maxt \/ (maxt = its.t /\ maxt <= query.maxt)
    <2>1. CASE its.t = Infinity
      BY <2>1 DEF ExtentAgrees
    <2>2. CASE its.t # Infinity
      BY <2>2, <1>1 DEF ExtentAgrees, AnswerSound, Hits, Hit
    <2> QED
      BY <2>1, <2>2
  <1>3. /\ Ray.o = query.o /\ Ray.d = query.d /\ Ray.mint = query.mint /\ Ray.maxt = maxt
    BY <1>1 DEF Ray, Rays
  <1> QED
    BY <1>1, <1>2, <1>3 DEF Hit, Parallel

\* A node whose box the ray misses holds no hit that would improve the answer.
LEMMA PruneLosesNothing ==
    ASSUME IInv, pc = "traversing", NEW n \in DOMAIN tree, ~BoxHit(tree[n].box, Ray),
           NEW h \in Hits, h[2] < its.t
    PROVE  h[1] \notin Below(n)
  <1> SUFFICES ASSUME NEW i \in Span(tree[n]), h[1] = Tri(i)
               PROVE  FALSE
    BY DEF Below
  <1> USE DEF IInv, TreeInv
  <1>1. query \in Queries /\ Ray \in Rays
    BY RayType DEF Phases
  <1>2. h[1] \in TriInfos /\ h[2] \in Times /\ Hit(Shape(h[1]), query, h[2])
    BY DEF Hits
  <1>3. Hit(Shape(h[1]), Ray, h[2]) /\ Shape(h[1]) \in Triangles
    BY <1>1, <1>2, RayHits, ShapeType
  <1>4. tree[n].box \in Boxes /\ Covers(tree[n].box, Shape(h[1]))
    BY DEF NodesCover, TypeOK, TreeTypes, Nodes
  <1> QED
    BY <1>1, <1>2, <1>3, <1>4, HitInBox

-----------------------------------------------------------------------------
(* The steps of a query.                                                   *)

\* What holds of every tree that is complete.
LEMMA TreeComplete ==
    ASSUME TreeInv, pc \in {"ready", "traversing", "answered"}
    PROVE  /\ calls = <<>> /\ gathered = Len(meshes)
           /\ 1 \in DOMAIN tree /\ tree[1].begin = 0 /\ tree[1].end = LastIndex
           /\ \A n \in DOMAIN tree :
                /\ n \in Nat \ {0}
                /\ IsLeaf(n) <=> tree[n].list # <<>>
                /\ ~IsLeaf(n) => \E mid \in Span(tree[n]) :
                     /\ 2 * n \in DOMAIN tree /\ 2 * n + 1 \in DOMAIN tree
                     /\ tree[2 * n].begin = tree[n].begin /\ tree[2 * n].end = mid
                     /\ tree[2 * n + 1].begin = mid + 1
                     /\ tree[2 * n + 1].end = tree[n].end
  <1> USE DEF TreeInv
  <1>1. calls = <<>> /\ gathered = Len(meshes)
    BY DEF Phases
  <1>2. \A n, b, e : Placed(n, b, e) => n \in DOMAIN tree /\ tree[n].begin = b /\ tree[n].end = e
    BY <1>1 DEF Placed
  <1>3. 1 \in DOMAIN tree /\ tree[1].begin = 0 /\ tree[1].end = LastIndex
    BY <1>2 DEF RootPlaced
  <1>4. ASSUME NEW n \in DOMAIN tree
        PROVE  /\ n \in Nat \ {0}
               /\ IsLeaf(n) <=> tree[n].list # <<>>
               /\ ~IsLeaf(n) => \E mid \in Span(tree[n]) :
                    /\ 2 * n \in DOMAIN tree /\ 2 * n + 1 \in DOMAIN tree
                    /\ tree[2 * n].begin = tree[n].begin /\ tree[2 * n].end = mid
                    /\ tree[2 * n + 1].begin = mid + 1
                    /\ tree[2 * n + 1].end = tree[n].end
    <2>1. n \in Nat \ {0} /\ 2 * n # 1 /\ (2 * n) \div 2 = n
      BY DEF TypeOK, TreeTypes
    <2>2. 2 * n \in DOMAIN tree => tree[n].list = <<>>
      BY <2>1 DEF Numbered, HasParent
    <2>3. tree[n].list = <<>> => \E mid \in Span(tree[n]) :
                                   /\ Placed(2 * n, tree[n].begin, mid)
                                   /\ Placed(2 * n + 1, mid + 1, tree[n].end)
      BY DEF InnerSplit
    <2> QED
      BY <1>2, <2>1, <2>2, <2>3 DEF IsLeaf
  <1> QED
    BY <1>1, <1>3, <1>4

LEMMA AskStep == ASSUME IInv, Ask PROVE IInv'
  <1> USE DEF IInv
  <1>1. pc = "ready" /\ pc' = "traversing" /\ UNCHANGED build
    BY DEF Ask
  <1>2. /\ TriInfos' = TriInfos /\ TreeTypes'
        /\ AllGathered' /\ CallsOrdered' /\ LoopCovers' /\ NodesCover'
        /\ LeavesComplete' /\ InnerSplit' /\ Numbered' /\ RootPlaced'
    BY <1>1, TreeUnchanged
  <1>3. calls = <<>> /\ gathered = Len(meshes) /\ 1 \in DOMAIN tree
    BY <1>1, TreeComplete
  <1>4. query' \in Queries /\ query'.maxt \in 0 .. Infinity
    BY QueriesAssumption DEF Ask, Rays
  <1>5. TypeOK'
    <2>1. stack' \in Seq(DOMAIN tree')
      BY <1>1, <1>3 DEF Ask, build
    <2>2. scan' \in Seq(TriInfos')
      BY DEF Ask
    <2>3. its' \in [t : 0 .. Infinity, tri : TriInfos' \cup {None}]
      BY InfinityAssumption DEF Ask
    <2>4. QueryTypes'
      BY <1>4, <2>1, <2>2, <2>3 DEF Ask, QueryTypes
    <2> QED
      BY <1>1, <1>2, <2>4 DEF TypeOK
  <1>6. Phases'
    BY <1>3, <1>4 DEF Ask, build, Phases, TreeInv
  <1>7. NothingSkipped'
    <2> SUFFICES ASSUME NEW h \in Hits'
                 PROVE  h[1] \in Pending'
      BY DEF NothingSkipped
    <2>1. h[1] \in TriInfos
      BY <1>2 DEF Hits
    <2>2. h[1].mesh \in 1 .. Len(meshes)
      BY <2>1 DEF TriInfos, TreeInv, TypeOK, TreeTypes
    <2>3. PICK i \in DOMAIN tris : tris[i] = h[1]
      BY <1>3, <2>1, <2>2 DEF TreeInv, AllGathered
    <2>4. tris # <<>> /\ i - 1 \in 0 .. Len(tris) - 1 /\ Tri(i - 1) = h[1]
      BY <2>3 DEF TreeInv, TypeOK, TreeTypes, Tri
    <2>5. i - 1 \in Span(tree[1])
      BY <1>1, <2>4, TreeComplete DEF Span, LastIndex
    <2>6. stack' = <<1>> /\ tree' = tree /\ tris' = tris
      BY DEF Ask, build
    <2> QED
      BY <2>4, <2>5, <2>6 DEF Pending, Below, Span, Tri
  <1>8. ExtentAgrees' /\ AnswerSound'
    BY DEF Ask, ExtentAgrees, AnswerSound
  <1> QED
    BY <1>2, <1>5, <1>6, <1>7, <1>8 DEF TreeInv

\* The rest of a query only moves on in the tree.
LEMMA TraversalFrame ==
    ASSUME IInv, pc = "traversing", UNCHANGED <<build, query, shadowRay>>,
           pc' \in {"traversing", "answered"}, QueryTypes',
           pc' = "answered" => scan' = <<>> /\ stack' = <<>>
    PROVE  TreeInv' /\ Hits' = Hits /\ \A n : Below(n)' = Below(n)
  <1> USE DEF IInv
  <1>1. /\ TriInfos' = TriInfos /\ TreeTypes'
        /\ AllGathered' /\ CallsOrdered' /\ LoopCovers' /\ NodesCover'
        /\ LeavesComplete' /\ InnerSplit' /\ Numbered' /\ RootPlaced'
    BY TreeUnchanged
  <1>2. TypeOK' /\ Phases'
    BY <1>1 DEF TypeOK, TreeInv, Phases, build
  <1>3. Hits' = Hits
    BY <1>1 DEF Hits, Shape, build
  <1>4. ASSUME NEW n PROVE Below(n)' = Below(n)
    BY DEF Below, Span, Tri, build
  <1> QED
    BY <1>1, <1>2, <1>3, <1>4 DEF TreeInv

\* What the next node leaves to be done, once it is off the stack.
LEMMA PendingPop ==
    ASSUME TypeOK, scan = <<>>, stack # <<>>, NEW ti \in Pending
    PROVE  /\ Head(stack) \in DOMAIN tree
           /\ Tail(stack) \in Seq(DOMAIN tree)
           /\ \/ ti \in Below(Head(stack))
              \/ \E k \in DOMAIN Tail(stack) : ti \in Below(Tail(stack)[k])
  <1>1. stack \in Seq(DOMAIN tree)
    BY DEF TypeOK, QueryTypes
  <1>2. PICK k \in DOMAIN stack : ti \in Below(stack[k])
    BY DEF Pending
  <1>3. CASE k = 1
    BY <1>1, <1>2, <1>3
  <1>4. CASE k # 1
    <2>1. k - 1 \in DOMAIN Tail(stack) /\ Tail(stack)[k - 1] = stack[k]
      BY <1>1, <1>2, <1>4
    <2> QED
      BY <1>1, <1>2, <2>1
  <1> QED
    BY <1>3, <1>4

LEMMA PruneStep == ASSUME IInv, Prune PROVE IInv'
  <1> USE DEF IInv
  <1>1. /\ pc = "traversing" /\ pc' = pc /\ scan = <<>> /\ stack # <<>>
        /\ UNCHANGED <<build, query, shadowRay, maxt, its, intersected, scan>>
        /\ stack' = Tail(stack) /\ ~BoxHit(tree[Head(stack)].box, Ray)
    BY DEF Prune, NextNode
  <1>2. TypeOK /\ QueryTypes'
    BY <1>1, TreeUnchanged DEF TypeOK, QueryTypes, TreeInv, build
  <1>3. TreeInv' /\ Hits' = Hits /\ \A n : Below(n)' = Below(n)
    BY <1>1, <1>2, TraversalFrame
  <1>4. NothingSkipped'
    <2> SUFFICES ASSUME NEW h \in Hits, h[2] < its.t, ~(shadowRay /\ intersected)
                 PROVE  h[1] \in Pending'
      BY <1>1, <1>3 DEF NothingSkipped
    <2>1. h[1] \in Pending
      BY <1>1 DEF NothingSkipped
    <2>2. /\ Head(stack) \in DOMAIN tree
          /\ \/ h[1] \in Below(Head(stack))
             \/ \E k \in DOMAIN Tail(stack) : h[1] \in Below(Tail(stack)[k])
      BY <1>1, <1>2, <2>1, PendingPop
    <2>3. h[1] \notin Below(Head(stack))
      BY <1>1, <2>2, PruneLosesNothing
    <2> QED
      BY <1>1, <1>3, <2>2, <2>3 DEF Pending
  <1>5. ExtentAgrees' /\ AnswerSound'
    BY <1>1, <1>3 DEF ExtentAgrees, AnswerSound
  <1> QED
    BY <1>3, <1>4, <1>5

LEMMA EnterLeafStep == ASSUME IInv, EnterLeaf PROVE IInv'
  <1> USE DEF IInv
  <1> DEFINE n == Head(stack)
  <1>1. /\ pc = "traversing" /\ pc' = pc /\ scan = <<>> /\ stack # <<>>
        /\ UNCHANGED <<build, query, shadowRay, maxt, its, intersected>>
        /\ stack' = Tail(stack) /\ scan' = tree[n].list /\ IsLeaf(n)
    BY DEF EnterLeaf, NextNode
  <1>2. TypeOK /\ n \in DOMAIN tree
    BY <1>1 DEF TypeOK, QueryTypes, TreeInv
  <1>3. QueryTypes'
    <2>1. TriInfos' = TriInfos /\ tree' = tree
      BY <1>1, TreeUnchanged DEF build
    <2>2. scan' \in Seq(TriInfos')
      BY <1>1, <1>2, <2>1 DEF TypeOK, TreeTypes, Nodes
    <2>3. stack' \in Seq(DOMAIN tree')
      BY <1>1, <1>2, <2>1 DEF TypeOK, QueryTypes
    <2> QED
      BY <1>1, <1>2, <2>1, <2>2, <2>3 DEF TypeOK, QueryTypes
  <1>4. TreeInv' /\ Hits' = Hits /\ \A m : Below(m)' = Below(m)
    BY <1>1, <1>3, TraversalFrame
  <1>5. NothingSkipped'
    <2> SUFFICES ASSUME NEW h \in Hits, h[2] < its.t, ~(shadowRay /\ intersected)
                 PROVE  h[1] \in Pending'
      BY <1>1, <1>4 DEF NothingSkipped
    <2>1. h[1] \in Pending
      BY <1>1 DEF NothingSkipped
    <2>2. \/ h[1] \in Below(n)
          \/ \E k \in DOMAIN Tail(stack) : h[1] \in Below(Tail(stack)[k])
      BY <1>1, <1>2, <2>1, PendingPop
    <2>3. CASE h[1] \in Below(n)
      <3>1. tree[n].list # <<>>
        BY <1>1, <1>2, TreeComplete
      <3>2. \E k \in DOMAIN tree[n].list : tree[n].list[k] = h[1]
        BY <1>2, <2>3, <3>1 DEF LeavesComplete, TreeInv, Below
      <3> QED
        BY <1>1, <3>2 DEF Pending
    <2> QED
      BY <1>1, <1>4, <2>2, <2>3 DEF Pending
  <1>6. ExtentAgrees' /\ AnswerSound'
    BY <1>1, <1>4 DEF ExtentAgrees, AnswerSound
  <1> QED
    BY <1>4, <1>5, <1>6

\* The two halves of an inner node hold all its triangles.
LEMMA HalvesOfNode ==
    ASSUME TreeInv, pc \in {"ready", "traversing", "answered"},
           NEW n \in DOMAIN tree, ~IsLeaf(n)
    PROVE  /\ 2 * n \in DOMAIN tree /\ 2 * n + 1 \in DOMAIN tree
           /\ Below(n) \subseteq Below(2 * n) \cup Below(2 * n + 1)
  <1>1. PICK mid \in Span(tree[n]) :
           /\ 2 * n \in DOMAIN tree /\ 2 * n + 1 \in DOMAIN tree
           /\ tree[2 * n].begin = tree[n].begin /\ tree[2 * n].end = mid
           /\ tree[2 * n + 1].begin = mid + 1
           /\ tree[2 * n + 1].end = tree[n].end
    BY TreeComplete
  <1>2. tree[n].begin \in Nat /\ tree[n].end \in Nat
    BY DEF TreeInv, TypeOK, TreeTypes, Nodes
  <1>3. Span(tree[n]) \subseteq Span(tree[2 * n]) \cup Span(tree[2 * n + 1])
    BY <1>1, <1>2 DEF Span
  <1> QED
    BY <1>1, <1>3 DEF Below

LEMMA DescendStep == ASSUME IInv, Descend PROVE IInv'
  <1> USE DEF IInv
  <1> DEFINE n == Head(stack)
  <1>1. /\ pc = "traversing" /\ pc' = pc /\ scan = <<>> /\ stack # <<>>
        /\ UNCHANGED <<build, query, shadowRay, maxt, its, intersected, scan>>
        /\ stack' = <<2 * n, 2 * n + 1>> \o Tail(stack) /\ ~IsLeaf(n)
    BY DEF Descend, NextNode
  <1>2. TypeOK /\ n \in DOMAIN tree /\ Tail(stack) \in Seq(DOMAIN tree)
    BY <1>1 DEF TypeOK, QueryTypes, TreeInv
  <1>3. /\ 2 * n \in DOMAIN tree /\ 2 * n + 1 \in DOMAIN tree
        /\ Below(n) \subseteq Below(2 * n) \cup Below(2 * n + 1)
    BY <1>1, <1>2, HalvesOfNode
  <1>4. /\ stack' \in Seq(DOMAIN tree)
        /\ 1 \in DOMAIN stack' /\ stack'[1] = 2 * n
        /\ 2 \in DOMAIN stack' /\ stack'[2] = 2 * n + 1
        /\ \A k \in DOMAIN Tail(stack) : k + 2 \in DOMAIN stack' /\ stack'[k + 2] = Tail(stack)[k]
    <2> DEFINE a == 2 * n  b == 2 * n + 1  rest == Tail(stack)
    <2>1. a \in DOMAIN tree /\ b \in DOMAIN tree /\ rest \in Seq(DOMAIN tree)
          /\ stack' = <<a, b>> \o rest
      BY <1>1, <1>2, <1>3
    <2> HIDE DEF a, b, rest
    <2>2. /\ stack' \in Seq(DOMAIN tree)
          /\ 1 \in DOMAIN stack' /\ stack'[1] = a
          /\ 2 \in DOMAIN stack' /\ stack'[2] = b
          /\ \A k \in DOMAIN rest : k + 2 \in DOMAIN stack' /\ stack'[k + 2] = rest[k]
      BY <2>1
    <2> QED
      BY <2>2 DEF a, b, rest
  <1>5. QueryTypes'
    BY <1>1, <1>2, <1>4, TreeUnchanged DEF TypeOK, QueryTypes, TreeInv, build
  <1>6. TreeInv' /\ Hits' = Hits /\ \A m : Below(m)' = Below(m)
    BY <1>1, <1>5, TraversalFrame
  <1>7. NothingSkipped'
    <2> SUFFICES ASSUME NEW h \in Hits, h[2] < its.t, ~(shadowRay /\ intersected)
                 PROVE  h[1] \in Pending'
      BY <1>1, <1>6 DEF NothingSkipped
    <2>1. h[1] \in Pending
      BY <1>1 DEF NothingSkipped
    <2>2. \/ h[1] \in Below(2 * n) \/ h[1] \in Below(2 * n + 1)
          \/ \E k \in DOMAIN Tail(stack) : h[1] \in Below(Tail(stack)[k])
      BY <1>1, <1>2, <1>3, <2>1, PendingPop
    <2>3. \E k \in DOMAIN stack' : h[1] \in Below(stack'[k])
      BY <1>4, <2>2
    <2> QED
      BY <1>6, <2>3 DEF Pending
  <1>8. ExtentAgrees' /\ AnswerSound'
    BY <1>1, <1>6 DEF ExtentAgrees, AnswerSound
  <1> QED
    BY <1>6, <1>7, <1>8

\* What the next triangle of a leaf leaves to be done.
LEMMA PendingNext ==
    ASSUME TypeOK, scan # <<>>, NEW ti \in Pending
    PROVE  /\ Head(scan) \in TriInfos
           /\ Tail(scan) \in Seq(TriInfos)
           /\ \/ ti = Head(scan)
              \/ \E k \in DOMAIN Tail(scan) : ti = Tail(scan)[k]
              \/ \E k \in DOMAIN stack : ti \in Below(stack[k])
  <1>1. scan \in Seq(TriInfos)
    BY DEF TypeOK, QueryTypes
  <1>2. ASSUME NEW k \in DOMAIN scan, ti = scan[k]
        PROVE  ti = Head(scan) \/ \E j \in DOMAIN Tail(scan) : ti = Tail(scan)[j]
    <2>1. CASE k = 1
      BY <1>1, <1>2, <2>1
    <2>2. CASE k # 1
      <3>1. k - 1 \in DOMAIN Tail(scan) /\ Tail(scan)[k - 1] = scan[k]
        BY <1>1, <1>2, <2>2
      <3> QED
        BY <1>2, <3>1
    <2> QED
      BY <2>1, <2>2
  <1> QED
    BY <1>1, <1>2 DEF Pending

LEMMA MissStep == ASSUME IInv, Miss PROVE IInv'
  <1> USE DEF IInv
  <1>1. /\ pc = "traversing" /\ pc' = pc /\ scan # <<>>
        /\ UNCHANGED <<build, query, shadowRay, maxt, its, intersected, stack>>
        /\ scan' = Tail(scan) /\ Nearer = {}
    BY DEF Miss, NextTriangle
  <1>2. TypeOK /\ QueryTypes'
    BY <1>1, TreeUnchanged DEF TypeOK, QueryTypes, TreeInv, build
  <1>3. TreeInv' /\ Hits' = Hits /\ \A n : Below(n)' = Below(n)
    BY <1>1, <1>2, TraversalFrame
  <1>4. NothingSkipped'
    <2> SUFFICES ASSUME NEW h \in Hits, h[2] < its.t, ~(shadowRay /\ intersected)
                 PROVE  h[1] \in Pending'
      BY <1>1, <1>3 DEF NothingSkipped
    <2>1. h[1] \in Pending
      BY <1>1 DEF NothingSkipped
    <2>2. /\ h[2] \in Times /\ Hit(Shape(h[1]), query, h[2])
          /\ query \in Queries
      BY <1>1 DEF Hits, TreeInv, Phases
    <2>3. Hit(Shape(h[1]), Ray, h[2])
      BY <1>1, <1>2, <2>2, RayHits
    <2>4. h[1] # Head(scan)
      BY <1>1, <2>2, <2>3 DEF Nearer, HitTimes
    <2>5. \/ \E k \in DOMAIN Tail(scan) : h[1] = Tail(scan)[k]
          \/ \E k \in DOMAIN stack : h[1] \in Below(stack[k])
      BY <1>1, <1>2, <2>1, <2>4, PendingNext
    <2> QED
      BY <1>1, <1>3, <2>5 DEF Pending
  <1>5. ExtentAgrees' /\ AnswerSound'
    BY <1>1, <1>3 DEF ExtentAgrees, AnswerSound
  <1> QED
    BY <1>3, <1>4, <1>5

\* A distance that a leaf reports is one of a hit of the query.
LEMMA NearerIsHit ==
    ASSUME IInv, NextTriangle, NEW t \in Nearer
    PROVE  /\ Head(scan) \in TriInfos /\ <<Head(scan), t>> \in Hits
           /\ t \in Times /\ t < its.t /\ query \in Queries
  <1>1. TypeOK /\ query \in Queries /\ pc = "traversing" /\ Head(scan) \in TriInfos
    BY DEF IInv, TreeInv, TypeOK, QueryTypes, Phases, NextTriangle
  <1>2. t \in Times /\ t < its.t /\ Hit(Shape(Head(scan)), Ray, t)
    BY DEF Nearer, HitTimes
  <1>3. Hit(Shape(Head(scan)), query, t)
    BY <1>1, <1>2, RayHits DEF IInv
  <1> QED
    BY <1>1, <1>2, <1>3 DEF Hits

LEMMA BlockedStep == ASSUME IInv, Blocked PROVE IInv'
  <1> USE DEF IInv
  <1>1. /\ pc = "traversing" /\ pc' = pc /\ NextTriangle /\ shadowRay /\ Nearer # {}
        /\ UNCHANGED <<build, query, shadowRay, maxt, its, stack>>
        /\ scan' = <<>> /\ intersected' = TRUE
    BY DEF Blocked, NextTriangle
  <1>2. TypeOK /\ QueryTypes'
    BY <1>1, TreeUnchanged DEF TypeOK, QueryTypes, TreeInv, build
  <1>3. TreeInv' /\ Hits' = Hits
    BY <1>1, <1>2, TraversalFrame
  <1>4. Hits # {}
    BY <1>1, NearerIsHit
  <1>5. NothingSkipped' /\ ExtentAgrees' /\ AnswerSound'
    BY <1>1, <1>3, <1>4 DEF NothingSkipped, ExtentAgrees, AnswerSound
  <1> QED
    BY <1>3, <1>5

LEMMA RecordStep == ASSUME IInv, Record PROVE IInv'
  <1> USE DEF IInv
  <1>1. PICK t \in Nearer : maxt' = t /\ its' = [t |-> t, tri |-> Head(scan)]
    BY DEF Record
  <1>2. /\ pc = "traversing" /\ pc' = pc /\ NextTriangle /\ scan # <<>> /\ ~shadowRay
        /\ UNCHANGED <<build, query, shadowRay, stack>>
        /\ scan' = Tail(scan) /\ intersected' = TRUE
    BY DEF Record, NextTriangle
  <1>3. /\ Head(scan) \in TriInfos /\ <<Head(scan), t>> \in Hits
        /\ t \in Times /\ t < its.t /\ query \in Queries
    BY <1>2, NearerIsHit
  <1>4. t \in 0 .. Infinity /\ t # Infinity /\ t \in Int /\ its.t \in Int
    BY <1>3, InfinityAssumption DEF Times, TreeInv, TypeOK, QueryTypes
  <1>5. QueryTypes'
    <2>1. TriInfos' = TriInfos
      BY <1>2 DEF TriInfos, build
    <2>2. scan' \in Seq(TriInfos') /\ stack' \in Seq(DOMAIN tree')
      BY <1>2, <2>1 DEF TreeInv, TypeOK, QueryTypes, build
    <2>3. its' \in [t : 0 .. Infinity, tri : TriInfos' \cup {None}] /\ maxt' \in 0 .. Infinity
      BY <1>1, <1>3, <1>4, <2>1
    <2> QED
      BY <1>2, <2>2, <2>3 DEF TreeInv, TypeOK, QueryTypes
  <1>6. TreeInv' /\ Hits' = Hits /\ \A n : Below(n)' = Below(n)
    BY <1>2, <1>5, TraversalFrame
  <1>7. NothingSkipped'
    <2> SUFFICES ASSUME NEW h \in Hits, h[2] < t
                 PROVE  h[1] \in Pending'
      BY <1>1, <1>2, <1>6 DEF NothingSkipped
    <2>1. h[1] \in TriInfos /\ h[2] \in Times /\ Hit(Shape(h[1]), query, h[2]) /\ h[2] \in Int
      BY InfinityAssumption DEF Hits, Times
    <2>2. h[1] \in Pending
      BY <1>2, <1>3, <1>4, <2>1 DEF NothingSkipped
    <2>3. h[1] # Head(scan)
      <3>1. SUFFICES ASSUME h[1] = Head(scan) PROVE h[2] = t
        BY <1>4
      <3>2. Hit(Shape(Head(scan)), query, t)
        BY <1>3 DEF Hits
      <3>3. Shape(Head(scan)) \in Triangles /\ query \in Rays
        BY <1>3, ShapeType, RayType DEF TreeInv
      <3> QED
        BY <1>3, <2>1, <3>1, <3>2, <3>3, OneHit
    <2>4. \/ \E k \in DOMAIN Tail(scan) : h[1] = Tail(scan)[k]
          \/ \E k \in DOMAIN stack : h[1] \in Below(stack[k])
      BY <1>2, <2>2, <2>3, PendingNext DEF TreeInv
    <2> QED
      BY <1>2, <1>6, <2>4 DEF Pending
  <1>8. ExtentAgrees' /\ AnswerSound'
    BY <1>1, <1>2, <1>3, <1>4, <1>6 DEF ExtentAgrees, AnswerSound
  <1> QED
    BY <1>6, <1>7, <1>8

LEMMA AnswerStep == ASSUME IInv, Answer PROVE IInv'
  <1> USE DEF IInv
  <1>1. /\ pc = "traversing" /\ pc' = "answered" /\ UNCHANGED <<build, traversal>>
        /\ scan = <<>> /\ stack = <<>>
    BY DEF Answer
  <1>2. UNCHANGED <<query, shadowRay, maxt, its, intersected, stack, scan>>
    BY <1>1 DEF traversal
  <1>3. QueryTypes'
    BY <1>1, <1>2, TreeUnchanged DEF TypeOK, QueryTypes, TreeInv, build
  <1>4. TreeInv' /\ Hits' = Hits /\ \A n : Below(n)' = Below(n)
    BY <1>1, <1>2, <1>3, TraversalFrame
  <1>5. NothingSkipped' /\ ExtentAgrees' /\ AnswerSound'
    BY <1>1, <1>2, <1>4 DEF NothingSkipped, ExtentAgrees, AnswerSound, Pending
  <1> QED
    BY <1>4, <1>5

LEMMA ReturnStep == ASSUME IInv, Return PROVE IInv'
  <1> USE DEF IInv
  <1>1. /\ pc = "answered" /\ pc' = "ready" /\ UNCHANGED build
        /\ UNCHANGED <<query, shadowRay, maxt, its, intersected, stack, scan>>
    BY DEF Return, traversal
  <1>2. /\ TriInfos' = TriInfos /\ TreeTypes'
        /\ AllGathered' /\ CallsOrdered' /\ LoopCovers' /\ NodesCover'
        /\ LeavesComplete' /\ InnerSplit' /\ Numbered' /\ RootPlaced'
    BY <1>1, TreeUnchanged
  <1>3. TypeOK' /\ Phases'
    BY <1>1, <1>2 DEF TypeOK, QueryTypes, TreeInv, Phases, build
  <1>4. NothingSkipped' /\ ExtentAgrees' /\ AnswerSound'
    BY <1>1 DEF NothingSkipped, ExtentAgrees, AnswerSound
  <1> QED
    BY <1>2, <1>3, <1>4 DEF TreeInv

-----------------------------------------------------------------------------
(* The steps before and during the build.                                  *)

\* Nothing is said of a query while there is none.
LEMMA NoQuery ==
    ASSUME pc' \notin {"traversing", "answered"}
    PROVE  NothingSkipped' /\ ExtentAgrees' /\ AnswerSound'
  BY DEF NothingSkipped, ExtentAgrees, AnswerSound

LEMMA EmptyBoxType == EmptyBox \in Boxes
  BY InfinityAssumption DEF EmptyBox, Boxes, Points, Axes

LEMMA InitIInv == Init => IInv
  <1> SUFFICES ASSUME Init PROVE IInv
    OBVIOUS
  <1> USE DEF Init
  <1>1. TypeOK
    <2>1. meshes \in Seq(MeshChoices) /\ tris \in Seq(TriInfos) /\ calls \in Seq(Calls)
      OBVIOUS
    <2>2. gathered \in 0 .. Len(meshes) /\ index \in Nat /\ bbox \in Boxes
      BY EmptyBoxType
    <2>3. DOMAIN tree = {}
      OBVIOUS
    <2>4. TreeTypes
      BY <2>1, <2>2, <2>3 DEF TreeTypes
    <2>5. its \in [t : 0 .. Infinity, tri : TriInfos \cup {None}] /\ maxt \in 0 .. Infinity
      BY InfinityAssumption
    <2>6. stack \in Seq(DOMAIN tree) /\ scan \in Seq(TriInfos)
      OBVIOUS
    <2>7. QueryTypes
      BY <2>5, <2>6 DEF QueryTypes
    <2> QED
      BY <2>4, <2>7 DEF TypeOK
  <1>2. TriInfos = {}
    BY DEF TriInfos
  <1>3. Phases /\ AllGathered
    BY <1>2 DEF Phases, AllGathered
  <1>4. /\ CallsOrdered /\ LoopCovers /\ NodesCover /\ LeavesComplete /\ InnerSplit
        /\ Numbered /\ RootPlaced
    BY DEF CallsOrdered, LoopCovers, NodesCover, LeavesComplete, InnerSplit, Numbered, RootPlaced
  <1>5. NothingSkipped /\ ExtentAgrees /\ AnswerSound
    BY DEF NothingSkipped, ExtentAgrees, AnswerSound
  <1> QED
    BY <1>1, <1>3, <1>4, <1>5 DEF IInv, TreeInv

\* Before there is a node or a call, the tree is trivially sound.
LEMMA NoTree ==
    ASSUME tree' = <<>>, calls' = <<>>, pc' \in {"adding", "gathering"}
    PROVE  /\ CallsOrdered' /\ LoopCovers' /\ NodesCover' /\ LeavesComplete' /\ InnerSplit'
           /\ Numbered' /\ RootPlaced'
  BY DEF CallsOrdered, LoopCovers, NodesCover, LeavesComplete, InnerSplit, Numbered, RootPlaced

LEMMA AddMeshStep == ASSUME IInv, AddMesh PROVE IInv'
  <1> USE DEF IInv
  <1>1. PICK mesh \in MeshChoices : meshes' = Append(meshes, mesh)
    BY DEF AddMesh
  <1>2. /\ pc = "adding" /\ pc' = pc
        /\ UNCHANGED <<tris, gathered, calls, bbox, index, tree>>
        /\ UNCHANGED <<query, shadowRay, maxt, its, intersected, stack, scan>>
    BY DEF AddMesh, traversal
  <1>3. tris = <<>> /\ gathered = 0 /\ its.tri = None /\ scan = <<>> /\ tree = <<>> /\ calls = <<>>
    BY <1>2 DEF TreeInv, Phases
  <1>4. meshes' \in Seq(MeshChoices) /\ meshes \in Seq(MeshChoices)
    BY <1>1 DEF TreeInv, TypeOK, TreeTypes
  <1>5. TypeOK'
    <2>1. TreeTypes'
      BY <1>2, <1>3, <1>4 DEF TreeInv, TypeOK, TreeTypes
    <2>2. QueryTypes'
      BY <1>2, <1>3 DEF TreeInv, TypeOK, QueryTypes
    <2> QED
      BY <1>2, <2>1, <2>2 DEF TypeOK
  <1>6. Phases'
    BY <1>2, <1>3 DEF Phases
  <1>7. AllGathered'
    BY <1>2, <1>3, <1>4 DEF AllGathered, TriInfos
  <1> QED
    BY <1>2, <1>3, <1>5, <1>6, <1>7, NoTree, NoQuery DEF TreeInv

LEMMA BuildStep == ASSUME IInv, Build PROVE IInv'
  <1> USE DEF IInv
  <1>1. /\ pc = "adding" /\ pc' = "gathering" /\ UNCHANGED build
        /\ UNCHANGED <<query, shadowRay, maxt, its, intersected, stack, scan>>
    BY DEF Build, traversal
  <1>2. TriInfos' = TriInfos /\ AllGathered'
    BY <1>1 DEF build, TriInfos, AllGathered, TreeInv
  <1>3. TypeOK' /\ Phases'
    BY <1>1, <1>2 DEF TreeInv, TypeOK, TreeTypes, QueryTypes, build, Nodes, Phases
  <1>4. tree' = <<>> /\ calls' = <<>>
    BY <1>1 DEF TreeInv, Phases, build
  <1> QED
    BY <1>1, <1>2, <1>3, <1>4, NoTree, NoQuery DEF TreeInv

LEMMA GatherStep == ASSUME IInv, Gather PROVE IInv'
  <1> USE DEF IInv
  <1> DEFINE m == gathered + 1
             faces == meshes[m]
             more == [f \in DOMAIN faces |-> [mesh |-> m, f |-> f]]
  <1>1. /\ pc = "gathering" /\ pc' = pc /\ gathered < Len(meshes)
        /\ gathered' = m /\ tris' = tris \o more
        /\ UNCHANGED <<meshes, calls, bbox, index, tree>>
        /\ UNCHANGED <<query, shadowRay, maxt, its, intersected, stack, scan>>
    BY DEF Gather, traversal
  <1>2. /\ meshes \in Seq(MeshChoices) /\ gathered \in Nat /\ m \in DOMAIN meshes
        /\ faces \in Seq(Triangles) /\ tris \in Seq(TriInfos)
    BY <1>1, MeshesAssumption DEF TreeInv, TypeOK, TreeTypes
  <1>3. more \in Seq(TriInfos) /\ Len(more) = Len(faces)
    BY <1>2 DEF TriInfos
  <1>4. TriInfos' = TriInfos
    BY <1>1 DEF TriInfos
  <1>5. TypeOK'
    <2>1. tris' \in Seq(TriInfos') /\ gathered' \in 0 .. Len(meshes')
      BY <1>1, <1>2, <1>3, <1>4
    <2>2. TreeTypes'
      BY <1>1, <1>4, <2>1 DEF TreeInv, TypeOK, TreeTypes, Nodes
    <2>3. QueryTypes'
      BY <1>1, <1>4 DEF TreeInv, TypeOK, QueryTypes
    <2> QED
      BY <1>1, <2>2, <2>3 DEF TypeOK
  <1>6. Phases'
    BY <1>1 DEF Phases, TreeInv
  <1>7. AllGathered'
    <2> SUFFICES ASSUME NEW ti \in TriInfos, ti.mesh <= m
                 PROVE  \E i \in DOMAIN tris' : tris'[i] = ti
      BY <1>1, <1>4 DEF AllGathered
    <2>1. PICK k \in DOMAIN meshes : \E f \in DOMAIN meshes[k] : ti = [mesh |-> k, f |-> f]
      BY DEF TriInfos
    <2>2. CASE k <= gathered
      <3>1. PICK i \in DOMAIN tris : tris[i] = ti
        BY <2>1, <2>2 DEF AllGathered, TreeInv
      <3>2. i \in DOMAIN tris' /\ tris'[i] = tris[i]
        <4> HIDE DEF more, m, faces
        <4> QED
          BY <1>1, <1>2, <1>3
      <3> QED
        BY <3>1, <3>2
    <2>3. CASE k = m
      <3>1. PICK f \in DOMAIN faces : ti = [mesh |-> m, f |-> f]
        BY <2>1, <2>3
      <3>2. f \in DOMAIN more /\ more[f] = ti
        BY <3>1
      <3>3. Len(tris) + f \in DOMAIN tris' /\ tris'[Len(tris) + f] = more[f]
        <4> HIDE DEF more, m, faces
        <4> QED
          BY <1>1, <1>2, <1>3, <3>2
      <3> QED
        BY <3>2, <3>3
    <2> QED
      BY <1>2, <2>1, <2>2, <2>3
  <1>8. tree' = <<>> /\ calls' = <<>>
    BY <1>1 DEF TreeInv, Phases
  <1> QED
    BY <1>1, <1>5, <1>6, <1>7, <1>8, NoTree, NoQuery DEF TreeInv

\* No step of the build touches what the queries use.
LEMMA BuildFrame ==
    ASSUME IInv, pc = "building", UNCHANGED <<meshes, gathered, traversal>>,
           pc' \in {"building", "ready", "undefined"}, pc' = "ready" => calls' = <<>>,
           TreeTypes', DOMAIN tree \subseteq DOMAIN tree'
    PROVE  /\ TriInfos' = TriInfos /\ TypeOK' /\ Phases'
           /\ NothingSkipped' /\ ExtentAgrees' /\ AnswerSound'
  <1> USE DEF IInv, TreeInv
  <1>1. TriInfos' = TriInfos
    BY DEF TriInfos
  <1>2. UNCHANGED <<query, shadowRay, maxt, its, intersected, stack, scan>>
    BY DEF traversal
  <1>3. stack' \in Seq(DOMAIN tree')
    BY <1>2 DEF TypeOK, QueryTypes
  <1>4. TypeOK'
    BY <1>1, <1>2, <1>3 DEF TypeOK, QueryTypes
  <1>5. Phases'
    BY DEF Phases
  <1> QED
    BY <1>1, <1>4, <1>5, NoQuery

LEMMA BuildRootStep == ASSUME IInv, BuildRoot PROVE IInv'
  <1> USE DEF IInv
  <1> DEFINE root == [node |-> 1, begin |-> 0, end |-> LastIndex]
  <1>1. /\ pc = "gathering" /\ pc' = "building" /\ gathered = Len(meshes)
        /\ calls' = <<root>> /\ bbox' = EmptyBox /\ index' = 0
        /\ UNCHANGED <<meshes, tris, gathered, tree>>
        /\ UNCHANGED <<query, shadowRay, maxt, its, intersected, stack, scan>>
    BY DEF BuildRoot, Enter, traversal
  <1>2. /\ LastIndex \in Nat /\ LastIndex' = LastIndex
        /\ tris # <<>> => LastIndex < Len(tris)
    BY <1>1, MaxIndexAssumption DEF TreeInv, TypeOK, TreeTypes, LastIndex
  <1>3. TriInfos' = TriInfos /\ AllGathered'
    BY <1>1 DEF TriInfos, TreeInv, AllGathered
  <1>4. tree = <<>> /\ DOMAIN tree = {} /\ DOMAIN tree' = {}
    BY <1>1 DEF TreeInv, Phases
  <1>5. TypeOK'
    <2>1. root \in Calls
      BY <1>2 DEF Calls
    <2>2. calls' \in Seq(Calls)
      BY <1>1, <2>1
    <2>3. TreeTypes'
      BY <1>1, <1>3, <1>4, <2>2, EmptyBoxType DEF TreeInv, TypeOK, TreeTypes
    <2> QED
      BY <1>1, <1>3, <2>3 DEF TreeInv, TypeOK, QueryTypes
  <1>6. Phases'
    BY <1>1 DEF Phases
  <1>7. DOMAIN calls' = {1} /\ calls'[1] = root /\ calls' # <<>> /\ Head(calls') = root
    BY <1>1
  <1>8. CallsOrdered'
    BY <1>1, <1>2, <1>7 DEF CallsOrdered
  <1>9. LoopCovers'
    BY <1>1, <1>2, <1>7 DEF LoopCovers
  <1>10. NodesCover' /\ LeavesComplete' /\ InnerSplit'
    BY <1>4 DEF NodesCover, LeavesComplete, InnerSplit
  <1>11. Numbered'
    BY <1>4, <1>7 DEF Numbered, HasParent
  <1>12. RootPlaced'
    BY <1>2, <1>7 DEF RootPlaced, Placed
  <1> QED
    BY <1>1, <1>3, <1>5, <1>6, <1>8, <1>9, <1>10, <1>11, <1>12, NoQuery DEF TreeInv

\* The box grows: it covers what it covered before, and the new triangle.
LEMMA ExpandedCovers ==
    ASSUME NEW box \in Boxes, NEW tri \in Triangles
    PROVE  /\ Expanded(box, BoxOf(tri)) \in Boxes
           /\ Covers(Expanded(box, BoxOf(tri)), tri)
           /\ \A other \in Triangles :
                Covers(box, other) => Covers(Expanded(box, BoxOf(tri)), other)
  <1> DEFINE new == Expanded(box, BoxOf(tri))
  <1>1. ASSUME NEW t \in Triangles, NEW a \in Axes
        PROVE  BoxOf(t).min[a] \in Int /\ BoxOf(t).max[a] \in Int
    <2>1. t.at[a] \in Int /\ t.along[a] \in -1 .. 1 /\ t.len \in Nat
      BY DEF Triangles, Points, Directions
    <2>2. t.at[a] + t.len * t.along[a] \in Int
      BY <2>1, Between
    <2> QED
      BY <2>1, <2>2 DEF BoxOf, End, On, Least, Greatest
  <1>2. ASSUME NEW a \in Axes
        PROVE  /\ box.min[a] \in Int /\ box.max[a] \in Int
               /\ new.min[a] = Least(box.min[a], BoxOf(tri).min[a])
               /\ new.max[a] = Greatest(box.max[a], BoxOf(tri).max[a])
    BY DEF Boxes, Points, Expanded
  <1>3. ASSUME NEW a \in Axes
        PROVE  /\ new.min[a] \in Int /\ new.max[a] \in Int
               /\ new.min[a] <= box.min[a] /\ new.min[a] <= BoxOf(tri).min[a]
               /\ box.max[a] <= new.max[a] /\ BoxOf(tri).max[a] <= new.max[a]
    BY <1>1, <1>2 DEF Least, Greatest
  <1>4. new \in Boxes
    BY <1>3 DEF Boxes, Points, Expanded
  <1>5. Covers(new, tri)
    BY <1>3 DEF Covers
  <1>6. ASSUME NEW other \in Triangles, Covers(box, other)
        PROVE  Covers(new, other)
    BY <1>1, <1>2, <1>3, <1>6 DEF Covers
  <1> QED
    BY <1>4, <1>5, <1>6

LEMMA ExpandStep == ASSUME IInv, Expand PROVE IInv'
  <1> USE DEF IInv
  <1> DEFINE tri == Shape(Tri(index))
  <1>1. /\ pc = "building" /\ pc' = pc /\ index <= Head(calls).end /\ index < Len(tris)
        /\ bbox' = Expanded(bbox, BoxOf(tri)) /\ index' = index + 1
        /\ UNCHANGED <<meshes, tris, gathered, calls, tree, traversal>>
    BY DEF Expand
  <1>2. TypeOK /\ bbox \in Boxes /\ index \in Nat /\ tris \in Seq(TriInfos) /\ calls \in Seq(Calls)
    BY DEF TreeInv, TypeOK, TreeTypes
  <1>3. tri \in Triangles
    BY <1>1, <1>2, ShapeType DEF Tri
  <1>4. bbox' \in Boxes /\ Covers(bbox', tri)
    BY <1>1, <1>2, <1>3, ExpandedCovers
  <1>5. TriInfos' = TriInfos
    BY <1>1 DEF TriInfos
  <1>6. TreeTypes'
    BY <1>1, <1>2, <1>4, <1>5 DEF TreeInv, TypeOK, TreeTypes, Nodes
  <1>7. TypeOK' /\ Phases' /\ NothingSkipped' /\ ExtentAgrees' /\ AnswerSound'
    BY <1>1, <1>6, BuildFrame
  <1>8. LoopCovers'
    <2>1. calls # <<>> /\ Head(calls).begin \in Nat /\ Head(calls).end \in Nat
      <3>1. calls # <<>>
        BY <1>1 DEF TreeInv, LoopCovers
      <3>2. Head(calls) \in Calls
        BY <1>2, <3>1
      <3> QED
        BY <3>1, <3>2 DEF Calls
    <2>2. index' \in Head(calls).begin .. Head(calls).end + 1
      BY <1>1, <1>2, <2>1 DEF TreeInv, LoopCovers
    <2>3. ASSUME NEW i \in Head(calls).begin .. index
          PROVE  i < Len(tris) /\ Covers(bbox', Shape(Tri(i)))
      <3>1. CASE i = index
        BY <1>1, <1>4, <3>1
      <3>2. CASE i # index
        <4>1. i \in Head(calls).begin .. index - 1 /\ i \in Nat
          BY <1>2, <2>1, <3>2
        <4>2. i < Len(tris) /\ Covers(bbox, Shape(Tri(i)))
          BY <1>1, <4>1 DEF TreeInv, LoopCovers
        <4>3. Shape(Tri(i)) \in Triangles
          BY <1>2, <4>1, <4>2, ShapeType DEF Tri
        <4> QED
          BY <1>1, <1>2, <1>3, <4>2, <4>3, ExpandedCovers
      <3> QED
        BY <3>1, <3>2
    <2> QED
      BY <1>1, <1>2, <2>1, <2>2, <2>3 DEF LoopCovers, Shape, Tri
  <1>9. AllGathered' /\ CallsOrdered' /\ NodesCover' /\ LeavesComplete'
    BY <1>1, <1>5 DEF TreeInv, AllGathered, CallsOrdered, NodesCover, LeavesComplete,
       Before, Apart, Within, Span, Shape, Tri
  <1>10. InnerSplit' /\ Numbered' /\ RootPlaced'
    BY <1>1 DEF TreeInv, InnerSplit, Numbered, RootPlaced, HasParent, Placed, Span, LastIndex
  <1> QED
    BY <1>7, <1>8, <1>9, <1>10 DEF TreeInv

LEMMA ReadPastEndStep == ASSUME IInv, ReadPastEnd PROVE IInv'
  <1> USE DEF IInv
  <1>1. /\ pc = "building" /\ pc' = "undefined"
        /\ UNCHANGED <<meshes, tris, gathered, calls, bbox, index, tree, traversal>>
    BY DEF ReadPastEnd, build
  <1>2. TriInfos' = TriInfos /\ TreeTypes'
    BY <1>1 DEF TriInfos, TreeInv, TypeOK, TreeTypes, Nodes
  <1>3. TypeOK' /\ Phases' /\ NothingSkipped' /\ ExtentAgrees' /\ AnswerSound'
    BY <1>1, <1>2, BuildFrame
  <1>4. AllGathered' /\ CallsOrdered' /\ NodesCover' /\ LeavesComplete'
    BY <1>1, <1>2 DEF TreeInv, AllGathered, CallsOrdered, NodesCover, LeavesComplete,
       Before, Apart, Within, Span, Shape, Tri
  <1>5. LoopCovers' /\ InnerSplit' /\ Numbered' /\ RootPlaced'
    BY <1>1 DEF TreeInv, LoopCovers, InnerSplit, Numbered, RootPlaced, HasParent, Placed, Span
  <1> QED
    BY <1>3, <1>4, <1>5 DEF TreeInv

-----------------------------------------------------------------------------
(* The steps that make a node.                                             *)

Call == Head(calls)

\* The call whose loop is over: all of its range is in tris, and in its box.
LEMMA DoneCall ==
    ASSUME IInv, BoxDone
    PROVE  /\ calls \in Seq(Calls) /\ calls # <<>> /\ 1 \in DOMAIN calls /\ calls[1] = Call
           /\ Call \in Calls /\ Call.node \in Nat \ {0} /\ Call.begin \in Nat /\ Call.end \in Nat
           /\ Call.begin <= Call.end /\ Call.end < Len(tris)
           /\ tris \in Seq(TriInfos) /\ tris # <<>> /\ Len(tris) \in Nat /\ bbox \in Boxes
           /\ \A i \in Span(Call) : i < Len(tris) /\ Covers(bbox, Shape(Tri(i)))
           /\ \A c \in DOMAIN calls : c # 1 => Before(Call, calls[c])
           /\ Call.node \notin DOMAIN tree /\ HasParent(Call.node)
           /\ \A c \in DOMAIN calls : c # 1 => calls[c].node # Call.node
  <1> USE DEF IInv, TreeInv
  <1>1. calls \in Seq(Calls) /\ tris \in Seq(TriInfos) /\ bbox \in Boxes /\ index \in Nat
    BY DEF TypeOK, TreeTypes
  <1>2. calls # <<>>
    BY DEF BoxDone, LoopCovers
  <1>3. 1 \in DOMAIN calls /\ calls[1] = Call /\ Call \in Calls
    BY <1>1, <1>2 DEF Call
  <1>4. Call.node \in Nat \ {0} /\ Call.begin \in Nat /\ Call.end \in Nat
    BY <1>3 DEF Calls
  <1>5. Call.begin <= Call.end
    BY <1>3 DEF CallsOrdered
  <1>6. index = Call.end + 1
    BY <1>1, <1>4 DEF BoxDone, LoopCovers, Call
  <1>7. \A i \in Span(Call) : i < Len(tris) /\ Covers(bbox, Shape(Tri(i)))
    BY <1>4, <1>6 DEF BoxDone, LoopCovers, Call, Span
  <1>8. Call.end < Len(tris)
    BY <1>4, <1>5, <1>7 DEF Span
  <1>9. tris # <<>> /\ Len(tris) \in Nat
    BY <1>1, <1>4, <1>8
  <1>10. ASSUME NEW c \in DOMAIN calls, c # 1
         PROVE  Before(Call, calls[c])
    <2>1. 1 < c
      BY <1>1, <1>10
    <2> QED
      BY <1>3, <2>1 DEF CallsOrdered
  <1>11. /\ Call.node \notin DOMAIN tree /\ HasParent(Call.node)
         /\ \A c \in DOMAIN calls : c # 1 => calls[c].node # Call.node
    BY <1>3 DEF Numbered
  <1> QED
    BY <1>1, <1>2, <1>3, <1>4, <1>5, <1>7, <1>8, <1>9, <1>10, <1>11

\* The tree with the new node, and what it keeps.
LEMMA NewNode ==
    ASSUME IInv, BoxDone, NEW list \in Seq(TriInfos), tree' = WithNode(Call, list),
           UNCHANGED meshes
    PROVE  /\ DOMAIN tree' = DOMAIN tree \cup {Call.node}
           /\ \A n \in DOMAIN tree : n # Call.node /\ tree'[n] = tree[n]
           /\ tree'[Call.node] = [box |-> bbox, list |-> list, begin |-> Call.begin, end |-> Call.end]
           /\ tree'[Call.node].box = bbox /\ tree'[Call.node].list = list
           /\ tree'[Call.node].begin = Call.begin /\ tree'[Call.node].end = Call.end
           /\ DOMAIN tree' \subseteq Nat \ {0}
           /\ \A n \in DOMAIN tree' : tree'[n] \in Nodes'
           /\ \A n : HasParent(n) => HasParent(n)'
  <1>1. /\ Call.node \notin DOMAIN tree /\ Call.node \in Nat \ {0}
        /\ Call.begin \in Nat /\ Call.end \in Nat /\ bbox \in Boxes
    BY DoneCall
  <1>2. DOMAIN tree \subseteq Nat \ {0} /\ \A n \in DOMAIN tree : tree[n] \in Nodes
    BY DEF IInv, TreeInv, TypeOK, TreeTypes
  <1>3. /\ DOMAIN tree' = DOMAIN tree \cup {Call.node}
        /\ \A n \in DOMAIN tree : n # Call.node /\ tree'[n] = tree[n]
        /\ tree'[Call.node] = [box |-> bbox, list |-> list, begin |-> Call.begin, end |-> Call.end]
    BY <1>1 DEF WithNode
  <1>4. /\ tree'[Call.node].box = bbox /\ tree'[Call.node].list = list
        /\ tree'[Call.node].begin = Call.begin /\ tree'[Call.node].end = Call.end
    BY <1>3
  <1>5. [box |-> bbox, list |-> list, begin |-> Call.begin, end |-> Call.end] \in Nodes
    BY <1>1 DEF Nodes
  <1>6. Nodes' = Nodes
    BY DEF Nodes, TriInfos
  <1>7. ASSUME NEW n \in DOMAIN tree' PROVE tree'[n] \in Nodes'
    <2>1. CASE n = Call.node
      BY <1>3, <1>5, <1>6, <2>1
    <2>2. CASE n \in DOMAIN tree
      BY <1>2, <1>3, <1>6, <2>2
    <2> QED
      BY <1>3, <2>1, <2>2
  <1>8. ASSUME NEW n, HasParent(n) PROVE HasParent(n)'
    BY <1>3, <1>8 DEF HasParent
  <1> QED
    BY <1>1, <1>2, <1>3, <1>4, <1>7, <1>8

\* A node stays where it is when its call has made it and the other calls remain.
LEMMA PlacedKept ==
    ASSUME IInv, BoxDone, NEW list \in Seq(TriInfos), tree' = WithNode(Call, list),
           UNCHANGED meshes,
           \A c \in DOMAIN calls : c # 1 => \E d \in DOMAIN calls' : calls'[d] = calls[c],
           NEW n, NEW b, NEW e, Placed(n, b, e)
    PROVE  Placed(n, b, e)'
  <1>1. CASE n \in DOMAIN tree /\ tree[n].begin = b /\ tree[n].end = e
    BY <1>1, NewNode DEF Placed
  <1>2. ASSUME NEW c \in DOMAIN calls, calls[c] = [node |-> n, begin |-> b, end |-> e]
        PROVE  Placed(n, b, e)'
    <2>1. CASE c = 1
      <3>1. Call.node = n /\ Call.begin = b /\ Call.end = e
        BY <1>2, <2>1, DoneCall
      <3>2. n \in DOMAIN tree' /\ tree'[n].begin = b /\ tree'[n].end = e
        BY <3>1, NewNode
      <3> QED
        BY <3>2 DEF Placed
    <2>2. CASE c # 1
      BY <1>2, <2>2 DEF Placed
    <2> QED
      BY <2>1, <2>2
  <1> QED
    BY <1>1, <1>2 DEF Placed

LEMMA MakeLeafStep == ASSUME IInv, MakeLeaf PROVE IInv'
  <1> USE DEF IInv
  <1> DEFINE list == SubSeq(tris, Call.begin + 1, Call.end + 1)
  <1>1. /\ BoxDone /\ pc = "building" /\ tree' = WithNode(Call, list)
        /\ calls' = Tail(calls) /\ bbox' = EmptyBox
        /\ index' = IF calls' = <<>> THEN 0 ELSE Head(calls').begin
        /\ pc' = IF calls' = <<>> THEN "ready" ELSE "building"
        /\ UNCHANGED <<meshes, tris, gathered, traversal>>
    BY DEF MakeLeaf, Enter, BoxDone, Call
  <1>2. /\ calls \in Seq(Calls) /\ calls # <<>> /\ calls[1] = Call
        /\ Call.begin \in Nat /\ Call.end \in Nat
        /\ Call.begin <= Call.end /\ Call.end < Len(tris)
        /\ tris \in Seq(TriInfos)
    BY <1>1, DoneCall
  <1>3. /\ list \in Seq(TriInfos) /\ list # <<>>
        /\ \A i \in Span(Call) : i - Call.begin + 1 \in DOMAIN list
                                 /\ list[i - Call.begin + 1] = Tri(i)
    <2> DEFINE b == Call.begin  e == Call.end
    <2>1. /\ b \in Nat /\ e \in Nat /\ b <= e /\ e < Len(tris) /\ tris \in Seq(TriInfos)
          /\ list = SubSeq(tris, b + 1, e + 1)
      BY <1>2
    <2> HIDE DEF b, e, list
    <2>2. /\ list \in Seq(TriInfos) /\ list # <<>>
          /\ \A i \in b .. e : i - b + 1 \in DOMAIN list /\ list[i - b + 1] = tris[i + 1]
      BY <2>1
    <2> QED
      BY <2>2 DEF b, e, Span, Tri
  <1> HIDE DEF list
  <1>4. /\ calls' \in Seq(Calls)
        /\ \A d \in DOMAIN calls' : d + 1 \in DOMAIN calls /\ calls'[d] = calls[d + 1] /\ d + 1 # 1
        /\ \A c \in DOMAIN calls : c # 1 => c - 1 \in DOMAIN calls' /\ calls'[c - 1] = calls[c]
    BY <1>1, <1>2
  <1>5. /\ DOMAIN tree' = DOMAIN tree \cup {Call.node}
        /\ \A n \in DOMAIN tree : n # Call.node /\ tree'[n] = tree[n]
        /\ tree'[Call.node].box = bbox /\ tree'[Call.node].list = list
        /\ tree'[Call.node].begin = Call.begin /\ tree'[Call.node].end = Call.end
        /\ DOMAIN tree' \subseteq Nat \ {0}
        /\ \A n \in DOMAIN tree' : tree'[n] \in Nodes'
        /\ \A n : HasParent(n) => HasParent(n)'
    BY <1>1, <1>3, NewNode
  <1>6. ASSUME NEW n, NEW b, NEW e, Placed(n, b, e)
        PROVE  Placed(n, b, e)'
    BY <1>1, <1>3, <1>4, <1>6, PlacedKept
  <1>7. TriInfos' = TriInfos
    BY <1>1 DEF TriInfos
  <1>8. TreeTypes'
    <2>1. meshes' \in Seq(MeshChoices) /\ gathered' \in 0 .. Len(meshes') /\ tris' \in Seq(TriInfos')
      BY <1>1, <1>2, <1>7 DEF TreeInv, TypeOK, TreeTypes
    <2>2. index' \in Nat
      <3>1. CASE calls' # <<>>
        <4>1. Head(calls') \in Calls
          BY <1>4, <3>1
        <4> QED
          BY <1>1, <3>1, <4>1 DEF Calls
      <3> QED
        BY <1>1, <3>1
    <2> QED
      BY <1>1, <1>4, <1>5, <2>1, <2>2, EmptyBoxType DEF TreeTypes
  <1>9. TypeOK' /\ Phases' /\ NothingSkipped' /\ ExtentAgrees' /\ AnswerSound'
    BY <1>1, <1>5, <1>8, BuildFrame
  <1>10. AllGathered'
    BY <1>1, <1>7 DEF TreeInv, AllGathered
  <1>11. CallsOrdered'
    BY <1>1, <1>4 DEF TreeInv, CallsOrdered, Before
  <1>12. LoopCovers'
    <2> SUFFICES ASSUME calls' # <<>>
                 PROVE  /\ index' \in Head(calls').begin .. Head(calls').end + 1
                        /\ Head(calls').begin .. index' - 1 = {}
      BY <1>1 DEF LoopCovers
    <2>1. Head(calls') \in Calls /\ 1 \in DOMAIN calls' /\ Head(calls') = calls'[1]
      BY <1>4
    <2>2. Head(calls').begin <= Head(calls').end
      BY <1>11, <2>1 DEF CallsOrdered
    <2>3. Head(calls').begin \in Nat /\ Head(calls').end \in Nat
      BY <2>1 DEF Calls
    <2> QED
      BY <1>1, <2>2, <2>3
  <1>13. NodesCover'
    <2> SUFFICES ASSUME NEW n \in DOMAIN tree'
                 PROVE  /\ tree'[n].begin <= tree'[n].end /\ tree'[n].end < Len(tris)
                        /\ \A i \in tree'[n].begin .. tree'[n].end : Covers(tree'[n].box, Shape(Tri(i)))
                        /\ \A d \in DOMAIN calls' : Within(calls'[d], tree'[n])
                                                    \/ Apart(calls'[d], tree'[n])
      BY <1>1 DEF NodesCover, Span, Shape, Tri, Within, Apart, Before
    <2>1. CASE n = Call.node
      <3>1. \A i \in tree'[n].begin .. tree'[n].end : Covers(tree'[n].box, Shape(Tri(i)))
        BY <1>1, <1>5, <2>1, DoneCall DEF Span
      <3>2. \A d \in DOMAIN calls' : Before(tree'[n], calls'[d])
        BY <1>1, <1>4, <1>5, <2>1, DoneCall DEF Before
      <3> QED
        BY <1>2, <1>5, <2>1, <3>1, <3>2 DEF Apart
    <2>2. CASE n \in DOMAIN tree
      BY <1>4, <1>5, <2>2 DEF TreeInv, NodesCover, Span
    <2> QED
      BY <1>5, <2>1, <2>2
  <1>14. LeavesComplete'
    <2> SUFFICES ASSUME NEW n \in DOMAIN tree', tree'[n].list # <<>>
                 PROVE  /\ \A d \in DOMAIN calls' : Apart(calls'[d], tree'[n])
                        /\ \A i \in tree'[n].begin .. tree'[n].end :
                             \E k \in DOMAIN tree'[n].list : tree'[n].list[k] = Tri(i)
      BY <1>1 DEF LeavesComplete, Span, Tri, Apart, Before
    <2>1. CASE n = Call.node
      <3>1. \A d \in DOMAIN calls' : Before(tree'[n], calls'[d])
        BY <1>1, <1>4, <1>5, <2>1, DoneCall DEF Before
      <3> QED
        BY <1>3, <1>5, <2>1, <3>1 DEF Apart, Span
    <2>2. CASE n \in DOMAIN tree
      BY <1>4, <1>5, <2>2 DEF TreeInv, LeavesComplete, Span
    <2> QED
      BY <1>5, <2>1, <2>2
  <1>15. InnerSplit'
    <2> SUFFICES ASSUME NEW n \in DOMAIN tree', tree'[n].list = <<>>
                 PROVE  (\E mid \in Span(tree[n]) :
                           /\ mid = (tree[n].begin + tree[n].end) \div 2
                           /\ Placed(2 * n, tree[n].begin, mid)
                           /\ Placed(2 * n + 1, mid + 1, tree[n].end))'
      BY DEF InnerSplit
    <2>1. n \in DOMAIN tree /\ tree'[n] = tree[n]
      BY <1>3, <1>5
    <2>2. PICK mid \in Span(tree[n]), b \in {tree[n].begin}, e \in {tree[n].end} :
             mid = (b + e) \div 2 /\ Placed(2 * n, b, mid) /\ Placed(2 * n + 1, mid + 1, e)
      BY <2>1 DEF TreeInv, InnerSplit
    <2>3. Placed(2 * n, b, mid)' /\ Placed(2 * n + 1, mid + 1, e)'
      BY <1>6, <2>2
    <2>4. mid \in Span(tree[n])' /\ b = tree'[n].begin /\ e = tree'[n].end
      BY <2>1, <2>2 DEF Span
    <2> QED
      BY <2>2, <2>3, <2>4 DEF Placed
  <1>16. Numbered'
    <2>1. \A n \in DOMAIN tree' : HasParent(n)'
      BY <1>1, <1>5, DoneCall DEF TreeInv, Numbered
    <2>2. ASSUME NEW c \in DOMAIN calls'
          PROVE  /\ HasParent(calls[c].node)' /\ calls'[c].node \notin DOMAIN tree'
                 /\ \A d \in DOMAIN calls' : calls'[d].node = calls'[c].node => d = c
      <3>1. c + 1 \in DOMAIN calls /\ calls'[c] = calls[c + 1] /\ c + 1 # 1 /\ c \in Int
        BY <1>4
      <3>2. HasParent(calls[c + 1].node) /\ calls[c + 1].node \notin DOMAIN tree
        BY <3>1 DEF TreeInv, Numbered
      <3>3. HasParent(calls[c].node)'
        BY <1>5, <3>1, <3>2
      <3>4. calls'[c].node \notin DOMAIN tree'
        BY <1>1, <1>5, <3>1, <3>2, DoneCall
      <3>5. ASSUME NEW d \in DOMAIN calls', calls'[d].node = calls'[c].node
            PROVE  d = c
        <4>1. d + 1 \in DOMAIN calls /\ calls[d + 1].node = calls[c + 1].node /\ d \in Int
          BY <1>4, <3>1, <3>5
        <4>2. d + 1 = c + 1
          BY <3>1, <4>1 DEF TreeInv, Numbered
        <4> QED
          BY <3>1, <4>1, <4>2
      <3> QED
        BY <3>3, <3>4, <3>5
    <2> QED
      BY <2>1, <2>2 DEF Numbered
  <1>17. RootPlaced'
    <2>1. Placed(1, 0, LastIndex)
      BY <1>1 DEF TreeInv, RootPlaced
    <2>2. Placed(1, 0, LastIndex)'
      BY <1>1, <1>6, <2>1 DEF LastIndex
    <2> QED
      BY <2>2 DEF RootPlaced
  <1> QED
    BY <1>9, <1>10, <1>11, <1>12, <1>13, <1>14, <1>15, <1>16, <1>17 DEF TreeInv

\* Sorting a range of tris exchanges triangles within the range only.
LEMMA SortedRangeFacts ==
    ASSUME tris \in Seq(TriInfos), NEW b \in Nat, NEW e \in Nat, e < Len(tris), NEW axis,
           NEW s \in SortedRange(b, e, axis)
    PROVE  /\ s \in Seq(TriInfos) /\ DOMAIN s = DOMAIN tris /\ Len(s) = Len(tris)
           /\ \A i \in DOMAIN tris : i \notin b + 1 .. e + 1 => s[i] = tris[i]
           /\ \A i \in b + 1 .. e + 1 : \E j \in b + 1 .. e + 1 : s[i] = tris[j]
           /\ \A j \in b + 1 .. e + 1 : \E i \in b + 1 .. e + 1 : s[i] = tris[j]
           /\ \A j \in DOMAIN tris : \E i \in DOMAIN s : s[i] = tris[j]
  <1> DEFINE places == b + 1 .. e + 1
  <1>1. PICK p \in Surjection(places, places) :
           s = [i \in DOMAIN tris |-> IF i \in places THEN tris[p[i]] ELSE tris[i]]
    BY DEF SortedRange
  <1>2. p \in [places -> places] /\ \A w \in places : \E v \in places : p[v] = w
    BY DEF Surjection
  <1>3. places \subseteq DOMAIN tris /\ DOMAIN tris = 1 .. Len(tris) /\ Len(tris) \in Nat
    OBVIOUS
  <1>4. \A i \in DOMAIN tris : tris[i] \in TriInfos
    OBVIOUS
  <1> HIDE DEF places
  <1>5. \A i \in 1 .. Len(tris) : s[i] \in TriInfos
    BY <1>1, <1>2, <1>3, <1>4
  <1>6. s \in Seq(TriInfos) /\ DOMAIN s = DOMAIN tris /\ Len(s) = Len(tris)
    BY <1>1, <1>3, <1>5
  <1>7. \A i \in DOMAIN tris : i \notin places => s[i] = tris[i]
    BY <1>1
  <1>8. \A i \in places : p[i] \in places /\ s[i] = tris[p[i]]
    BY <1>1, <1>2, <1>3
  <1>9. \A j \in places : \E i \in places : s[i] = tris[j]
    BY <1>2, <1>8
  <1>10. \A j \in DOMAIN tris : \E i \in DOMAIN s : s[i] = tris[j]
    BY <1>3, <1>6, <1>7, <1>9
  <1> QED
    BY <1>6, <1>7, <1>8, <1>9, <1>10 DEF places

\* The two halves of the range of a call: not empty, one after the other.
LEMMA Halves ==
    ASSUME IInv, Split
    PROVE  \E mid \in Nat :
             /\ mid = (Call.begin + Call.end) \div 2
             /\ Call.begin <= mid /\ mid < Call.end
             /\ Children(Call) = << [node |-> 2 * Call.node, begin |-> Call.begin, end |-> mid],
                                    [node |-> 2 * Call.node + 1, begin |-> mid + 1, end |-> Call.end] >>
  <1> DEFINE b == Call.begin  e == Call.end  mid == (Call.begin + Call.end) \div 2
  <1>1. b \in Nat /\ e \in Nat /\ LeafSpan \in Nat /\ LeafSpan >= 1 /\ e - b >= LeafSpan
    BY DoneCall, LeafSpanAssumption DEF Split, Call
  <1>2. mid = (b + e) \div 2
    OBVIOUS
  <1>3. Children(Call) = << [node |-> 2 * Call.node, begin |-> Call.begin, end |-> mid],
                           [node |-> 2 * Call.node + 1, begin |-> mid + 1, end |-> Call.end] >>
    BY DEF Children
  <1> HIDE DEF b, e, mid
  <1>4. mid \in Nat /\ b <= mid /\ mid < e
    BY <1>1, <1>2
  <1> QED
    BY <1>2, <1>3, <1>4 DEF b, e

LEMMA SplitStep == ASSUME IInv, Split PROVE IInv'
  <1> USE DEF IInv
  <1>1. /\ BoxDone /\ pc = "building" /\ pc' = pc /\ tree' = WithNode(Call, <<>>)
        /\ tris' \in SortedRange(Call.begin, Call.end, LargestAxis(bbox))
        /\ calls' = Children(Call) \o Tail(calls) /\ bbox' = EmptyBox
        /\ index' = IF calls' = <<>> THEN 0 ELSE Head(calls').begin
        /\ UNCHANGED <<meshes, gathered, traversal>>
    BY DEF Split, Enter, BoxDone, Call
  <1>2. /\ calls \in Seq(Calls) /\ calls # <<>> /\ calls[1] = Call
        /\ Call.begin \in Nat /\ Call.end \in Nat /\ Call.node \in Nat \ {0}
        /\ Call.begin <= Call.end /\ Call.end < Len(tris)
        /\ tris \in Seq(TriInfos)
    BY <1>1, DoneCall
  <1>mid. PICK mid \in Nat :
            /\ mid = (Call.begin + Call.end) \div 2
            /\ Call.begin <= mid /\ mid < Call.end
            /\ Children(Call) = << [node |-> 2 * Call.node, begin |-> Call.begin, end |-> mid],
                                   [node |-> 2 * Call.node + 1, begin |-> mid + 1, end |-> Call.end] >>
    BY Halves
  <1>3. /\ Call.begin <= mid /\ mid < Call.end
        /\ Children(Call) = << [node |-> 2 * Call.node, begin |-> Call.begin, end |-> mid],
                               [node |-> 2 * Call.node + 1, begin |-> mid + 1, end |-> Call.end] >>
    BY <1>mid
  <1> DEFINE left == [node |-> 2 * Call.node, begin |-> Call.begin, end |-> mid]
             right == [node |-> 2 * Call.node + 1, begin |-> mid + 1, end |-> Call.end]
  <1>4. left \in Calls /\ right \in Calls
    BY <1>2 DEF Calls
  <1>5. /\ calls' \in Seq(Calls) /\ calls' # <<>> /\ Head(calls') = left
        /\ 1 \in DOMAIN calls' /\ calls'[1] = left
        /\ 2 \in DOMAIN calls' /\ calls'[2] = right
        /\ \A d \in DOMAIN calls' : /\ d \in Nat /\ d >= 1
                                    /\ d >= 3 => /\ d - 1 \in DOMAIN calls /\ d - 1 # 1
                                                 /\ calls'[d] = calls[d - 1]
        /\ \A c \in DOMAIN calls : c # 1 => c + 1 \in DOMAIN calls' /\ calls'[c + 1] = calls[c]
    <2>1. calls' = <<left, right>> \o Tail(calls)
      BY <1>1, <1>3
    <2> HIDE DEF left, right
    <2>2. Tail(calls) \in Seq(Calls) /\ Len(Tail(calls)) = Len(calls) - 1
      BY <1>2
    <2>3. /\ calls' \in Seq(Calls) /\ calls' # <<>> /\ Head(calls') = left
          /\ Len(calls') = Len(calls) + 1
          /\ calls'[1] = left /\ calls'[2] = right
          /\ \A d \in 3 .. Len(calls') : calls'[d] = Tail(calls)[d - 2]
      BY <1>4, <2>1, <2>2
    <2>4. \A k \in 1 .. Len(calls) - 1 : Tail(calls)[k] = calls[k + 1]
      BY <1>2
    <2>5. Len(calls) \in Nat /\ Len(calls) >= 1 /\ DOMAIN calls = 1 .. Len(calls)
          /\ DOMAIN calls' = 1 .. Len(calls')
      BY <1>2, <2>3
    <2> QED
      BY <2>3, <2>4, <2>5
  <1>6. /\ DOMAIN tree' = DOMAIN tree \cup {Call.node}
        /\ \A n \in DOMAIN tree : n # Call.node /\ tree'[n] = tree[n]
        /\ tree'[Call.node].box = bbox /\ tree'[Call.node].list = <<>>
        /\ tree'[Call.node].begin = Call.begin /\ tree'[Call.node].end = Call.end
        /\ DOMAIN tree' \subseteq Nat \ {0}
        /\ \A n \in DOMAIN tree' : tree'[n] \in Nodes'
        /\ \A n : HasParent(n) => HasParent(n)'
    <2>1. <<>> \in Seq(TriInfos)
      OBVIOUS
    <2> QED
      BY <1>1, <2>1, NewNode
  <1>7. ASSUME NEW n, NEW b, NEW e, Placed(n, b, e)
        PROVE  Placed(n, b, e)'
    <2>1. <<>> \in Seq(TriInfos)
      OBVIOUS
    <2> QED
      BY <1>1, <1>5, <1>7, <2>1, PlacedKept
  <1>8. /\ tris' \in Seq(TriInfos) /\ DOMAIN tris' = DOMAIN tris /\ Len(tris') = Len(tris)
        /\ \A i \in DOMAIN tris : i \notin Call.begin + 1 .. Call.end + 1 => tris'[i] = tris[i]
        /\ \A i \in Call.begin + 1 .. Call.end + 1 :
             \E j \in Call.begin + 1 .. Call.end + 1 : tris'[i] = tris[j]
        /\ \A j \in DOMAIN tris : \E i \in DOMAIN tris' : tris'[i] = tris[j]
    <2> DEFINE b == Call.begin  e == Call.end  axis == LargestAxis(bbox)  s == tris'
    <2>1. b \in Nat /\ e \in Nat /\ e < Len(tris) /\ s \in SortedRange(b, e, axis)
      BY <1>1, <1>2
    <2> HIDE DEF b, e, axis, s
    <2>2. /\ s \in Seq(TriInfos) /\ DOMAIN s = DOMAIN tris /\ Len(s) = Len(tris)
          /\ \A i \in DOMAIN tris : i \notin b + 1 .. e + 1 => s[i] = tris[i]
          /\ \A i \in b + 1 .. e + 1 : \E j \in b + 1 .. e + 1 : s[i] = tris[j]
          /\ \A j \in DOMAIN tris : \E i \in DOMAIN s : s[i] = tris[j]
      BY <1>2, <2>1, SortedRangeFacts
    <2> QED
      BY <2>2 DEF b, e, s
  <1>9. /\ \A i \in 0 .. Len(tris) - 1 : i \notin Span(Call) => tris'[i + 1] = Tri(i)
        /\ \A i \in Span(Call) : \E j \in Span(Call) : tris'[i + 1] = Tri(j)
    <2>1. ASSUME NEW i \in 0 .. Len(tris) - 1, i \notin Span(Call)
          PROVE  tris'[i + 1] = Tri(i)
      <3>1. i + 1 \in DOMAIN tris /\ i + 1 \notin Call.begin + 1 .. Call.end + 1
        BY <1>2, <2>1 DEF Span
      <3> QED
        BY <1>8, <3>1 DEF Tri
    <2>2. ASSUME NEW i \in Span(Call)
          PROVE  \E j \in Span(Call) : tris'[i + 1] = Tri(j)
      <3>1. PICK k \in Call.begin + 1 .. Call.end + 1 : tris'[i + 1] = tris[k]
        <4>1. i + 1 \in Call.begin + 1 .. Call.end + 1
          BY <1>2 DEF Span
        <4> QED
          BY <1>8, <4>1
      <3>2. k - 1 \in Span(Call) /\ (k - 1) + 1 = k
        BY <1>2 DEF Span
      <3> QED
        BY <3>1, <3>2 DEF Tri
    <2> QED
      BY <2>1, <2>2
  <1>10. TriInfos' = TriInfos
    BY <1>1 DEF TriInfos
  <1>11. TreeTypes'
    <2>1. meshes' \in Seq(MeshChoices) /\ gathered' \in 0 .. Len(meshes') /\ tris' \in Seq(TriInfos')
      BY <1>1, <1>8, <1>10 DEF TreeInv, TypeOK, TreeTypes
    <2>2. index' \in Nat
      <3>1. index' = left.begin
        BY <1>1, <1>5
      <3> QED
        BY <1>2, <3>1
    <2> QED
      BY <1>1, <1>5, <1>6, <2>1, <2>2, EmptyBoxType DEF TreeTypes
  <1>12. TypeOK' /\ Phases' /\ NothingSkipped' /\ ExtentAgrees' /\ AnswerSound'
    BY <1>1, <1>6, <1>11, BuildFrame
  <1>13. AllGathered'
    BY <1>1, <1>8, <1>10 DEF TreeInv, AllGathered
  <1>14. CallsOrdered'
    <2>1. ASSUME NEW d \in DOMAIN calls'
          PROVE  calls'[d].begin <= calls'[d].end /\ calls'[d].end < Len(tris')
      <3>1. CASE d = 1
        BY <1>2, <1>3, <1>5, <1>8, <3>1
      <3>2. CASE d = 2
        BY <1>2, <1>3, <1>5, <1>8, <3>2
      <3>3. CASE d >= 3
        BY <1>1, <1>5, <1>8, <3>3, DoneCall DEF TreeInv, CallsOrdered
      <3> QED
        BY <1>5, <3>1, <3>2, <3>3
    <2>2. ASSUME NEW d \in DOMAIN calls', NEW f \in DOMAIN calls', d < f
          PROVE  Before(calls'[d], calls'[f])
      <3>1. CASE d = 1 /\ f = 2
        BY <1>3, <1>5, <3>1 DEF Before
      <3>2. CASE d \in {1, 2} /\ f >= 3
        <4>1. Before(Call, calls'[f])
          BY <1>1, <1>5, <3>2, DoneCall
        <4>2. calls'[f].begin \in Nat
          <5>1. calls'[f] \in Calls
            BY <1>5
          <5> QED
            BY <5>1 DEF Calls
        <4> QED
          BY <1>2, <1>3, <1>5, <3>2, <4>1, <4>2 DEF Before
      <3>3. CASE d >= 3
        BY <1>5, <2>2, <3>3 DEF TreeInv, CallsOrdered
      <3> QED
        BY <1>5, <2>2, <3>1, <3>2, <3>3
    <2> QED
      BY <2>1, <2>2 DEF CallsOrdered, Before
  <1>15. LoopCovers'
    <2>1. index' = Call.begin /\ Head(calls').begin = Call.begin /\ Head(calls').end = mid
      BY <1>1, <1>5
    <2>2. Call.begin \in Call.begin .. mid + 1 /\ Call.begin .. Call.begin - 1 = {}
      BY <1>2, <1>3
    <2> QED
      BY <1>5, <2>1, <2>2 DEF LoopCovers
  <1>ranges. ASSUME NEW d \in DOMAIN calls'
             PROVE  \/ d < 3 /\ Within(calls'[d], Call)
                    \/ /\ d >= 3 /\ Before(Call, calls'[d])
                       /\ d - 1 \in DOMAIN calls /\ d - 1 # 1 /\ calls'[d] = calls[d - 1]
    <2>1. CASE d = 1
      BY <1>2, <1>3, <1>5, <2>1 DEF Within
    <2>2. CASE d = 2
      BY <1>2, <1>3, <1>5, <2>2 DEF Within
    <2>3. CASE d >= 3
      BY <1>1, <1>5, <2>3, DoneCall
    <2> QED
      BY <1>5, <2>1, <2>2, <2>3
  <1>types. ASSUME NEW d \in DOMAIN calls'
            PROVE  calls'[d].begin \in Nat /\ calls'[d].end \in Nat
    <2>1. calls'[d] \in Calls
      BY <1>5
    <2> QED
      BY <2>1 DEF Calls
  <1>16. NodesCover'
    <2> SUFFICES ASSUME NEW n \in DOMAIN tree'
                 PROVE  /\ tree'[n].begin <= tree'[n].end /\ tree'[n].end < Len(tris')
                        /\ \A i \in tree'[n].begin .. tree'[n].end :
                             Covers(tree'[n].box, Shape(tris'[i + 1]))
                        /\ \A d \in DOMAIN calls' : Within(calls'[d], tree'[n])
                                                    \/ Apart(calls'[d], tree'[n])
      BY <1>1 DEF NodesCover, Span, Shape, Tri, Within, Apart, Before
    <2>1. CASE n = Call.node
      <3>1. ASSUME NEW i \in Span(Call) PROVE Covers(bbox, Shape(tris'[i + 1]))
        BY <1>1, <1>9, DoneCall
      <3>2. ASSUME NEW d \in DOMAIN calls'
            PROVE  Within(calls'[d], tree'[n]) \/ Apart(calls'[d], tree'[n])
        BY <1>6, <1>ranges, <2>1 DEF Within, Apart, Before
      <3> QED
        BY <1>2, <1>6, <1>8, <2>1, <3>1, <3>2 DEF Span
    <2>2. CASE n \in DOMAIN tree
      <3>1. /\ tree'[n] = tree[n] /\ tree[n].begin \in Nat /\ tree[n].end \in Nat
            /\ tree[n].begin <= tree[n].end /\ tree[n].end < Len(tris)
            /\ \A i \in Span(tree[n]) : Covers(tree[n].box, Shape(Tri(i)))
            /\ \A c \in DOMAIN calls : Within(calls[c], tree[n]) \/ Apart(calls[c], tree[n])
        BY <1>6, <2>2 DEF TreeInv, NodesCover, TypeOK, TreeTypes, Nodes
      <3>2. Within(Call, tree[n]) \/ Apart(Call, tree[n])
        BY <1>1, <3>1, DoneCall
      <3>3. ASSUME NEW i \in Span(tree[n])
            PROVE  Covers(tree[n].box, Shape(tris'[i + 1]))
        <4>1. i \in 0 .. Len(tris) - 1
          BY <1>2, <3>1 DEF Span
        <4>2. CASE i \notin Span(Call)
          BY <1>9, <3>1, <4>1, <4>2
        <4>3. CASE i \in Span(Call)
          <5>1. Span(Call) \subseteq Span(tree[n])
            BY <1>2, <3>1, <3>2, <4>3 DEF Span, Within, Apart, Before
          <5> QED
            BY <1>9, <3>1, <4>3, <5>1
        <4> QED
          BY <4>2, <4>3
      <3>4. ASSUME NEW d \in DOMAIN calls'
            PROVE  Within(calls'[d], tree[n]) \/ Apart(calls'[d], tree[n])
        <4>1. CASE Within(calls'[d], Call)
          BY <1>2, <1>types, <3>1, <3>2, <4>1 DEF Within, Apart, Before
        <4> QED
          BY <1>ranges, <3>1, <4>1
      <3> QED
        BY <1>8, <3>1, <3>3, <3>4 DEF Span
    <2> QED
      BY <1>6, <2>1, <2>2
  <1>17. LeavesComplete'
    <2> SUFFICES ASSUME NEW n \in DOMAIN tree', tree'[n].list # <<>>
                 PROVE  /\ \A d \in DOMAIN calls' : Apart(calls'[d], tree'[n])
                        /\ \A i \in tree'[n].begin .. tree'[n].end :
                             \E k \in DOMAIN tree'[n].list : tree'[n].list[k] = tris'[i + 1]
      BY <1>1 DEF LeavesComplete, Span, Tri, Apart, Before
    <2>1. n \in DOMAIN tree /\ tree'[n] = tree[n]
      BY <1>6
    <2>2. /\ tree[n].begin \in Nat /\ tree[n].end \in Nat /\ tree[n].end < Len(tris)
          /\ \A i \in Span(tree[n]) : \E k \in DOMAIN tree[n].list : tree[n].list[k] = Tri(i)
          /\ \A c \in DOMAIN calls : Apart(calls[c], tree[n])
      BY <2>1 DEF TreeInv, LeavesComplete, NodesCover, TypeOK, TreeTypes, Nodes
    <2>3. Apart(Call, tree[n])
      BY <1>1, <2>2, DoneCall
    <2>4. ASSUME NEW d \in DOMAIN calls'
          PROVE  Apart(calls'[d], tree[n])
      <3>1. CASE Within(calls'[d], Call)
        BY <1>2, <1>types, <2>2, <2>3, <3>1 DEF Within, Apart, Before
      <3> QED
        BY <1>ranges, <2>2, <3>1
    <2>5. ASSUME NEW i \in Span(tree[n])
          PROVE  tris'[i + 1] = Tri(i)
      <3>1. i \in 0 .. Len(tris) - 1 /\ i \notin Span(Call)
        BY <1>2, <2>2, <2>3 DEF Span, Apart, Before
      <3> QED
        BY <1>9, <3>1
    <2> QED
      BY <2>1, <2>2, <2>4, <2>5 DEF Span
  <1>18. InnerSplit'
    <2> SUFFICES ASSUME NEW n \in DOMAIN tree', tree'[n].list = <<>>
                 PROVE  (\E m \in Span(tree[n]) :
                           /\ m = (tree[n].begin + tree[n].end) \div 2
                           /\ Placed(2 * n, tree[n].begin, m)
                           /\ Placed(2 * n + 1, m + 1, tree[n].end))'
      BY DEF InnerSplit
    <2>1. CASE n = Call.node
      <3>1. mid \in Span(tree[n])'
        BY <1>2, <1>3, <1>6, <2>1 DEF Span
      <3> QED
        BY <1>mid, <1>5, <1>6, <2>1, <3>1 DEF Placed
    <2>2. CASE n \in DOMAIN tree
      <3>1. tree'[n] = tree[n]
        BY <1>6, <2>2
      <3>2. PICK m \in Span(tree[n]), b \in {tree[n].begin}, e \in {tree[n].end} :
               m = (b + e) \div 2 /\ Placed(2 * n, b, m) /\ Placed(2 * n + 1, m + 1, e)
        BY <2>2, <3>1 DEF TreeInv, InnerSplit
      <3>3. Placed(2 * n, b, m)' /\ Placed(2 * n + 1, m + 1, e)'
        BY <1>7, <3>2
      <3>4. m \in Span(tree[n])' /\ b = tree'[n].begin /\ e = tree'[n].end
        BY <3>1, <3>2 DEF Span
      <3> QED
        BY <3>2, <3>3, <3>4 DEF Placed
    <2> QED
      BY <1>6, <2>1, <2>2
  <1>19. Numbered'
    <2>1. \A n \in DOMAIN tree' : HasParent(n)'
      BY <1>1, <1>6, DoneCall DEF TreeInv, Numbered
    <2>2. ASSUME NEW n \in {2 * Call.node, 2 * Call.node + 1}
          PROVE  /\ n \in Nat /\ n # 1 /\ n # Call.node /\ n \div 2 = Call.node
                 /\ ~HasParent(n) /\ HasParent(n)' /\ n \notin DOMAIN tree'
      <3>1. n \in Nat /\ n # 1 /\ n # Call.node /\ n \div 2 = Call.node
        BY <1>2
      <3>2. ~HasParent(n)
        BY <1>1, <3>1, DoneCall DEF HasParent
      <3>3. HasParent(n)'
        BY <1>6, <3>1 DEF HasParent
      <3>4. n \notin DOMAIN tree
        BY <3>2 DEF TreeInv, Numbered
      <3> QED
        BY <1>6, <3>1, <3>2, <3>3, <3>4
    <2>3. ASSUME NEW d \in DOMAIN calls', d < 3
          PROVE  /\ calls'[d].node = 2 * Call.node + d - 1
                 /\ calls'[d].node \in {2 * Call.node, 2 * Call.node + 1}
      <3>1. d = 1 \/ d = 2
        BY <1>5, <2>3
      <3> QED
        BY <1>2, <1>5, <3>1
    <2>4. ASSUME NEW d \in DOMAIN calls', d >= 3
          PROVE  /\ d - 1 \in DOMAIN calls /\ calls'[d] = calls[d - 1]
                 /\ HasParent(calls'[d].node) /\ HasParent(calls[d].node)'
                 /\ calls'[d].node \notin DOMAIN tree'
      <3>1. d - 1 \in DOMAIN calls /\ d - 1 # 1 /\ calls'[d] = calls[d - 1]
        BY <1>5, <2>4
      <3>2. HasParent(calls[d - 1].node) /\ calls[d - 1].node \notin DOMAIN tree
        BY <3>1 DEF TreeInv, Numbered
      <3>3. calls[d - 1].node # Call.node
        BY <1>1, <3>1, DoneCall
      <3> QED
        BY <1>6, <3>1, <3>2, <3>3
    <2>5. ASSUME NEW c \in DOMAIN calls'
          PROVE  HasParent(calls[c].node)' /\ calls'[c].node \notin DOMAIN tree'
      <3>1. CASE c < 3
        <4>1. PICK n \in {2 * Call.node, 2 * Call.node + 1} : calls'[c].node = n
          BY <2>3, <3>1
        <4>2. HasParent(n)' /\ n \notin DOMAIN tree'
          BY <2>2
        <4> QED
          BY <4>1, <4>2 DEF HasParent
      <3>2. CASE c >= 3
        BY <2>4, <3>2
      <3> QED
        BY <1>5, <3>1, <3>2
    <2>6. ASSUME NEW c \in DOMAIN calls', NEW d \in DOMAIN calls', calls'[d].node = calls'[c].node
          PROVE  d = c
      <3>1. c \in Nat /\ d \in Nat
        BY <1>5
      <3>2. CASE c < 3 /\ d < 3
        BY <1>2, <2>3, <2>6, <3>1, <3>2
      <3>3. CASE c >= 3 /\ d >= 3
        BY <2>4, <2>6, <3>1, <3>3 DEF TreeInv, Numbered
      <3>4. CASE c < 3 /\ d >= 3
        BY <2>2, <2>3, <2>4, <2>6, <3>4
      <3>5. CASE c >= 3 /\ d < 3
        BY <2>2, <2>3, <2>4, <2>6, <3>5
      <3> QED
        BY <3>1, <3>2, <3>3, <3>4, <3>5
    <2> QED
      BY <2>1, <2>5, <2>6 DEF Numbered
  <1>20. RootPlaced'
    <2>1. Placed(1, 0, LastIndex)
      BY <1>1 DEF TreeInv, RootPlaced
    <2>2. LastIndex' = LastIndex
      BY <1>2, <1>8 DEF LastIndex
    <2>3. Placed(1, 0, LastIndex)'
      BY <1>7, <2>1, <2>2
    <2> QED
      BY <2>3 DEF RootPlaced
  <1> QED
    BY <1>12, <1>13, <1>14, <1>15, <1>16, <1>17, <1>18, <1>19, <1>20 DEF TreeInv

-----------------------------------------------------------------------------
(* The theorems.                                                           *)

LEMMA NextIInv == ASSUME IInv, [Next]_vars PROVE IInv'
  <1>1. CASE AddMesh
    BY <1>1, AddMeshStep
  <1>2. CASE Building
    BY <1>2, BuildStep, GatherStep, BuildRootStep, ExpandStep, ReadPastEndStep, MakeLeafStep,
       SplitStep DEF Building
  <1>3. CASE Ask
    BY <1>3, AskStep
  <1>4. CASE Traversing
    BY <1>4, PruneStep, EnterLeafStep, DescendStep, MissStep, BlockedStep, RecordStep,
       AnswerStep, ReturnStep DEF Traversing
  <1>5. CASE UNCHANGED vars
    <2>1. UNCHANGED <<pc, meshes, tris, gathered, calls, bbox, index, tree>>
      BY <1>5 DEF vars, build
    <2>2. UNCHANGED <<query, shadowRay, maxt, its, intersected, stack, scan>>
      BY <1>5 DEF vars, traversal
    <2>3. TriInfos' = TriInfos
      BY <2>1 DEF TriInfos
    <2>4. TypeOK' /\ Phases'
      BY <2>1, <2>2, <2>3 DEF IInv, TreeInv, TypeOK, TreeTypes, QueryTypes, Nodes, Phases
    <2>5. AllGathered' /\ CallsOrdered' /\ NodesCover' /\ LeavesComplete'
      BY <2>1, <2>3 DEF IInv, TreeInv, AllGathered, CallsOrdered, NodesCover, LeavesComplete,
         Before, Apart, Within, Span, Shape, Tri
    <2>6. LoopCovers' /\ InnerSplit' /\ Numbered' /\ RootPlaced'
      BY <2>1 DEF IInv, TreeInv, LoopCovers, InnerSplit, Numbered, RootPlaced, HasParent,
         Placed, Span, Shape, Tri, LastIndex
    <2>7. Hits' = Hits /\ Pending' = Pending
      BY <2>1, <2>2, <2>3 DEF Hits, Pending, Below, Span, Shape, Tri
    <2>8. NothingSkipped' /\ ExtentAgrees' /\ AnswerSound'
      BY <2>1, <2>2, <2>7 DEF IInv, NothingSkipped, ExtentAgrees, AnswerSound
    <2> QED
      BY <2>4, <2>5, <2>6, <2>8 DEF IInv, TreeInv
  <1> QED
    BY <1>1, <1>2, <1>3, <1>4, <1>5 DEF Next

\* The inductive invariant: at every moment the pending calls of buildBvhTree own
\* what they will still sort, the nodes that exist cover their ranges, and a query
\* has every hit that could improve its answer still ahead.
THEOREM Invariance == Spec => []IInv
  BY InitIInv, NextIInv, PTL DEF Spec

\* The types of Accel's state, for every scene: among them, that the triangles a
\* query looks at are triangles of added meshes and the nodes it visits exist.
THEOREM TypeCorrect == Spec => []TypeOK
  <1>1. IInv => TypeOK
    BY DEF IInv, TreeInv
  <1> QED
    BY <1>1, Invariance, PTL

\* Accel::rayIntersect finds what a loop over all triangles finds, for every scene,
\* every ray, shadow or not, every size of the leaves and every outcome of the sorts.
THEOREM QueriesExact == Spec => []NearestHit
  <1>1. ASSUME IInv PROVE NearestHit
    <2> SUFFICES ASSUME pc = "answered"
                 PROVE  /\ intersected <=> Hits # {}
                        /\ intersected /\ ~shadowRay =>
                             /\ <<its.tri, its.t>> \in Hits
                             /\ \A h \in Hits : its.t <= h[2]
      BY DEF NearestHit
    <2>1. Pending = {}
      BY <1>1 DEF IInv, TreeInv, Phases, Pending
    <2>2. \A h \in Hits : (shadowRay /\ intersected) \/ ~(h[2] < its.t)
      BY <1>1, <2>1 DEF IInv, NothingSkipped
    <2>3. its.t \in Int /\ Infinity \in Int /\ \A h \in Hits : h[2] \in Int /\ h[2] < Infinity
      BY <1>1, InfinityAssumption DEF IInv, TreeInv, TypeOK, QueryTypes, Hits, Times
    <2>4. intersected => Hits # {}
      BY <1>1 DEF IInv, AnswerSound
    <2>5. ~intersected => Hits = {}
      BY <1>1, <2>2, <2>3 DEF IInv, AnswerSound
    <2>6. intersected /\ ~shadowRay => <<its.tri, its.t>> \in Hits
      BY <1>1 DEF IInv, AnswerSound
    <2> QED
      BY <2>2, <2>3, <2>4, <2>5, <2>6
  <1> QED
    BY <1>1, Invariance, PTL

\* Once a mesh with a triangle is gathered, the vector of triangles is not empty.
SomeTriangles ==
    /\ pc # "adding" => Len(meshes) >= MinMeshes
    /\ gathered > 0 => tris # <<>>
    /\ BuildInBounds

LEMMA SomeTrianglesStep ==
    ASSUME IInv, SomeTriangles, MinMeshes >= 1, \A mesh \in MeshChoices : mesh # <<>>, Next
    PROVE  SomeTriangles'
  <1> USE DEF SomeTriangles, BuildInBounds
  <1>1. /\ meshes \in Seq(MeshChoices) /\ gathered \in 0 .. Len(meshes) /\ MinMeshes \in Nat
        /\ tris \in Seq(TriInfos) /\ calls \in Seq(Calls) /\ Len(meshes) \in Nat
    BY MeshCountAssumption DEF IInv, TreeInv, TypeOK, TreeTypes
  <1>2. pc = "building" => tris # <<>> /\ calls # <<>> /\ Head(calls).end < Len(tris)
    <2> SUFFICES ASSUME pc = "building"
                 PROVE  tris # <<>> /\ calls # <<>> /\ Head(calls).end < Len(tris)
      OBVIOUS
    <2>1. gathered > 0
      BY <1>1 DEF IInv, TreeInv, Phases
    <2>2. calls # <<>>
      BY DEF IInv, TreeInv, LoopCovers
    <2>3. 1 \in DOMAIN calls /\ calls[1] = Head(calls)
      BY <1>1, <2>2
    <2> QED
      BY <2>1, <2>2, <2>3 DEF IInv, TreeInv, CallsOrdered
  <1>3. CASE AddMesh
    BY <1>3 DEF AddMesh
  <1>4. CASE Build
    BY <1>4 DEF Build, build
  <1>5. CASE Gather
    <2> DEFINE m == gathered + 1
               more == [f \in DOMAIN meshes[m] |-> [mesh |-> m, f |-> f]]
    <2>1. meshes[m] \in Seq(Triangles) /\ meshes[m] # <<>>
      BY <1>1, <1>5, MeshesAssumption DEF Gather
    <2>2. 1 \in DOMAIN more /\ more \in Seq(Calls \cup {more[f] : f \in DOMAIN more})
      BY <2>1
    <2>3. tris' = tris \o more
      BY <1>5 DEF Gather
    <2> HIDE DEF more, m
    <2>4. tris' # <<>>
      BY <1>1, <2>2, <2>3
    <2> QED
      BY <1>5, <2>4 DEF Gather
  <1>6. CASE BuildRoot
    BY <1>6 DEF BuildRoot
  <1>7. CASE Expand
    BY <1>7 DEF Expand
  <1>8. CASE ReadPastEnd
    <2>1. index \in Nat /\ Len(tris) \in Nat /\ Head(calls).end \in Nat
      <3>1. Head(calls) \in Calls
        BY <1>1, <1>2, <1>8 DEF ReadPastEnd
      <3> QED
        BY <1>1, <3>1 DEF Calls, IInv, TreeInv, TypeOK, TreeTypes
    <2> QED
      BY <1>2, <1>8, <2>1 DEF ReadPastEnd
  <1>9. CASE MakeLeaf
    <2>1. /\ UNCHANGED <<meshes, tris, gathered>> /\ pc # "adding"
          /\ pc' # "adding" /\ pc' # "undefined"
      BY <1>9 DEF MakeLeaf, BoxDone
    <2> QED
      BY <2>1
  <1>10. CASE Split
    <2> DEFINE b == Call.begin  e == Call.end  axis == LargestAxis(bbox)  s == tris'
    <2>1. b \in Nat /\ e \in Nat /\ e < Len(tris) /\ s \in SortedRange(b, e, axis)
      BY <1>10, DoneCall DEF Split, Call
    <2> HIDE DEF b, e, axis, s
    <2>2. Len(s) = Len(tris) /\ s \in Seq(TriInfos)
      BY <1>1, <2>1, SortedRangeFacts
    <2>3. tris # <<>> => s # <<>>
      BY <1>1, <2>2
    <2>4. (tris # <<>> => tris' # <<>>) /\ UNCHANGED <<pc, meshes, gathered>>
      BY <1>10, <2>3 DEF Split, s
    <2> QED
      BY <2>4
  <1>11. CASE Ask \/ Traversing
    <2>1. pc # "adding" /\ UNCHANGED build /\ pc' # "undefined"
      BY <1>11 DEF Ask, Traversing, Prune, EnterLeaf, Descend, Miss, Blocked, Record, Answer,
         Return, NextNode, NextTriangle
    <2> QED
      BY <2>1 DEF build
  <1> QED
    BY <1>3, <1>4, <1>5, <1>6, <1>7, <1>8, <1>9, <1>10, <1>11 DEF Next, Building

\* buildBvhTree reads within its vector for every scene whose meshes have triangles and
\* that has a mesh; without either, uint32_t(tris.size() - 1) wraps (run accel_empty).
THEOREM BuildStaysInBounds ==
    ASSUME MinMeshes >= 1, \A mesh \in MeshChoices : mesh # <<>>
    PROVE  Spec => []BuildInBounds
  <1>1. Init => SomeTriangles
    BY DEF Init, SomeTriangles, BuildInBounds
  <1>2. IInv /\ SomeTriangles /\ [Next]_vars => SomeTriangles'
    <2> SUFFICES ASSUME IInv, SomeTriangles, [Next]_vars PROVE SomeTriangles'
      OBVIOUS
    <2>1. CASE UNCHANGED vars
      BY <2>1 DEF vars, build, SomeTriangles, BuildInBounds
    <2> QED
      BY <2>1, SomeTrianglesStep
  <1>3. SomeTriangles => BuildInBounds
    BY DEF SomeTriangles
  <1> QED
    BY <1>1, <1>2, <1>3, Invariance, PTL DEF Spec

\* The call at hand ends within tris, unless there are no triangles.
LEMMA OverrunStep ==
    ASSUME IInv, Next, pc' = "undefined"
    PROVE  tris' = <<>>
  <1>1. /\ tris \in Seq(TriInfos) /\ calls \in Seq(Calls)
    BY DEF IInv, TreeInv, TypeOK, TreeTypes
  <1>2. ReadPastEnd
    BY DEF Next, AddMesh, Building, Build, Gather, BuildRoot, Expand, MakeLeaf, Split, BoxDone,
       Ask, Traversing, NextNode, NextTriangle, Prune, EnterLeaf, Descend, Miss, Blocked, Record,
       Answer, Return
  <1>3. calls # <<>> /\ 1 \in DOMAIN calls /\ calls[1] = Head(calls) /\ Head(calls) \in Calls
    BY <1>1, <1>2 DEF ReadPastEnd, IInv, TreeInv, LoopCovers
  <1>4. tris # <<>> => Head(calls).end < Len(tris)
    BY <1>3 DEF IInv, TreeInv, CallsOrdered
  <1>5. index \in Nat /\ Len(tris) \in Nat /\ Head(calls).end \in Nat
    BY <1>1, <1>3 DEF Calls, IInv, TreeInv, TypeOK, TreeTypes
  <1>6. tris = <<>> /\ tris' = tris
    BY <1>2, <1>4, <1>5 DEF ReadPastEnd, build
  <1> QED
    BY <1>6

\* buildBvhTree overruns tris in a scene without triangles only, whatever the meshes,
\* the order of the sorts and the size of the leaves.
THEOREM OverrunOnlyInEmptyScene == Spec => []OverrunOnlyWhenEmpty
  <1>1. Init => OverrunOnlyWhenEmpty
    BY DEF Init, OverrunOnlyWhenEmpty
  <1>2. IInv /\ OverrunOnlyWhenEmpty /\ [Next]_vars => OverrunOnlyWhenEmpty'
    BY OverrunStep DEF vars, build, OverrunOnlyWhenEmpty
  <1> QED
    BY <1>1, <1>2, Invariance, PTL DEF Spec

-----------------------------------------------------------------------------
(* The shape of the tree.                                                  *)

\* What an inner node was cut into, once both children exist.
LEMMA Siblings ==
    ASSUME TreeInv, NEW n \in DOMAIN tree, 2 * n \in DOMAIN tree, 2 * n + 1 \in DOMAIN tree
    PROVE  \E mid \in Span(tree[n]) :
             /\ mid = (tree[n].begin + tree[n].end) \div 2
             /\ tree[2 * n].begin = tree[n].begin /\ tree[2 * n].end = mid
             /\ tree[2 * n + 1].begin = mid + 1 /\ tree[2 * n + 1].end = tree[n].end
  <1> USE DEF TreeInv
  <1>1. n \in Nat \ {0} /\ 2 * n # 1 /\ (2 * n) \div 2 = n
    BY DEF TypeOK, TreeTypes
  <1>2. tree[n].list = <<>>
    BY <1>1 DEF Numbered, HasParent
  <1>3. \A c \in DOMAIN calls : calls[c].node \notin DOMAIN tree
    BY DEF Numbered
  <1>4. \A m \in DOMAIN tree : \A b, e : Placed(m, b, e) => tree[m].begin = b /\ tree[m].end = e
    BY <1>3 DEF Placed
  <1> QED
    BY <1>2, <1>4 DEF InnerSplit

\* buildBvhTree cuts every range in halves that differ by one triangle at most, so
\* that the recursion is as shallow as it can be, for every scene.
THEOREM HalvesBalanced == Spec => []TreeBalanced
  <1>1. ASSUME TreeInv PROVE TreeBalanced
    <2> SUFFICES ASSUME NEW n \in DOMAIN tree, 2 * n \in DOMAIN tree, 2 * n + 1 \in DOMAIN tree
                 PROVE  (tree[2 * n].end - tree[2 * n].begin)
                          - (tree[2 * n + 1].end - tree[2 * n + 1].begin) \in 0 .. 1
      BY DEF TreeBalanced
    <2>1. PICK mid \in Span(tree[n]) :
            /\ mid = (tree[n].begin + tree[n].end) \div 2
            /\ tree[2 * n].begin = tree[n].begin /\ tree[2 * n].end = mid
            /\ tree[2 * n + 1].begin = mid + 1 /\ tree[2 * n + 1].end = tree[n].end
      BY <1>1, Siblings
    <2>2. PICK b, e \in Nat : b = tree[n].begin /\ e = tree[n].end
      BY <1>1 DEF TreeInv, TypeOK, TreeTypes, Nodes
    <2>3. mid \in Int /\ mid = (b + e) \div 2
      BY <2>1, <2>2 DEF Span
    <2>4. (mid - b) - (e - (mid + 1)) \in 0 .. 1
      BY <2>2, <2>3
    <2> QED
      BY <2>1, <2>2, <2>4
  <1>2. IInv => TreeBalanced
    BY <1>1 DEF IInv
  <1> QED
    BY <1>2, Invariance, PTL

-----------------------------------------------------------------------------
(* The boxes.                                                              *)

\* A call goes over part of the range of the node that its own will hang from.
LEMMA ParentRange ==
    ASSUME TreeInv, NEW n \in DOMAIN tree, NEW c \in DOMAIN calls, calls[c].node \div 2 = n
    PROVE  Within(calls[c], tree[n])
  <1> USE DEF TreeInv
  <1> DEFINE m == calls[c].node
  <1>1. m \in Nat \ {0} /\ n \in Nat \ {0} /\ tree[n].begin \in Nat /\ tree[n].end \in Nat
    <2>1. calls \in Seq(Calls) /\ tree[n] \in Nodes /\ n \in Nat \ {0}
      BY DEF TypeOK, TreeTypes
    <2>2. calls[c] \in Calls
      BY <2>1
    <2> QED
      BY <2>1, <2>2 DEF Calls, Nodes
  <1>2. m # 1 /\ (m = 2 * n \/ m = 2 * n + 1)
    BY <1>1
  <1>3. tree[n].list = <<>> /\ m \notin DOMAIN tree
    BY <1>2 DEF Numbered, HasParent
  <1>4. PICK mid \in Span(tree[n]) : Placed(2 * n, tree[n].begin, mid)
                                    /\ Placed(2 * n + 1, mid + 1, tree[n].end)
    BY <1>3 DEF InnerSplit
  <1>5. ASSUME NEW b, NEW e, Placed(m, b, e)
        PROVE  calls[c].begin = b /\ calls[c].end = e
    <2>1. PICK d \in DOMAIN calls : calls[d] = [node |-> m, begin |-> b, end |-> e]
      BY <1>3, <1>5 DEF Placed
    <2>2. d = c
      BY <2>1 DEF Numbered
    <2> QED
      BY <2>1, <2>2
  <1>6. \/ calls[c].begin = tree[n].begin /\ calls[c].end = mid
        \/ calls[c].begin = mid + 1 /\ calls[c].end = tree[n].end
    BY <1>2, <1>4, <1>5
  <1> QED
    BY <1>1, <1>6 DEF Within, Span

\* A box that covers a triangle also encloses another one that grows by it.
LEMMA ExpandedEnclosed ==
    ASSUME NEW box \in Boxes, NEW other \in Boxes, NEW tri \in Triangles,
           Encloses(box, other), Covers(box, tri)
    PROVE  Encloses(box, Expanded(other, BoxOf(tri)))
  <1> SUFFICES ASSUME NEW a \in Axes
               PROVE  /\ box.min[a] <= Least(other.min[a], BoxOf(tri).min[a])
                      /\ Greatest(other.max[a], BoxOf(tri).max[a]) <= box.max[a]
    BY DEF Encloses, Expanded
  <1>1. /\ box.min[a] <= other.min[a] /\ box.min[a] <= BoxOf(tri).min[a]
        /\ other.max[a] <= box.max[a] /\ BoxOf(tri).max[a] <= box.max[a]
    BY DEF Encloses, Covers
  <1> QED
    BY <1>1 DEF Least, Greatest

LEMMA ExpandedCapped ==
    ASSUME NEW box \in Boxes, NEW tri \in Triangles, Capped(box)
    PROVE  Capped(Expanded(box, BoxOf(tri)))
  <1> DEFINE new == Expanded(box, BoxOf(tri))
  <1> SUFFICES ASSUME NEW a \in Axes
               PROVE  new.min[a] <= Infinity /\ -Infinity <= new.max[a]
    BY DEF Capped
  <1>1. /\ new.min[a] = Least(box.min[a], BoxOf(tri).min[a])
        /\ new.max[a] = Greatest(box.max[a], BoxOf(tri).max[a])
    BY DEF Expanded
  <1>2. /\ box.min[a] <= Infinity /\ -Infinity <= box.max[a]
        /\ box.min[a] \in Int /\ box.max[a] \in Int /\ Infinity \in Int
    BY InfinityAssumption DEF Capped, Boxes, Points
  <1>3. BoxOf(tri).min[a] \in Int /\ BoxOf(tri).max[a] \in Int
    <2>1. tri.at[a] \in Int /\ tri.along[a] \in -1 .. 1 /\ tri.len \in Nat
      BY DEF Triangles, Points, Directions
    <2>2. tri.at[a] + tri.len * tri.along[a] \in Int
      BY <2>1, Between
    <2> QED
      BY <2>1, <2>2 DEF BoxOf, End, On, Least, Greatest
  <1> QED
    BY <1>1, <1>2, <1>3 DEF Least, Greatest

LEMMA EmptyBoxEnclosed ==
    /\ Capped(EmptyBox)
    /\ \A box : Capped(box) => Encloses(box, EmptyBox)
  BY InfinityAssumption DEF Capped, Encloses, EmptyBox

LEMMA BoxFrame ==
    ASSUME BoxInv, UNCHANGED <<bbox, tree>>, pc' = "building" => pc = "building" /\ calls' = calls
    PROVE  BoxInv'
  BY DEF BoxInv, BoxesNested, Capped, Encloses, Axes

LEMMA ExpandBox == ASSUME IInv, BoxInv, Expand PROVE BoxInv'
  <1> DEFINE tri == Shape(Tri(index))
  <1>1. /\ pc = "building" /\ index <= Head(calls).end /\ index < Len(tris)
        /\ bbox' = Expanded(bbox, BoxOf(tri)) /\ UNCHANGED <<calls, tree>>
    BY DEF Expand
  <1>2. TypeOK /\ bbox \in Boxes /\ index \in Nat /\ tris \in Seq(TriInfos) /\ calls \in Seq(Calls)
    BY DEF IInv, TreeInv, TypeOK, TreeTypes
  <1>3. tri \in Triangles
    BY <1>1, <1>2, ShapeType DEF Tri
  <1>4. /\ calls # <<>> /\ 1 \in DOMAIN calls /\ calls[1] = Head(calls) /\ calls[1] \in Calls
        /\ Head(calls).begin <= index /\ Head(calls).end \in Nat /\ Head(calls).begin \in Nat
    <2>1. calls # <<>>
      BY <1>1 DEF IInv, TreeInv, LoopCovers
    <2>2. 1 \in DOMAIN calls /\ calls[1] = Head(calls) /\ calls[1] \in Calls
      BY <1>2, <2>1
    <2>3. Head(calls).end \in Nat /\ Head(calls).begin \in Nat
      BY <2>2 DEF Calls
    <2> QED
      BY <1>1, <2>1, <2>2, <2>3 DEF IInv, TreeInv, LoopCovers
  <1>5. ASSUME NEW n \in DOMAIN tree, Head(calls).node \div 2 = n
        PROVE  Encloses(tree[n].box, bbox')
    <2>1. Within(calls[1], tree[n])
      BY <1>4, <1>5, ParentRange DEF IInv
    <2>2. tree[n].begin \in Nat /\ tree[n].end \in Nat /\ tree[n].box \in Boxes
      BY <1>2 DEF TypeOK, TreeTypes, Nodes
    <2>3. index \in Span(tree[n])
      BY <1>1, <1>2, <1>4, <2>1, <2>2 DEF Within, Span, Calls
    <2>4. Covers(tree[n].box, tri)
      BY <2>3 DEF IInv, TreeInv, NodesCover
    <2>5. Encloses(tree[n].box, bbox)
      BY <1>1, <1>5 DEF BoxInv
    <2> HIDE DEF tri
    <2> QED
      BY <1>1, <1>2, <1>3, <2>2, <2>4, <2>5, ExpandedEnclosed
  <1>6. Capped(bbox')
    BY <1>1, <1>2, <1>3, ExpandedCapped DEF BoxInv
  <1> QED
    BY <1>1, <1>5, <1>6 DEF BoxInv, BoxesNested, Capped, Encloses, Axes

\* A step that makes a node: it has a parent, and no children yet.
LEMMA NodeBox ==
    ASSUME IInv, BoxInv, BoxDone, NEW list \in Seq(TriInfos), tree' = WithNode(Call, list),
           bbox' = EmptyBox, UNCHANGED meshes
    PROVE  BoxInv'
  <1>1. /\ DOMAIN tree' = DOMAIN tree \cup {Call.node}
        /\ \A n \in DOMAIN tree : n # Call.node /\ tree'[n] = tree[n]
        /\ tree'[Call.node].box = bbox
    BY NewNode
  <1>2. Call.node \in Nat \ {0} /\ Call.node \notin DOMAIN tree
    BY DoneCall
  <1>3. Capped(bbox') /\ \A n \in DOMAIN tree' : Capped(tree'[n].box)
    BY <1>1, EmptyBoxEnclosed DEF BoxInv
  <1>4. ASSUME NEW n \in DOMAIN tree', NEW child \in DOMAIN tree', child \div 2 = n
        PROVE  Encloses(tree'[n].box, tree'[child].box)
    <2>1. CASE n \in DOMAIN tree /\ child \in DOMAIN tree
      BY <1>1, <1>4, <2>1 DEF BoxInv, BoxesNested
    <2>2. CASE n \in DOMAIN tree /\ child = Call.node
      BY <1>1, <1>4, <2>2 DEF BoxInv, BoxDone, Call
    <2>3. CASE n = Call.node
      <3>1. child # Call.node /\ child # 1
        BY <1>2, <1>4, <2>3
      <3>2. child \in DOMAIN tree
        BY <1>1, <3>1
      <3> QED
        BY <1>2, <1>4, <2>3, <3>1, <3>2 DEF IInv, TreeInv, Numbered, HasParent
    <2> QED
      BY <1>1, <2>1, <2>2, <2>3
  <1>5. \A n \in DOMAIN tree' : Encloses(tree'[n].box, bbox')
    BY <1>3, EmptyBoxEnclosed
  <1> QED
    BY <1>3, <1>4, <1>5 DEF BoxInv, BoxesNested, Capped, Encloses, Axes

LEMMA BoxStep == ASSUME IInv, BoxInv, [Next]_vars PROVE BoxInv'
  <1>1. CASE UNCHANGED vars
    BY <1>1, BoxFrame DEF vars, build
  <1>2. CASE AddMesh \/ Build \/ Gather \/ ReadPastEnd \/ Ask \/ Traversing
    <2>1. UNCHANGED <<bbox, tree>> /\ pc' # "building"
      BY <1>2 DEF AddMesh, Build, Gather, ReadPastEnd, Ask, Traversing, Prune, EnterLeaf, Descend,
         Miss, Blocked, Record, Answer, Return, NextNode, NextTriangle, build
    <2> QED
      BY <2>1, BoxFrame
  <1>3. CASE BuildRoot
    <2>1. bbox' = EmptyBox /\ DOMAIN tree' = {}
      BY <1>3 DEF BuildRoot, Enter, IInv, TreeInv, Phases
    <2> QED
      BY <2>1, EmptyBoxEnclosed DEF BoxInv, BoxesNested, Capped
  <1>4. CASE Expand
    BY <1>4, ExpandBox
  <1>5. CASE MakeLeaf
    <2> DEFINE list == SubSeq(tris, Call.begin + 1, Call.end + 1)
    <2>1. BoxDone /\ tree' = WithNode(Call, list) /\ bbox' = EmptyBox /\ meshes' = meshes
      BY <1>5 DEF MakeLeaf, Enter, Call
    <2>2. list \in Seq(TriInfos)
      BY <2>1, DoneCall
    <2> QED
      BY <2>1, <2>2, NodeBox
  <1>6. CASE Split
    <2>1. BoxDone /\ tree' = WithNode(Call, <<>>) /\ bbox' = EmptyBox /\ meshes' = meshes
      BY <1>6 DEF Split, Enter, Call
    <2>2. <<>> \in Seq(TriInfos)
      OBVIOUS
    <2> QED
      BY <2>1, <2>2, NodeBox
  <1> QED
    BY <1>1, <1>2, <1>3, <1>4, <1>5, <1>6 DEF Next, Building

\* The box of every node lies in that of its parent: pruning a node of the tree
\* prunes nothing below it that Accel::traverseBvhTree could still have reached.
THEOREM NodesNested == Spec => []BoxesNested
  <1>1. Init => BoxInv
    BY EmptyBoxEnclosed DEF Init, BoxInv, BoxesNested
  <1>2. IInv /\ BoxInv /\ [Next]_vars => BoxInv'
    BY BoxStep
  <1>3. BoxInv => BoxesNested
    BY DEF BoxInv
  <1> QED
    BY <1>1, <1>2, <1>3, Invariance, PTL DEF Spec

-----------------------------------------------------------------------------
(* The leaves.                                                             *)

\* Sorting puts no triangle at two places.
LEMMA SortedRangeDistinct ==
    ASSUME tris \in Seq(TriInfos), NEW b \in Nat, NEW e \in Nat, e < Len(tris), NEW axis,
           NEW s \in SortedRange(b, e, axis),
           \A i, j \in DOMAIN tris : tris[i] = tris[j] => i = j
    PROVE  \A i, j \in DOMAIN s : s[i] = s[j] => i = j
  <1> DEFINE places == b + 1 .. e + 1
  <1>1. PICK p \in Surjection(places, places) :
           s = [i \in DOMAIN tris |-> IF i \in places THEN tris[p[i]] ELSE tris[i]]
    BY DEF SortedRange
  <1>2. IsFiniteSet(places)
    BY FS_Interval
  <1>3. places \subseteq DOMAIN tris
    OBVIOUS
  <1> HIDE DEF places
  <1>4. p \in Injection(places, places)
    BY <1>2, FS_SurjSameCardinalityImpliesInj
  <1>5. p \in [places -> places] /\ \A i, j \in places : p[i] = p[j] => i = j
    BY <1>4 DEF Injection, IsInjective
  <1>6. \A i \in DOMAIN s : s[i] = tris[IF i \in places THEN p[i] ELSE i]
    BY <1>1
  <1>7. DOMAIN s = DOMAIN tris
    BY <1>1
  <1> QED
    BY <1>3, <1>5, <1>6, <1>7

LEMMA TypesOfTree ==
    ASSUME TreeInv
    PROVE  /\ tris \in Seq(TriInfos) /\ Len(tris) \in Nat /\ DOMAIN tris = 1 .. Len(tris)
           /\ gathered \in Nat /\ LastIndex \in Nat
           /\ \A n \in DOMAIN tree : /\ tree[n].begin \in Nat /\ tree[n].end \in Nat
                                     /\ tree[n].begin <= tree[n].end /\ tree[n].end < Len(tris)
           /\ \A c \in DOMAIN calls : calls[c].begin \in Nat /\ calls[c].end \in Nat
  <1>1. tris \in Seq(TriInfos) /\ gathered \in Nat /\ calls \in Seq(Calls)
    BY DEF TreeInv, TypeOK, TreeTypes
  <1>2. LastIndex \in Nat
    BY <1>1, MaxIndexAssumption DEF LastIndex
  <1>3. ASSUME NEW n \in DOMAIN tree
        PROVE  /\ tree[n].begin \in Nat /\ tree[n].end \in Nat
               /\ tree[n].begin <= tree[n].end /\ tree[n].end < Len(tris)
    BY DEF TreeInv, TypeOK, TreeTypes, Nodes, NodesCover
  <1>4. ASSUME NEW c \in DOMAIN calls PROVE calls[c].begin \in Nat /\ calls[c].end \in Nat
    <2>1. calls[c] \in Calls
      BY <1>1
    <2> QED
      BY <2>1 DEF Calls
  <1> QED
    BY <1>1, <1>2, <1>3, <1>4

LEMMA LeafFrame ==
    ASSUME LeafInv, UNCHANGED <<tris, gathered, calls, tree>>,
           pc' = "undefined" \/ pc' \in {"adding", "gathering"}
             \/ pc \in {"building", "ready", "traversing", "answered"}
    PROVE  LeafInv'
  BY DEF LeafInv, GatheredOnce, LeavesExact, PlacesTaken, LastIndex, Span, Apart, Before

LEMMA GatherLeaves == ASSUME IInv, LeafInv, Gather PROVE LeafInv'
  <1> DEFINE m == gathered + 1
             faces == meshes[m]
             more == [f \in DOMAIN faces |-> [mesh |-> m, f |-> f]]
  <1>1. /\ pc' = "gathering" /\ gathered' = m /\ tris' = tris \o more
        /\ DOMAIN tree' = {} /\ gathered \in Nat /\ m \in DOMAIN meshes
        /\ tris \in Seq(TriInfos) /\ faces \in Seq(Triangles)
    BY MeshesAssumption DEF Gather, IInv, TreeInv, Phases, TypeOK, TreeTypes
  <1>2. more \in Seq({more[f] : f \in DOMAIN more}) /\ Len(more) \in Nat
        /\ DOMAIN more = 1 .. Len(more)
    BY <1>1
  <1>3. \A f \in DOMAIN more : more[f].mesh = m /\ more[f].f = f
    OBVIOUS
  <1> HIDE DEF more
  <1>4. ASSUME NEW i \in DOMAIN tris'
        PROVE  \/ i \in DOMAIN tris /\ tris'[i] = tris[i] /\ tris'[i].mesh <= gathered
               \/ /\ i - Len(tris) \in DOMAIN more /\ tris'[i] = more[i - Len(tris)]
                  /\ tris'[i].mesh = m /\ tris'[i].f = i - Len(tris)
    <2>1. \/ i \in DOMAIN tris /\ tris'[i] = tris[i]
          \/ i - Len(tris) \in DOMAIN more /\ tris'[i] = more[i - Len(tris)]
      <3> HIDE DEF m, faces
      <3> QED
        BY <1>1, <1>2
    <2> QED
      BY <1>3, <2>1 DEF LeafInv, GatheredOnce
  <1>5. \A i \in DOMAIN tris : tris[i].mesh \in Nat
    <2>1. \A i \in DOMAIN tris : tris[i] \in TriInfos
      BY <1>1
    <2>2. \A ti \in TriInfos : ti.mesh \in Nat
      BY DEF TriInfos, IInv, TreeInv, TypeOK, TreeTypes
    <2> QED
      BY <2>1, <2>2
  <1>6. DOMAIN tris' \subseteq Nat /\ Len(tris) \in Nat
    BY <1>1, <1>2
  <1>7. \A i \in DOMAIN tris' : tris'[i].mesh <= m
    BY <1>1, <1>4, <1>5
  <1>8. ASSUME NEW i \in DOMAIN tris', NEW j \in DOMAIN tris', tris'[i] = tris'[j]
        PROVE  i = j
    <2>1. CASE i \in DOMAIN tris /\ tris'[i] = tris[i] /\ tris'[i].mesh <= gathered
      <3>1. tris'[j].mesh # m
        BY <1>1, <1>5, <1>8, <2>1
      <3> QED
        BY <1>4, <1>8, <2>1, <3>1 DEF LeafInv, GatheredOnce
    <2>2. CASE tris'[i].mesh = m /\ tris'[i].f = i - Len(tris)
      <3>1. ~(j \in DOMAIN tris /\ tris'[j] = tris[j] /\ tris'[j].mesh <= gathered)
        BY <1>1, <1>5, <1>8, <2>2
      <3>2. tris'[j].f = j - Len(tris)
        BY <1>4, <3>1
      <3> QED
        BY <1>6, <1>8, <2>2, <3>2
    <2> QED
      BY <1>4, <2>1, <2>2
  <1> QED
    BY <1>1, <1>7, <1>8 DEF LeafInv, GatheredOnce, LeavesExact, PlacesTaken

LEMMA RootLeaves == ASSUME IInv, LeafInv, BuildRoot PROVE LeafInv'
  <1>1. /\ calls' = <<[node |-> 1, begin |-> 0, end |-> LastIndex]>> /\ UNCHANGED <<tris, gathered>>
        /\ DOMAIN tree' = {}
    BY DEF BuildRoot, Enter, IInv, TreeInv, Phases
  <1>2. 1 \in DOMAIN calls' /\ Span(calls'[1]) = 0 .. LastIndex
    BY <1>1 DEF Span
  <1>3. 0 .. LastIndex' = 0 .. LastIndex /\ Span(calls'[1]) = Span(calls[1])'
    BY <1>1 DEF LastIndex, Span
  <1>4. PlacesTaken'
    BY <1>2, <1>3 DEF PlacesTaken
  <1> QED
    BY <1>1, <1>4 DEF LeafInv, GatheredOnce, LeavesExact

LEMMA MakeLeafLeaves == ASSUME IInv, LeafInv, MakeLeaf PROVE LeafInv'
  <1> DEFINE b == Call.begin  e == Call.end
             list == SubSeq(tris, b + 1, e + 1)
  <1>1. /\ BoxDone /\ tree' = WithNode(Call, list) /\ calls' = Tail(calls)
        /\ UNCHANGED <<meshes, tris, gathered>> /\ TreeInv
    BY DEF MakeLeaf, Enter, Call, IInv
  <1>2. /\ calls \in Seq(Calls) /\ calls # <<>> /\ calls[1] = Call /\ 1 \in DOMAIN calls
        /\ b \in Nat /\ e \in Nat /\ b <= e /\ e < Len(tris) /\ tris \in Seq(TriInfos)
    BY <1>1, DoneCall
  <1> HIDE DEF b, e
  <1>3. /\ list \in Seq(TriInfos) /\ list # <<>> /\ Len(list) = e - b + 1
        /\ \A k \in DOMAIN list : list[k] = tris[b + k]
    BY <1>2
  <1> HIDE DEF list
  <1>4. /\ DOMAIN tree' = DOMAIN tree \cup {Call.node}
        /\ \A n \in DOMAIN tree : n # Call.node /\ tree'[n] = tree[n]
        /\ tree'[Call.node].list = list
        /\ tree'[Call.node].begin = b /\ tree'[Call.node].end = e
    BY <1>1, <1>3, NewNode DEF b, e
  <1>5. \A c \in DOMAIN calls : c # 1 => c - 1 \in DOMAIN calls' /\ calls'[c - 1] = calls[c]
    BY <1>1, <1>2
  <1>6. ASSUME NEW n \in DOMAIN tree, tree[n].list # <<>>
        PROVE  e < tree[n].begin \/ tree[n].end < b
    BY <1>1, <1>2, <1>6 DEF TreeInv, LeavesComplete, Apart, Before, b, e
  <1>7. LeavesExact'
    <2> SUFFICES ASSUME NEW n \in DOMAIN tree', tree'[n].list # <<>>
                 PROVE  /\ Len(tree'[n].list) = tree'[n].end - tree'[n].begin + 1
                        /\ \A k \in DOMAIN tree'[n].list : tree'[n].list[k] = tris'[tree'[n].begin + k]
                        /\ \A m \in DOMAIN tree' : tree'[m].list # <<>> /\ m # n =>
                             tree'[m].end < tree'[n].begin \/ tree'[n].end < tree'[m].begin
      BY DEF LeavesExact, Apart, Before
    <2>1. CASE n = Call.node
      BY <1>1, <1>3, <1>4, <1>6, <2>1
    <2>2. CASE n \in DOMAIN tree
      BY <1>1, <1>4, <1>6, <2>2 DEF LeafInv, LeavesExact, Apart, Before
    <2> QED
      BY <1>4, <2>1, <2>2
  <1>8. PlacesTaken'
    <2> SUFFICES ASSUME NEW i \in 0 .. LastIndex
                 PROVE  \/ \E c \in DOMAIN calls' : i \in calls'[c].begin .. calls'[c].end
                        \/ \E n \in DOMAIN tree' : /\ tree'[n].list # <<>>
                                                   /\ i \in tree'[n].begin .. tree'[n].end
      BY <1>1 DEF PlacesTaken, LastIndex, Span
    <2>1. pc = "building"
      BY <1>1 DEF BoxDone
    <2>2. ASSUME NEW c \in DOMAIN calls, i \in Span(calls[c])
          PROVE  \/ \E d \in DOMAIN calls' : i \in calls'[d].begin .. calls'[d].end
                 \/ i \in b .. e
      BY <1>2, <1>5, <2>2 DEF Span, b, e
    <2>3. i \in b .. e => i \in tree'[Call.node].begin .. tree'[Call.node].end
      BY <1>4
    <2> QED
      BY <1>3, <1>4, <2>1, <2>2, <2>3 DEF LeafInv, PlacesTaken, Span
  <1>9. GatheredOnce'
    BY <1>1 DEF LeafInv, GatheredOnce
  <1> QED
    BY <1>7, <1>8, <1>9 DEF LeafInv

LEMMA SplitLeaves == ASSUME IInv, LeafInv, Split PROVE LeafInv'
  <1> DEFINE b == Call.begin  e == Call.end  axis == LargestAxis(bbox)  s == tris'
  <1>1. /\ BoxDone /\ tree' = WithNode(Call, <<>>) /\ calls' = Children(Call) \o Tail(calls)
        /\ s \in SortedRange(b, e, axis) /\ UNCHANGED <<meshes, gathered>> /\ TreeInv
    BY DEF Split, Enter, Call, IInv
  <1>2. /\ calls \in Seq(Calls) /\ calls # <<>> /\ calls[1] = Call /\ 1 \in DOMAIN calls
        /\ b \in Nat /\ e \in Nat /\ b <= e /\ e < Len(tris) /\ tris \in Seq(TriInfos)
        /\ Len(tris) \in Nat /\ Call.node \in Nat
    BY <1>1, DoneCall
  <1>3. PICK mid \in Nat :
          /\ b <= mid /\ mid < e
          /\ Children(Call) = << [node |-> 2 * Call.node, begin |-> b, end |-> mid],
                                 [node |-> 2 * Call.node + 1, begin |-> mid + 1, end |-> e] >>
    BY Halves
  <1> HIDE DEF b, e, axis, s
  <1>4. /\ DOMAIN tree' = DOMAIN tree \cup {Call.node}
        /\ \A n \in DOMAIN tree : n # Call.node /\ tree'[n] = tree[n]
        /\ tree'[Call.node].list = <<>>
    <2>1. <<>> \in Seq(TriInfos)
      OBVIOUS
    <2> QED
      BY <1>1, <2>1, NewNode
  <1>5. /\ s \in Seq(TriInfos) /\ DOMAIN s = DOMAIN tris /\ Len(s) = Len(tris)
        /\ \A i \in DOMAIN tris : i \notin b + 1 .. e + 1 => s[i] = tris[i]
        /\ \A i \in b + 1 .. e + 1 : \E j \in b + 1 .. e + 1 : s[i] = tris[j]
    <2>1. s \in SortedRange(b, e, axis)
      BY <1>1
    <2>2. tris \in Seq(TriInfos) /\ b \in Nat /\ e \in Nat /\ e < Len(tris)
      BY <1>2
    <2> QED
      BY <2>1, <2>2, SortedRangeFacts
  <1>6. GatheredOnce'
    <2>1. \A i, j \in DOMAIN s : s[i] = s[j] => i = j
      BY <1>1, <1>2, SortedRangeDistinct DEF LeafInv, GatheredOnce
    <2>2. \A i \in DOMAIN s : s[i].mesh <= gathered
      <3>1. \A i \in DOMAIN s : \E j \in DOMAIN tris : s[i] = tris[j]
        <4>1. b + 1 .. e + 1 \subseteq DOMAIN tris
          BY <1>2
        <4> QED
          BY <1>5, <4>1
      <3> QED
        BY <3>1 DEF LeafInv, GatheredOnce
    <2> QED
      BY <1>1, <2>1, <2>2 DEF GatheredOnce, s
  <1>7. \A n \in DOMAIN tree : tree[n].list # <<>> => e < tree[n].begin \/ tree[n].end < b
    BY <1>1, <1>2 DEF TreeInv, LeavesComplete, Apart, Before, b, e
  <1>8. LeavesExact'
    <2> SUFFICES ASSUME NEW n \in DOMAIN tree, tree[n].list # <<>>
                 PROVE  /\ Len(tree[n].list) = tree[n].end - tree[n].begin + 1
                        /\ \A k \in DOMAIN tree[n].list : tree[n].list[k] = s[tree[n].begin + k]
                        /\ \A m \in DOMAIN tree : tree[m].list # <<>> /\ m # n =>
                             tree[m].end < tree[n].begin \/ tree[n].end < tree[m].begin
      BY <1>4 DEF LeavesExact, Apart, Before, s
    <2>1. /\ Len(tree[n].list) = tree[n].end - tree[n].begin + 1
          /\ \A k \in DOMAIN tree[n].list : tree[n].list[k] = tris[tree[n].begin + k]
          /\ \A m \in DOMAIN tree : tree[m].list # <<>> /\ m # n =>
               tree[m].end < tree[n].begin \/ tree[n].end < tree[m].begin
      BY DEF LeafInv, LeavesExact, Apart, Before
    <2>2. /\ tree[n].begin \in Nat /\ tree[n].end \in Nat /\ tree[n].end < Len(tris)
          /\ DOMAIN tree[n].list = 1 .. Len(tree[n].list)
      BY <1>1, TypesOfTree DEF TreeInv, TypeOK, TreeTypes, Nodes
    <2>3. ASSUME NEW k \in DOMAIN tree[n].list
          PROVE  s[tree[n].begin + k] = tris[tree[n].begin + k]
      <3> DEFINE from == tree[n].begin  to == tree[n].end
      <3>1. from \in Nat /\ to \in Nat /\ to < Len(tris) /\ k \in 1 .. to - from + 1
            /\ (e < from \/ to < b)
        BY <1>7, <2>1, <2>2
      <3> HIDE DEF from, to
      <3>2. from + k \in 1 .. Len(tris) /\ from + k \notin b + 1 .. e + 1
        BY <1>2, <3>1
      <3>3. from + k \in DOMAIN tris
        BY <1>2, <3>2
      <3>4. s[from + k] = tris[from + k]
        BY <1>5, <3>2, <3>3
      <3> QED
        BY <3>4 DEF from
    <2> QED
      BY <2>1, <2>3
  <1>9. /\ 1 \in DOMAIN calls' /\ calls'[1].begin = b /\ calls'[1].end = mid
        /\ 2 \in DOMAIN calls' /\ calls'[2].begin = mid + 1 /\ calls'[2].end = e
        /\ \A c \in DOMAIN calls : c # 1 => c + 1 \in DOMAIN calls' /\ calls'[c + 1] = calls[c]
    <2> DEFINE left == [node |-> 2 * Call.node, begin |-> b, end |-> mid]
               right == [node |-> 2 * Call.node + 1, begin |-> mid + 1, end |-> e]
    <2>1. calls' = <<left, right>> \o Tail(calls) /\ left \in Calls \cup {left, right}
          /\ right \in Calls \cup {left, right}
      BY <1>1, <1>3
    <2>2. left.begin = b /\ left.end = mid /\ right.begin = mid + 1 /\ right.end = e
      OBVIOUS
    <2> HIDE DEF left, right
    <2>3. /\ Tail(calls) \in Seq(Calls \cup {left, right}) /\ Len(Tail(calls)) = Len(calls) - 1
          /\ \A k \in 1 .. Len(calls) - 1 : Tail(calls)[k] = calls[k + 1]
          /\ Len(calls) \in Nat /\ DOMAIN calls = 1 .. Len(calls)
      BY <1>2
    <2>4. /\ DOMAIN calls' = 1 .. Len(calls) + 1 /\ calls'[1] = left /\ calls'[2] = right
          /\ \A d \in 3 .. Len(calls) + 1 : calls'[d] = Tail(calls)[d - 2]
      BY <2>1, <2>3
    <2>5. \A c \in DOMAIN calls : c # 1 => c + 1 \in DOMAIN calls' /\ calls'[c + 1] = calls[c]
      BY <2>3, <2>4
    <2> QED
      BY <1>2, <2>2, <2>3, <2>4, <2>5
  <1>10. PlacesTaken'
    <2> SUFFICES ASSUME NEW i \in 0 .. LastIndex
                 PROVE  \/ \E c \in DOMAIN calls' : i \in calls'[c].begin .. calls'[c].end
                        \/ \E n \in DOMAIN tree' : /\ tree'[n].list # <<>>
                                                   /\ i \in tree'[n].begin .. tree'[n].end
      <3>1. LastIndex' = LastIndex
        BY <1>2, <1>5 DEF LastIndex, s
      <3> QED
        BY <3>1 DEF PlacesTaken, Span
    <2>1. pc = "building"
      BY <1>1 DEF BoxDone
    <2>2. ASSUME NEW c \in DOMAIN calls, i \in Span(calls[c])
          PROVE  \E d \in DOMAIN calls' : i \in calls'[d].begin .. calls'[d].end
      <3>1. CASE c = 1
        <4>1. i \in b .. e /\ i \in Int
          BY <1>2, <2>2, <3>1 DEF Span, b, e
        <4>2. i \in b .. mid \/ i \in mid + 1 .. e
          BY <1>2, <1>3, <4>1
        <4> QED
          BY <1>9, <4>2
      <3>2. CASE c # 1
        BY <1>9, <2>2, <3>2 DEF Span
      <3> QED
        BY <3>1, <3>2
    <2> QED
      BY <1>4, <2>1, <2>2 DEF LeafInv, PlacesTaken, Span
  <1> QED
    BY <1>6, <1>8, <1>10 DEF LeafInv

LEMMA LeafStep == ASSUME IInv, LeafInv, [Next]_vars PROVE LeafInv'
  <1>1. CASE UNCHANGED vars
    BY <1>1 DEF vars, build, LeafInv, GatheredOnce, LeavesExact, PlacesTaken, LastIndex, Span,
       Apart, Before
  <1>2. CASE AddMesh \/ Build \/ Expand \/ ReadPastEnd \/ Ask \/ Traversing
    <2>1. /\ UNCHANGED <<tris, gathered, calls, tree>>
          /\ pc' = "undefined" \/ pc' \in {"adding", "gathering"}
               \/ pc \in {"building", "ready", "traversing", "answered"}
      BY <1>2 DEF AddMesh, Build, Expand, ReadPastEnd, Ask, Traversing, Prune, EnterLeaf, Descend,
         Miss, Blocked, Record, Answer, Return, NextNode, NextTriangle, build
    <2> QED
      BY <2>1, LeafFrame
  <1> QED
    BY <1>1, <1>2, GatherLeaves, RootLeaves, MakeLeafLeaves, SplitLeaves DEF Next, Building

LEMMA LeavesPartition ==
    ASSUME IInv, LeafInv, pc \in {"ready", "traversing", "answered"}, NEW ti \in TriInfos
    PROVE  \E n \in Leaves, i \in 1 .. Len(tris) :
             /\ i \in DOMAIN tree[n].list /\ tree[n].list[i] = ti
             /\ \A m \in Leaves : \A j \in DOMAIN tree[m].list :
                  tree[m].list[j] = ti => m = n /\ j = i
  <1> USE TypesOfTree DEF IInv
  <1>1. /\ calls = <<>> /\ gathered = Len(meshes)
        /\ \A n \in DOMAIN tree : IsLeaf(n) <=> tree[n].list # <<>>
    BY TreeComplete
  <1>2. ti.mesh <= gathered
    BY <1>1 DEF TriInfos, TreeInv, TypeOK, TreeTypes
  <1>3. PICK place \in DOMAIN tris : tris[place] = ti
    BY <1>2 DEF TreeInv, AllGathered
  <1>4. place - 1 \in 0 .. LastIndex
    BY <1>3 DEF LastIndex
  <1>5. PICK n \in DOMAIN tree : tree[n].list # <<>> /\ place - 1 \in Span(tree[n])
    BY <1>1, <1>4 DEF LeafInv, PlacesTaken
  <1>6. ASSUME NEW m \in Leaves
        PROVE  /\ m \in DOMAIN tree /\ tree[m].list # <<>>
               /\ DOMAIN tree[m].list = 1 .. tree[m].end - tree[m].begin + 1
               /\ \A j \in DOMAIN tree[m].list : tree[m].list[j] = tris[tree[m].begin + j]
               /\ tree[m].begin \in Nat /\ tree[m].end \in Nat
               /\ tree[m].begin <= tree[m].end /\ tree[m].end < Len(tris)
    <2>1. m \in DOMAIN tree /\ tree[m].list # <<>>
      BY <1>1 DEF Leaves
    <2>2. DOMAIN tree[m].list = 1 .. Len(tree[m].list)
      BY <2>1 DEF TreeInv, TypeOK, TreeTypes, Nodes
    <2> QED
      BY <2>1, <2>2 DEF LeafInv, LeavesExact
  <1>7. n \in Leaves
    BY <1>1, <1>5 DEF Leaves
  <1> DEFINE i == place - tree[n].begin
  <1>8. i \in 1 .. Len(tris) /\ i \in DOMAIN tree[n].list /\ tree[n].list[i] = ti
    <2>1. i \in 1 .. tree[n].end - tree[n].begin + 1 /\ tree[n].begin + i = place
      BY <1>3, <1>5, <1>6, <1>7 DEF Span
    <2> QED
      BY <1>3, <1>6, <1>7, <2>1
  <1>9. ASSUME NEW m \in Leaves, NEW j \in DOMAIN tree[m].list, tree[m].list[j] = ti
        PROVE  m = n /\ j = i
    <2>1. tree[m].begin + j \in DOMAIN tris /\ j \in Int
      BY <1>6
    <2>2. tree[m].begin + j = place
      BY <1>3, <1>6, <1>9, <2>1 DEF LeafInv, GatheredOnce
    <2>3. place - 1 \in Span(tree[m])
      BY <1>6, <2>2 DEF Span
    <2>4. m = n
      BY <1>5, <1>6, <1>7, <2>3 DEF LeafInv, LeavesExact, Apart, Before, Span
    <2> QED
      BY <1>6, <2>1, <2>2, <2>4
  <1> QED
    BY <1>7, <1>8, <1>9

\* Every triangle of the scene ends in one leaf of the tree of buildBvhTree, once,
\* however the ranges were sorted and cut.
THEOREM LeavesHoldEverything == Spec => []EachTriangleInOneLeaf
  <1>1. Init => LeafInv
    BY DEF Init, LeafInv, GatheredOnce, LeavesExact, PlacesTaken
  <1>2. IInv /\ LeafInv /\ [Next]_vars => LeafInv'
    BY LeafStep
  <1>3. IInv /\ LeafInv => EachTriangleInOneLeaf
    BY LeavesPartition DEF EachTriangleInOneLeaf
  <1> QED
    BY <1>1, <1>2, <1>3, Invariance, PTL DEF Spec
=============================================================================

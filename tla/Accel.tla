-------------------------------- MODULE Accel --------------------------------
(***************************************************************************)
(* The acceleration structure, class Accel (src/src/core/accel.cpp): a     *)
(* binary tree of bounding boxes over the triangles of all meshes, and the *)
(* queries that traverse it.                                               *)
(*                                                                         *)
(* The two recursions have their stacks in variables: calls holds the      *)
(* calls of buildBvhTree that have not returned a node yet, stack the      *)
(* calls of traverseBvhTree that have not started.  Nodes are numbered     *)
(* from the root, 1; the children of n are 2n and 2n+1.                    *)
(***************************************************************************)
EXTENDS RaySpace, Sequences, Functions

CONSTANTS MeshChoices,     \* the meshes a scene may contain: sequences of triangles
          MinMeshes,       \* how many meshes a scene has
          MaxMeshes,
          LeafSpan,        \* 10 in the code: a leaf spans fewer than LeafSpan + 1 triangles
          MaxIndex,        \* 2^32 - 1 in the code, the largest uint32_t
          Queries,         \* the rays that may be asked for
          None             \* no triangle (its.f is -1), no ray

ASSUME MeshesAssumption == MeshChoices \subseteq Seq(Triangles)
ASSUME LeafSpanAssumption == LeafSpan \in Nat \ {0}
ASSUME MaxIndexAssumption == MaxIndex \in Nat
ASSUME QueriesAssumption == Queries \subseteq Rays
ASSUME MeshCountAssumption == MinMeshes \in Nat /\ MaxMeshes \in Nat

VARIABLES
    pc,           \* adding, gathering, building, ready, traversing, answered, undefined
    meshes,       \* m_meshes
    tris,         \* the local vector tris of build()
    gathered,     \* how many meshes have their triangles in tris
    calls,        \* the calls of buildBvhTree under way, innermost first
    bbox, index,  \* locals of the innermost one: the box, and the loop variable
    tree,         \* the nodes created so far
    query,        \* the ray of the caller
    shadowRay,    \* and whether it is a shadow ray
    maxt,         \* the maxt of the copy of that ray
    its,          \* the intersection record, its.t and its.mesh with its.f
    intersected,  \* the answer
    stack,        \* the nodes still to be traversed
    scan          \* what is left of the tri_list of the current leaf

build == <<meshes, tris, gathered, calls, bbox, index, tree>>
traversal == <<query, shadowRay, maxt, its, intersected, stack, scan>>
vars == <<pc, build, traversal>>

\* A TriInfo is a mesh, by its place in m_meshes, and an index into its faces.
TriInfos == UNION {{[mesh |-> m, f |-> f] : f \in DOMAIN meshes[m]} : m \in DOMAIN meshes}
Shape(ti) == meshes[ti.mesh][ti.f]
Tri(i) == tris[i + 1]

\* The box and the triangles of a node; begin and end, its range when it was
\* built, are kept for the properties.
Nodes == [box : Boxes, list : Seq(TriInfos), begin : Nat, end : Nat]
Calls == [node : Nat \ {0}, begin : Nat, end : Nat]

TreeTypes ==
    /\ meshes \in Seq(MeshChoices)
    /\ gathered \in 0 .. Len(meshes)
    /\ tris \in Seq(TriInfos)
    /\ calls \in Seq(Calls)
    /\ bbox \in Boxes /\ index \in Nat
    /\ DOMAIN tree \subseteq Nat \ {0} /\ \A n \in DOMAIN tree : tree[n] \in Nodes

QueryTypes ==
    /\ query \in Queries \cup {None}
    /\ shadowRay \in BOOLEAN
    /\ maxt \in 0 .. Infinity
    /\ its \in [t : 0 .. Infinity, tri : TriInfos \cup {None}]
    /\ intersected \in BOOLEAN
    /\ stack \in Seq(DOMAIN tree)
    /\ scan \in Seq(TriInfos)

\* The types of the state; triangles stay triangles of a mesh that was added, and
\* the traversal meets existing nodes only.
TypeOK ==
    /\ pc \in {"adding", "gathering", "building", "ready", "traversing", "answered",
               "undefined"}
    /\ TreeTypes
    /\ QueryTypes

Init ==
    /\ pc = "adding"
    /\ meshes = <<>>
    /\ tris = <<>> /\ gathered = 0
    /\ calls = <<>> /\ bbox = EmptyBox /\ index = 0
    /\ tree = <<>>
    /\ query = None /\ shadowRay = FALSE
    /\ maxt = Infinity /\ its = [t |-> Infinity, tri |-> None]
    /\ intersected = FALSE
    /\ stack = <<>> /\ scan = <<>>

-----------------------------------------------------------------------------
(* addMesh and build.                                                      *)

AddMesh ==
    /\ pc = "adding"
    /\ Len(meshes) < MaxMeshes
    /\ \E mesh \in MeshChoices : meshes' = Append(meshes, mesh)
    /\ UNCHANGED <<pc, tris, gathered, calls, bbox, index, tree, traversal>>

Build ==
    /\ pc = "adding"
    /\ Len(meshes) >= MinMeshes
    /\ pc' = "gathering"
    /\ UNCHANGED <<build, traversal>>

\* Fault: the triangles are registered with the mesh before theirs.
GatherForPrevious ==
    /\ pc = "gathering"
    /\ gathered < Len(meshes)
    /\ gathered' = gathered + 1
    /\ tris' = tris \o [f \in DOMAIN meshes[gathered'] |-> [mesh |-> gathered, f |-> f]]
    /\ UNCHANGED <<pc, meshes, calls, bbox, index, tree, traversal>>

\* One round of the loop over m_meshes.
Gather ==
    /\ pc = "gathering"
    /\ gathered < Len(meshes)
    /\ gathered' = gathered + 1
    /\ tris' = tris \o [f \in DOMAIN meshes[gathered'] |-> [mesh |-> gathered', f |-> f]]
    /\ UNCHANGED <<pc, meshes, calls, bbox, index, tree, traversal>>

\* Fault: the last index is the size.
SizeForLast == Len(tris)

\* uint32_t(tris.size() - 1)
LastIndex == IF tris = <<>> THEN MaxIndex ELSE Len(tris) - 1

\* Fault: the loop starts with the second triangle.
EnterPastFirst(s) ==
    /\ calls' = s
    /\ bbox' = EmptyBox
    /\ index' = IF s = <<>> THEN 0 ELSE Head(s).begin + 1

\* The innermost call becomes that of the stack s: its loop starts.
Enter(s) ==
    /\ calls' = s
    /\ bbox' = EmptyBox
    /\ index' = IF s = <<>> THEN 0 ELSE Head(s).begin

BuildRoot ==
    /\ pc = "gathering"
    /\ gathered = Len(meshes)
    /\ pc' = "building"
    /\ Enter(<<[node |-> 1, begin |-> 0, end |-> LastIndex]>>)
    /\ UNCHANGED <<meshes, tris, gathered, tree, traversal>>

\* One round of the loop that builds the box.
Expand ==
    /\ pc = "building"
    /\ index <= Head(calls).end
    /\ index < Len(tris)
    /\ bbox' = Expanded(bbox, BoxOf(Shape(Tri(index))))
    /\ index' = index + 1
    /\ UNCHANGED <<pc, meshes, tris, gathered, calls, tree, traversal>>

\* The loop reads past the end of tris: undefined behaviour.
ReadPastEnd ==
    /\ pc = "building"
    /\ index <= Head(calls).end
    /\ index >= Len(tris)
    /\ pc' = "undefined"
    /\ UNCHANGED <<build, traversal>>

BoxDone == pc = "building" /\ index > Head(calls).end

\* The tree with the node of the call that is about to return or to recurse.
WithNode(call, list) ==
    [n \in DOMAIN tree \cup {call.node} |->
        IF n = call.node
          THEN [box |-> bbox, list |-> list, begin |-> call.begin, end |-> call.end]
          ELSE tree[n]]

\* A small range: the node is a leaf, and the call returns it.
MakeLeaf ==
    /\ BoxDone
    /\ LET call == Head(calls) IN
        /\ call.end - call.begin < LeafSpan
        /\ tree' = WithNode(call, SubSeq(tris, call.begin + 1, call.end + 1))
    /\ Enter(Tail(calls))
    /\ pc' = IF Tail(calls) = <<>> THEN "ready" ELSE "building"
    /\ UNCHANGED <<meshes, tris, gathered, traversal>>

\* What std::sort, which is not stable, may make of the range begin .. end.
SortedRange(begin, end, axis) ==
    LET places == begin + 1 .. end + 1
        key(ti) == Centroid(Shape(ti))[axis]
    IN  {s \in {[i \in DOMAIN tris |-> IF i \in places THEN tris[p[i]] ELSE tris[i]]
                    : p \in Surjection(places, places)} :
            \A i, j \in places : i < j => key(s[i]) <= key(s[j])}

\* Fault: the middle triangle goes to neither child.
ChildrenWithoutMiddle(call) ==
    LET mid == (call.begin + call.end) \div 2
    IN  << [node |-> 2 * call.node, begin |-> call.begin, end |-> mid - 1],
           [node |-> 2 * call.node + 1, begin |-> mid + 1, end |-> call.end] >>

\* Fault: a range is cut after its first triangle.
ChildrenLopsided(call) ==
    << [node |-> 2 * call.node, begin |-> call.begin, end |-> call.begin],
       [node |-> 2 * call.node + 1, begin |-> call.begin + 1, end |-> call.end] >>

\* The two recursive calls.
Children(call) ==
    LET mid == (call.begin + call.end) \div 2
    IN  << [node |-> 2 * call.node, begin |-> call.begin, end |-> mid],
           [node |-> 2 * call.node + 1, begin |-> mid + 1, end |-> call.end] >>

\* A larger range is sorted and split in the middle.
Split ==
    /\ BoxDone
    /\ LET call == Head(calls) IN
        /\ call.end - call.begin >= LeafSpan
        /\ tree' = WithNode(call, <<>>)
        /\ tris' \in SortedRange(call.begin, call.end, LargestAxis(bbox))
        /\ Enter(Children(call) \o Tail(calls))
    /\ UNCHANGED <<pc, meshes, gathered, traversal>>

-----------------------------------------------------------------------------
(* rayIntersect.                                                           *)

Ask ==
    /\ pc = "ready"
    /\ query' \in Queries
    /\ shadowRay' \in BOOLEAN
    /\ maxt' = query'.maxt
    /\ its' = [t |-> Infinity, tri |-> None]
    /\ intersected' = FALSE
    /\ stack' = <<1>>
    /\ scan' = <<>>
    /\ pc' = "traversing"
    /\ UNCHANGED build

\* The copy of the ray, whose extent ends at the nearest hit so far.
Ray == [query EXCEPT !.maxt = maxt]

IsLeaf(n) == 2 * n \notin DOMAIN tree

NextNode == pc = "traversing" /\ scan = <<>> /\ stack # <<>>

\* The ray misses the box.
Prune ==
    /\ NextNode
    /\ ~BoxHit(tree[Head(stack)].box, Ray)
    /\ stack' = Tail(stack)
    /\ UNCHANGED <<pc, build, query, shadowRay, maxt, its, intersected, scan>>

EnterLeaf ==
    /\ NextNode
    /\ BoxHit(tree[Head(stack)].box, Ray)
    /\ IsLeaf(Head(stack))
    /\ scan' = tree[Head(stack)].list
    /\ stack' = Tail(stack)
    /\ UNCHANGED <<pc, build, query, shadowRay, maxt, its, intersected>>

Descend ==
    /\ NextNode
    /\ BoxHit(tree[Head(stack)].box, Ray)
    /\ ~IsLeaf(Head(stack))
    /\ stack' = <<2 * Head(stack), 2 * Head(stack) + 1>> \o Tail(stack)
    /\ UNCHANGED <<pc, build, query, shadowRay, maxt, its, intersected, scan>>

NextTriangle == pc = "traversing" /\ scan # <<>>

\* The distances at which the next triangle of the leaf improves on its.t.
Nearer == {t \in HitTimes(Shape(Head(scan)), Ray) : t < its.t}

Miss ==
    /\ NextTriangle
    /\ Nearer = {}
    /\ scan' = Tail(scan)
    /\ UNCHANGED <<pc, build, query, shadowRay, maxt, its, intersected, stack>>

\* A shadow ray only wants to know: the leaf is left, though not the traversal.
Blocked ==
    /\ NextTriangle
    /\ shadowRay
    /\ Nearer # {}
    /\ intersected' = TRUE
    /\ scan' = <<>>
    /\ UNCHANGED <<pc, build, query, shadowRay, maxt, its, stack>>

\* Fault: the first hit of a leaf ends it, as for a shadow ray.
RecordAndLeave ==
    /\ NextTriangle
    /\ ~shadowRay
    /\ \E t \in Nearer :
        /\ maxt' = t
        /\ its' = [t |-> t, tri |-> Head(scan)]
    /\ intersected' = TRUE
    /\ scan' = <<>>
    /\ UNCHANGED <<pc, build, query, shadowRay, stack>>

Record ==
    /\ NextTriangle
    /\ ~shadowRay
    /\ \E t \in Nearer :
        /\ maxt' = t
        /\ its' = [t |-> t, tri |-> Head(scan)]
    /\ intersected' = TRUE
    /\ scan' = Tail(scan)
    /\ UNCHANGED <<pc, build, query, shadowRay, stack>>

Answer ==
    /\ pc = "traversing"
    /\ scan = <<>> /\ stack = <<>>
    /\ pc' = "answered"
    /\ UNCHANGED <<build, traversal>>

Return ==
    /\ pc = "answered"
    /\ pc' = "ready"
    /\ UNCHANGED <<build, traversal>>

-----------------------------------------------------------------------------
Building == Build \/ Gather \/ BuildRoot \/ Expand \/ ReadPastEnd \/ MakeLeaf \/ Split
Traversing == Prune \/ EnterLeaf \/ Descend \/ Miss \/ Blocked \/ Record \/ Answer \/ Return

Next == AddMesh \/ Building \/ Ask \/ Traversing

Spec == Init /\ [][Next]_vars

-----------------------------------------------------------------------------
(* Properties.                                                             *)

\* All the triangles of the scene, and the hits of the query that a brute-force
\* loop over them finds.
Hits == {h \in TriInfos \X Times : Hit(Shape(h[1]), query, h[2])}

\* rayIntersect, "intersect a ray against all triangles stored in the scene":
\* the answer, and for other than shadow rays the recorded triangle and distance,
\* are those of the brute-force loop, whatever the tree and the order of the
\* traversal skip.
NearestHit ==
    pc = "answered" =>
        /\ intersected <=> Hits # {}
        /\ intersected /\ ~shadowRay =>
             /\ <<its.tri, its.t>> \in Hits
             /\ \A h \in Hits : its.t <= h[2]

\* The loops of buildBvhTree stay within tris. (They do not in a scene without
\* triangles.)
BuildInBounds == pc # "undefined"

\* buildBvhTree: however ranges are split and sorted again, no loop runs past the
\* end of tris, except the first one in a scene without triangles.
OverrunOnlyWhenEmpty == pc = "undefined" => tris = <<>>

Leaves == {n \in DOMAIN tree : IsLeaf(n)}

\* buildBvhTree: once the tree is there, every triangle of every mesh is in exactly
\* one leaf, and there once, although ranges are sorted again after they were split.
EachTriangleInOneLeaf ==
    pc \in {"ready", "traversing", "answered"} =>
        \A ti \in TriInfos :
            \E n \in Leaves, i \in 1 .. Len(tris) :
                /\ i \in DOMAIN tree[n].list /\ tree[n].list[i] = ti
                /\ \A m \in Leaves : \A j \in DOMAIN tree[m].list :
                     tree[m].list[j] = ti => m = n /\ j = i

\* accel.cpp:46, "Ensure numbers of triangles are the same in both child nodes":
\* the sizes of siblings differ by at most one, so the recursion is as shallow as
\* a binary tree allows.
TreeBalanced ==
    \A n \in DOMAIN tree :
        2 * n \in DOMAIN tree /\ 2 * n + 1 \in DOMAIN tree =>
            (tree[2 * n].end - tree[2 * n].begin)
              - (tree[2 * n + 1].end - tree[2 * n + 1].begin) \in 0 .. 1

Encloses(box, other) ==
    \A a \in Axes : box.min[a] <= other.min[a] /\ other.max[a] <= box.max[a]

\* The box of a node bounds what is below it: pruning a node prunes nothing that
\* a descendant could still have contributed.
BoxesNested ==
    \A n, child \in DOMAIN tree :
        child \div 2 = n => Encloses(tree[n].box, tree[child].box)

=============================================================================

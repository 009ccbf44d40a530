# ANori in TLA+

A formal model of ANori, an educational Monte Carlo ray tracer (a variant of Nori), kept beside its
source. The renderer's own code is `src/src` and `src/include`, some 7,900 lines of C++; everything
under `src/ext` (TBB, nanogui, OpenEXR, Eigen, pugixml, stb, ...) is vendored. Paths below start at the
repository root, `src/`.

The project has TLA+ modules of the components whose correctness is a matter of control, order,
sharing or integer arithmetic; TLC configurations that check them exhaustively on small instances; and
TLAPS proofs that carry the most important results to every value of the constants.

## The system

A run of the program parses the command line, loads a scene description into a tree of objects, builds
an acceleration structure over the meshes, renders the image with several threads, block by block,
while a window may show the progress, and writes an EXR and a PNG file.

| component | code | state | operations | talks to |
|---|---|---|---|---|
| rendering job | `src/core/main.cpp` | image, block generator, render thread, worker threads | `render`, `renderBlock`, `main` | all below |
| block generator | `src/core/block.cpp`, `include/core/block.h` | position and leg of a spiral walk, blocks left, mutex | constructor, `next`, `getBlockCount` | called by the workers concurrently |
| image block | same files | pixel buffer with a border, filter table, weight arrays, mutex | constructor, `clear`, `put(sample)`, `put(block)`, `lock`, `toBitmap` | one per worker, one shared by workers and window |
| preview window | `src/core/gui.cpp` | texture, exposure | `draw_contents` in the main loop of nanogui | locks the shared image |
| bitmap output | `src/core/bitmap.cpp` | none | `saveEXR`, `savePNG` | called after the join |
| scene loader | `src/core/parser.cpp`, `object.cpp`, `proplist.cpp` | the stack of open XML elements, property lists | `loadFromXML`, the factory, `addChild`, `setParent`, `activate` | constructs every object |
| scene | `src/core/scene.cpp` | meshes, emitters, integrator, camera, sampler | `addChild`, `activate`, `sampleLight` | owns the acceleration structure |
| acceleration structure | `src/core/accel.cpp` | triangle list, node tree | `addMesh`, `build`, `rayIntersect` | queried by every worker |
| mesh, distribution | `src/core/mesh.cpp`, `include/tools/dpdf.h` | vertices, faces, a discrete distribution over areas | `activate`, `rayIntersect`, `getSampleResult`; `append`, `normalize`, `sample` | sampled by emitters |
| OBJ loader | `src/core/obj.cpp` | vertex map | constructor | fills a mesh |
| integrators | `src/integrators` | none between calls | `preprocess`, `Li` | scene, materials, sampler |
| samplers | `src/core/independent.cpp`, `include/objects/sampler.h` | a random generator | `clone`, `prepare`, `generate`, `advance`, `next1D/2D` | one clone per worker |
| materials, warps, textures, camera, filters, emitters | their directories | parameters | pure functions | integrators |
| statistical tests | `src/core/ttest.cpp`, `chi2test.cpp`, `warptest.cpp` | parameters, references | `activate` | scene tree |

How they interact while an image is rendered: `render()` creates the block generator and the shared
image and starts a render thread, which runs `tbb::parallel_for` over as many indices as there are
blocks. TBB gives chunks of the range to threads; each chunk runs the lambda with an `ImageBlock` and
a sampler clone of its own, and for each index asks the block generator for a block, renders it, and
merges it into the shared image under that image's mutex. Meanwhile the main thread runs the window,
whose `draw_contents` takes the same mutex to upload the image to the GPU, and finally joins the render
thread and writes the files. The index that TBB passes plays no part: the body of the loop relies on
there being exactly as many indices as blocks.

What is hard about it:

- concurrency: any number of workers call `next()` and `put()`, in any order and for any division of
  the range, while the window reads the image;
- the spiral of the block generator, a loop that leaves the grid and has to come back, with a mutex
  held, a counter that must agree with it, and a caller that ignores the answer;
- boundaries: image sizes that are no multiple of the block size, borders and filter supports on exact
  pixel edges, tables read at their last entry;
- failure: a draw, an output file or a loader that throws between two steps;
- order: objects of the scene tree are constructed, given children and activated in an order that
  every class relies on;
- two places that must agree: the two strategies of an integrator about a light path, the Fresnel term
  and the refraction about total reflection, a test's observed and expected table about a cell.

What makes the components correct:

- block generator: each block once, none outside the image, a refusal only when all are gone, the
  centre first, a bounded loop, and atomicity for its callers;
- image block: what is merged is what the reconstruction filter defines, and no array is left;
- rendering job: the saved image is complete whatever the schedule, frames show whole blocks, no
  thread outlives the stack frame it works on, the job ends;
- scene loader and scene: what is activated is complete, each object once, children first; a failure
  leaves nothing half registered;
- acceleration structure: the same hit as testing every triangle, whatever the order of traversal;
- integrators: each light path is counted exactly once by the strategies together;
- the small data structures: distribution, vertex map, texture indices, lists of references.

## The modules

`PROJECT.json` maps every definition to the lines it models.

| module | models | state and actions |
|---|---|---|
| `BlockGrid` | how an image is cut into blocks | no state: block counts, the grid, offset, extent and pixels of a block |
| `WorkPool` | abstract: what `next()` promises | `pending`, `phase`, `held`; `Ask`, `Grant`, `Refuse`, `Return` |
| `BlockGenerator` | class `BlockGenerator` | one variable per member, the owner of `m_mutex`, a program counter per thread; `Call`, `Lock`, `Refuse`, `HandOut`, `Advance` (one round of the do-while loop), `Unlock` |
| `BlockGeneratorProofs` | theorems about it | |
| `ImageBlock` | class `ImageBlock` as `renderBlock` and the merge use it | the shared image, a worker's block, the filter radius; `StartBlock` (`next` and `clear`), `PutSample`, `PutBlock` |
| `ImageBlockProofs` | theorems about it | |
| `ProgressiveImage` | abstract: what a job is for its user | `merged`, `shown`, `saved`; `Merge`, `Show`, `Save` |
| `Render` | `render()` with its threads, the window and the files | program counters of the main thread and of the workers, TBB's undistributed indices, the pool, the shared image with its mutex, texture and frame, the files |
| `RenderProofs` | theorems about it | |
| `RaySpace` | the geometry of ray queries: `BoundingBox::rayIntersect`, `expandBy`, `Mesh::rayIntersect` | no state: boxes, triangles, rays, when one hits another |
| `Accel` | class `Accel` | meshes, the vector of triangles, the calls of `buildBvhTree` under way, the nodes; the query, its copied ray, the record, the nodes and triangles still to be visited; `AddMesh`, `Build`, `Gather`, `BuildRoot`, `Expand` (one round of the box loop), `MakeLeaf`, `Split`, `ReadPastEnd`; `Ask`, `Prune`, `EnterLeaf`, `Descend`, `Miss`, `Blocked`, `Record`, `Answer`, `Return` |
| `AccelProofs` | theorems about it | |
| `ObjectTree` | abstract: what `NoriObject` promises of the objects of a scene | `state` and `parent` of each object; `Create`, `Adopt`, `Activate` |
| `SceneLoader` | `loadFromXML` with its property lists, the factory, `addChild`, `activate` and the destructors of every class | the calls of `parseTag` under way, the objects, the shared transform; `Open`, `CloseOperation`, `CloseProperty`, `Instantiate`, `AdoptNext`, `Activate` and at the end `Delete` |
| `SceneLoaderProofs` | theorems about it | |
| `PathTracing` | `Li` of `path_mats`, `path_ems`, `path_mis`, `whitted` | the variables of the loop, and what the throughput is made of; `Trace`, `Emit`, `SampleEmitter`, `Scatter` |
| `PathTracingProofs` | theorems about it, and about what a path meets: `Dielectric`, `TextureFilter` | |
| `WavefrontOBJ` | the constructor of a mesh from a file | the lists and the vertex map; `Listed`, `Face`, `BadFace`, `EndOfFile` |
| `DiscretePDF` | class `DiscretePDF` | `cdf`, `scale`; `AppendEntry`, `Normalize`, the function `Index` (`sample`) |
| `MeshSampling` | the two together, as `Mesh::activate` does | `Construct` (a step of `WavefrontOBJ`), `AppendArea`, `NormalizeAreas` |
| `MeshProofs` | theorems about the three | |
| `TextureFilter` | which texels the texture filters read | image size and coordinate; `Bilinear`, `Nearest` |
| `Dielectric` | `Dielectric::sample` and `fresnel` along a path | the medium, the angle; `Reflect`, `Refract` |
| `TTest`, `ChiSquareTest` | `activate` of the test objects | the lists and indices; the two tables; one action per loop body |
| `StatisticalTestsProofs` | theorems about the two | |
| `MC...` | instances for TLC | |

Composition: `BlockGenerator` implements `WorkPool` (`ImplementsWorkPool`: checked and proved), and
`Render` uses `WorkPool` in the place of the generator, so the spiral need not be interleaved with
everything else. `Render` implements `ProgressiveImage` (`ImplementsProgressiveImage`).

Two modules look at the same pixels from two sides. `ImageBlock` has the arithmetic of `put()` and no
threads: positions are fixed-point numbers, so every floor, ceiling and table index of the code is
exact; samples have colour 1. `Render` has the threads and no arithmetic: a cell of its image is the
area of one block, and holds the bag of contributions (block, block whose offset seeded the sampler)
added since it was cleared, so that a lost update, a doubled or a stale block all show. The mutex makes
sense only if reading and writing are separate steps, so `put(block)` and the upload of the window run
row by row, with the load and the store of a row as two actions.

`Accel` has the control of the code exactly and the geometry of a simpler world. Its two recursions
are unfolded into a stack of calls and a stack of nodes, in the order of the code: the left half is
built before the right one is, and the ranges of later calls are sorted again after a parent has used
them, by any permutation that an unstable sort may leave. `RaySpace` works in a plane through the scene
in which a triangle is a segment, with integer coordinates and with directions along axes and
diagonals. So all distances are exact and rounding in the slab test is out of the model, but boxes
that are flat, rays that run along an edge of a box or touch its corner, triangles that touch, and
extents that end on a triangle are all in it. Fewer than 2^31 triangles are assumed, so that
`begin + end` does not wrap. Left out: `m_bbox`, which no query reads, and what `rayIntersect` computes
of a hit after the traversal (position, normals and texture coordinates).

`SceneLoader` is given no file. Each step decides what the file holds next: another element, out of a
grammar of elements worth trying in that place, or the end of the open one. So all files up to a size
are read, the senseless ones included, and every `throw` on the way is a step that ends the load. It
implements `ObjectTree` (`ImplementsObjectTree`), the order in which the comments of `object.h` say the
methods of an object are called; a class default that `activate()` makes is part of the same step, as
it is in the code. The value of a property is a token, since no class of the tree decides by it anything
that a property here is about, except the use of a texture and the name of a file.

`PathTracing` meets the scene on the way as well: each ray hits any surface, or none. What it keeps
is which weights, BSDF values and probabilities a contribution is made of, not their values; the two
weights of multiple importance sampling are exact fractions of small densities. One thing ties the
two strategies together: if the ray scattered towards a light is the one that the light was sampled
along, it has the same densities and the same visibility (`Agrees`).

`Dielectric` has squared cosines and integer indices of refraction, so that the condition for total
reflection is decided exactly; `fresnel()` and `sample()` each have their own copy of it, as in the code,
and the last step of a path shows if they differ. The tests keep their lists and tables and drop the
statistics: the outcome of a comparison is either. `MeshSampling` puts the points of the file on a plane
grid, where areas are integers.

Operators named with the words "Fault:" above them are plausible errors of the code; they are not
part of any specification. Putting one in the place of the definition that follows it makes TLC report
the property it is paired with in `PROJECT.json`, which shows that the property is about the code.

## What TLC checks

| run | question | bounds |
|---|---|---|
| `generator` | every interleaving of the calls of `next()`: types, each block once, refusals, tiling of the image, centre first, bounded loop, implements `WorkPool` | 3 threads; 7x5 pixels in blocks of 2: a 4x3 grid, even by odd, with a cut last column and row |
| `image_block` | merging blocks gives the image that the filter defines, no access leaves an array | 3x2 pixels in blocks of 2 (a full and a cut block), quarter-pixel positions, radii 1/2, 3/4, 5/4, 2, two samples anywhere, blocks in any order |
| `render_window` | frames are never torn, no worker outlives the job, the job ends, implements `ProgressiveImage` | 2 workers, 2x2 blocks, window closed at any time, any draw may throw with the image locked |
| `render_headless` | nobody is refused, the saved image is complete | 3 workers, 1x4 blocks, all ways to cut the range |
| `accel` | every answer is that of a loop over all triangles; the build loses and repeats no triangle, splits evenly, boxes contain those below, and its vector is overrun in an empty scene only | up to 3 meshes of 1 or 2 triangles each, or none, repetition allowed, leaves of up to 2 triangles; 7 rays, as shadow rays and not |
| `accel_empty` | a scene without triangles (violated, see Findings) | up to 1 mesh |
| `loader` | whatever the file, and wherever it fails: an activated object is complete, nothing is dropped or shared, transforms do not mix, nothing is deleted twice, implements `ObjectTree` | files of up to 8 elements, of two grammars: one of scenes with their meshes, one of what is below a mesh, a camera or a test, with malformed and mistyped properties |
| `path_tracing` | every light path is counted once, by whichever strategy; divisors and survived tests agree | four integrators, paths of up to 7 vertices, two lights, densities 0, 1, 2; surfaces diffuse or specular, emitting or not (in `whitted` emitters are diffuse) |
| `mesh` | the mesh has the triangles of the file with all their attributes, and is sampled by area | files of up to 3 faces out of 9 and up to 4 entries of each list, in any order of lines; triangles of three areas and of none, quads |
| `surface` | a ray that is let through a dielectric has a direction; no filter reads a texel that does not exist | four pairs of indices, ten angles, paths of four bounces; square images of 2 to 4 texels a side, coordinates in half texels two images to each side |
| `tests` | chi-square: a table counts its own test, and cells agree; t-test: each comparison made once, in bounds, all passed on return | a table of 2x4 cells, 2 samples of any direction, 2 tests; one material or up to 3 scenes, lists of up to 3 |
| `t_test_several` | several materials in one t-test (violated, see Findings) | up to 2 materials |

Why these bounds are enough to be interesting. In the 4x3 grid the spiral passes through all four
directions several times, leaves the grid on each side and comes back. Two threads are enough for every
race on the generator's members, which are only touched under the mutex; the third shows that nothing
depends on there being two. In
`image_block` a full block and a cut one overlap in their borders for every radius above a half, and
the radii are on, between and beyond half pixels, where `ceil(radius - 0.5)` changes; two samples are
enough for two blocks to contribute to the same pixel. In `render_*` four blocks all reach common
cells, so that every pair of merges conflicts, and there are more blocks than threads, so that chunks
of one, of several and of all indices occur.

Trees of up to six triangles have up to three levels with the leaf sizes used (the 10 of the code would
need more than ten triangles for a second level), and the meshes are chosen so that keys of the sort
tie, boxes overlap and siblings must both be visited; the rays hit none, one and several of them, graze
boxes and end on triangles.

Eight elements are enough for a scene with a mesh, its file name, an emitter with its radiance, a camera
and an integrator, and one more that is repeated or out of place; the second grammar has the same room
below a mesh. A path of seven vertices passes the fourth, after which Russian roulette begins, and
survives it twice. Three faces are enough for a triangle without area before, between and after others.

Bounds that are part of a model: `MaxNodes` in `SceneLoader`, `MaxVertices` in `PathTracing`, `MaxFaces` and
`MaxListed` in `WavefrontOBJ`, `MaxBounces` in `Dielectric`, `MaxBsdfs`, `MaxScenes` and `MaxValues` in
`TTest`; `MaxSamples` in `ImageBlock` (the number of samples is otherwise
unbounded), `MaxMeshes` in `Accel`; `MaxIndex` there stands for 2^32 - 1, the value to which
the last index of no triangles wraps, and `Infinity` for a distance beyond the scene. `Render` and `BlockGenerator` are finite for a finite grid. Threads are interchangeable in
`BlockGenerator`, hence the symmetry set; not in `Render`, where `Master` is special.

Deadlock is checked in the runs of `BlockGenerator` and `ImageBlock`. Everything else stops by design:
a job ends, a load is finished, a path is absorbed, and the build of a scene without triangles is
undefined and has no further step. `JobEnds` checks that a job stops only at its end.

The run `surface` puts two modules side by side: a path meets a texture or a dielectric; `tests`
likewise one of the two kinds of test object.

### Fairness

`Render!FairSpec` assumes that threads are scheduled: weak fairness for the main thread's own steps
(set-up, the rest of a draw, the end after the join), for every worker once it is inside the lambda, and
for the thread that called `parallel_for` to take chunks, because TBB makes the calling thread take part.
It is not assumed that any other TBB thread ever takes a chunk, that the user closes the window, or that
a frame is drawn. The mutex needs no strong fairness here: every owner releases it, and when nobody but
one thread wants it any more it stays free; a thread that starts a draw again and again could overtake a
worker for ever only in a main loop that is never left, which `JobEnds` does not speak about.
`JobEnds` is about a join with the image not locked by the main thread itself: after a draw that threw it is,
and then the join waits for ever (see Findings).

## What is proved

Every safety property that a passing run checks is also a theorem, as are the three refinements: TLC
shows it on a small instance, the theorem for every value of the constants. Each component has one
module of theorems, which has the inductive invariant, lemmas about what the operators return, and a
lemma for each action. The tables name the property that each theorem is about.

A property is hardly ever inductive by itself. In each case the question was what the code knows at a
step that it does not write down: what the walk of the spiral has passed, who may still sort a range, in
whose hand a block is, where in the tree a child waits. The paragraphs below say what that is.

### Block generator

`BlockGeneratorProofs`, for every image size, block size and set of threads:

| theorem | property | |
|---|---|---|
| `Invariance` | | the inductive invariant `IInv` |
| `TypeCorrect` | `TypeOK` | types; only blocks of the image are handed out |
| `HandedOnce` | `NoBlockTwice` | no block is handed out twice |
| `RefusedOnlyWhenComplete` | `RefusedWhenComplete` | a refusal or a zero counter means that every block was handed out |
| `SpiralBounded` | `LegsBounded` | no leg of the walk is longer than the longer side of the grid plus one |
| `CenterIsFirst` | `CenterFirst` | ring by ring around the centre |
| `RegionsTile` | `RegionsTileImage` | the regions are disjoint and cover the image to the last pixel |
| `Refinement` | `ImplementsWorkPool` | the generator implements `WorkPool` |

Assumptions: image sizes are natural numbers and the block size is positive, and the placeholders
"nobody" and "no block" are no thread and no block. Nothing is assumed about the set of threads, not
even that it is finite.

The argument. That blocks are handed out once is not inductive: the code keeps no record of what it
handed out, only a position and the leg of a walk. `IInv` adds where the walk is in closed form
(`OnSpiral`: the position follows from direction, leg length and steps left) and what it has left behind
(`HandedIsPassed`: what was handed out is exactly the part of the grid behind the walk). `WalkStep`
shows that a round of the loop keeps the first and adds exactly the old position to what is behind;
`BlockNotPassed`, that the current position is not behind. With the lock (`OwnerInside`) this gives
`HandedOnce`, and with the counter (`CountsAgree`) that zero means complete: that is the link between
`m_blocksLeft`, which decides the refusal, and the walk, which decides the blocks. The closed form also
gives the order of the rings and the bound on the legs: while a block is left, it lies beyond what the
walk has passed, so the walk is not past the last ring.

### Rendering job

`RenderProofs`, for every image, block size and finite set of workers, with and without a window, for
every division of the range and with draws that may throw:

| theorem | property | |
|---|---|---|
| `Invariance` | | the inductive invariant `IInv` |
| `TypeCorrect` | `TypeOK` | types |
| `NobodyRefused` | `NeverRefused` | no iteration is left without a block |
| `FramesWhole` | `FrameNotTorn` | a frame shows whole blocks |
| `NoWorkerOutlives` | `NoWorkerOutlivesJob` | nobody is in the lambda after the join, or after an exception |
| `SavedComplete` | `SavedImageComplete` | a file is the complete image |
| `Refinement` | `ImplementsProgressiveImage` | a job implements `ProgressiveImage` |

Assumptions: the workers are finitely many and none of them is the main thread, and the placeholder for
nothing is no worker, no block, not zero and not the complete image.

The argument. Every block is pending, in the hand of one worker, or merged (`InGoodHands`), and what a
cell of the image holds follows from that cell by cell (`ResultExact`): the blocks that reach it and are
merged, and of the block that is being merged those rows that are already stored. This is exact in the
middle of a merge because one worker at most is in one (`MergeLocked`), and what it loaded is still what
is there. The window copies row by row under the same lock (`DrawLocked`), so the rows it has are those
of one image. For `NobodyRefused` the pending blocks must suffice for the iterations to come. A sum over
the workers would be a recursion, so `OneBlockPerIndex` says it without one: the pending blocks can be
shared out so that each worker gets as many as it still owes to its chunk, and what is left is as many
as the indices in no chunk (`Shares`). Who takes a chunk is given the shares of its indices, and whoever
asks has one, so there is a block to grant. The refinement maps a merge to its last row: until then the
cell in that row lacks the block (`BlocksInResult`), so the block does not count as merged.

### Image block

`ImageBlockProofs`, for every image size, block size, subdivision of a pixel, set of radii, size of the
filter table (its values fall off linearly), and number of samples:

| theorem | property | |
|---|---|---|
| `Invariance` | | merged image and current block together are what is expected |
| `TypeCorrect` | `TypeOK` | sizes of the buffers; weights are never negative |
| `BlocksInvisible` | `NothingLost` | the image is what the filter defines |
| `PutInBounds` | `AccessesInBounds` | no access leaves an array |

Assumptions: radii are positive, a pixel has an even number of subunits, the table has an entry.

The argument is about one axis at a time. A sample that `put()` splats at a position local to a block
has the same distance to a pixel as in the image (`SameDistance`), and the weight the table gives to it
is the same (`AxisIsShare`), provided the pixel is within the border; where it is not, the filter is
zero there. So what a block gets is the restriction to its buffer of what the image should get, and a
pixel outside the buffer should get nothing: the border of `ceil(radius - 0.5)` is wide enough. The rest
is addition: the sum of image and current block is kept by `PutBlock` and grows by a sample's share on
`PutSample`.

### Acceleration structure

`AccelProofs`, for every choice of meshes and rays, every size of the leaves, and every outcome of the
sorts:

| theorem | property | |
|---|---|---|
| `Invariance` | | the inductive invariant `IInv` |
| `TypeCorrect` | `TypeOK` | types; a query meets existing nodes and triangles of added meshes only |
| `QueriesExact` | `NearestHit` | `rayIntersect` answers as a loop over all triangles would |
| `LeavesHoldEverything` | `EachTriangleInOneLeaf` | every triangle is in one leaf, once |
| `HalvesBalanced` | `TreeBalanced` | the halves of a range differ by one triangle at most |
| `NodesNested` | `BoxesNested` | the box of a node is inside that of its parent |
| `BuildStaysInBounds` | | if there is a mesh, and meshes have triangles, the build reads within its vector |
| `OverrunOnlyInEmptyScene` | `OverrunOnlyWhenEmpty` | if the build overruns its vector, the scene has no triangle |

Assumptions: meshes are sequences of triangles, rays have an extent that is at most infinite, and leaves
may have a triangle. The triangles and rays are those of `RaySpace`, of any size and at any place.

The argument. That queries are exact needs what the tree promises, and that has to be kept while the
vector under it is still being sorted. `IInv` says who may still do so: the pending calls have disjoint
ranges from left to right (`CallsOrdered`), and each of them lies within the range of a node or apart
from it, apart from every leaf (`NodesCover`, `LeavesComplete`). So a sort moves triangles within the
boxes that cover them, and never one that a leaf has listed. `InnerSplit` and `RootPlaced` say that the
two halves of a node are built, or pending, over exactly its range, and `Numbered` that no call makes a
node twice. For the traversal, `NothingSkipped`: every hit nearer than the recorded one is of a triangle
that is still ahead, in the rest of the leaf or below a node on the stack. A node is pruned by
`HitInBox`: a ray that hits a triangle hits each box that covers it. A recorded hit cuts the extent of
the ray, which loses nothing that could improve it (`RayHits`), and a triangle is hit once at most
(`OneHit`). When nothing is ahead any more, no nearer hit is left.

The shape of the tree follows from the same invariant and two additions. `LeafInv` adds that each place
of the vector is in the range of one pending call or of one leaf (`PlacesTaken`, `LeavesExact`), and
that the vector lists no triangle twice (`GatheredOnce`), which a sort keeps, because a map of a finite
range onto itself is one to one (`SortedRangeDistinct`). `BoxInv` adds that the box a call is expanding
stays within the finished box of the parent, which covers all triangles of the call's range.

### Scene loader

`SceneLoaderProofs`, for every grammar of elements and files of every size:

| theorem | property | |
|---|---|---|
| `Invariance` | | the inductive invariant `IInv` |
| `TypeCorrect` | `TypeOK` | frames and objects point to objects that exist |
| `ReadyObjectsAreComplete` | `ReadyIsComplete` | an activated object has all that rendering reads |
| `EachObjectHasItsPlace` | `NothingDropped` | no object has two owners, only the root has none |
| `DeletedOnce` | `ReleasedOnce` | no object is deleted twice |
| `TransformsDoNotMix` | `TransformIsOwn` | the shared transform is that of the open element |
| `Refinement` | `ImplementsObjectTree` | the objects are made in the order `object.h` describes |

The only assumption is that a file may have an element.

The argument. An object is made by a call of `parseTag` that is still under way, and handed to the call
above it, which adopts it much later; in between it is in no object's list. `InHand` says where it is
then: it waits as a child of one frame (`Waits`), at one place, activated and owned by none, while the
object of the innermost frame is not activated. With `Accounted`, that an object without owner is one of
these, follows that an adoption takes a child from nobody, and that at the end of the load just the root
is left. `KidsOK` keeps that children are complete and that no two objects share one, and `ReadyIsWhole`
what `activate()` saw to, the defaults it makes included. `FramesOK` and `Nested` say which elements may
be open inside which, without which the stack could not be read as a path in the tree. For the transform
it is enough that a `<transform>` holds operations only. The destructors go from the root down, so
whatever is next in line has an owner that is gone (`Deletion`), and it has one owner only: it is not in
line twice. The refinement follows from the same facts: `States` and `Parents` of the abstract tree are
those of the objects, `Counted` bounds their number by the elements read, and activation with a default
made by it is one abstract step.

### Integrators and surfaces

`PathTracingProofs`, for every scene, every set of densities and paths of every length:

| theorem | property | |
|---|---|---|
| `ThroughputIsExact` | `ThroughputMatchesPath` | one BSDF value per vertex, divided by the tests survived |
| `EveryPathCountedOnce` | `CountedOnce` | the strategies together count each light path once |
| `RefractedRaysExist` | `DirectionExists` | what `fresnel()` lets through has a direction |
| `TexelsExist` | `ReadsInImage` | the filters read existing texels |

`EveryPathCountedOnce` supposes that emitters are diffuse where `whitted` runs (see Findings), and
`TexelsExist` that images are square and have two texels or more to a side (likewise). Densities are any
natural numbers; `RefractedRaysExist` takes any two different indices, and any angle.

The argument. `PathInv` ties the variables of one round of the loop to those of the next: what
`previousIsSpecular` remembers is the kind of vertex the ray came from (`Remembered`), the density kept
in `pdfMats` is that of the ray's direction (there too), what the ray will hit has the densities the
emitter was sampled with if both are about one direction (`Aimed`), and the last sample of an emitter
has the weight for its own two densities (`Sampled`). When the emission of the next surface is added,
the weights of the two strategies are then fractions over the same denominator (`WeightsAddUp`). For the
dielectric, that the condition in `fresnel()` for total reflection is the complement of the one in
`sample()`, on both sides. For the textures, that `Wrap` undoes the truncation toward zero and the sign
of C's remainder.

### Mesh

`MeshProofs`, for every set of faces and points and files of every length:

| theorem | property | |
|---|---|---|
| `Invariance` | | the inductive invariant `MInv` |
| `MeshIsTheFile` | `FacesAreKept` | the mesh has the triangles of the file, no vertex twice |
| `NothingIsMissing` | `AttributesExist` | every index has its attributes |
| `SamplesFollowAreas` | `SharesAreAreas` | a triangle is drawn by its share of the area |

Assumptions: faces have three or four corners, and there is a point for every position a file may list.

The argument. `AddCorners` appends corners one by one, and a vertex that exists already is found again
(`Indexed`: no vertex twice, every index exists); vertices keep their places (`StaysNamed`), so the
triangles added before stay what they were. `MeshTriangles = FileTriangles` and `InOrder` are kept line
by line. For the distribution `CInv` says that the sums do not decrease, that a sample lies between two
neighbours (`Sums`), and that these differ by the area of a triangle (`Summed`): the samples that fall
to an entry are as many as its area, triangles without area included.

### Statistical tests

`StatisticalTestsProofs`, for every resolution, number of samples and length of the lists:

| theorem | property | |
|---|---|---|
| `EachSampleIsCounted` | `CountsThisTest` | the observed table counts all samples of its test |
| `ObservedMeetsExpected` | `SameCell` | a sample meets the expected frequency of its own direction |
| `ReferencesAreRead` | `ReadsInBounds` | each comparison is with an entry of the list |
| `ReturnsAfterEveryTest` | `ReturnsOnlyIfAllPassed` | on return every comparison was made, and passed |

The last two suppose at most one material in a t-test; with two they are false (see Findings).

The argument. A direction's cell is `row * columns + column`, and the table of expected frequencies is
filled in that order, so the quotient and the remainder of a cell are its rectangle (`RowAndColumn`,
`CellInTable`); every direction has a cell, the ones on the last edges because of the clamp. For the
t-test, `Position` gives `ctr` as a function of the two loops, and `InOrder` says that test number `t`
was made against entry `t - 1`; the lengths were checked first (`CheckedFirst`), so `ctr` is never past
the list (`ReferencesSuffice`) and is at its end when the loops are.

### Sums and other recursions

The prover does no induction over a recursive definition as such. Where a property needs the value of
one, the recursion is used as an equation. `FlattenSeq` and `FoldFunction` of the community modules are
defined by choosing a function that obeys a recursion, so the invariants say that such a function
exists, and what holds of each function that obeys it (`Flattens` in `MeshProofs`, `Adds` in
`StatisticalTestsProofs`); a step of the code gives the function for the longer list, or the table with
one more, from the one before. Where an induction over sets is needed (two such sums are the same), it
is done by a smallest counterexample (`LeastNat`, `ByRemoval`), from the library's theorem that the
order of the natural numbers is well founded. `WavefrontOBJ` writes the corners of a face out one after
the other, two triangles for a quad, in place of a fold.

### What stays with TLC

- Liveness: `JobEnds`, because the prover has no ENABLED. For the same reason, that the do-while loop of
  the generator stops is proved as a bound on its legs (`LegsBounded`) and not as termination, and the
  absence of deadlock in the runs that check it is TLC's alone.
- The two violated properties are, of course, not theorems; what is proved instead is when they hold:
  `OverrunOnlyInEmptyScene` and `BuildStaysInBounds`, and `ReferencesAreRead` for one material.
- That the models are those of the code. The proofs hold for the models with their abstractions: a plane
  instead of space, fixed point instead of floating point, exact fractions.

## Findings

- `Accel::build()` (`core/accel.cpp:26`) passes `uint32_t(tris.size() - 1)` as the last index. Without
  triangles that is 2^32 - 1, and the first round of the box loop reads `tris[0]` of an empty vector;
  `include/core/accel.h` says that a query intersects "against all triangles stored in the scene", and
  `Scene::activate` builds the structure before it looks at what the scene contains. Run `accel_empty`.
- `StudentsTTest::activate()` (`core/ttest.cpp:105`) takes `m_references[ctr++]` in a loop over the
  references inside the loop over the materials. With two materials the check in line 96 asks for twice as
  many angles as references, and the second material is compared with values past the end of the list;
  line 58 says "a list of reference values, one for each angle". Run `t_test_several`.

Observed while modelling, without a run of their own, because what the code does there is plain to
read; the models avoid the case or do what the code does:

- `getBlockCount()` (`include/core/block.h:139`) returns the blocks left; its comment says "Return the
  total number of blocks". Its only caller asks before the first block is handed out, where both agree.
- `draw_contents` (`core/gui.cpp:120`) leaves the image locked when a call throws. nanogui's main loop
  catches the exception and returns, and the join waits for workers that wait for that mutex
  (`DrawThrows` in `Render`).
- `Bitmap::savePNG` (`core/bitmap.cpp:67`) prints a message when the file cannot be written and returns
  nothing, so the process reports success with an EXR file alone (`SavePNG` in `Render`).
- `Scene::~Scene` (`core/scene.cpp:20`) deletes none of the meshes, and with them no material, emitter or
  texture; its comment says "Release all memory" (`include/objects/scene.h:26`).
- The default `activate()` (`core/object.cpp:17`) does nothing; `include/objects/object.h:67` says that it
  throws an exception. Several classes rely on what it does.
- `Scene::sampleLight` (`core/scene.cpp:117`) reads `m_lights[0]` of an empty vector in a scene without
  emitters. `PathTracing` assumes a light.
- `whitted` (`integrators/whitted.cpp:59`) drops the emission of a surface that is not diffuse, and with it
  a light path that `CountedOnce` asks for; hence its diffuse emitters in the run.
- `DiscretePDF` (`tools/dpdf.h:106`): the sample 0 chooses the first entry even if it has no mass, and a
  distribution without entries, that of a mesh without faces, returns an index that does not exist. `sampleReuse`
  is never called.
- The texture filters (`textures/tfilter.cpp`) pass x as the row, so an image that is not square is read
  outside, as is one of a single texel; and at the last column they blend the first two instead
  of the last and the first.
- `Dielectric::sample` (`materials/dielectric.cpp:36`) sets `eta` to the same ratio on entering and on
  leaving; `include/objects/bsdf.h:25` says "Relative refractive index in the sampled direction". The
  integrators use it for Russian roulette only.

## What is not modelled, and why

- Floating-point densities and sampling: diffuse and microfacet materials, warps, the camera's projection,
  radiance, the statistics of the tests. Their correctness is numerical, beyond TLC's integers.
- The integrators `normals`, `ao` and `simple`: one formula at the first hit, without state.
- `warptest`, an interactive program of its own, and the options of the command line.
- Presentation: widgets, tone mapping, progress messages, timers, file naming, pixel formats.
- `generate()` and `advance()` of a sampler, which the comments of `include/objects/sampler.h:33-37` describe as a
  protocol: the only sampler leaves them empty and the renderer calls neither.
- An exception inside the lambda: none of the modelled calls throws one in a well-formed scene.
- What is under `src/ext`, nearly all the lines of the repository: TBB, nanogui, OpenEXR, Eigen, pugixml
  and stb are vendored and appear by how the renderer uses them.

## Plan

Every part of the renderer whose correctness is discrete has its module, and every safety property of
a run has its theorem. What could be added:

1. `JobEnds` in the parts that need no ENABLED: that outside of a finished job some thread always has a
   step whose guard is written out, and a measure that the steps of the workers make smaller.
2. The same for the spiral: a measure that each round of the do-while loop makes smaller.
3. That `BlockGenerator` may replace `WorkPool` inside `Render`, as one theorem about the composition.

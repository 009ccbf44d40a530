----------------------------- MODULE SceneLoader -----------------------------
(***************************************************************************)
(* Loading a scene description (parser.cpp), from the first element of the  *)
(* file to the deletion of the object tree in main(). parseTag() recurses   *)
(* over the elements: its activations are the frames of stack. The file is  *)
(* not given in advance: each step the next thing it holds is an element or *)
(* the end of the open one, so every description of up to MaxNodes elements *)
(* of one of the Grammars is read.                                          *)
(***************************************************************************)
EXTENDS Naturals, Sequences, SequencesExt, FiniteSets

CONSTANTS
  Grammars,    \* what files hold: kind of element -> the elements tried inside it
  MaxNodes,    \* bound: elements of a file
  Files        \* the files that can be read

ASSUME MaxNodesAssumption == MaxNodes \in Nat \ {0}

VARIABLES
  grammar,     \* that of the file being read
  nodes,       \* elements read so far
  stack,       \* one frame for each active call of parseTag()
  objs,        \* the objects made so far, in the order of their construction
  transform,   \* the product that all <transform> elements share
  outcome,     \* "parsing", "failed", "loaded", "finished"
  pending,     \* the objects that running destructors still have to delete
  released     \* the objects deleted, in order

vars == <<grammar, nodes, stack, objs, transform, outcome, pending, released>>

OpTags == {"translate", "rotate", "scale", "lookat", "matrix"}
PropertyTags == {"string", "float", "integer", "boolean", "point", "vector", "color", "transform"}
ObjectTags == {"scene", "mesh", "bsdf", "emitter", "camera", "integrator", "sampler",
               "test", "texture", "rfilter", "tfilter", "medium", "phase"}

\* getClassType() of each registered class; integrators stand for one another.
ClassTag ==
  [scene |-> "scene", obj |-> "mesh", diffuse |-> "bsdf", mirror |-> "bsdf",
   area |-> "emitter", perspective |-> "camera", path_mis |-> "integrator",
   independent |-> "sampler", solid |-> "texture", image |-> "texture",
   gaussian |-> "rfilter", bilinear |-> "tfilter", ttest |-> "test", chi2test |-> "test"]

-------------------------------------------------------------------------------
(* Properties and constructors.                                            *)

\* A later property of the same name replaces the earlier one, type and all.
SetProperty(props, el, value) ==
  [n \in DOMAIN props \cup {el.name} |->
     IF n = el.name THEN [type |-> el.tag, value |-> value] ELSE props[n]]

\* What a constructor reads, with the type it asks for.
Required ==
  [c \in DOMAIN ClassTag |->
     CASE c = "obj"   -> [filename |-> "string"]
       [] c = "area"  -> [radiance |-> "color"]
       [] c = "solid" -> [value |-> "color", use |-> "string"]
       [] c = "image" -> [use |-> "string", filename |-> "string"]
       [] OTHER       -> <<>>]

Optional ==
  [c \in DOMAIN ClassTag |->
     CASE c = "obj"         -> [toWorld |-> "transform"]
       [] c = "perspective" -> [width |-> "integer", height |-> "integer", toWorld |-> "transform",
                                fov |-> "float", nearClip |-> "float", farClip |-> "float"]
       [] c = "independent" -> [sampleCount |-> "integer"]
       [] c = "gaussian"    -> [radius |-> "float", stddev |-> "float"]
       [] c = "ttest"       -> [significanceLevel |-> "float", angles |-> "string",
                                references |-> "string", sampleCount |-> "integer"]
       [] c = "chi2test"    -> [significanceLevel |-> "float", resolution |-> "integer",
                                minExpFrequency |-> "integer", sampleCount |-> "integer",
                                testCount |-> "integer"]
       [] OTHER             -> <<>>]

CtorAccepts(class, props) ==
  /\ \A n \in DOMAIN Required[class] : n \in DOMAIN props /\ props[n].type = Required[class][n]
  /\ \A n \in DOMAIN Optional[class] \cap DOMAIN props : props[n].type = Optional[class][n]
  /\ "filename" \in DOMAIN Required[class] => props["filename"].value \in Files

\* Texture::getTextureUse knows two of the uses.
TextureUse(class, props) ==
  IF ClassTag[class] # "texture" THEN "none"
  ELSE IF props["use"].value \in {"albedo", "radiance"} THEN props["use"].value ELSE "unknown"

NewObject(class, use, placed, kids) ==
  [class |-> class, use |-> use, placed |-> placed, kids |-> kids,
   ready |-> FALSE, tree |-> {}, lights |-> {}]

Construct(class, props) ==
  NewObject(class, TextureUse(class, props),
            IF "toWorld" \in DOMAIN props THEN props["toWorld"].value ELSE <<>>, <<>>)

-------------------------------------------------------------------------------
(* addChild() of each class: the member the child would become.            *)

Tag(o) == ClassTag[objs[o].class]
KidsIn(o) == {objs[o].kids[i] : i \in DOMAIN objs[o].kids}
Slot(c) == IF Tag(c) = "texture" THEN objs[c].use ELSE Tag(c)
InSlot(o, slot) == {c \in KidsIn(o) : Slot(c) = slot}

\* The members a class has. A scene's addChild rejects emitters by name.
Members ==
  [c \in DOMAIN ClassTag |->
     CASE c = "scene"                      -> {"mesh", "sampler", "camera", "integrator"}
       [] c = "obj"                        -> {"bsdf", "emitter"}
       [] ClassTag[c] \in {"bsdf", "emitter"} -> {"albedo", "radiance"}
       [] c = "image"                      -> {"tfilter"}
       [] c = "perspective"                -> {"rfilter"}
       [] c = "ttest"                      -> {"bsdf", "scene"}
       [] c = "chi2test"                   -> {"bsdf"}
       [] OTHER                            -> {}]

\* Members that are vectors; any other holds one child.
IsList(class, slot) == (class = "scene" /\ slot = "mesh") \/ ClassTag[class] = "test"

Accepts(o, c) ==
  /\ Slot(c) \in Members[objs[o].class]
  /\ IsList(objs[o].class, Slot(c)) \/ InSlot(o, Slot(c)) = {}

\* Fault: addChild() of a mesh ignores emitters.
AddChildButEmitters(o, c) ==
  IF Tag(c) = "emitter" THEN objs ELSE [objs EXCEPT ![o].kids = Append(@, c)]

AddChild(o, c) == [objs EXCEPT ![o].kids = Append(@, c)]

-------------------------------------------------------------------------------
(* activate() of each class.                                               *)

\* The member each activate() fills with a default when it is empty.
DefaultFor ==
  [scene |-> [slot |-> "sampler", class |-> "independent"],
   obj |-> [slot |-> "bsdf", class |-> "diffuse"],
   diffuse |-> [slot |-> "albedo", class |-> "solid"],
   area |-> [slot |-> "radiance", class |-> "solid"],
   image |-> [slot |-> "tfilter", class |-> "bilinear"],
   perspective |-> [slot |-> "rfilter", class |-> "gaussian"]]

HasActivate(class) == class \in DOMAIN DefaultFor \/ ClassTag[class] = "test"

\* A default is complete once made, unless its class has an activate() to run.
Default(class, use) ==
  [NewObject(class, use, <<>>, <<>>) EXCEPT !.ready = ~HasActivate(class)]

\* Fault: the material a mesh makes has no texture.
BareMaterial ==
  <<[Default("diffuse", "none") EXCEPT !.ready = TRUE, !.kids = <<Len(objs) + 2>>]>>

\* Fault: the material a mesh makes is not activated.
MaterialNotActivated == <<Default("diffuse", "none")>>

\* The diffuse material a mesh makes is activated, and makes its own texture.
DefaultMaterial ==
  <<[Default("diffuse", "none") EXCEPT !.ready = TRUE, !.kids = <<Len(objs) + 2>>],
    Default("solid", "albedo")>>

Defaults(o) ==
  LET class == objs[o].class IN
  IF class \notin DOMAIN DefaultFor THEN <<>>
  ELSE LET d == DefaultFor[class] IN
       IF InSlot(o, d.slot) # {} THEN <<>>
       ELSE IF class = "obj" THEN DefaultMaterial
       ELSE <<Default(d.class, IF d.class = "solid" THEN d.slot ELSE "none")>>

IsEmitter(mesh) == InSlot(mesh, "emitter") # {}

-------------------------------------------------------------------------------
(* parseTag().                                                             *)

Top == stack[Len(stack)]
Parsing == outcome = "parsing" /\ stack # <<>>
InBody == Parsing /\ Top.result = 0
ParentTag == IF stack = <<>> THEN "none" ELSE Top.el.tag

\* result: the object the element stands for, 0 until it is constructed;
\* adopted: how many children it was given; ops: the operations read inside it.
Frame(el) ==
  [el |-> el, props |-> <<>>, children |-> <<>>, result |-> 0, adopted |-> 0, ops |-> <<>>]

Pop(rest) == stack' = rest
Below == SubSeq(stack, 1, Len(stack) - 1)

Fail == outcome' = "failed" /\ UNCHANGED <<stack, objs, transform>>

\* The safety checks of parser.cpp 143-161.
Nests(tag, parent) ==
  /\ tag \in ObjectTags \cup PropertyTags \cup OpTags
  /\ parent = "none" => tag \in ObjectTags
  /\ parent = "transform" <=> tag \in OpTags
  /\ parent \in ObjectTags \cup {"none", "transform"}

\* Fault: a <transform> goes on from the one before it.
Stale(tag) == transform

Fresh(tag) == IF tag = "transform" THEN <<>> ELSE transform

Init ==
  /\ grammar \in Grammars
  /\ nodes = 0 /\ stack = <<>> /\ objs = <<>> /\ transform = <<>>
  /\ outcome = "parsing" /\ pending = <<>> /\ released = <<>>

Open(el) ==
  /\ outcome = "parsing" /\ (nodes = 0 \/ InBody)
  /\ nodes < MaxNodes
  /\ nodes' = nodes + 1
  /\ IF Nests(el.tag, ParentTag)
     THEN /\ stack' = Append(stack, Frame(el))
          /\ transform' = Fresh(el.tag)
          /\ UNCHANGED <<objs, outcome>>
     ELSE Fail
  /\ UNCHANGED <<grammar, pending, released>>

\* A transform operation multiplies from the left.
CloseOperation ==
  /\ InBody /\ Top.el.tag \in OpTags
  /\ IF Top.el.wellFormed
     THEN /\ transform' = <<Top.el.value>> \o transform
          /\ Pop([Below EXCEPT ![Len(Below)].ops = <<Top.el.value>> \o @])
          /\ UNCHANGED <<objs, outcome>>
     ELSE Fail
  /\ UNCHANGED <<grammar, nodes, pending, released>>

CloseProperty ==
  /\ InBody /\ Top.el.tag \in PropertyTags
  /\ IF Top.el.wellFormed
     THEN LET value == IF Top.el.tag = "transform" THEN transform ELSE Top.el.value IN
          /\ Pop([Below EXCEPT ![Len(Below)].props = SetProperty(@, Top.el, value)])
          /\ UNCHANGED <<objs, transform, outcome>>
     ELSE Fail
  /\ UNCHANGED <<grammar, nodes, pending, released>>

\* createInstance(); an object of another tag than the element's is made, then refused.
Instantiate ==
  /\ InBody /\ Top.el.tag \in ObjectTags
  /\ LET class == Top.el.type IN
     IF Top.el.wellFormed /\ class \in DOMAIN ClassTag /\ CtorAccepts(class, Top.props)
     THEN /\ objs' = Append(objs, Construct(class, Top.props))
          /\ IF ClassTag[class] = Top.el.tag
             THEN /\ stack' = [stack EXCEPT ![Len(stack)].result = Len(objs')]
                  /\ UNCHANGED <<transform, outcome>>
             ELSE outcome' = "failed" /\ UNCHANGED <<stack, transform>>
     ELSE Fail
  /\ UNCHANGED <<grammar, nodes, pending, released>>

AllAdopted == Top.adopted = Len(Top.children)

AdoptNext ==
  /\ Parsing /\ Top.result # 0 /\ Top.adopted < Len(Top.children)
  /\ LET c == Top.children[Top.adopted + 1] IN
     IF Accepts(Top.result, c)
     THEN /\ objs' = AddChild(Top.result, c)
          /\ stack' = [stack EXCEPT ![Len(stack)].adopted = @ + 1]
          /\ UNCHANGED <<transform, outcome>>
     ELSE Fail
  /\ UNCHANGED <<grammar, nodes, pending, released>>

\* Fault: the camera is not checked.
UsableWithoutCamera(o) == InSlot(o, "integrator") # {}

\* What a scene's activate() checks, after it has built the tree.
SceneUsable(o) == InSlot(o, "integrator") # {} /\ InSlot(o, "camera") # {}

Activated(o) ==
  LET meshes == InSlot(o, "mesh")
      added == Defaults(o) IN
  [objs EXCEPT ![o].ready = TRUE,
               ![o].kids = IF added = <<>> THEN @ ELSE Append(@, Len(objs) + 1),
               ![o].tree = IF objs[o].class = "scene" THEN meshes ELSE {},
               ![o].lights = IF objs[o].class = "scene" THEN {m \in meshes : IsEmitter(m)} ELSE {}]
    \o added

\* activate(), and the return of parseTag() with the object. A test runs its
\* tests here, and throws when one fails.
Activate ==
  LET o == Top.result IN
  /\ Parsing /\ Top.result # 0 /\ AllAdopted
  /\ \E testsPass \in IF Tag(o) = "test" THEN BOOLEAN ELSE {TRUE} :
       IF testsPass /\ (Tag(o) = "scene" => SceneUsable(o))
       THEN /\ objs' = Activated(o)
            /\ Pop(IF Len(stack) = 1 THEN <<>>
                   ELSE [Below EXCEPT ![Len(Below)].children = Append(@, o)])
            /\ outcome' = IF Len(stack) = 1 THEN "loaded" ELSE outcome
            /\ pending' = IF Len(stack) = 1 THEN <<o>> ELSE <<>>
            /\ UNCHANGED transform
       ELSE IF Tag(o) = "scene"
       THEN /\ objs' = [objs EXCEPT ![o].tree = InSlot(o, "mesh")]
            /\ outcome' = "failed"
            /\ UNCHANGED <<stack, transform, pending>>
       ELSE Fail /\ UNCHANGED pending
  /\ UNCHANGED <<grammar, nodes, released>>

-------------------------------------------------------------------------------
(* main() deletes the root; each destructor deletes members of its own.    *)

DeletedBy(class) ==
  CASE class = "scene" -> {"sampler", "camera", "integrator"}
    [] class = "obj" -> {"bsdf", "emitter"}
    [] ClassTag[class] \in {"bsdf", "emitter"} -> {"albedo", "radiance"}
    [] class = "ttest" -> {"bsdf", "scene"}
    [] class = "chi2test" -> {"bsdf"}
    [] OTHER -> {}

\* Fault: a scene deletes all it points to, its meshes and its lights.
DestroysAll(o) ==
  SelectSeq(objs[o].kids, LAMBDA c : TRUE)
    \o SelectSeq(objs[o].kids, LAMBDA c : c \in objs[o].lights)

\* The places of the members that are deleted.
Doomed(o) == {i \in DOMAIN objs[o].kids : Slot(objs[o].kids[i]) \in DeletedBy(objs[o].class)}

\* One after the other, in some order: textures are in that of a map.
Destroys(o) ==
  LET order == SetToSeq(Doomed(o)) IN [k \in DOMAIN order |-> objs[o].kids[order[k]]]

Delete ==
  /\ outcome = "loaded" /\ pending # <<>>
  /\ LET o == Head(pending) IN
     /\ pending' = Destroys(o) \o Tail(pending)
     /\ released' = Append(released, o)
  /\ outcome' = IF pending' = <<>> THEN "finished" ELSE outcome
  /\ UNCHANGED <<grammar, nodes, stack, objs, transform>>

Elements ==
  LET place == IF stack = <<>> THEN "none"
               ELSE IF Top.el.tag \in ObjectTags THEN Top.el.type ELSE Top.el.tag
  IN IF place \in DOMAIN grammar THEN grammar[place] ELSE {}

Next ==
  \/ \E el \in Elements : Open(el)
  \/ CloseOperation \/ CloseProperty
  \/ Instantiate \/ AdoptNext \/ Activate
  \/ Delete

Spec == Init /\ [][Next]_vars

-------------------------------------------------------------------------------
(* Properties                                                              *)

TypeOK ==
  /\ nodes \in 0..MaxNodes
  /\ outcome \in {"parsing", "failed", "loaded", "finished"}
  /\ \A i \in DOMAIN stack : /\ stack[i].result \in 0..Len(objs)
                             /\ stack[i].adopted \in 0..Len(stack[i].children)
                             /\ \A j \in DOMAIN stack[i].children : stack[i].children[j] \in DOMAIN objs
  /\ \A o \in DOMAIN objs : /\ objs[o].class \in DOMAIN ClassTag
                            /\ KidsIn(o) \subseteq DOMAIN objs
                            /\ objs[o].tree \cup objs[o].lights \subseteq DOMAIN objs

Owners(o) == {p \in DOMAIN objs : o \in KidsIn(p)}

Complete(o) ==
  LET class == objs[o].class
      one(slot) == Cardinality(InSlot(o, slot)) = 1 IN
  /\ \A c \in KidsIn(o) : objs[c].ready
  /\ \A slot \in Members[class] : IsList(class, slot) \/ Cardinality(InSlot(o, slot)) <= 1
  /\ class \in DOMAIN DefaultFor => one(DefaultFor[class].slot)
  /\ class = "scene" => /\ one("camera") /\ one("integrator")
                        /\ objs[o].tree = InSlot(o, "mesh")
                        /\ objs[o].lights = {m \in InSlot(o, "mesh") : IsEmitter(m)}

\* Whatever the file, and whether or not the load fails later: an object whose
\* activate() has returned has every member rendering reads, each of them
\* ready, a scene has its tree over all its meshes and knows all its lights.
ReadyIsComplete == \A o \in DOMAIN objs : objs[o].ready => Complete(o)

\* No element is dropped or shared: an object has at most one owner, and once
\* loaded everything but the root has one, so the image shows what the file says.
NothingDropped ==
  /\ \A o \in DOMAIN objs : Cardinality(Owners(o)) <= 1
  /\ outcome = "loaded" => Cardinality({o \in DOMAIN objs : Owners(o) = {}}) = 1

\* The product a <transform> stores is that of its own operations, although
\* all of them share one variable.
TransformIsOwn ==
  \A i \in DOMAIN stack : stack[i].el.tag = "transform" => transform = stack[i].ops

\* Deleting the root deletes no object twice.
ReleasedOnce ==
  LET all == released \o pending IN
  \A i, j \in DOMAIN all : all[i] = all[j] => i = j

\* Each load is one of the histories NoriObject promises (see ObjectTree).
Identities == 1..(3 * MaxNodes)     \* an element makes at most two defaults

Tree == INSTANCE ObjectTree WITH
  Objects <- Identities,
  NoObject <- 0,
  state <- [o \in Identities |-> IF o \notin DOMAIN objs THEN "none"
                                 ELSE IF objs[o].ready THEN "ready" ELSE "new"],
  parent <- [o \in Identities |-> IF o \in DOMAIN objs /\ Owners(o) # {}
                                  THEN CHOOSE p \in Owners(o) : TRUE ELSE 0]

ImplementsObjectTree == Tree!Spec
===============================================================================

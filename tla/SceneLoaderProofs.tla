-------------------------- MODULE SceneLoaderProofs --------------------------
(***************************************************************************)
(* Theorems about SceneLoader, for files of any grammar and any length.    *)
(***************************************************************************)
EXTENDS SceneLoader, FiniteSetTheorems, TLAPS

-----------------------------------------------------------------------------
(* The values of the state.                                                *)

\* The elements files are made of, and what these hold.
Els   == UNION {UNION {g[place] : place \in DOMAIN g} : g \in Grammars}
Tags  == {el.tag : el \in Els}
Names == {el.name : el \in Els}

\* A product of transforms is the sequence of its factors.
Factors == {el.value : el \in Els}
Values  == Factors \cup Seq(Factors)

PropertyLists == UNION {[names -> [type : Tags, value : Values]] : names \in SUBSET Names}

Frames ==
  [el : Els, props : PropertyLists, children : Seq(Nat), result : Nat, adopted : Nat,
   ops : Seq(Factors)]

Objs ==
  [class : DOMAIN ClassTag, use : {"none", "albedo", "radiance", "unknown"},
   placed : Values, kids : Seq(Nat), ready : BOOLEAN, tree : SUBSET Nat, lights : SUBSET Nat]

-----------------------------------------------------------------------------
(* The inductive invariant.                                                *)

Shape ==
  /\ grammar \in Grammars
  /\ nodes \in 0..MaxNodes
  /\ stack \in Seq(Frames)
  /\ objs \in Seq(Objs)
  /\ transform \in Seq(Factors)
  /\ outcome \in {"parsing", "failed", "loaded", "finished"}
  /\ pending \in Seq(Nat) /\ released \in Seq(Nat)

\* What the frames hold: the calls of parseTag() below the last one wait for an
\* element inside theirs, and only an <object> has objects to adopt.
FrameOK(i) ==
  /\ stack[i].result \in 0..Len(objs)
  /\ stack[i].adopted \in 0..Len(stack[i].children)
  /\ \A j \in DOMAIN stack[i].children : stack[i].children[j] \in DOMAIN objs
  /\ i < Len(stack) => stack[i].result = 0
  /\ stack[i].result = 0 => stack[i].adopted = 0
  /\ stack[i].el.tag \notin ObjectTags => stack[i].result = 0 /\ stack[i].children = <<>>

FramesOK == \A i \in DOMAIN stack : FrameOK(i)

\* Which element may hold which.
Nested ==
  /\ nodes = 0 => stack = <<>> /\ objs = <<>>
  /\ \A i \in DOMAIN stack :
       Nests(stack[i].el.tag, IF i = 1 THEN "none" ELSE stack[i - 1].el.tag)

Injective(s) == \A i, j \in DOMAIN s : s[i] = s[j] => i = j

\* What an object was given: its own members, complete, one in a slot.
KidsOK ==
  \A o \in DOMAIN objs :
    /\ KidsIn(o) \subseteq DOMAIN objs
    /\ objs[o].tree \cup objs[o].lights \subseteq DOMAIN objs
    /\ Injective(objs[o].kids)
    /\ \A c \in KidsIn(o) : objs[c].ready
    /\ \A p \in DOMAIN objs : KidsIn(o) \cap KidsIn(p) # {} => p = o
    /\ \A slot \in Members[objs[o].class] :
         IsList(objs[o].class, slot) \/ \A c, d \in InSlot(o, slot) : c = d

\* What activate() sees to.
Whole(o) ==
  /\ objs[o].class \in DOMAIN DefaultFor => InSlot(o, DefaultFor[objs[o].class].slot) # {}
  /\ objs[o].class = "scene" =>
       /\ InSlot(o, "camera") # {} /\ InSlot(o, "integrator") # {}
       /\ objs[o].tree = InSlot(o, "mesh")
       /\ objs[o].lights = {m \in InSlot(o, "mesh") : IsEmitter(m)}

ReadyIsWhole == \A o \in DOMAIN objs : objs[o].ready => Whole(o)

\* Object c is the j-th child in the i-th frame, and has still to be adopted.
Waits(c, i, j) ==
  /\ i \in DOMAIN stack /\ j \in DOMAIN stack[i].children
  /\ stack[i].adopted < j /\ stack[i].children[j] = c

\* The object of the last frame is not activated yet; children that wait are
\* complete and nobody's, each in one place.
InHand ==
  /\ \A i \in DOMAIN stack : stack[i].result # 0 => ~objs[stack[i].result].ready
  /\ \A c, i, j \in Nat : Waits(c, i, j) => objs[c].ready /\ Owners(c) = {}
  /\ \A c, i, j, k, l \in Nat : Waits(c, i, j) /\ Waits(c, k, l) => i = k /\ j = l

\* While the file is read an object that belongs to none is the one under way
\* or waits; once it is loaded there is one such object.
Accounted ==
  /\ outcome = "parsing" =>
       \A o \in DOMAIN objs : Owners(o) = {} =>
         \/ \E i \in DOMAIN stack : stack[i].result = o
         \/ \E i, j \in Nat : Waits(o, i, j)
  /\ outcome = "loaded" =>
       /\ stack = <<>>
       /\ \E root \in DOMAIN objs : \A o \in DOMAIN objs : Owners(o) = {} <=> o = root

\* An element accounts for three objects; those of the open elements are still
\* to come.
Counted ==
  /\ Len(objs) <= 3 * nodes
  /\ outcome = "parsing" =>
       Len(objs) + 3 * Len(stack)
         <= 3 * nodes + (IF stack # <<>> /\ Top.result # 0 THEN 1 ELSE 0)

\* Objects are deleted from the root down, so the owner of one that is next or
\* gone is gone.
Ran(s) == {s[i] : i \in DOMAIN s}
Deletion ==
  /\ outcome \in {"parsing", "failed"} => pending = <<>> /\ released = <<>>
  /\ Injective(released) /\ Injective(pending)
  /\ Ran(released) \cap Ran(pending) = {}
  /\ Ran(released) \cup Ran(pending) \subseteq DOMAIN objs
  /\ \A o \in Ran(released) \cup Ran(pending) :
       Owners(o) = {} \/ Owners(o) \cap Ran(released) # {}

IInv ==
  /\ Shape /\ FramesOK /\ Nested /\ TransformIsOwn
  /\ KidsOK /\ ReadyIsWhole /\ InHand /\ Accounted /\ Counted /\ Deletion

-----------------------------------------------------------------------------
(* The tables.                                                             *)

LEMMA SlotTables ==
    ASSUME NEW class \in DOMAIN ClassTag
    PROVE  /\ Members[class] \subseteq ObjectTags \cup {"albedo", "radiance"}
           /\ class \in DOMAIN DefaultFor =>
                /\ DefaultFor[class].slot \in Members[class]
                /\ DefaultFor[class].class \in DOMAIN ClassTag
                /\ ~IsList(class, DefaultFor[class].slot)
  BY DEF Members, ClassTag, DefaultFor, IsList, ObjectTags

LEMMA SceneTables ==
    /\ {"mesh", "sampler", "camera", "integrator"} = Members["scene"]
    /\ ~IsList("scene", "camera") /\ ~IsList("scene", "integrator")
    /\ "scene" \in DOMAIN DefaultFor /\ DefaultFor["scene"].slot = "sampler"
  BY DEF Members, ClassTag, DefaultFor, IsList

LEMMA SetPropertyIn ==
    ASSUME NEW props \in PropertyLists, NEW el \in Els, NEW value \in Values
    PROVE  SetProperty(props, el, value) \in PropertyLists
  <1>1. PICK names \in SUBSET Names : props \in [names -> [type : Tags, value : Values]]
    BY DEF PropertyLists
  <1>2. el.name \in Names /\ el.tag \in Tags
    BY DEF Names, Tags
  <1> DEFINE more == names \cup {el.name}
             p == SetProperty(props, el, value)
  <1>3. p = [n \in more |-> IF n = el.name THEN [type |-> el.tag, value |-> value] ELSE props[n]]
    BY <1>1 DEF SetProperty
  <1>4. p \in [more -> [type : Tags, value : Values]]
    BY <1>1, <1>2, <1>3
  <1>5. more \in SUBSET Names
    BY <1>1, <1>2
  <1> QED
    BY <1>4, <1>5 DEF PropertyLists

LEMMA FrameIn == ASSUME NEW el \in Els PROVE Frame(el) \in Frames
  <1>1. <<>> \in PropertyLists
    <2>1. <<>> \in [{} -> [type : Tags, value : Values]]
      OBVIOUS
    <2> QED
      BY <2>1 DEF PropertyLists
  <1> QED
    BY <1>1 DEF Frame, Frames

LEMMA ElementIn == ASSUME Shape, NEW el \in Elements PROVE el \in Els
  BY DEF Shape, Elements, Els

LEMMA TagSets ==
    /\ "transform" \in PropertyTags
    /\ ObjectTags \cap PropertyTags = {} /\ ObjectTags \cap OpTags = {}
    /\ PropertyTags \cap OpTags = {}
    /\ "none" \notin ObjectTags \cup PropertyTags \cup OpTags
  BY DEF ObjectTags, PropertyTags, OpTags

-----------------------------------------------------------------------------
(* The stack of calls.                                                     *)

LEMMA TopFacts ==
    ASSUME Shape, stack # <<>>
    PROVE  /\ Len(stack) \in Nat \ {0} /\ Len(stack) \in DOMAIN stack
           /\ DOMAIN stack = 1..Len(stack)
           /\ Top = stack[Len(stack)] /\ Top \in Frames
           /\ Below \in Seq(Frames) /\ Len(Below) = Len(stack) - 1
           /\ \A i \in 1..(Len(stack) - 1) : i \in DOMAIN stack /\ Below[i] = stack[i]
  <1> DEFINE n == Len(stack)
             rest == SubSeq(stack, 1, n - 1)
  <1>1. stack \in Seq(Frames)
    BY DEF Shape
  <1>2. n \in Nat \ {0} /\ n \in DOMAIN stack /\ DOMAIN stack = 1..n /\ stack[n] \in Frames
    BY <1>1
  <1>3. rest \in Seq(Frames) /\ Len(rest) = n - 1
    BY <1>1, <1>2
  <1>4. \A i \in 1..(n - 1) : i \in DOMAIN stack /\ rest[i] = stack[i]
    BY <1>1, <1>2
  <1> QED
    BY <1>2, <1>3, <1>4 DEF Top, Below

\* A <transform> is the last frame, or the last but one below an operation.
LEMMA TransformLast ==
    ASSUME Shape, Nested, NEW i \in DOMAIN stack, stack[i].el.tag = "transform"
    PROVE  i = Len(stack) \/ (i = Len(stack) - 1 /\ Top.el.tag \in OpTags)
  <1> DEFINE n == Len(stack)
             tag(k) == stack[k].el.tag
  <1>1. n \in Nat /\ DOMAIN stack = 1..n
    BY DEF Shape
  <1>2. ASSUME NEW k \in 1..n, k # 1
        PROVE  /\ tag(k - 1) = "transform" <=> tag(k) \in OpTags
               /\ tag(k - 1) \in ObjectTags \cup {"none", "transform"}
    BY <1>1, <1>2 DEF Nested, Nests
  <1>3. Top.el.tag = tag(n)
    BY DEF Top
  <1> HIDE DEF n, tag
  <1>4. CASE i = n
    BY <1>4 DEF n
  <1>5. CASE i = n - 1
    <2>1. n \in 1..n /\ n # 1 /\ n - 1 = i
      BY <1>1, <1>5
    <2>2. tag(n) \in OpTags
      BY <1>2, <2>1 DEF tag
    <2> QED
      BY <1>3, <1>5, <2>2 DEF n
  <1>6. CASE i # n /\ i # n - 1
    <2> DEFINE j == i + 1
               k == i + 2
    <2>1. j \in 1..n /\ j # 1 /\ j - 1 = i /\ k \in 1..n /\ k # 1 /\ k - 1 = j
      BY <1>1, <1>6
    <2> HIDE DEF j, k
    <2>2. tag(i) = "transform"
      BY DEF tag
    <2>3. tag(j) \in OpTags
      BY <1>2, <2>1, <2>2
    <2>4. tag(j) \in ObjectTags \cup {"none", "transform"}
      BY <1>2, <2>1
    <2> QED
      BY <2>3, <2>4, TagSets
  <1> QED
    BY <1>4, <1>5, <1>6

-----------------------------------------------------------------------------
(* What depends on the objects only.                                       *)

LEMMA SameObjs ==
    ASSUME objs' = objs
    PROVE  /\ KidsOK' = KidsOK /\ ReadyIsWhole' = ReadyIsWhole
           /\ \A o : Owners(o)' = Owners(o) /\ KidsIn(o)' = KidsIn(o)
  BY DEF KidsOK, ReadyIsWhole, Owners, KidsIn, Whole, InSlot, Slot, Tag, IsEmitter

LEMMA SameWaits ==
    ASSUME stack' = stack
    PROVE  \A c, i, j : Waits(c, i, j)' = Waits(c, i, j)
  BY DEF Waits

\* Nothing is read after an error.
LEMMA FailKeeps ==
    ASSUME IInv, Fail, nodes' \in nodes..MaxNodes,
           UNCHANGED <<grammar, pending, released>>, outcome = "parsing"
    PROVE  IInv'
  <1> USE DEF Fail, IInv
  <1>1. Shape'
    BY MaxNodesAssumption DEF Shape
  <1>2. nodes \in Nat /\ nodes' \in Nat /\ nodes <= nodes'
    BY MaxNodesAssumption DEF Shape
  <1>3. FramesOK'
    BY DEF FramesOK, FrameOK
  <1>4. Nested' /\ TransformIsOwn'
    BY <1>2 DEF Nested, TransformIsOwn
  <1>5. KidsOK' /\ ReadyIsWhole'
    BY SameObjs
  <1>6. InHand'
    BY SameObjs, SameWaits DEF InHand
  <1>7. Accounted'
    BY DEF Accounted
  <1>8. Counted'
    <2>1. Len(objs) \in Nat
      BY DEF Shape
    <2> QED
      BY <1>2, <2>1 DEF Counted
  <1>9. Deletion'
    BY SameObjs DEF Deletion
  <1> QED
    BY <1>1, <1>3, <1>4, <1>5, <1>6, <1>7, <1>8, <1>9

-----------------------------------------------------------------------------
(* Elements.                                                               *)

LEMMA OpenKeeps == ASSUME IInv, NEW el \in Elements, Open(el) PROVE IInv'
  <1> DEFINE n == Len(stack)
             f == Frame(el)
  <1>1. /\ outcome = "parsing" /\ (stack = <<>> \/ Top.result = 0)
        /\ nodes \in Nat /\ nodes' = nodes + 1 /\ nodes' \in nodes..MaxNodes
        /\ UNCHANGED <<grammar, pending, released>>
    BY MaxNodesAssumption DEF Open, InBody, IInv, Shape, Nested
  <1>2. CASE ~Nests(el.tag, ParentTag)
    BY <1>1, <1>2, FailKeeps DEF Open
  <1>3. CASE Nests(el.tag, ParentTag)
    <2> USE DEF IInv
    <2>1. /\ stack' = Append(stack, f) /\ transform' = Fresh(el.tag)
          /\ objs' = objs /\ outcome' = outcome
      BY <1>3 DEF Open
    <2>2. f \in Frames /\ el \in Els /\ stack \in Seq(Frames)
      BY FrameIn, ElementIn DEF Shape
    <2>3. /\ n \in Nat /\ Len(stack') = n + 1 /\ stack' \in Seq(Frames)
          /\ DOMAIN stack = 1..n /\ DOMAIN stack' = 1..(n + 1)
          /\ stack'[n + 1] = f /\ \A i \in 1..n : stack'[i] = stack[i]
      BY <2>1, <2>2
    <2>4. f.el = el /\ f.children = <<>> /\ f.result = 0 /\ f.adopted = 0 /\ f.ops = <<>>
      BY DEF Frame
    <2>5. Len(objs) \in Nat
      BY DEF Shape
    <2> HIDE DEF n, f
    <2>6. Shape'
      BY <1>1, <2>1, <2>3 DEF Shape, Fresh
    <2>7. FramesOK'
      <3> SUFFICES ASSUME NEW i \in DOMAIN stack' PROVE FrameOK(i)'
        BY DEF FramesOK
      <3>1. CASE i = n + 1
        BY <2>1, <2>3, <2>4, <2>5, <3>1 DEF FrameOK
      <3>2. CASE i \in 1..n
        <4>1. i < n \/ (Top = stack[i] /\ stack # <<>>)
          BY <2>3, <3>2 DEF Top, n
        <4> QED
          BY <1>1, <2>1, <2>3, <3>2, <4>1 DEF FramesOK, FrameOK, n
      <3> QED
        BY <2>3, <3>1, <3>2
    <2>8. Nested'
      <3> SUFFICES ASSUME NEW i \in DOMAIN stack'
                   PROVE  Nests(stack'[i].el.tag, IF i = 1 THEN "none" ELSE stack'[i - 1].el.tag)
        BY <1>1 DEF Nested
      <3>1. CASE i = n + 1
        <4>1. n = 0 <=> stack = <<>>
          BY <2>2, <2>3 DEF n
        <4>2. n # 0 => stack'[i - 1] = Top /\ i # 1
          BY <2>3, <3>1 DEF Top, n
        <4> QED
          BY <1>3, <2>3, <2>4, <3>1, <4>1, <4>2 DEF ParentTag
      <3>2. CASE i \in 1..n
        <4>1. i # 1 => stack'[i - 1] = stack[i - 1]
          BY <2>3, <3>2
        <4> QED
          BY <2>3, <3>2, <4>1 DEF Nested
      <3> QED
        BY <2>3, <3>1, <3>2
    <2>9. TransformIsOwn'
      <3> SUFFICES ASSUME NEW i \in DOMAIN stack', stack'[i].el.tag = "transform"
                   PROVE  transform' = stack'[i].ops
        BY DEF TransformIsOwn
      <3>1. CASE i = n + 1
        BY <2>1, <2>3, <2>4, <3>1 DEF Fresh
      <3>2. CASE i \in 1..n
        <4>1. i \in DOMAIN stack /\ stack[i].el.tag = "transform" /\ stack # <<>>
          BY <2>2, <2>3, <3>2
        <4>2. i = n \/ Top.el.tag \in OpTags
          BY <4>1, TransformLast DEF n
        <4>3. Top.el.tag = "transform" \/ Top.el.tag \in OpTags
          BY <4>1, <4>2 DEF Top, n
        <4>4. el.tag # "transform"
          BY <1>3, <4>1, <4>3, TagSets DEF ParentTag, Nests
        <4> QED
          BY <2>1, <2>3, <3>2, <4>1, <4>4 DEF Fresh, TransformIsOwn
      <3> QED
        BY <2>3, <3>1, <3>2
    <2>10. \A c, i, j : Waits(c, i, j)' <=> Waits(c, i, j)
      BY <2>3, <2>4 DEF Waits
    <2>11. InHand'
      <3>1. \A i \in DOMAIN stack' : stack'[i].result # 0 =>
                i \in DOMAIN stack /\ stack'[i] = stack[i]
        BY <2>3, <2>4
      <3>2. \A i \in DOMAIN stack' : stack'[i].result # 0 => ~objs'[stack'[i].result].ready
        BY <2>1, <3>1 DEF InHand
      <3> QED
        BY <2>1, <2>10, <3>2, SameObjs DEF InHand
    <2>12. Accounted'
      <3>1. ASSUME NEW o \in DOMAIN objs', Owners(o)' = {}
            PROVE  \/ \E i \in DOMAIN stack' : stack'[i].result = o
                   \/ \E i, j \in Nat : Waits(o, i, j)'
        BY <1>1, <2>1, <2>3, <2>10, <3>1, SameObjs DEF Accounted
      <3> QED
        BY <1>1, <2>1, <3>1 DEF Accounted
    <2>13. Counted'
      <3>1. Top' = f
        BY <2>3 DEF Top
      <3>2. Top'.result = 0
        BY <2>4, <3>1
      <3> QED
        BY <1>1, <2>1, <2>3, <2>5, <3>2 DEF Counted, n
    <2>14. KidsOK' /\ ReadyIsWhole' /\ Deletion'
      BY <1>1, <2>1, SameObjs DEF Deletion
    <2> QED
      BY <2>6, <2>7, <2>8, <2>9, <2>11, <2>12, <2>13, <2>14
  <1> QED
    BY <1>2, <1>3

\* A property or an operation goes, and leaves a mark in the frame below it,
\* which is that of an <object> or a <transform>.
LEMMA CloseKeeps ==
    ASSUME IInv, InBody, Top.el.tag \notin ObjectTags,
           NEW f \in Frames, stack' = [Below EXCEPT ![Len(Below)] = f],
           f.el = Below[Len(Below)].el, f.children = Below[Len(Below)].children,
           f.result = Below[Len(Below)].result, f.adopted = Below[Len(Below)].adopted,
           transform' \in Seq(Factors), TransformIsOwn',
           UNCHANGED <<grammar, nodes, objs, outcome, pending, released>>
    PROVE  IInv'
  <1> USE DEF IInv
  <1> DEFINE m == Len(Below)
             n == Len(stack)
  <1>1. /\ n \in Nat /\ DOMAIN stack = 1..n /\ Top = stack[n]
        /\ Below \in Seq(Frames) /\ m = n - 1 /\ m \in Nat
        /\ \A i \in 1..m : Below[i] = stack[i]
    <2>1. Shape /\ stack # <<>>
      BY DEF InBody, Parsing
    <2>2. /\ n \in Nat \ {0} /\ DOMAIN stack = 1..n /\ Top = stack[n]
          /\ Below \in Seq(Frames) /\ m = n - 1
          /\ \A i \in 1..(n - 1) : Below[i] = stack[i]
      BY <2>1, TopFacts
    <2> HIDE DEF m, n
    <2> QED
      BY <2>2
  <1>2. m # 0
    <2>1. n \in DOMAIN stack
      BY TopFacts DEF InBody, Parsing
    <2>2. n = 1 => stack[n].el.tag \in ObjectTags
      BY <2>1 DEF Nested, Nests
    <2> QED
      BY <1>1, <2>2
  <1> HIDE DEF m, n
  <1>3. /\ Len(stack') = m /\ stack' \in Seq(Frames) /\ DOMAIN stack' = 1..m
        /\ stack'[m] = f /\ \A i \in 1..(m - 1) : stack'[i] = stack[i]
    BY <1>1, <1>2 DEF m
  <1>4. \A i \in 1..m : /\ stack'[i].el = stack[i].el
                        /\ stack'[i].children = stack[i].children
                        /\ stack'[i].result = stack[i].result
                        /\ stack'[i].adopted = stack[i].adopted
    BY <1>1, <1>2, <1>3 DEF m
  <1>5. \A i \in 1..m : i \in DOMAIN stack /\ i < n
    BY <1>1
  <1>6. stack[n].result = 0 /\ stack[n].children = <<>>
    BY <1>1, <1>2 DEF FramesOK, FrameOK
  <1>7. Shape'
    BY <1>3 DEF Shape
  <1>8. FramesOK'
    BY <1>1, <1>3, <1>4, <1>5 DEF FramesOK, FrameOK, n
  <1>9. Nested'
    <2>1. nodes # 0
      BY <1>1, <1>2 DEF Nested
    <2>2. ASSUME NEW i \in 1..m
          PROVE  Nests(stack'[i].el.tag, IF i = 1 THEN "none" ELSE stack'[i - 1].el.tag)
      <3>1. i # 1 => i - 1 \in 1..m
        BY <1>1
      <3> QED
        BY <1>4, <1>5, <3>1 DEF Nested
    <2> QED
      BY <1>3, <2>1, <2>2 DEF Nested
  <1>10. \A c, i, j : Waits(c, i, j)' <=> Waits(c, i, j)
    <2>1. ASSUME NEW c, NEW i, NEW j, Waits(c, i, j) PROVE i \in 1..m
      BY <1>1, <1>6, <2>1 DEF Waits
    <2> QED
      BY <1>3, <1>4, <1>5, <2>1 DEF Waits
  <1>11. InHand'
    <2>1. \A i \in DOMAIN stack' : stack'[i].result # 0 => ~objs'[stack'[i].result].ready
      BY <1>3, <1>4, <1>5 DEF InHand
    <2> QED
      BY <1>10, <2>1, SameObjs DEF InHand
  <1>12. Accounted'
    <2>1. ASSUME NEW o \in DOMAIN objs', Owners(o)' = {}
          PROVE  \/ \E i \in DOMAIN stack' : stack'[i].result = o
                 \/ \E i, j \in Nat : Waits(o, i, j)'
      <3>1. \/ \E i \in DOMAIN stack : stack[i].result = o
            \/ \E i, j \in Nat : Waits(o, i, j)
        BY <2>1, SameObjs DEF Accounted, InBody, Parsing
      <3>2. CASE \E i \in DOMAIN stack : stack[i].result = o
        <4>1. PICK i \in DOMAIN stack : stack[i].result = o
          BY <3>2
        <4>2. o # 0
          BY <2>1 DEF Shape
        <4>3. i \in 1..m
          BY <1>1, <1>6, <4>1, <4>2
        <4> QED
          BY <1>3, <1>4, <4>1, <4>3
      <3>3. CASE \E i, j \in Nat : Waits(o, i, j)
        BY <1>10, <3>3
      <3> QED
        BY <3>1, <3>2, <3>3
    <2> QED
      BY <2>1 DEF Accounted, InBody, Parsing
  <1>13. Counted'
    <2>1. m \in 1..m /\ stack'[m].result = stack[m].result
      BY <1>1, <1>2, <1>4
    <2>2. stack[m].result = 0
      BY <1>1, <1>5, <2>1 DEF FramesOK, FrameOK, n
    <2>3. Top' = stack'[m]
      BY <1>3 DEF Top
    <2>4. Top'.result = 0 /\ Top.result = 0
      BY <1>1, <1>6, <2>1, <2>2, <2>3
    <2>5. Len(objs) \in Nat /\ nodes \in Nat /\ Len(stack) = n /\ outcome = "parsing"
      BY DEF Shape, n, InBody, Parsing
    <2> QED
      BY <1>1, <1>3, <2>4, <2>5 DEF Counted
  <1>14. KidsOK' /\ ReadyIsWhole' /\ Deletion'
    BY SameObjs DEF Deletion
  <1> QED
    BY <1>7, <1>8, <1>9, <1>11, <1>12, <1>13, <1>14

LEMMA CloseOperationKeeps == IInv /\ CloseOperation => IInv'
  <1> SUFFICES ASSUME IInv, CloseOperation PROVE IInv'
    OBVIOUS
  <1> DEFINE m == Len(Below)
             v == Top.el.value
  <1>1. /\ InBody /\ Top.el.tag \in OpTags /\ outcome = "parsing" /\ stack # <<>>
        /\ UNCHANGED <<grammar, nodes, pending, released>>
    BY DEF CloseOperation, InBody, Parsing
  <1>2. CASE ~Top.el.wellFormed
    BY <1>1, <1>2, FailKeeps, MaxNodesAssumption DEF CloseOperation, IInv, Shape
  <1>3. CASE Top.el.wellFormed
    <2> DEFINE f == [Below[m] EXCEPT !.ops = <<v>> \o @]
    <2>1. /\ Shape /\ Nested /\ TransformIsOwn /\ transform \in Seq(Factors)
      BY DEF IInv, Shape
    <2>2. /\ Top \in Frames /\ Below \in Seq(Frames) /\ m = Len(stack) - 1 /\ m \in Nat
          /\ DOMAIN stack = 1..Len(stack) /\ Top = stack[Len(stack)]
          /\ \A i \in 1..m : Below[i] = stack[i]
      <3>1. /\ Top \in Frames /\ Below \in Seq(Frames) /\ m = Len(stack) - 1
            /\ Len(stack) \in Nat \ {0}
            /\ DOMAIN stack = 1..Len(stack) /\ Top = stack[Len(stack)]
            /\ \A i \in 1..(Len(stack) - 1) : Below[i] = stack[i]
        BY <1>1, <2>1, TopFacts
      <3> HIDE DEF m
      <3> QED
        BY <3>1
    <2>3. m # 0
      <3>1. Len(stack) = 1 => Top.el.tag \in ObjectTags
        BY <2>1, <2>2 DEF Nested, Nests
      <3> QED
        BY <1>1, <2>2, <3>1, TagSets
    <2>4. Below[m] \in Frames /\ v \in Factors
      <3>1. Below[m] \in Frames
        BY <2>2, <2>3
      <3>2. Top.el \in Els
        BY <2>2 DEF Frames
      <3> QED
        BY <3>1, <3>2 DEF Factors
    <2>5. stack' = [Below EXCEPT ![m] = f] /\ transform' = <<v>> \o transform /\ objs' = objs
          /\ outcome' = outcome
      BY <1>3, <2>2, <2>3, <2>4 DEF CloseOperation, Pop, Frames
    <2>6. transform' \in Seq(Factors)
      BY <2>1, <2>4, <2>5
    <2>7. f \in Frames /\ f.ops = <<v>> \o Below[m].ops
          /\ f.el = Below[m].el /\ f.children = Below[m].children
          /\ f.result = Below[m].result /\ f.adopted = Below[m].adopted
      <3> DEFINE g == Below[m]
                 ops == <<v>> \o g.ops
      <3>1. g \in Frames
        BY <2>4
      <3>2. ops \in Seq(Factors)
        <4>1. g.ops \in Seq(Factors)
          BY <3>1 DEF Frames
        <4> QED
          BY <2>4, <4>1
      <3> HIDE DEF g, ops
      <3>3. [g EXCEPT !.ops = ops] \in Frames
        BY <3>1, <3>2 DEF Frames
      <3>4. /\ [g EXCEPT !.ops = ops].ops = ops
            /\ [g EXCEPT !.ops = ops].el = g.el /\ [g EXCEPT !.ops = ops].children = g.children
            /\ [g EXCEPT !.ops = ops].result = g.result
            /\ [g EXCEPT !.ops = ops].adopted = g.adopted
        BY <3>1 DEF Frames
      <3> QED
        BY <3>3, <3>4 DEF g, ops
    <2>8. TransformIsOwn'
      <3> SUFFICES ASSUME NEW i \in DOMAIN stack', stack'[i].el.tag = "transform"
                   PROVE  transform' = stack'[i].ops
        BY DEF TransformIsOwn
      <3>1. i \in 1..m /\ stack'[i].el = stack[i].el
        BY <2>2, <2>3, <2>5, <2>7
      <3>2. i \in DOMAIN stack /\ stack[i].el.tag = "transform" /\ i # Len(stack)
        BY <2>2, <3>1
      <3>3. i = m
        BY <2>1, <2>2, <3>2, TransformLast
      <3>4. transform = Below[m].ops
        BY <2>1, <2>2, <3>2, <3>3 DEF TransformIsOwn
      <3>5. stack'[i] = f
        BY <2>2, <2>3, <2>5, <3>3
      <3> QED
        BY <2>5, <2>7, <3>4, <3>5
    <2> HIDE DEF f, m
    <2>9. Top.el.tag \notin ObjectTags
      BY <1>1, TagSets
    <2> QED
      BY <1>1, <2>5, <2>6, <2>7, <2>8, <2>9, CloseKeeps DEF m
  <1> QED
    BY <1>2, <1>3

LEMMA ClosePropertyKeeps == IInv /\ CloseProperty => IInv'
  <1> SUFFICES ASSUME IInv, CloseProperty PROVE IInv'
    OBVIOUS
  <1> DEFINE m == Len(Below)
             v == IF Top.el.tag = "transform" THEN transform ELSE Top.el.value
  <1>1. /\ InBody /\ Top.el.tag \in PropertyTags /\ outcome = "parsing" /\ stack # <<>>
        /\ UNCHANGED <<grammar, nodes, pending, released>>
    BY DEF CloseProperty, InBody, Parsing
  <1>2. CASE ~Top.el.wellFormed
    BY <1>1, <1>2, FailKeeps, MaxNodesAssumption DEF CloseProperty, IInv, Shape
  <1>3. CASE Top.el.wellFormed
    <2> DEFINE p == SetProperty(Below[m].props, Top.el, v)
               f == [Below[m] EXCEPT !.props = p]
    <2>1. /\ Shape /\ Nested /\ TransformIsOwn /\ transform \in Seq(Factors)
      BY DEF IInv, Shape
    <2>2. /\ Top \in Frames /\ Below \in Seq(Frames) /\ m = Len(stack) - 1 /\ m \in Nat
          /\ DOMAIN stack = 1..Len(stack) /\ Top = stack[Len(stack)]
          /\ \A i \in 1..m : Below[i] = stack[i]
      <3>1. /\ Top \in Frames /\ Below \in Seq(Frames) /\ m = Len(stack) - 1
            /\ Len(stack) \in Nat \ {0}
            /\ DOMAIN stack = 1..Len(stack) /\ Top = stack[Len(stack)]
            /\ \A i \in 1..(Len(stack) - 1) : Below[i] = stack[i]
        BY <1>1, <2>1, TopFacts
      <3> HIDE DEF m
      <3> QED
        BY <3>1
    <2>3. m # 0
      <3>1. Len(stack) = 1 => Top.el.tag \in ObjectTags
        BY <2>1, <2>2 DEF Nested, Nests
      <3> QED
        BY <1>1, <2>2, <3>1, TagSets
    <2>4. Below[m] \in Frames /\ v \in Values /\ Top.el \in Els
      <3>1. Below[m] \in Frames
        BY <2>2, <2>3
      <3>2. Top.el \in Els
        BY <2>2 DEF Frames
      <3>3. Top.el.value \in Factors
        BY <3>2 DEF Factors
      <3> QED
        BY <2>1, <3>1, <3>2, <3>3 DEF Values
    <2>5. p \in PropertyLists
      <3>1. Below[m].props \in PropertyLists
        BY <2>4 DEF Frames
      <3> HIDE DEF m, v
      <3> QED
        BY <2>4, <3>1, SetPropertyIn
    <2>6. stack' = [Below EXCEPT ![m].props = p]
          /\ UNCHANGED <<objs, transform, outcome>>
      BY <1>3 DEF CloseProperty, Pop
    <2> HIDE DEF p
    <2>7. f \in Frames
          /\ f.el = Below[m].el /\ f.children = Below[m].children
          /\ f.result = Below[m].result /\ f.adopted = Below[m].adopted
          /\ f.ops = Below[m].ops
      BY <2>4, <2>5 DEF Frames
    <2>8. stack' = [Below EXCEPT ![m] = f]
      BY <2>2, <2>3, <2>6
    <2>9. TransformIsOwn'
      <3> SUFFICES ASSUME NEW i \in DOMAIN stack', stack'[i].el.tag = "transform"
                   PROVE  FALSE
        BY DEF TransformIsOwn
      <3>1. i \in 1..m /\ stack'[i].el = stack[i].el
        BY <2>2, <2>3, <2>7, <2>8
      <3>2. i \in DOMAIN stack /\ stack[i].el.tag = "transform" /\ i # Len(stack)
        BY <2>2, <3>1
      <3> QED
        BY <1>1, <2>1, <3>2, TransformLast, TagSets
    <2> HIDE DEF f, m
    <2>10. Top.el.tag \notin ObjectTags
      BY <1>1, TagSets
    <2> QED
      BY <1>1, <2>1, <2>6, <2>7, <2>8, <2>9, <2>10, CloseKeeps DEF m
  <1> QED
    BY <1>2, <1>3

-----------------------------------------------------------------------------
(* Objects.                                                                *)

\* What a step may do to the objects there are: a complete one stays as it is.
Grown ==
  \A x \in DOMAIN objs :
    /\ x \in DOMAIN objs'
    /\ objs'[x].class = objs[x].class /\ objs'[x].use = objs[x].use
    /\ objs[x].ready => objs'[x] = objs[x]

LEMMA SlotStays == ASSUME Grown, NEW x \in DOMAIN objs PROVE Slot(x)' = Slot(x)
  BY DEF Grown, Slot, Tag

LEMMA MembersStay ==
    ASSUME Shape, KidsOK, Grown, NEW o \in DOMAIN objs, objs[o].ready
    PROVE  /\ KidsIn(o)' = KidsIn(o)
           /\ \A slot : InSlot(o, slot)' = InSlot(o, slot)
  <1>1. objs'[o] = objs[o]
    BY DEF Grown
  <1>2. KidsIn(o)' = KidsIn(o)
    BY <1>1 DEF KidsIn
  <1>3. \A c \in KidsIn(o) : Slot(c)' = Slot(c)
    BY SlotStays DEF KidsOK
  <1> QED
    BY <1>2, <1>3 DEF InSlot

LEMMA WholeStays ==
    ASSUME Shape, KidsOK, Grown, NEW o \in DOMAIN objs, objs[o].ready, Whole(o)
    PROVE  Whole(o)'
  <1>1. objs'[o] = objs[o] /\ \A slot : InSlot(o, slot)' = InSlot(o, slot)
    BY MembersStay DEF Grown
  <1>2. ASSUME NEW m \in InSlot(o, "mesh") PROVE IsEmitter(m)' = IsEmitter(m)
    <2>1. m \in DOMAIN objs /\ objs[m].ready
      BY DEF InSlot, KidsOK
    <2> QED
      BY <2>1, MembersStay DEF IsEmitter
  <1> QED
    BY <1>1, <1>2 DEF Whole

\* A new object belongs to none and owns nothing.
LEMMA NewObjectFacts ==
    ASSUME Shape, KidsOK, ReadyIsWhole,
           NEW new \in Objs, objs' = Append(objs, new), NEW x \in Nat, x = Len(objs) + 1,
           new.kids = <<>>, new.ready = FALSE, new.tree = {}, new.lights = {}
    PROVE  /\ Len(objs') = x
           /\ objs' \in Seq(Objs) /\ DOMAIN objs = 1..Len(objs)
           /\ DOMAIN objs' = DOMAIN objs \cup {x}
           /\ objs'[x] = new
           /\ \A o \in DOMAIN objs : objs'[o] = objs[o]
           /\ \A o \in DOMAIN objs : Owners(o)' = Owners(o)
           /\ Owners(x)' = {}
           /\ KidsOK' /\ ReadyIsWhole'
  <1> DEFINE n == Len(objs)
  <1>1. /\ n \in Nat /\ Len(objs') = x /\ objs' \in Seq(Objs) /\ DOMAIN objs = 1..n
        /\ DOMAIN objs' = 1..x /\ objs'[x] = new
        /\ \A o \in 1..n : objs'[o] = objs[o]
    BY DEF Shape
  <1>2. DOMAIN objs' = DOMAIN objs \cup {x} /\ x \notin DOMAIN objs /\ x \in DOMAIN objs'
    BY <1>1
  <1> HIDE DEF n
  <1>3. Grown
    BY <1>1, <1>2 DEF Grown
  <1>4. KidsIn(x)' = {} /\ \A o \in DOMAIN objs : KidsIn(o)' = KidsIn(o)
    <2>1. KidsIn(x)' = {}
      <3>1. objs'[x].kids = <<>>
        BY <1>1
      <3> QED
        BY <3>1 DEF KidsIn
    <2>2. \A o \in DOMAIN objs : objs'[o] = objs[o]
      BY <1>1
    <2> QED
      BY <2>1, <2>2 DEF KidsIn
  <1>5. \A o \in DOMAIN objs : KidsIn(o) \subseteq DOMAIN objs
    BY DEF KidsOK
  <1>6. ASSUME NEW o PROVE Owners(o)' = Owners(o)
    <2>1. \A p : p \in DOMAIN objs' /\ o \in KidsIn(p)' <=> p \in DOMAIN objs /\ o \in KidsIn(p)
      BY <1>2, <1>4
    <2> QED
      BY <2>1 DEF Owners
  <1>7. Owners(x) = {}
    BY <1>2, <1>5 DEF Owners
  <1>8. \A o \in DOMAIN objs : \A slot : InSlot(o, slot)' = InSlot(o, slot)
    BY <1>3, <1>4, <1>5, SlotStays DEF InSlot
  <1>9. \A slot : InSlot(x, slot)' = {}
    BY <1>4 DEF InSlot
  <1>10. KidsOK'
    <2> SUFFICES ASSUME NEW o \in DOMAIN objs'
                 PROVE  /\ KidsIn(o)' \subseteq DOMAIN objs'
                        /\ objs'[o].tree \cup objs'[o].lights \subseteq DOMAIN objs'
                        /\ Injective(objs'[o].kids)
                        /\ \A c \in KidsIn(o)' : objs'[c].ready
                        /\ \A p \in DOMAIN objs' : KidsIn(o)' \cap KidsIn(p)' # {} => p = o
                        /\ \A slot \in Members[objs'[o].class] :
                             \/ IsList(objs'[o].class, slot)
                             \/ \A c, d \in InSlot(o, slot)' : c = d
      BY DEF KidsOK, Injective
    <2>1. CASE o = x
      <3>1. objs'[o].kids = <<>> /\ objs'[o].tree = {} /\ objs'[o].lights = {}
        BY <1>1, <2>1
      <3>2. KidsIn(o)' = {} /\ \A slot : InSlot(o, slot)' = {}
        BY <1>4, <1>9, <2>1
      <3> QED
        BY <3>1, <3>2 DEF Injective
    <2>2. CASE o \in DOMAIN objs
      <3>1. objs'[o] = objs[o] /\ \A c \in KidsIn(o) : objs'[c] = objs[c]
        BY <1>1, <1>5, <2>2
      <3>2. ASSUME NEW p \in DOMAIN objs', KidsIn(o)' \cap KidsIn(p)' # {} PROVE p = o
        <4>1. p \in DOMAIN objs
          BY <1>2, <1>4, <3>2
        <4>2. KidsIn(o) \cap KidsIn(p) # {}
          BY <1>4, <2>2, <3>2, <4>1
        <4> QED
          BY <2>2, <4>1, <4>2 DEF KidsOK
      <3> QED
        BY <1>2, <1>4, <1>8, <2>2, <3>1, <3>2 DEF KidsOK
    <2> QED
      BY <1>2, <2>1, <2>2
  <1>11. ReadyIsWhole'
    <2> SUFFICES ASSUME NEW o \in DOMAIN objs', objs'[o].ready PROVE Whole(o)'
      BY DEF ReadyIsWhole
    <2>1. o \in DOMAIN objs /\ objs[o].ready
      BY <1>1, <1>2
    <2> QED
      BY <1>3, <2>1, WholeStays DEF ReadyIsWhole
  <1> QED
    BY <1>1, <1>2, <1>6, <1>7, <1>10, <1>11 DEF n

LEMMA ConstructIn ==
    ASSUME NEW class \in DOMAIN ClassTag, NEW props \in PropertyLists
    PROVE  /\ Construct(class, props) \in Objs
           /\ Construct(class, props).kids = <<>> /\ Construct(class, props).ready = FALSE
           /\ Construct(class, props).tree = {} /\ Construct(class, props).lights = {}
  <1> DEFINE use == TextureUse(class, props)
             placed == IF "toWorld" \in DOMAIN props THEN props["toWorld"].value ELSE <<>>
  <1>1. use \in {"none", "albedo", "radiance", "unknown"}
    BY DEF TextureUse
  <1>2. placed \in Values
    <2>1. PICK names \in SUBSET Names : props \in [names -> [type : Tags, value : Values]]
      BY DEF PropertyLists
    <2>2. <<>> \in Values
      BY DEF Values
    <2> QED
      BY <2>1, <2>2
  <1>3. Construct(class, props) =
          [class |-> class, use |-> use, placed |-> placed, kids |-> <<>>,
           ready |-> FALSE, tree |-> {}, lights |-> {}]
    BY DEF Construct, NewObject
  <1> HIDE DEF use, placed
  <1> QED
    BY <1>1, <1>2, <1>3 DEF Objs

LEMMA InstantiateKeeps == IInv /\ Instantiate => IInv'
  <1> SUFFICES ASSUME IInv, Instantiate, NEW x \in Nat, x = Len(objs) + 1 PROVE IInv'
    BY DEF IInv, Shape
  <1> USE DEF IInv
  <1> DEFINE class == Top.el.type
             new == Construct(class, Top.props)
             n == Len(stack)
  <1>1. /\ outcome = "parsing" /\ stack # <<>> /\ Top.result = 0 /\ Top.el.tag \in ObjectTags
        /\ UNCHANGED <<grammar, nodes, pending, released>>
    BY DEF Instantiate, InBody, Parsing
  <1>2. /\ n \in Nat \ {0} /\ n \in DOMAIN stack /\ DOMAIN stack = 1..n /\ Top = stack[n]
        /\ Top \in Frames
    BY <1>1, TopFacts
  <1>3. nodes \in Nat /\ nodes' \in nodes..MaxNodes /\ Len(objs) + 3 * n <= 3 * nodes
        /\ Len(objs) \in Nat
    BY <1>1, MaxNodesAssumption DEF Shape, Counted
  <1>4. \/ Fail
        \/ /\ class \in DOMAIN ClassTag
           /\ objs' = Append(objs, new)
           /\ \/ /\ stack' = [stack EXCEPT ![n].result = Len(objs')]
                 /\ UNCHANGED <<transform, outcome>>
              \/ outcome' = "failed" /\ UNCHANGED <<stack, transform>>
    BY DEF Instantiate
  <1>5. CASE Fail
    BY <1>1, <1>3, <1>5, FailKeeps
  <1>6. CASE class \in DOMAIN ClassTag /\ objs' = Append(objs, new)
    <2> HIDE DEF class
    <2>1. /\ new \in Objs /\ new.kids = <<>> /\ new.ready = FALSE
          /\ new.tree = {} /\ new.lights = {}
      <3>1. Top.props \in PropertyLists
        BY <1>2 DEF Frames
      <3> QED
        BY <1>6, <3>1, ConstructIn
    <2> HIDE DEF new
    <2>2. /\ Len(objs') = x /\ objs' \in Seq(Objs) /\ DOMAIN objs = 1..Len(objs)
          /\ DOMAIN objs' = DOMAIN objs \cup {x} /\ objs'[x] = new
          /\ \A o \in DOMAIN objs : objs'[o] = objs[o] /\ Owners(o)' = Owners(o)
          /\ Owners(x)' = {}
          /\ KidsOK' /\ ReadyIsWhole'
      BY <1>6, <2>1, NewObjectFacts
    <2>20. Len(objs') = x /\ DOMAIN objs' = 1..x /\ DOMAIN objs = 1..Len(objs)
      BY <2>2
    <2>3. x \in Nat /\ Len(objs) < x /\ x <= 3 * nodes
      BY <1>2, <1>3
    <2>4. Deletion'
      <3>1. \A o \in Ran(released) \cup Ran(pending) :
               Owners(o)' = {} \/ Owners(o)' \cap Ran(released) # {}
        BY <2>2 DEF Deletion
      <3> QED
        BY <1>1, <1>4, <2>2, <3>1 DEF Deletion, Ran, Injective, Fail
    <2>5. \A c, i, j \in Nat : Waits(c, i, j) => c \in DOMAIN objs
      BY DEF Waits, FramesOK, FrameOK
    <2>6. CASE outcome' = "failed" /\ UNCHANGED <<stack, transform>>
      <3>1. Shape'
        BY <1>1, <2>2, <2>6 DEF Shape
      <3>2. FramesOK'
        BY <1>3, <2>2, <2>3, <2>6 DEF FramesOK, FrameOK
      <3>3. Nested' /\ TransformIsOwn'
        BY <1>1, <2>6 DEF Nested, TransformIsOwn
      <3>4. InHand'
        <4>1. \A i \in DOMAIN stack' : stack'[i].result # 0 => ~objs'[stack'[i].result].ready
          BY <2>2, <2>6 DEF InHand, FramesOK, FrameOK
        <4>2. \A c, i, j \in Nat : Waits(c, i, j)' = Waits(c, i, j)
          BY <2>6, SameWaits
        <4>3. ASSUME NEW c \in Nat, NEW i \in Nat, NEW j \in Nat, Waits(c, i, j)'
              PROVE  objs'[c].ready /\ Owners(c)' = {}
          <5>1. c \in DOMAIN objs /\ objs[c].ready /\ Owners(c) = {}
            BY <2>5, <4>2, <4>3 DEF InHand
          <5> QED
            BY <2>2, <5>1
        <4> QED
          BY <4>1, <4>2, <4>3 DEF InHand
      <3>5. Accounted' /\ Counted'
        BY <1>1, <2>2, <2>3, <2>6 DEF Accounted, Counted
      <3> QED
        BY <2>2, <2>4, <3>1, <3>2, <3>3, <3>4, <3>5
    <2>7. CASE stack' = [stack EXCEPT ![n].result = Len(objs')] /\ UNCHANGED <<transform, outcome>>
      <3> DEFINE f == [Top EXCEPT !.result = x]
      <3>1. /\ f \in Frames /\ f.el = Top.el /\ f.children = Top.children /\ f.result = x
            /\ f.adopted = Top.adopted /\ f.ops = Top.ops
        BY <1>2, <2>3 DEF Frames
      <3>2. stack' = [stack EXCEPT ![n] = f]
        BY <1>2, <2>2, <2>7
      <3> HIDE DEF f
      <3>3. /\ stack' \in Seq(Frames) /\ Len(stack') = n /\ DOMAIN stack' = 1..n
            /\ stack'[n] = f /\ \A i \in 1..n : i # n => stack'[i] = stack[i]
        BY <1>2, <3>1, <3>2 DEF Shape
      <3>4. \A i \in 1..n : /\ stack'[i].el = stack[i].el /\ stack'[i].ops = stack[i].ops
                            /\ stack'[i].children = stack[i].children
                            /\ stack'[i].adopted = stack[i].adopted
        BY <1>2, <3>1, <3>3
      <3>5. ASSUME NEW i \in 1..n, i # n PROVE stack'[i].result = 0
        <4>0. stack'[i] = stack[i]
          BY <3>3, <3>5
        <4>1. i \in DOMAIN stack /\ i < Len(stack) /\ stack'[i] = stack[i]
          <5> HIDE DEF n
          <5>1. i \in DOMAIN stack /\ i < n
            BY <1>2, <3>5
          <5> QED
            BY <4>0, <5>1 DEF n
        <4>2. FrameOK(i)
          BY <4>1 DEF FramesOK
        <4> QED
          BY <4>1, <4>2 DEF FrameOK
      <3>6. Shape'
        BY <1>1, <2>2, <2>7, <3>3 DEF Shape
      <3>7. FramesOK'
        <4> SUFFICES ASSUME NEW i \in DOMAIN stack' PROVE FrameOK(i)'
          BY DEF FramesOK
        <4>0. i \in 1..n
          BY <3>3
        <4>1. stack'[i].result \in 0..Len(objs') /\ (i < Len(stack') => stack'[i].result = 0)
          <5>1. CASE i = n
            BY <1>2, <2>20, <2>3, <3>1, <3>3, <5>1
          <5>2. CASE i # n
            BY <4>0, <2>20, <2>3, <3>5, <5>2
          <5> QED
            BY <5>1, <5>2
        <4>2. /\ stack'[i].adopted \in 0..Len(stack'[i].children)
              /\ \A j \in DOMAIN stack'[i].children : stack'[i].children[j] \in DOMAIN objs'
          BY <4>0, <1>2, <2>2, <3>4 DEF FramesOK, FrameOK
        <4>3. stack'[i].result = 0 => stack'[i].adopted = 0
          BY <4>0, <1>1, <1>2, <3>4 DEF FramesOK, FrameOK
        <4>4. stack'[i].el.tag \notin ObjectTags =>
                stack'[i].result = 0 /\ stack'[i].children = <<>>
          BY <4>0, <1>1, <1>2, <3>4, <3>5 DEF FramesOK, FrameOK
        <4> QED
          BY <4>1, <4>2, <4>3, <4>4 DEF FrameOK
      <3>8. Nested'
        <4>1. nodes # 0
          BY <1>1 DEF Nested
        <4>2. \A i \in 1..n : i # 1 => i - 1 \in 1..n
          BY <1>2
        <4> QED
          BY <1>1, <1>2, <3>3, <3>4, <4>1, <4>2 DEF Nested
      <3>9. TransformIsOwn'
        BY <1>2, <2>7, <3>3, <3>4 DEF TransformIsOwn
      <3>10. \A c, i, j : Waits(c, i, j)' <=> Waits(c, i, j)
        BY <1>2, <3>3, <3>4 DEF Waits
      <3>11. InHand'
        <4>1. \A i \in DOMAIN stack' : stack'[i].result # 0 => ~objs'[stack'[i].result].ready
          BY <2>1, <2>2, <3>1, <3>3, <3>5
        <4> QED
          BY <2>2, <2>5, <3>10, <4>1 DEF InHand
      <3>12. Accounted'
        <4>1. ASSUME NEW o \in DOMAIN objs', Owners(o)' = {}
              PROVE  \/ \E i \in DOMAIN stack' : stack'[i].result = o
                     \/ \E i, j \in Nat : Waits(o, i, j)'
          <5>1. CASE o = x
            BY <1>2, <3>1, <3>3, <5>1
          <5>2. CASE o \in DOMAIN objs
            <6>1. o # 0 /\ Owners(o) = {}
              BY <2>2, <4>1, <5>2
            <6>2. \A i \in DOMAIN stack : stack[i].result # o
              BY <1>1, <1>2, <6>1 DEF FramesOK, FrameOK
            <6> QED
              BY <1>1, <3>10, <5>2, <6>1, <6>2 DEF Accounted
          <5> QED
            BY <2>2, <4>1, <5>1, <5>2
        <4> QED
          BY <1>1, <2>7, <4>1 DEF Accounted
      <3>13. Counted'
        <4>1. Top' = f /\ stack' # <<>>
          BY <1>2, <3>3 DEF Top
        <4>2. QED
          <5>1. Top'.result # 0 /\ Len(stack') = n /\ Len(objs') = Len(objs) + 1
            <6>1. Top'.result = x
              BY <3>1, <4>1
            <6>2. x # 0
              BY <1>3, <2>3
            <6> QED
              BY <2>20, <3>3, <6>1, <6>2
          <5> HIDE DEF n
          <5> QED
            BY <1>1, <1>2, <1>3, <4>1, <5>1 DEF Counted
      <3> QED
        BY <2>2, <2>4, <3>6, <3>7, <3>8, <3>9, <3>11, <3>12, <3>13
    <2> QED
      BY <1>4, <2>6, <2>7, <1>5
  <1> QED
    BY <1>4, <1>5, <1>6

LEMMA AppendFacts ==
    ASSUME NEW s \in Seq(Nat), NEW c \in Nat
    PROVE  /\ Ran(Append(s, c)) = Ran(s) \cup {c}
           /\ Injective(s) /\ c \notin Ran(s) => Injective(Append(s, c))
  <1> DEFINE n == Len(s)
             t == Append(s, c)
  <1>1. /\ n \in Nat /\ DOMAIN s = 1..n /\ DOMAIN t = 1..(n + 1) /\ t[n + 1] = c
        /\ \A k \in 1..n : t[k] = s[k]
    OBVIOUS
  <1> HIDE DEF n, t
  <1>2. \A k \in 1..(n + 1) : k \in 1..n \/ k = n + 1
    BY <1>1
  <1>3. 1..n \subseteq 1..(n + 1) /\ n + 1 \in 1..(n + 1)
    BY <1>1
  <1>4. Ran(t) = Ran(s) \cup {c}
    BY <1>1, <1>2, <1>3 DEF Ran
  <1>5. ASSUME Injective(s), c \notin Ran(s), NEW i \in 1..(n + 1), NEW j \in 1..(n + 1),
               t[i] = t[j]
        PROVE  i = j
    <2>1. CASE i \in 1..n /\ j \in 1..n
      BY <1>1, <1>5, <2>1 DEF Injective
    <2>2. CASE i = n + 1 \/ j = n + 1
      BY <1>1, <1>2, <1>5, <2>2 DEF Ran
    <2> QED
      BY <1>2, <2>1, <2>2
  <1> QED
    BY <1>1, <1>4, <1>5 DEF Injective, t

\* addChild() gives an object that is not activated yet a child of its own.
LEMMA AddChildFacts ==
    ASSUME Shape, KidsOK, ReadyIsWhole,
           NEW p \in DOMAIN objs, ~objs[p].ready,
           NEW c \in DOMAIN objs, objs[c].ready, Owners(c) = {},
           Accepts(p, c), objs' = AddChild(p, c)
    PROVE  /\ objs' \in Seq(Objs) /\ Len(objs') = Len(objs) /\ DOMAIN objs' = DOMAIN objs
           /\ \A o \in DOMAIN objs : objs'[o].ready = objs[o].ready
           /\ Owners(c)' = {p}
           /\ \A o \in DOMAIN objs : o # c => Owners(o)' = Owners(o)
           /\ KidsOK' /\ ReadyIsWhole'
  <1> DEFINE kids == Append(objs[p].kids, c)
             q == [objs[p] EXCEPT !.kids = kids]
  <1>1. objs[p] \in Objs /\ c \in Nat /\ DOMAIN objs = 1..Len(objs) /\ Len(objs) \in Nat
    BY DEF Shape
  <1>2. objs[p].kids \in Seq(Nat)
    BY <1>1 DEF Objs
  <1>3. kids \in Seq(Nat)
    BY <1>1, <1>2
  <1>4. objs' = [objs EXCEPT ![p] = q]
    BY DEF AddChild
  <1> HIDE DEF kids
  <1>5. /\ q \in Objs /\ q.class = objs[p].class /\ q.use = objs[p].use /\ q.kids = kids
        /\ q.ready = objs[p].ready /\ q.tree = objs[p].tree /\ q.lights = objs[p].lights
    BY <1>1, <1>3 DEF Objs
  <1> HIDE DEF q
  <1>6. /\ objs' \in Seq(Objs) /\ Len(objs') = Len(objs) /\ DOMAIN objs' = DOMAIN objs
        /\ objs'[p] = q /\ \A o \in DOMAIN objs : o # p => objs'[o] = objs[o]
    BY <1>4, <1>5 DEF Shape
  <1>7. Grown
    BY <1>5, <1>6 DEF Grown
  <1>8. \A o \in DOMAIN objs : objs'[o].ready = objs[o].ready /\ objs'[o].class = objs[o].class
    BY <1>5, <1>6
  <1>9. KidsIn(p)' = KidsIn(p) \cup {c}
    <2>1. KidsIn(p)' = Ran(kids) /\ KidsIn(p) = Ran(objs[p].kids)
      BY <1>5, <1>6 DEF KidsIn, Ran
    <2> QED
      BY <1>1, <1>2, <2>1, AppendFacts DEF kids
  <1>10. \A o \in DOMAIN objs : o # p => KidsIn(o)' = KidsIn(o)
    BY <1>6 DEF KidsIn
  <1>11. \A o \in DOMAIN objs : KidsIn(o) \subseteq DOMAIN objs /\ c \notin KidsIn(o)
    BY DEF KidsOK, Owners
  <1>12. /\ \A o \in DOMAIN objs : o # p => \A slot : InSlot(o, slot)' = InSlot(o, slot)
         /\ \A slot : InSlot(p, slot)' = InSlot(p, slot) \cup (IF Slot(c) = slot THEN {c} ELSE {})
    <2>1. \A d \in DOMAIN objs : Slot(d)' = Slot(d)
      BY <1>7, SlotStays
    <2> QED
      BY <1>9, <1>10, <1>11, <2>1 DEF InSlot
  <1>13. Owners(c)' = {p}
    BY <1>6, <1>9, <1>10, <1>11 DEF Owners
  <1>14. ASSUME NEW o \in DOMAIN objs, o # c PROVE Owners(o)' = Owners(o)
    <2>1. \A x \in DOMAIN objs : o \in KidsIn(x)' <=> o \in KidsIn(x)
      BY <1>9, <1>10, <1>14
    <2> QED
      BY <1>6, <2>1 DEF Owners
  <1>15. KidsOK'
    <2> SUFFICES ASSUME NEW o \in DOMAIN objs
                 PROVE  /\ KidsIn(o)' \subseteq DOMAIN objs
                        /\ objs'[o].tree \cup objs'[o].lights \subseteq DOMAIN objs
                        /\ Injective(objs'[o].kids)
                        /\ \A d \in KidsIn(o)' : objs'[d].ready
                        /\ \A x \in DOMAIN objs : KidsIn(o)' \cap KidsIn(x)' # {} => x = o
                        /\ \A slot \in Members[objs'[o].class] :
                             \/ IsList(objs'[o].class, slot)
                             \/ \A d, e \in InSlot(o, slot)' : d = e
      BY <1>6 DEF KidsOK, Injective
    <2>1. KidsIn(o)' \subseteq DOMAIN objs
      BY <1>9, <1>10, <1>11
    <2>2. objs'[o].tree \cup objs'[o].lights \subseteq DOMAIN objs
      BY <1>5, <1>6 DEF KidsOK
    <2>3. Injective(objs'[o].kids)
      <3>1. CASE o = p
        <4>1. Injective(objs[p].kids) /\ c \notin Ran(objs[p].kids)
          BY <1>11 DEF KidsOK, KidsIn, Ran
        <4>2. Injective(kids)
          BY <1>1, <1>2, <4>1, AppendFacts DEF kids
        <4> QED
          BY <1>5, <1>6, <3>1, <4>2
      <3>2. CASE o # p
        BY <1>6, <3>2 DEF KidsOK
      <3> QED
        BY <3>1, <3>2
    <2>4. \A d \in KidsIn(o)' : objs'[d].ready
      <3>1. \A d \in KidsIn(o) : objs[d].ready
        BY DEF KidsOK
      <3> QED
        BY <1>8, <1>9, <1>10, <1>11, <3>1
    <2>5. ASSUME NEW x \in DOMAIN objs, KidsIn(o)' \cap KidsIn(x)' # {} PROVE x = o
      <3>1. PICK d : d \in KidsIn(o)' /\ d \in KidsIn(x)'
        BY <2>5
      <3>2. CASE d = c
        BY <1>9, <1>10, <1>11, <3>1, <3>2
      <3>3. CASE d # c
        <4>1. d \in KidsIn(o) /\ d \in KidsIn(x)
          BY <1>9, <1>10, <3>1, <3>3
        <4> QED
          BY <4>1 DEF KidsOK
      <3> QED
        BY <3>2, <3>3
    <2>6. ASSUME NEW slot \in Members[objs'[o].class], ~IsList(objs'[o].class, slot),
                 NEW d \in InSlot(o, slot)', NEW e \in InSlot(o, slot)'
          PROVE  d = e
      <3>1. objs'[o].class = objs[o].class
        BY <1>8
      <3>2. \A u, v \in InSlot(o, slot) : u = v
        BY <2>6, <3>1 DEF KidsOK
      <3>3. CASE o = p /\ Slot(c) = slot
        <4>1. InSlot(o, slot) = {}
          BY <2>6, <3>1, <3>3 DEF Accepts
        <4> QED
          BY <1>12, <2>6, <3>3, <4>1
      <3>4. CASE o # p \/ Slot(c) # slot
        BY <1>12, <2>6, <3>2, <3>4
      <3> QED
        BY <3>3, <3>4
    <2> QED
      BY <2>1, <2>2, <2>3, <2>4, <2>5, <2>6
  <1>16. ReadyIsWhole'
    <2> SUFFICES ASSUME NEW o \in DOMAIN objs', objs'[o].ready PROVE Whole(o)'
      BY DEF ReadyIsWhole
    <2>1. o \in DOMAIN objs /\ objs[o].ready
      BY <1>6, <1>8
    <2> QED
      BY <1>7, <2>1, WholeStays DEF ReadyIsWhole
  <1> QED
    BY <1>6, <1>8, <1>13, <1>14, <1>15, <1>16

LEMMA NothingDeleted ==
    ASSUME pending' = <<>>, released' = <<>>
    PROVE  Deletion'
  <1>1. Ran(<<>>) = {} /\ Injective(<<>>)
    BY DEF Ran, Injective
  <1> QED
    BY <1>1 DEF Deletion

\* An object under way belongs to none yet.
LEMMA UnderWay ==
    ASSUME IInv, stack # <<>>, Top.result # 0
    PROVE  /\ Top.result \in DOMAIN objs /\ ~objs[Top.result].ready
           /\ Owners(Top.result) = {}
           /\ Top.el.tag \in ObjectTags
  <1> DEFINE o == Top.result
             n == Len(stack)
  <1>1. n \in DOMAIN stack /\ Top = stack[n]
    BY TopFacts DEF IInv
  <1>2. FrameOK(n)
    BY <1>1 DEF IInv, FramesOK
  <1>3. o \in DOMAIN objs
    <2>1. DOMAIN objs = 1..Len(objs) /\ Len(objs) \in Nat
      BY DEF IInv, Shape
    <2> QED
      BY <1>1, <1>2, <2>1 DEF FrameOK
  <1>4. ~objs[o].ready
    BY <1>1 DEF IInv, InHand
  <1>5. Owners(o) = {}
    BY <1>4 DEF IInv, KidsOK, Owners
  <1> QED
    BY <1>1, <1>2, <1>3, <1>4, <1>5 DEF FrameOK

\* The next child to adopt is complete and belongs to none.
LEMMA NextChildFacts ==
    ASSUME IInv, stack # <<>>, Top.result # 0, Top.adopted < Len(Top.children),
           NEW c, c = Top.children[Top.adopted + 1]
    PROVE  /\ Top.adopted + 1 \in DOMAIN Top.children /\ Top.adopted \in Nat
           /\ Waits(c, Len(stack), Top.adopted + 1)
           /\ c \in DOMAIN objs /\ c \in Nat /\ objs[c].ready /\ Owners(c) = {}
  <1> DEFINE n == Len(stack)
             k == Top.adopted + 1
  <1>1. n \in Nat \ {0} /\ n \in DOMAIN stack /\ Top = stack[n] /\ Top \in Frames
    BY TopFacts DEF IInv
  <1>2. FrameOK(n) /\ Top.adopted \in Nat /\ Top.children \in Seq(Nat)
    BY <1>1 DEF IInv, FramesOK, Frames
  <1>3. k \in DOMAIN Top.children /\ k \in Nat /\ Top.adopted < k
    BY <1>2
  <1>4. c \in DOMAIN objs /\ c \in Nat
    <2>1. c \in DOMAIN objs
      BY <1>1, <1>2, <1>3 DEF FrameOK
    <2> QED
      BY <2>1 DEF IInv, Shape
  <1>5. Waits(c, n, k)
    BY <1>1, <1>3 DEF Waits
  <1>6. objs[c].ready /\ Owners(c) = {}
    BY <1>1, <1>3, <1>4, <1>5 DEF IInv, InHand
  <1> QED
    BY <1>2, <1>3, <1>4, <1>5, <1>6

LEMMA AdoptNextKeeps == IInv /\ AdoptNext => IInv'
  <1> SUFFICES ASSUME IInv, AdoptNext, NEW p, p = Top.result, NEW k, k = Top.adopted + 1,
                      NEW c, c = Top.children[k]
               PROVE  IInv'
    OBVIOUS
  <1> USE DEF IInv
  <1> DEFINE n == Len(stack)
  <1>1. /\ outcome = "parsing" /\ stack # <<>> /\ p # 0 /\ Top.adopted < Len(Top.children)
        /\ UNCHANGED <<grammar, nodes, pending, released>>
    BY DEF AdoptNext, Parsing
  <1>2. /\ n \in Nat \ {0} /\ n \in DOMAIN stack /\ DOMAIN stack = 1..n /\ Top = stack[n]
        /\ Top \in Frames
    BY <1>1, TopFacts
  <1>3. nodes \in Nat /\ nodes' \in nodes..MaxNodes /\ Len(objs) \in Nat
        /\ DOMAIN objs = 1..Len(objs)
    BY <1>1, MaxNodesAssumption DEF Shape
  <1>4. FrameOK(n) /\ p \in Nat /\ Top.children \in Seq(Nat)
    BY <1>2 DEF FramesOK, Frames
  <1>5. /\ k \in DOMAIN Top.children /\ Top.adopted \in Nat /\ Waits(c, n, k)
        /\ c \in DOMAIN objs /\ c \in Nat /\ objs[c].ready /\ Owners(c) = {}
    BY <1>1, NextChildFacts
  <1>6. p \in DOMAIN objs /\ ~objs[p].ready /\ k \in Nat /\ k \in 0..Len(Top.children)
    BY <1>1, <1>4, <1>5, UnderWay
  <1>7. CASE Fail
    BY <1>1, <1>3, <1>7, FailKeeps
  <1>8. CASE /\ Accepts(p, c) /\ objs' = AddChild(p, c)
             /\ stack' = [stack EXCEPT ![n].adopted = @ + 1] /\ UNCHANGED <<transform, outcome>>
    <2> DEFINE f == [Top EXCEPT !.adopted = k]
    <2>1. /\ f \in Frames /\ f.el = Top.el /\ f.children = Top.children /\ f.result = p
          /\ f.adopted = k /\ f.ops = Top.ops
      BY <1>2, <1>5 DEF Frames
    <2>2. stack' = [stack EXCEPT ![n] = f]
      BY <1>2, <1>8
    <2> HIDE DEF f
    <2>3. Waits(c, n, k)
      BY <1>5
    <2>4. objs[c].ready /\ Owners(c) = {} /\ c \in Nat
      BY <1>5
    <2>5. /\ objs' \in Seq(Objs) /\ Len(objs') = Len(objs) /\ DOMAIN objs' = DOMAIN objs
          /\ \A o \in DOMAIN objs : objs'[o].ready = objs[o].ready
          /\ Owners(c)' = {p}
          /\ \A o \in DOMAIN objs : o # c => Owners(o)' = Owners(o)
          /\ KidsOK' /\ ReadyIsWhole'
      BY <1>5, <1>6, <1>8, AddChildFacts
    <2>6. Len(objs') = Len(objs) /\ DOMAIN objs' = DOMAIN objs
      BY <2>5
    <2>7. /\ stack' \in Seq(Frames) /\ Len(stack') = n /\ DOMAIN stack' = 1..n
          /\ stack'[n] = f /\ \A i \in 1..n : i # n => stack'[i] = stack[i]
      BY <1>2, <2>1, <2>2 DEF Shape
    <2> HIDE DEF n
    <2>8. \A i \in 1..n : /\ stack'[i].el = stack[i].el /\ stack'[i].ops = stack[i].ops
                          /\ stack'[i].children = stack[i].children
                          /\ stack'[i].result = stack[i].result
      BY <1>2, <2>1, <2>7
    <2>9. Shape'
      BY <1>1, <1>8, <2>5, <2>7 DEF Shape
    <2>10. FramesOK'
      <3> SUFFICES ASSUME NEW i \in DOMAIN stack' PROVE FrameOK(i)'
        BY DEF FramesOK
      <3>1. i \in 1..n /\ i \in DOMAIN stack /\ Len(stack) = n /\ Len(stack') = n
        BY <1>2, <2>7 DEF n
      <3>2. FrameOK(i)
        BY <3>1 DEF FramesOK
      <3>3. /\ stack'[i].el = stack[i].el /\ stack'[i].children = stack[i].children
            /\ stack'[i].result = stack[i].result
        BY <2>8, <3>1
      <3>4. stack'[i].adopted \in 0..Len(stack'[i].children)
            /\ (stack'[i].result = 0 => stack'[i].adopted = 0)
        <4>1. CASE i = n
          BY <1>1, <1>2, <1>5, <2>1, <2>7, <4>1
        <4>2. CASE i # n
          <5>1. stack'[i] = stack[i]
            BY <2>7, <3>1, <4>2
          <5> QED
            BY <3>2, <5>1 DEF FrameOK
        <4> QED
          BY <4>1, <4>2
      <3> QED
        BY <2>6, <3>1, <3>2, <3>3, <3>4 DEF FrameOK
    <2>11. Nested'
      <3>1. nodes # 0
        BY <1>1 DEF Nested
      <3>2. \A i \in 1..n : i # 1 => i - 1 \in 1..n
        BY <1>2
      <3> QED
        BY <1>1, <1>2, <2>7, <2>8, <3>1, <3>2 DEF Nested
    <2>12. TransformIsOwn'
      BY <1>2, <1>8, <2>7, <2>8 DEF TransformIsOwn
    <2>13. ASSUME NEW d \in Nat, NEW i \in Nat, NEW j \in Nat
           PROVE  Waits(d, i, j)' <=> Waits(d, i, j) /\ ~(i = n /\ j = k)
      <3>1. CASE i = n
        <4>1. Waits(d, i, j) <=> j \in DOMAIN Top.children /\ Top.adopted < j /\ Top.children[j] = d
          BY <1>2, <3>1 DEF Waits
        <4>2. Waits(d, i, j)' <=> j \in DOMAIN Top.children /\ k < j /\ Top.children[j] = d
          BY <1>2, <2>1, <2>7, <3>1 DEF Waits
        <4>3. k < j <=> Top.adopted < j /\ j # k
          BY <1>5
        <4> QED
          BY <3>1, <4>1, <4>2, <4>3
      <3>2. CASE i # n
        BY <1>2, <2>7, <3>2 DEF Waits
      <3> QED
        BY <3>1, <3>2
    <2>14. InHand'
      <3>1. ASSUME NEW i \in DOMAIN stack', stack'[i].result # 0
            PROVE  ~objs'[stack'[i].result].ready
        <4>1. i \in DOMAIN stack /\ stack'[i].result = stack[i].result
          BY <1>2, <2>7, <2>8
        <4>2. stack[i].result \in DOMAIN objs /\ ~objs[stack[i].result].ready
          BY <1>3, <3>1, <4>1 DEF InHand, FramesOK, FrameOK
        <4> QED
          BY <2>5, <4>1, <4>2
      <3>2. ASSUME NEW d \in Nat, NEW i \in Nat, NEW j \in Nat, Waits(d, i, j)'
            PROVE  objs'[d].ready /\ Owners(d)' = {}
        <4>1. Waits(d, i, j) /\ ~(i = n /\ j = k)
          BY <2>13, <3>2
        <4>2. d # c
          BY <1>2, <1>5, <1>6, <2>3, <4>1 DEF InHand
        <4>3. d \in DOMAIN objs
          BY <4>1 DEF Waits, FramesOK, FrameOK
        <4>4. objs[d].ready /\ Owners(d) = {}
          BY <4>1 DEF InHand
        <4> QED
          BY <2>5, <4>2, <4>3, <4>4
      <3>3. ASSUME NEW d \in Nat, NEW i \in Nat, NEW j \in Nat, NEW r \in Nat, NEW l \in Nat,
                   Waits(d, i, j)', Waits(d, r, l)'
            PROVE  i = r /\ j = l
        <4>1. Waits(d, i, j) /\ Waits(d, r, l)
          BY <2>13, <3>3
        <4> QED
          BY <4>1 DEF InHand
      <3> QED
        BY <3>1, <3>2, <3>3 DEF InHand
    <2>15. Accounted'
      <3>1. ASSUME NEW o \in DOMAIN objs', Owners(o)' = {}
            PROVE  \/ \E i \in DOMAIN stack' : stack'[i].result = o
                   \/ \E i, j \in Nat : Waits(o, i, j)'
        <4>0. o \in DOMAIN objs /\ o \in Nat
          BY <1>3, <2>6
        <4>1. o # c /\ o \in DOMAIN objs /\ Owners(o) = {} /\ o \in Nat
          BY <2>5, <3>1, <4>0
        <4>2. CASE \E i \in DOMAIN stack : stack[i].result = o
          BY <1>2, <2>7, <2>8, <4>2
        <4>3. CASE \E i, j \in Nat : Waits(o, i, j)
          <5>1. PICK i \in Nat, j \in Nat : Waits(o, i, j)
            BY <4>3
          <5>2. ~(i = n /\ j = k)
            BY <2>3, <4>1, <5>1 DEF Waits
          <5> QED
            BY <2>13, <4>1, <5>1, <5>2
        <4> QED
          BY <1>1, <4>1, <4>2, <4>3 DEF Accounted
      <3> QED
        BY <1>1, <1>8, <3>1 DEF Accounted
    <2>16. Counted'
      <3>1. Top' = f /\ Len(stack') = n /\ Len(stack) = n /\ stack' # <<>>
        BY <1>2, <2>7 DEF Top, n
      <3>2. Top'.result = Top.result
        BY <2>1, <3>1
      <3> QED
        BY <1>1, <1>2, <1>3, <1>8, <2>6, <3>1, <3>2 DEF Counted
    <2>17. Deletion'
      BY <1>1, NothingDeleted DEF Deletion
    <2> QED
      BY <2>5, <2>9, <2>10, <2>11, <2>12, <2>14, <2>15, <2>16, <2>17
  <1> QED
    BY <1>7, <1>8 DEF AdoptNext

\* What activate() adds to an object: nothing, one object that is complete, or
\* a material and its texture.
SlotOf(object) ==
  IF ClassTag[object.class] = "texture" THEN object.use ELSE ClassTag[object.class]

Plain(object) ==
  /\ object \in Objs /\ object.ready /\ object.kids = <<>>
  /\ object.tree = {} /\ object.lights = {} /\ object.class \notin DOMAIN DefaultFor

Material(object, texture) ==
  /\ object \in Objs /\ object.ready /\ object.kids = <<texture>>
  /\ object.tree = {} /\ object.lights = {} /\ object.class = "diffuse"

LEMMA DefaultClasses ==
    ASSUME NEW class \in DOMAIN DefaultFor
    PROVE  /\ DefaultFor[class].class \in DOMAIN ClassTag
           /\ class # "obj" =>
                /\ DefaultFor[class].class \notin DOMAIN DefaultFor
                /\ ~HasActivate(DefaultFor[class].class)
                /\ DefaultFor[class].class = "solid" =>
                      DefaultFor[class].slot \in {"albedo", "radiance"}
                /\ DefaultFor[class].class # "solid" =>
                      /\ ClassTag[DefaultFor[class].class] # "texture"
                      /\ ClassTag[DefaultFor[class].class] = DefaultFor[class].slot
           /\ class = "obj" => DefaultFor[class].slot = "bsdf"
  BY DEF DefaultFor, ClassTag, HasActivate

LEMMA MadeReady ==
    ASSUME NEW e \in Objs, NEW ready, NEW kids
    PROVE  /\ [e EXCEPT !.ready = ready] =
                [class |-> e.class, use |-> e.use, placed |-> e.placed, kids |-> e.kids,
                 ready |-> ready, tree |-> e.tree, lights |-> e.lights]
           /\ [e EXCEPT !.ready = ready, !.kids = kids] =
                [class |-> e.class, use |-> e.use, placed |-> e.placed, kids |-> kids,
                 ready |-> ready, tree |-> e.tree, lights |-> e.lights]
  <1>1. e = [class |-> e.class, use |-> e.use, placed |-> e.placed, kids |-> e.kids,
             ready |-> e.ready, tree |-> e.tree, lights |-> e.lights]
    BY DEF Objs
  <1>2. [e EXCEPT !.ready = ready] =
           [class |-> e.class, use |-> e.use, placed |-> e.placed, kids |-> e.kids,
            ready |-> ready, tree |-> e.tree, lights |-> e.lights]
    BY <1>1
  <1>3. [e EXCEPT !.ready = ready, !.kids = kids] =
           [class |-> e.class, use |-> e.use, placed |-> e.placed, kids |-> kids,
            ready |-> ready, tree |-> e.tree, lights |-> e.lights]
    <2> DEFINE f == [e EXCEPT !.ready = ready]
    <2>1. [e EXCEPT !.ready = ready, !.kids = kids] = [f EXCEPT !.kids = kids]
      BY DEF Objs
    <2>2. f = [class |-> e.class, use |-> e.use, placed |-> e.placed, kids |-> e.kids,
               ready |-> ready, tree |-> e.tree, lights |-> e.lights]
      BY <1>2
    <2> HIDE DEF f
    <2>3. [f EXCEPT !.kids = kids] =
             [class |-> e.class, use |-> e.use, placed |-> e.placed, kids |-> kids,
              ready |-> ready, tree |-> e.tree, lights |-> e.lights]
      BY <2>2
    <2> QED
      BY <2>1, <2>3 DEF f
  <1> QED
    BY <1>2, <1>3

LEMMA PlainDefault ==
    ASSUME NEW class \in DOMAIN ClassTag, NEW use \in {"none", "albedo", "radiance", "unknown"},
           class \notin DOMAIN DefaultFor, ~HasActivate(class)
    PROVE  Plain(Default(class, use)) /\ Default(class, use).class = class
           /\ Default(class, use).use = use
  <1>1. <<>> \in Values
    BY DEF Values
  <1> DEFINE bare == [class |-> class, use |-> use, placed |-> <<>>, kids |-> <<>>,
                      ready |-> FALSE, tree |-> {}, lights |-> {}]
  <1>2. Default(class, use) = [bare EXCEPT !.ready = TRUE]
    BY DEF Default, NewObject
  <1>3. Default(class, use) =
          [class |-> class, use |-> use, placed |-> <<>>, kids |-> <<>>,
           ready |-> TRUE, tree |-> {}, lights |-> {}]
    BY <1>2
  <1>4. Default(class, use) \in Objs
    BY <1>1, <1>3 DEF Objs
  <1> QED
    BY <1>3, <1>4 DEF Plain

LEMMA DefaultsAre ==
    ASSUME Shape, NEW o \in DOMAIN objs, NEW slot,
           objs[o].class \in DOMAIN DefaultFor => slot = DefaultFor[objs[o].class].slot
    PROVE  \/ /\ Defaults(o) = <<>>
              /\ objs[o].class \in DOMAIN DefaultFor => InSlot(o, slot) # {}
           \/ /\ objs[o].class \in DOMAIN DefaultFor /\ InSlot(o, slot) = {}
              /\ \/ \E d \in Objs : Defaults(o) = <<d>> /\ Plain(d) /\ SlotOf(d) = slot
                 \/ \E m, s \in Objs :
                      /\ Defaults(o) = <<m, s>> /\ Plain(s) /\ SlotOf(s) = "albedo"
                      /\ Material(m, Len(objs) + 2) /\ SlotOf(m) = slot
  <1> DEFINE class == objs[o].class
  <1>1. CASE class \notin DOMAIN DefaultFor
    BY <1>1 DEF Defaults
  <1>2. CASE class \in DOMAIN DefaultFor /\ InSlot(o, slot) # {}
    BY <1>2 DEF Defaults
  <1>3. CASE class \in DOMAIN DefaultFor /\ InSlot(o, slot) = {} /\ class # "obj"
    <2> DEFINE dc == DefaultFor[class].class
               use == IF dc = "solid" THEN slot ELSE "none"
               d == Default(dc, use)
    <2>1. Defaults(o) = <<d>>
      BY <1>3 DEF Defaults
    <2>2. /\ dc \in DOMAIN ClassTag /\ dc \notin DOMAIN DefaultFor /\ ~HasActivate(dc)
          /\ use \in {"none", "albedo", "radiance", "unknown"}
          /\ dc # "solid" => ClassTag[dc] # "texture" /\ ClassTag[dc] = slot
      <3> HIDE DEF class
      <3> QED
        BY <1>3, DefaultClasses DEF class
    <2> HIDE DEF dc, use, d
    <2>3. Plain(d) /\ d.class = dc /\ d.use = use
      BY <2>2, PlainDefault DEF d
    <2>4. SlotOf(d) = slot
      <3>1. ClassTag["solid"] = "texture"
        BY DEF ClassTag
      <3> QED
        BY <2>2, <2>3, <3>1 DEF SlotOf, use
    <2> QED
      BY <1>3, <2>1, <2>3, <2>4 DEF Plain
  <1>4. CASE class = "obj" /\ InSlot(o, slot) = {}
    <2> DEFINE bare == [class |-> "diffuse", use |-> "none", placed |-> <<>>,
                        kids |-> <<Len(objs) + 2>>, ready |-> TRUE, tree |-> {}, lights |-> {}]
               s == Default("solid", "albedo")
    <2>1. /\ "obj" \in DOMAIN DefaultFor /\ "solid" \notin DOMAIN DefaultFor
          /\ ~HasActivate("solid") /\ {"solid", "diffuse"} \subseteq DOMAIN ClassTag
          /\ ClassTag["solid"] = "texture" /\ ClassTag["diffuse"] = "bsdf"
          /\ DefaultFor["obj"].slot = "bsdf"
      BY DEF DefaultFor, HasActivate, ClassTag
    <2>2. Default("diffuse", "none") =
            [class |-> "diffuse", use |-> "none", placed |-> <<>>, kids |-> <<>>,
             ready |-> FALSE, tree |-> {}, lights |-> {}]
      <3> DEFINE e == [class |-> "diffuse", use |-> "none", placed |-> <<>>, kids |-> <<>>,
                       ready |-> FALSE, tree |-> {}, lights |-> {}]
      <3>1. (~HasActivate("diffuse")) = FALSE
        BY DEF HasActivate, DefaultFor
      <3>2. Default("diffuse", "none") = [e EXCEPT !.ready = FALSE]
        BY <3>1 DEF Default, NewObject
      <3>3. e \in Objs
        <4>1. <<>> \in Values
          BY DEF Values
        <4> QED
          BY <2>1, <4>1 DEF Objs
      <3> HIDE DEF e
      <3>4. [e EXCEPT !.ready = FALSE] =
               [class |-> e.class, use |-> e.use, placed |-> e.placed, kids |-> e.kids,
                ready |-> FALSE, tree |-> e.tree, lights |-> e.lights]
        BY <3>3, MadeReady
      <3> QED
        BY <3>2, <3>4 DEF e
    <2>3. [Default("diffuse", "none") EXCEPT !.ready = TRUE, !.kids = <<Len(objs) + 2>>] = bare
      <3> DEFINE e == Default("diffuse", "none")
      <3>1. e \in Objs
        <4>1. <<>> \in Values
          BY DEF Values
        <4>2. [class |-> "diffuse", use |-> "none", placed |-> <<>>, kids |-> <<>>,
               ready |-> FALSE, tree |-> {}, lights |-> {}] \in Objs
          BY <2>1, <4>1 DEF Objs
        <4> QED
          BY <2>2, <4>2
      <3> HIDE DEF e
      <3>2. [e EXCEPT !.ready = TRUE, !.kids = <<Len(objs) + 2>>] =
               [class |-> e.class, use |-> e.use, placed |-> e.placed, kids |-> <<Len(objs) + 2>>,
                ready |-> TRUE, tree |-> e.tree, lights |-> e.lights]
        BY <3>1, MadeReady
      <3>3. /\ e.class = "diffuse" /\ e.use = "none" /\ e.placed = <<>>
            /\ e.tree = {} /\ e.lights = {}
        BY <2>2 DEF e
      <3> QED
        BY <3>2, <3>3 DEF e
    <2>4. Defaults(o) = <<bare, s>>
      BY <1>4, <2>1, <2>3 DEF Defaults, DefaultMaterial
    <2>5. Plain(s) /\ s.class = "solid" /\ s.use = "albedo"
      BY <2>1, PlainDefault
    <2>6. Material(bare, Len(objs) + 2)
      <3>1. <<Len(objs) + 2>> \in Seq(Nat) /\ <<>> \in Values
        BY DEF Shape, Values
      <3> QED
        BY <2>1, <3>1 DEF Material, Objs
    <2>7. SlotOf(bare) = slot /\ SlotOf(s) = "albedo"
      BY <1>4, <2>1, <2>5 DEF SlotOf
    <2> HIDE DEF bare, s
    <2> QED
      BY <1>4, <2>1, <2>4, <2>5, <2>6, <2>7 DEF Plain, Material
  <1> QED
    BY <1>1, <1>2, <1>3, <1>4

LEMMA UpToTwo ==
    ASSUME NEW a \in Nat, NEW b \in 0..2, NEW c, c = a + b
    PROVE  c \in a..(a + 2)
  OBVIOUS

\* The member activate() may fill, and the numbers of the next two objects.
DefaultSlot(o, slot) ==
  objs[o].class \in DOMAIN DefaultFor => slot = DefaultFor[objs[o].class].slot

NextTwo(y, z) == y = Len(objs) + 1 /\ z = Len(objs) + 2

\* The objects after activate() of o; new are those it made, numbered y and z.
Activation(o, slot, new, y, z) ==
  /\ objs' \in Seq(Objs) /\ DOMAIN objs' = DOMAIN objs \cup new
  /\ Len(objs') \in Len(objs)..(Len(objs) + 2)
  /\ new = {} \/ new = {y} \/ new = {y, z}
  /\ \A x \in DOMAIN objs : x # o => objs'[x] = objs[x]
  /\ objs'[o].ready /\ objs'[o].class = objs[o].class /\ objs'[o].use = objs[o].use
  /\ objs'[o].kids = IF y \in new THEN Append(objs[o].kids, y) ELSE objs[o].kids
  /\ objs'[o].tree = IF objs[o].class = "scene" THEN InSlot(o, "mesh") ELSE {}
  /\ objs'[o].lights = IF objs[o].class = "scene"
                       THEN {m \in InSlot(o, "mesh") : IsEmitter(m)} ELSE {}
  /\ y \in new => /\ objs[o].class \in DOMAIN DefaultFor
                  /\ InSlot(o, slot) = {} /\ SlotOf(objs'[y]) = slot
  /\ y \notin new => (objs[o].class \in DOMAIN DefaultFor => InSlot(o, slot) # {})
  /\ new = {y} => Plain(objs'[y])
  /\ new = {y, z} =>
       Material(objs'[y], z) /\ Plain(objs'[z]) /\ SlotOf(objs'[z]) = "albedo"

LEMMA ActivatedIs ==
    ASSUME Shape, KidsOK, NEW o \in DOMAIN objs, objs' = Activated(o),
           NEW slot, DefaultSlot(o, slot), NEW y, NEW z, NextTwo(y, z)
    PROVE  \E new \in SUBSET {y, z} : Activation(o, slot, new, y, z)
  <1> DEFINE N == Len(objs)
             added == Defaults(o)
             kids == IF added = <<>> THEN objs[o].kids ELSE Append(objs[o].kids, y)
             tree == IF objs[o].class = "scene" THEN InSlot(o, "mesh") ELSE {}
             lights == IF objs[o].class = "scene"
                       THEN {m \in InSlot(o, "mesh") : IsEmitter(m)} ELSE {}
             q == [objs[o] EXCEPT !.ready = TRUE, !.kids = kids, !.tree = tree, !.lights = lights]
             base == [objs EXCEPT ![o] = q]
  <1>1. objs[o] \in Objs /\ DOMAIN objs = 1..N /\ N \in Nat /\ o \in 1..N
        /\ y = N + 1 /\ z = N + 2
    BY DEF Shape, NextTwo
  <1>2. objs' = base \o added
    BY DEF Activated, NextTwo
  <1>3. kids \in Seq(Nat)
    BY <1>1 DEF Objs
  <1>4. tree \in SUBSET Nat /\ lights \in SUBSET Nat
    <2>1. InSlot(o, "mesh") \subseteq Nat
      BY <1>1 DEF KidsOK, InSlot
    <2> QED
      BY <2>1
  <1> HIDE DEF kids, tree, lights, added
  <1>5. /\ q.ready = TRUE /\ q.kids = kids /\ q.tree = tree /\ q.lights = lights
        /\ q.class = objs[o].class /\ q.use = objs[o].use /\ q \in Objs
    BY <1>1, <1>3, <1>4 DEF Objs
  <1> HIDE DEF q
  <1>6. base \in Seq(Objs) /\ Len(base) = N /\ base[o] = q
        /\ \A x \in 1..N : x # o => base[x] = objs[x]
    BY <1>1, <1>5 DEF Shape
  <1> HIDE DEF base, N
  <1>7. ASSUME NEW new \in SUBSET {y, z}, added \in Seq(Objs), Len(added) \in 0..2,
               1..(N + Len(added)) = 1..N \cup new,
               new = {} \/ new = {y} \/ new = {y, z}, added = <<>> <=> y \notin new
        PROVE  /\ objs' \in Seq(Objs) /\ DOMAIN objs' = DOMAIN objs \cup new
               /\ Len(objs') \in Len(objs)..(Len(objs) + 2)
               /\ \A x \in DOMAIN objs : x # o => objs'[x] = objs[x]
               /\ objs'[o] = q
               /\ objs'[o].kids = IF y \in new THEN Append(objs[o].kids, y) ELSE objs[o].kids
               /\ \A x \in 1..Len(added) : objs'[N + x] = added[x]
    <2>1. /\ objs' \in Seq(Objs) /\ Len(objs') = N + Len(added)
          /\ \A x \in 1..N : objs'[x] = base[x]
          /\ \A x \in 1..Len(added) : objs'[N + x] = added[x]
      <3>1. base \in Seq(Objs) /\ Len(base) = N /\ N \in Nat /\ added \in Seq(Objs)
        BY <1>1, <1>6, <1>7
      <3>2. Len(added) \in Nat
        BY <3>1
      <3>3. \A x \in 1..Len(added) : N + x \in 1..(N + Len(added)) /\ N + x > N /\ N + x - N = x
        BY <3>1, <3>2
      <3>4. objs' \in Seq(Objs) /\ Len(objs') = N + Len(added)
        <4>1. base \o added \in Seq(Objs)
          BY <3>1
        <4>2. Len(base \o added) = Len(base) + Len(added)
          BY <3>1
        <4> QED
          BY <1>2, <3>1, <4>1, <4>2
      <3>5. ASSUME NEW x \in 1..N PROVE objs'[x] = base[x]
        BY <1>2, <3>1, <3>2
      <3>6. ASSUME NEW x \in 1..Len(added) PROVE objs'[N + x] = added[x]
        BY <1>2, <3>1, <3>2
      <3> QED
        BY <3>4, <3>5, <3>6
    <2>2. DOMAIN objs' = DOMAIN objs \cup new
      BY <1>1, <1>7, <2>1
    <2>3. Len(objs') \in Len(objs)..(Len(objs) + 2)
      <3>1. Len(objs') = N + Len(added) /\ Len(added) \in 0..2 /\ N \in Nat /\ N = Len(objs)
        BY <1>1, <1>7, <2>1 DEF N
      <3> QED
        BY <3>1, UpToTwo
    <2>4. objs'[o] = q /\ \A x \in DOMAIN objs : x # o => objs'[x] = objs[x]
      BY <1>1, <1>6, <2>1
    <2>5. objs'[o].kids = IF y \in new THEN Append(objs[o].kids, y) ELSE objs[o].kids
      BY <1>5, <1>7, <2>4 DEF kids
    <2> QED
      BY <2>1, <2>2, <2>3, <2>4, <2>5
  <1>8. \/ /\ added = <<>>
           /\ objs[o].class \in DOMAIN DefaultFor => InSlot(o, slot) # {}
        \/ /\ objs[o].class \in DOMAIN DefaultFor /\ InSlot(o, slot) = {}
           /\ \/ \E d \in Objs : added = <<d>> /\ Plain(d) /\ SlotOf(d) = slot
              \/ \E m, s \in Objs :
                   /\ added = <<m, s>> /\ Plain(s) /\ SlotOf(s) = "albedo"
                   /\ Material(m, Len(objs) + 2) /\ SlotOf(m) = slot
    BY DefaultsAre DEF added, DefaultSlot
  <1>9. CASE added = <<>> /\ (objs[o].class \in DOMAIN DefaultFor => InSlot(o, slot) # {})
    <2>1. Activation(o, slot, {}, y, z)
      <3>1. 1..(N + Len(added)) = 1..N \cup {} /\ added \in Seq(Objs) /\ Len(added) = 0
            /\ y \notin {} /\ {} \in SUBSET {y, z} /\ y # z
        BY <1>1, <1>9
      <3> QED
        <4>1. Len(added) \in 0..2 /\ (added = <<>> <=> y \notin {})
          BY <1>9, <3>1
        <4>2. /\ objs' \in Seq(Objs) /\ DOMAIN objs' = DOMAIN objs \cup {}
              /\ Len(objs') \in Len(objs)..(Len(objs) + 2)
              /\ \A x \in DOMAIN objs : x # o => objs'[x] = objs[x]
              /\ objs'[o] = q
              /\ objs'[o].kids = IF y \in {} THEN Append(objs[o].kids, y) ELSE objs[o].kids
          BY <1>7, <3>1, <4>1
        <4>3. {} # {y} /\ {} # {y, z}
          OBVIOUS
        <4> QED
          BY <1>5, <1>9, <3>1, <4>2, <4>3 DEF Activation, tree, lights
    <2> QED
      BY <2>1
  <1>10. ASSUME objs[o].class \in DOMAIN DefaultFor, InSlot(o, slot) = {},
                NEW d \in Objs, added = <<d>>, Plain(d), SlotOf(d) = slot
         PROVE  Activation(o, slot, {y}, y, z)
    <2>1. 1..(N + Len(added)) = 1..N \cup {y} /\ added \in Seq(Objs) /\ Len(added) = 1
          /\ {y} \in SUBSET {y, z} /\ y # z /\ added # <<>> /\ added[1] = d
      BY <1>1, <1>10
    <2>2. /\ objs' \in Seq(Objs) /\ DOMAIN objs' = DOMAIN objs \cup {y}
          /\ Len(objs') \in Len(objs)..(Len(objs) + 2)
          /\ \A x \in DOMAIN objs : x # o => objs'[x] = objs[x]
          /\ objs'[o] = q
          /\ objs'[o].kids = IF y \in {y} THEN Append(objs[o].kids, y) ELSE objs[o].kids
          /\ \A x \in 1..Len(added) : objs'[N + x] = added[x]
      <3>1. {y} \in SUBSET {y, z} /\ added \in Seq(Objs) /\ 1..(N + Len(added)) = 1..N \cup {y}
        BY <2>1
      <3>2. Len(added) \in 0..2
        BY <2>1
      <3>3. added = <<>> <=> y \notin {y}
        BY <2>1
      <3>4. {y} = {} \/ {y} = {y} \/ {y} = {y, z}
        OBVIOUS
      <3> QED
        BY <1>7, <3>1, <3>2, <3>3, <3>4
    <2>3. objs'[y] = d
      <3>1. 1 \in 1..Len(added)
        BY <2>1
      <3> QED
        BY <1>1, <2>1, <2>2, <3>1
    <2>4. {y} # {y, z}
      BY <2>1
    <2> QED
      BY <1>5, <1>10, <2>2, <2>3, <2>4 DEF Activation, tree, lights
  <1>11. ASSUME objs[o].class \in DOMAIN DefaultFor, InSlot(o, slot) = {},
                NEW m \in Objs, NEW s \in Objs, added = <<m, s>>, Plain(s), SlotOf(s) = "albedo",
                Material(m, Len(objs) + 2), SlotOf(m) = slot
         PROVE  Activation(o, slot, {y, z}, y, z)
    <2>1. 1..(N + Len(added)) = 1..N \cup {y, z} /\ added \in Seq(Objs) /\ Len(added) = 2
          /\ {y, z} \in SUBSET {y, z} /\ y # z /\ added # <<>>
          /\ added[1] = m /\ added[2] = s
      BY <1>1, <1>11
    <2>2. /\ objs' \in Seq(Objs) /\ DOMAIN objs' = DOMAIN objs \cup {y, z}
          /\ Len(objs') \in Len(objs)..(Len(objs) + 2)
          /\ \A x \in DOMAIN objs : x # o => objs'[x] = objs[x]
          /\ objs'[o] = q
          /\ objs'[o].kids = IF y \in {y, z} THEN Append(objs[o].kids, y) ELSE objs[o].kids
          /\ \A x \in 1..Len(added) : objs'[N + x] = added[x]
      <3>1. {y, z} \in SUBSET {y, z} /\ added \in Seq(Objs) /\ 1..(N + Len(added)) = 1..N \cup {y, z}
        BY <2>1
      <3>2. Len(added) \in 0..2
        BY <2>1
      <3>3. added = <<>> <=> y \notin {y, z}
        BY <2>1
      <3>4. {y, z} = {} \/ {y, z} = {y} \/ {y, z} = {y, z}
        OBVIOUS
      <3> QED
        BY <1>7, <3>1, <3>2, <3>3, <3>4
    <2>3. objs'[y] = m /\ objs'[z] = s
      <3>1. 1 \in 1..Len(added) /\ 2 \in 1..Len(added)
        BY <2>1
      <3> QED
        BY <1>1, <2>1, <2>2, <3>1
    <2>4. {y} # {y, z}
      BY <2>1
    <2>5. Material(objs'[y], z)
      BY <1>11, <2>3 DEF NextTwo
    <2> QED
      BY <1>5, <1>11, <2>2, <2>3, <2>4, <2>5 DEF Activation, tree, lights
  <1> QED
    BY <1>8, <1>9, <1>10, <1>11

LEMMA ActivationFacts ==
    ASSUME Shape, KidsOK, ReadyIsWhole, NEW o \in DOMAIN objs, ~objs[o].ready,
           objs[o].class = "scene" => SceneUsable(o),
           NEW slot, DefaultSlot(o, slot), NEW y, NEW z, NextTwo(y, z),
           NEW new \in SUBSET {y, z}, Activation(o, slot, new, y, z)
    PROVE  /\ DOMAIN objs \cap new = {}
           /\ \A x \in DOMAIN objs : /\ Owners(x)' = Owners(x)
                                     /\ objs'[x].ready <=> objs[x].ready \/ x = o
           /\ \A x \in new : objs'[x].ready /\ Owners(x)' = IF x = y THEN {o} ELSE {y}
           /\ KidsOK' /\ ReadyIsWhole'
  <1>1. /\ DOMAIN objs = 1..Len(objs) /\ Len(objs) \in Nat /\ y \in Nat /\ z \in Nat
        /\ y \notin DOMAIN objs /\ z \notin DOMAIN objs /\ y # z /\ o # y /\ o # z
        /\ objs[o] \in Objs /\ objs[o].class \in DOMAIN ClassTag
    <2>1. DOMAIN objs = 1..Len(objs) /\ Len(objs) \in Nat /\ objs[o] \in Objs
          /\ y = Len(objs) + 1 /\ z = Len(objs) + 2
      BY DEF Shape, NextTwo
    <2>2. objs[o].class \in DOMAIN ClassTag
      BY <2>1 DEF Objs
    <2> QED
      BY <2>1, <2>2
  <1>2. new = {} \/ new = {y} \/ new = {y, z}
    BY DEF Activation
  <1>3. DOMAIN objs' = DOMAIN objs \cup new /\ DOMAIN objs \cap new = {}
    BY <1>1 DEF Activation
  <1>4. Grown
    BY <1>3 DEF Grown, Activation
  <1>5. \A x \in DOMAIN objs : objs'[x].ready <=> objs[x].ready \/ x = o
    BY DEF Activation
  <1>6. \A x \in new : /\ objs'[x].ready /\ objs'[x].tree = {} /\ objs'[x].lights = {}
                       /\ objs'[x].class \in DOMAIN ClassTag
    BY <1>1, <1>2 DEF Activation, Plain, Material, Objs
  <1>7. /\ y \in new => objs'[y].kids = IF z \in new THEN <<z>> ELSE <<>>
        /\ z \in new => objs'[z].kids = <<>>
    BY <1>1, <1>2 DEF Activation, Plain, Material
  <1>8. /\ y \in new => KidsIn(y)' = {z} \cap new
        /\ z \in new => KidsIn(z)' = {} /\ y \in new
        /\ \A x \in new : Injective(objs'[x].kids)
    <2>1. y \in new => KidsIn(y)' = {z} \cap new
      BY <1>7 DEF KidsIn
    <2>2. z \in new => KidsIn(z)' = {} /\ y \in new
      BY <1>1, <1>2, <1>7 DEF KidsIn
    <2>3. Injective(<<>>) /\ Injective(<<z>>)
      BY DEF Injective
    <2> QED
      BY <1>2, <1>7, <2>1, <2>2, <2>3
  <1>9. KidsIn(o)' = KidsIn(o) \cup ({y} \cap new)
    <2>1. objs'[o].kids = IF y \in new THEN Append(objs[o].kids, y) ELSE objs[o].kids
      BY DEF Activation
    <2>2. KidsIn(o)' = Ran(objs'[o].kids) /\ KidsIn(o) = Ran(objs[o].kids)
      BY DEF KidsIn, Ran
    <2>3. Ran(Append(objs[o].kids, y)) = Ran(objs[o].kids) \cup {y}
      BY <1>1, AppendFacts DEF Objs
    <2> QED
      BY <2>1, <2>2, <2>3
  <1>10. \A x \in DOMAIN objs : x # o => KidsIn(x)' = KidsIn(x) /\ objs'[x] = objs[x]
    BY DEF KidsIn, Activation
  <1>11. \A x \in DOMAIN objs : KidsIn(x) \subseteq DOMAIN objs
    BY DEF KidsOK
  <1>12. \A x \in DOMAIN objs : Slot(x)' = Slot(x)
    BY <1>4, SlotStays
  <1>13. (y \in new => Slot(y)' = slot) /\ (z \in new => Slot(z)' = "albedo")
    <2>1. \A x : Slot(x)' = SlotOf(objs'[x])
      BY DEF Slot, Tag, SlotOf
    <2> QED
      BY <1>1, <1>2, <2>1 DEF Activation
  <1>14. \A x \in DOMAIN objs : x # o => \A s : InSlot(x, s)' = InSlot(x, s)
    BY <1>10, <1>11, <1>12 DEF InSlot
  <1>15. \A s : InSlot(o, s)' = InSlot(o, s) \cup (IF y \in new /\ s = slot THEN {y} ELSE {})
    <2>1. \A c \in KidsIn(o) : Slot(c)' = Slot(c)
      BY <1>11, <1>12
    <2> QED
      BY <1>9, <1>13, <2>1 DEF InSlot
  <1>16. \A s : z \in new => InSlot(y, s)' = IF s = "albedo" THEN {z} ELSE {}
    BY <1>8, <1>13 DEF InSlot
  <1>17. ASSUME NEW x \in DOMAIN objs PROVE Owners(x)' = Owners(x)
    <2>1. \A p \in DOMAIN objs : x \in KidsIn(p)' <=> x \in KidsIn(p)
      BY <1>1, <1>9, <1>10, <1>17
    <2>2. \A p \in new : x \notin KidsIn(p)'
      BY <1>1, <1>2, <1>8, <1>17
    <2> QED
      BY <1>3, <2>1, <2>2 DEF Owners
  <1>18. ASSUME NEW x \in new PROVE Owners(x)' = IF x = y THEN {o} ELSE {y}
    <2>1. x \notin DOMAIN objs
      BY <1>3
    <2>2. \A p \in DOMAIN objs : x \in KidsIn(p)' <=> p = o /\ x = y
      BY <1>9, <1>10, <1>11, <2>1, <1>18
    <2>3. \A p \in new : x \in KidsIn(p)' <=> p = y /\ x = z
      BY <1>2, <1>8, <1>18
    <2>4. x = y \/ (x = z /\ y \in new)
      BY <1>8, <1>18
    <2> QED
      BY <1>1, <1>3, <2>2, <2>3, <2>4 DEF Owners
  <1>19. KidsOK'
    <2> SUFFICES ASSUME NEW x \in DOMAIN objs'
                 PROVE  /\ KidsIn(x)' \subseteq DOMAIN objs'
                        /\ objs'[x].tree \cup objs'[x].lights \subseteq DOMAIN objs'
                        /\ Injective(objs'[x].kids)
                        /\ \A c \in KidsIn(x)' : objs'[c].ready
                        /\ \A p \in DOMAIN objs' : KidsIn(x)' \cap KidsIn(p)' # {} => p = x
                        /\ \A s \in Members[objs'[x].class] :
                             \/ IsList(objs'[x].class, s)
                             \/ \A c, d \in InSlot(x, s)' : c = d
      BY DEF KidsOK, Injective
    <2>1. ASSUME NEW p \in DOMAIN objs', KidsIn(x)' \cap KidsIn(p)' # {} PROVE p = x
      <3>1. PICK c : c \in KidsIn(x)' /\ c \in KidsIn(p)'
        BY <2>1
      <3>2. CASE c \in DOMAIN objs
        <4>1. x \in DOMAIN objs /\ p \in DOMAIN objs
          BY <1>1, <1>2, <1>3, <1>8, <3>1, <3>2
        <4>2. c \in KidsIn(x) /\ c \in KidsIn(p)
          BY <1>1, <1>9, <1>10, <3>1, <3>2, <4>1
        <4> QED
          BY <4>1, <4>2 DEF KidsOK
      <3>3. CASE c \in new
        <4>1. x \in Owners(c)' /\ p \in Owners(c)'
          BY <2>1, <3>1 DEF Owners
        <4> QED
          BY <1>18, <3>3, <4>1
      <3>4. c \in DOMAIN objs \/ c \in new
        <4>1. CASE x \in new
          BY <1>2, <1>8, <3>1, <4>1
        <4>2. CASE x \in DOMAIN objs
          <5>1. c \in KidsIn(x) \/ c \in new
            BY <1>9, <1>10, <3>1, <4>2
          <5> QED
            BY <1>11, <4>2, <5>1
        <4> QED
          BY <1>3, <4>1, <4>2
      <3> QED
        BY <3>2, <3>3, <3>4
    <2>2. CASE x \in new
      <3>1. KidsIn(x)' \subseteq new
        BY <1>2, <1>8, <2>2
      <3>2. ASSUME NEW s \in Members[objs'[x].class], NEW c \in InSlot(x, s)',
                   NEW d \in InSlot(x, s)'
            PROVE  c = d
        BY <1>2, <1>8, <2>2, <3>2 DEF InSlot
      <3> QED
        BY <1>3, <1>6, <1>8, <2>1, <2>2, <3>1, <3>2
    <2>3. CASE x \in DOMAIN objs
      <3>1. KidsIn(x)' \subseteq DOMAIN objs'
        BY <1>3, <1>9, <1>10, <1>11, <2>3
      <3>2. objs'[x].tree \cup objs'[x].lights \subseteq DOMAIN objs'
        <4>1. CASE x = o
          BY <1>3, <1>11, <2>3, <4>1 DEF Activation, InSlot
        <4>2. CASE x # o
          BY <1>3, <1>10, <2>3, <4>2 DEF KidsOK
        <4> QED
          BY <4>1, <4>2
      <3>3. Injective(objs'[x].kids)
        <4>1. Injective(objs[x].kids)
          BY <2>3 DEF KidsOK
        <4>2. CASE x = o
          <5>1. Ran(objs[o].kids) \subseteq DOMAIN objs
            BY <1>11 DEF KidsIn, Ran
          <5>2. Injective(Append(objs[o].kids, y))
            BY <1>1, <4>1, <4>2, <5>1, AppendFacts DEF Objs
          <5> QED
            BY <4>1, <4>2, <5>2 DEF Activation
        <4>3. CASE x # o
          BY <1>10, <2>3, <4>1, <4>3
        <4> QED
          BY <4>2, <4>3
      <3>4. \A c \in KidsIn(x)' : objs'[c].ready
        <4>1. \A c \in KidsIn(x) : objs[c].ready /\ c \in DOMAIN objs
          BY <2>3 DEF KidsOK
        <4> QED
          BY <1>5, <1>6, <1>9, <1>10, <2>3, <4>1
      <3>5. ASSUME NEW s \in Members[objs'[x].class], ~IsList(objs'[x].class, s),
                   NEW c \in InSlot(x, s)', NEW d \in InSlot(x, s)'
            PROVE  c = d
        <4>1. objs'[x].class = objs[x].class
          BY <1>4, <2>3 DEF Grown
        <4>2. \A u, v \in InSlot(x, s) : u = v
          BY <2>3, <3>5, <4>1 DEF KidsOK
        <4>3. CASE x = o /\ y \in new /\ s = slot
          <5>1. InSlot(o, s) = {}
            BY <4>3 DEF Activation
          <5> QED
            BY <1>15, <3>5, <4>3, <5>1
        <4>4. CASE ~(x = o /\ y \in new /\ s = slot)
          BY <1>14, <1>15, <2>3, <3>5, <4>2, <4>4
        <4> QED
          BY <4>3, <4>4
      <3> QED
        BY <2>1, <3>1, <3>2, <3>3, <3>4, <3>5
    <2> QED
      BY <1>3, <2>2, <2>3
  <1>20. Whole(o)'
    <2>1. objs[o].class \in DOMAIN DefaultFor => InSlot(o, slot)' # {}
      BY <1>15 DEF Activation, DefaultSlot
    <2>2. ASSUME objs[o].class = "scene"
          PROVE  /\ InSlot(o, "camera")' # {} /\ InSlot(o, "integrator")' # {}
                 /\ InSlot(o, "mesh")' = InSlot(o, "mesh")
                 /\ objs'[o].tree = InSlot(o, "mesh")
                 /\ objs'[o].lights = {m \in InSlot(o, "mesh") : IsEmitter(m)}
      <3>1. slot = "sampler"
        BY <2>2, SceneTables DEF DefaultSlot
      <3>2. "mesh" # "sampler"
        OBVIOUS
      <3>3. InSlot(o, "mesh")' = InSlot(o, "mesh")
        BY <1>15, <3>1, <3>2
      <3>4. InSlot(o, "camera")' # {} /\ InSlot(o, "integrator")' # {}
        BY <1>15, <2>2 DEF SceneUsable
      <3> QED
        BY <2>2, <3>3, <3>4 DEF Activation
    <2>3. ASSUME NEW m \in InSlot(o, "mesh") PROVE IsEmitter(m)' = IsEmitter(m)
      <3>1. m \in DOMAIN objs /\ objs[m].ready /\ m # o
        BY DEF InSlot, KidsOK
      <3> QED
        BY <1>14, <3>1 DEF IsEmitter
    <2>4. objs'[o].class = objs[o].class
      BY DEF Activation
    <2> QED
      BY <2>1, <2>2, <2>3, <2>4 DEF Whole, DefaultSlot
  <1>21. ASSUME NEW x \in new PROVE Whole(x)'
    <2>1. "scene" \in DOMAIN DefaultFor /\ DefaultFor["diffuse"].slot = "albedo"
      BY DEF DefaultFor
    <2>2. CASE Plain(objs'[x])
      BY <2>1, <2>2 DEF Whole, Plain
    <2>3. CASE x = y /\ z \in new /\ objs'[x].class = "diffuse"
      BY <1>16, <2>1, <2>3 DEF Whole
    <2> QED
      BY <1>1, <1>2, <1>21, <2>2, <2>3 DEF Activation, Material
  <1>22. ReadyIsWhole'
    <2> SUFFICES ASSUME NEW x \in DOMAIN objs', objs'[x].ready PROVE Whole(x)'
      BY DEF ReadyIsWhole
    <2>1. CASE x \in DOMAIN objs /\ x # o
      <3>1. objs[x].ready
        BY <1>5, <2>1
      <3> QED
        BY <1>4, <2>1, <3>1, WholeStays DEF ReadyIsWhole
    <2> QED
      BY <1>3, <1>20, <1>21, <2>1
  <1> QED
    BY <1>3, <1>5, <1>6, <1>17, <1>18, <1>19, <1>22

\* activate() of a scene that is refused has built the tree.
LEMMA TreeFacts ==
    ASSUME Shape, KidsOK, ReadyIsWhole, NEW o \in DOMAIN objs, ~objs[o].ready,
           objs' = [objs EXCEPT ![o].tree = InSlot(o, "mesh")]
    PROVE  /\ objs' \in Seq(Objs) /\ Len(objs') = Len(objs) /\ DOMAIN objs' = DOMAIN objs
           /\ \A x \in DOMAIN objs : objs'[x].ready = objs[x].ready
           /\ \A x : Owners(x)' = Owners(x)
           /\ KidsOK' /\ ReadyIsWhole'
  <1> DEFINE tree == InSlot(o, "mesh")
             q == [objs[o] EXCEPT !.tree = tree]
  <1>1. tree \subseteq DOMAIN objs /\ tree \in SUBSET Nat
    BY DEF KidsOK, InSlot, Shape
  <1>2. objs[o] \in Objs
    BY DEF Shape
  <1>3. objs' = [objs EXCEPT ![o] = q]
    OBVIOUS
  <1> HIDE DEF tree
  <1>4. /\ q \in Objs /\ q.class = objs[o].class /\ q.use = objs[o].use /\ q.kids = objs[o].kids
        /\ q.ready = objs[o].ready /\ q.tree = tree /\ q.lights = objs[o].lights
    BY <1>1, <1>2 DEF Objs
  <1> HIDE DEF q
  <1>5. /\ objs' \in Seq(Objs) /\ Len(objs') = Len(objs) /\ DOMAIN objs' = DOMAIN objs
        /\ objs'[o] = q /\ \A x \in DOMAIN objs : x # o => objs'[x] = objs[x]
    <2>1. objs \in Seq(Objs) /\ q \in Objs
      BY <1>4 DEF Shape
    <2>2. objs' \in Seq(Objs) /\ Len(objs') = Len(objs)
      BY <1>3, <2>1
    <2>3. DOMAIN objs' = DOMAIN objs /\ objs'[o] = q
      BY <1>3, <2>1
    <2>4. \A x \in DOMAIN objs : x # o => objs'[x] = objs[x]
      BY <1>3, <2>1
    <2> QED
      BY <2>2, <2>3, <2>4
  <1>6. \A x \in DOMAIN objs : /\ objs'[x].ready = objs[x].ready /\ objs'[x].kids = objs[x].kids
                               /\ objs'[x].class = objs[x].class
                               /\ objs'[x].lights = objs[x].lights
                               /\ objs'[x].tree \subseteq objs[x].tree \cup tree
    BY <1>4, <1>5
  <1>7. Grown
    BY <1>4, <1>5 DEF Grown
  <1>8. \A x \in DOMAIN objs : KidsIn(x)' = KidsIn(x)
    BY <1>6 DEF KidsIn
  <1>9. \A x : Owners(x)' = Owners(x)
    BY <1>5, <1>8 DEF Owners
  <1>10. \A x \in DOMAIN objs : KidsIn(x) \subseteq DOMAIN objs
    BY DEF KidsOK
  <1>11. \A x \in DOMAIN objs : \A s : InSlot(x, s)' = InSlot(x, s)
    <2>1. \A x \in DOMAIN objs : Slot(x)' = Slot(x)
      BY <1>7, SlotStays
    <2> QED
      BY <1>8, <1>10, <2>1 DEF InSlot
  <1>12. KidsOK'
    <2> SUFFICES ASSUME NEW x \in DOMAIN objs
                 PROVE  /\ KidsIn(x)' \subseteq DOMAIN objs
                        /\ objs'[x].tree \cup objs'[x].lights \subseteq DOMAIN objs
                        /\ Injective(objs'[x].kids)
                        /\ \A c \in KidsIn(x)' : objs'[c].ready
                        /\ \A p \in DOMAIN objs : KidsIn(x)' \cap KidsIn(p)' # {} => p = x
                        /\ \A s \in Members[objs'[x].class] :
                             \/ IsList(objs'[x].class, s)
                             \/ \A c, d \in InSlot(x, s)' : c = d
      BY <1>5 DEF KidsOK, Injective
    <2>1. objs'[x].tree \cup objs'[x].lights \subseteq DOMAIN objs
      BY <1>1, <1>6 DEF KidsOK
    <2>2. \A c \in KidsIn(x)' : objs'[c].ready
      BY <1>6, <1>8, <1>10 DEF KidsOK
    <2>3. \A p \in DOMAIN objs : KidsIn(x)' \cap KidsIn(p)' # {} => p = x
      BY <1>8 DEF KidsOK
    <2>4. \A s \in Members[objs'[x].class] :
             IsList(objs'[x].class, s) \/ \A c, d \in InSlot(x, s)' : c = d
      BY <1>6, <1>11 DEF KidsOK
    <2>5. Injective(objs'[x].kids) /\ KidsIn(x)' \subseteq DOMAIN objs
      BY <1>6, <1>8 DEF KidsOK
    <2> QED
      BY <2>1, <2>2, <2>3, <2>4, <2>5
  <1>13. ReadyIsWhole'
    <2> SUFFICES ASSUME NEW x \in DOMAIN objs', objs'[x].ready PROVE Whole(x)'
      BY DEF ReadyIsWhole
    <2>1. x \in DOMAIN objs /\ objs[x].ready
      BY <1>5, <1>6
    <2> QED
      BY <1>7, <2>1, WholeStays DEF ReadyIsWhole
  <1> QED
    BY <1>5, <1>6, <1>9, <1>12, <1>13

LEMMA RefusedKeeps ==
    ASSUME IInv, stack # <<>>, outcome = "parsing", NEW o, o = Top.result, o # 0,
           objs' = [objs EXCEPT ![o].tree = InSlot(o, "mesh")], outcome' = "failed",
           UNCHANGED <<grammar, nodes, stack, transform, pending, released>>
    PROVE  IInv'
  <1> USE DEF IInv
  <1>1. o \in DOMAIN objs /\ ~objs[o].ready
    BY UnderWay
  <1>2. /\ objs' \in Seq(Objs) /\ Len(objs') = Len(objs) /\ DOMAIN objs' = DOMAIN objs
        /\ \A x \in DOMAIN objs : objs'[x].ready = objs[x].ready
        /\ \A x : Owners(x)' = Owners(x)
        /\ KidsOK' /\ ReadyIsWhole'
    BY <1>1, TreeFacts
  <1>3. Len(objs') = Len(objs) /\ DOMAIN objs' = DOMAIN objs
    BY <1>2
  <1>4. Shape'
    BY <1>2 DEF Shape
  <1>5. FramesOK' /\ Nested' /\ TransformIsOwn'
    BY <1>3 DEF FramesOK, FrameOK, Nested, TransformIsOwn
  <1>6. InHand'
    <2>1. ASSUME NEW i \in DOMAIN stack', stack'[i].result # 0
          PROVE  ~objs'[stack'[i].result].ready
      <3>1. stack[i].result \in DOMAIN objs /\ ~objs[stack[i].result].ready
        <4>1. DOMAIN objs = 1..Len(objs) /\ Len(objs) \in Nat
          BY DEF Shape
        <4> QED
          BY <2>1, <4>1 DEF InHand, FramesOK, FrameOK
      <3> QED
        BY <1>2, <3>1
    <2>2. ASSUME NEW d \in Nat, NEW i \in Nat, NEW j \in Nat, Waits(d, i, j)'
          PROVE  objs'[d].ready /\ Owners(d)' = {}
      <3>1. Waits(d, i, j)
        BY <2>2, SameWaits
      <3>2. d \in DOMAIN objs /\ objs[d].ready /\ Owners(d) = {}
        BY <3>1 DEF InHand, Waits, FramesOK, FrameOK
      <3> QED
        BY <1>2, <3>2
    <2>3. \A d, i, j, k, l \in Nat : Waits(d, i, j)' /\ Waits(d, k, l)' => i = k /\ j = l
      BY SameWaits DEF InHand
    <2> QED
      BY <2>1, <2>2, <2>3 DEF InHand
  <1>7. Accounted' /\ Counted'
    BY <1>3 DEF Accounted, Counted
  <1>8. Deletion'
    BY NothingDeleted DEF Deletion
  <1> QED
    BY <1>2, <1>4, <1>5, <1>6, <1>7, <1>8

LEMMA ActivatedFacts ==
    ASSUME Shape, KidsOK, ReadyIsWhole, NEW o \in DOMAIN objs, ~objs[o].ready,
           Tag(o) = "scene" => SceneUsable(o), objs' = Activated(o),
           NEW y, NEW z, NextTwo(y, z)
    PROVE  \E new \in SUBSET {y, z} :
             /\ objs' \in Seq(Objs) /\ DOMAIN objs' = DOMAIN objs \cup new
             /\ Len(objs') \in Len(objs)..(Len(objs) + 2)
             /\ DOMAIN objs \cap new = {}
             /\ \A x \in DOMAIN objs : /\ Owners(x)' = Owners(x)
                                       /\ objs'[x].ready <=> objs[x].ready \/ x = o
             /\ \A x \in new : objs'[x].ready /\ Owners(x)' = IF x = y THEN {o} ELSE {y}
             /\ KidsOK' /\ ReadyIsWhole'
  <1>1. PICK slot : DefaultSlot(o, slot)
    BY DEF DefaultSlot
  <1>2. PICK new \in SUBSET {y, z} : Activation(o, slot, new, y, z)
    BY <1>1, ActivatedIs
  <1>3. objs[o].class = "scene" => SceneUsable(o)
    BY DEF Tag, ClassTag
  <1>4. /\ DOMAIN objs \cap new = {}
        /\ \A x \in DOMAIN objs : /\ Owners(x)' = Owners(x)
                                  /\ objs'[x].ready <=> objs[x].ready \/ x = o
        /\ \A x \in new : objs'[x].ready /\ Owners(x)' = IF x = y THEN {o} ELSE {y}
        /\ KidsOK' /\ ReadyIsWhole'
    BY <1>1, <1>2, <1>3, ActivationFacts
  <1> QED
    BY <1>2, <1>4 DEF Activation

LEMMA AddsTwo ==
    ASSUME NEW l \in Nat, NEW h \in Nat, NEW d \in Nat, NEW r \in Nat,
           l + 3 * d <= 3 * r + 1, h <= l + 2, d >= 1
    PROVE  h <= 3 * r /\ h + 3 * (d - 1) <= 3 * r
  OBVIOUS

Replaces(t, s, k, v) == t = [s EXCEPT ![k] = v]

LEMMA FrameReplaced ==
    ASSUME NEW s \in Seq(Frames), NEW k \in 1..Len(s), NEW v \in Frames, NEW t,
           Replaces(t, s, k, v)
    PROVE  t \in Seq(Frames) /\ Len(t) = Len(s) /\ DOMAIN t = 1..Len(s) /\ t[k] = v
  BY DEF Replaces

LEMMA ReturnKeeps ==
    ASSUME IInv, stack # <<>>, outcome = "parsing", NEW o, o = Top.result, o # 0, AllAdopted,
           Tag(o) = "scene" => SceneUsable(o), objs' = Activated(o),
           stack' = IF Len(stack) = 1 THEN <<>>
                    ELSE [Below EXCEPT ![Len(Below)].children = Append(@, o)],
           outcome' = IF Len(stack) = 1 THEN "loaded" ELSE outcome,
           pending' = IF Len(stack) = 1 THEN <<o>> ELSE <<>>,
           UNCHANGED <<grammar, nodes, transform, released>>
    PROVE  IInv'
  <1> DEFINE n == Len(stack)
             m == Len(Below)
  <1> USE DEF IInv
  <1>1. /\ n \in Nat \ {0} /\ n \in DOMAIN stack /\ DOMAIN stack = 1..n /\ Top = stack[n]
        /\ m = n - 1 /\ m \in Nat /\ Below \in Seq(Frames)
        /\ \A i \in 1..m : Below[i] = stack[i]
    <2>1. /\ n \in Nat \ {0} /\ n \in DOMAIN stack /\ DOMAIN stack = 1..n /\ Top = stack[n]
          /\ m = n - 1 /\ Below \in Seq(Frames)
          /\ \A i \in 1..(n - 1) : Below[i] = stack[i]
      BY TopFacts
    <2> HIDE DEF n, m
    <2> QED
      BY <2>1
  <1>2. /\ o \in DOMAIN objs /\ ~objs[o].ready /\ Owners(o) = {} /\ Top.el.tag \in ObjectTags
        /\ o \in Nat /\ DOMAIN objs = 1..Len(objs) /\ Len(objs) \in Nat
    <2>1. DOMAIN objs = 1..Len(objs) /\ Len(objs) \in Nat
      BY DEF Shape
    <2> QED
      BY <2>1, UnderWay
  <1>3. PICK y, z : NextTwo(y, z)
    BY DEF NextTwo
  <1>4. PICK new \in SUBSET {y, z} :
          /\ objs' \in Seq(Objs) /\ DOMAIN objs' = DOMAIN objs \cup new
          /\ Len(objs') \in Len(objs)..(Len(objs) + 2)
          /\ DOMAIN objs \cap new = {}
          /\ \A x \in DOMAIN objs : /\ Owners(x)' = Owners(x)
                                    /\ objs'[x].ready <=> objs[x].ready \/ x = o
          /\ \A x \in new : objs'[x].ready /\ Owners(x)' = IF x = y THEN {o} ELSE {y}
          /\ KidsOK' /\ ReadyIsWhole'
    <2> HIDE DEF IInv
    <2>1. Shape /\ KidsOK /\ ReadyIsWhole
      BY DEF IInv
    <2> QED
      BY <1>2, <1>3, <2>1, ActivatedFacts
  <1>6. /\ objs' \in Seq(Objs) /\ DOMAIN objs' = DOMAIN objs \cup new
        /\ Len(objs') \in Len(objs)..(Len(objs) + 2)
    BY <1>4
  <1>8. /\ \A x \in DOMAIN objs : /\ Owners(x)' = Owners(x)
                                  /\ objs'[x].ready <=> objs[x].ready \/ x = o
        /\ \A x \in new : objs'[x].ready /\ Owners(x)' = IF x = y THEN {o} ELSE {y}
        /\ KidsOK' /\ ReadyIsWhole'
    BY <1>4
  <1>9. ASSUME NEW x \in DOMAIN objs', Owners(x)' = {} PROVE x \in DOMAIN objs /\ Owners(x) = {}
    BY <1>6, <1>8, <1>9
  <1>10. nodes \in Nat /\ Len(objs) + 3 * n <= 3 * nodes + 1
    BY DEF Shape, Counted
  <1>11. \A c, j \in Nat : ~Waits(c, n, j)
    <2>1. Top.adopted = Len(Top.children) /\ Top.children \in Seq(Nat)
      <3>1. Top \in Frames
        BY TopFacts
      <3> QED
        BY <3>1 DEF AllAdopted, Frames
    <2> QED
      BY <1>1, <2>1 DEF Waits
  <1>12. CASE n = 1
    <2>1. stack' = <<>> /\ outcome' = "loaded" /\ pending' = <<o>> /\ DOMAIN stack' = {}
      BY <1>12
    <2>2. Shape'
      BY <1>2, <1>6, <2>1 DEF Shape
    <2>3. FramesOK' /\ TransformIsOwn'
      BY <2>1 DEF FramesOK, TransformIsOwn
    <2>4. Nested'
      BY <1>1, <2>1 DEF Nested
    <2>5. InHand'
      BY <2>1 DEF InHand, Waits
    <2>6. Accounted'
      <3>1. ASSUME NEW x \in DOMAIN objs' PROVE Owners(x)' = {} <=> x = o
        <4>1. CASE x = o
          BY <1>2, <1>8, <4>1
        <4>2. ASSUME x # o, Owners(x)' = {} PROVE FALSE
          <5>1. x \in DOMAIN objs /\ Owners(x) = {}
            BY <1>9, <4>2
          <5>2. \A i \in DOMAIN stack : i = n
            BY <1>1, <1>12
          <5>3. \A i \in DOMAIN stack : stack[i].result # x
            BY <1>1, <4>2, <5>2
          <5>4. \A i, j \in Nat : ~Waits(x, i, j)
            BY <1>11, <1>2, <5>1, <5>2 DEF Waits
          <5> QED
            BY <5>1, <5>3, <5>4 DEF Accounted
        <4> QED
          BY <4>1, <4>2
      <3>2. o \in DOMAIN objs'
        BY <1>2, <1>6
      <3> QED
        BY <2>1, <3>1, <3>2 DEF Accounted
    <2>7. Counted'
      BY <1>2, <1>6, <1>10, <1>12, <2>1 DEF Counted
    <2>8. Deletion'
      <3>1. released' = <<>>
        BY DEF Deletion
      <3>2. Ran(<<>>) = {} /\ Ran(<<o>>) = {o} /\ Injective(<<>>) /\ Injective(<<o>>)
        BY DEF Ran, Injective
      <3>3. o \in DOMAIN objs' /\ Owners(o)' = {}
        BY <1>2, <1>6, <1>8
      <3> QED
        BY <2>1, <3>1, <3>2, <3>3 DEF Deletion
    <2> QED
      BY <1>8, <2>2, <2>3, <2>4, <2>5, <2>6, <2>7, <2>8
  <1>13. CASE n # 1
    <2> DEFINE k == Len(stack[m].children) + 1
               kids == Append(stack[m].children, o)
               f == [stack[m] EXCEPT !.children = kids]
    <2>1. m \in 1..m /\ m \in DOMAIN stack /\ Below[m] = stack[m] /\ stack[m] \in Frames
      BY <1>1, <1>13
    <2>2. /\ stack' = [Below EXCEPT ![m] = f] /\ outcome' = outcome /\ pending' = <<>>
      BY <1>1, <1>13, <2>1
    <2>3. /\ kids \in Seq(Nat) /\ k \in Nat /\ Len(kids) = k /\ kids[k] = o
          /\ DOMAIN stack[m].children = 1..(k - 1) /\ DOMAIN kids = 1..k
          /\ Len(stack[m].children) = k - 1
          /\ \A j \in 1..(k - 1) : kids[j] = stack[m].children[j]
      <3>1. stack[m].children \in Seq(Nat)
        BY <2>1 DEF Frames
      <3> QED
        BY <1>2, <3>1
    <2> HIDE DEF kids, k
    <2>4. /\ f \in Frames /\ f.el = stack[m].el /\ f.children = kids /\ f.ops = stack[m].ops
          /\ f.result = stack[m].result /\ f.adopted = stack[m].adopted
      BY <2>1, <2>3 DEF Frames
    <2> HIDE DEF f, n, m
    <2>5. /\ stack' \in Seq(Frames) /\ Len(stack') = m /\ DOMAIN stack' = 1..m
          /\ stack'[m] = f /\ \A i \in 1..m : i # m => stack'[i] = stack[i]
      <3>1. m = Len(Below)
        BY DEF m
      <3>2. stack' \in Seq(Frames) /\ Len(stack') = m /\ DOMAIN stack' = 1..m /\ stack'[m] = f
        <4>1. m \in 1..Len(Below) /\ Below \in Seq(Frames) /\ f \in Frames
          BY <1>1, <2>1, <2>4, <3>1
        <4>2. Replaces(stack', Below, m, f)
          BY <2>2 DEF Replaces
        <4> QED
          BY ONLY <3>1, <4>1, <4>2, FrameReplaced
      <3>3. \A i \in 1..m : i # m => stack'[i] = Below[i]
        BY <1>1, <2>1, <2>2, <3>1
      <3> QED
        BY <1>1, <3>2, <3>3
    <2>6. \A i \in 1..m : /\ stack'[i].el = stack[i].el /\ stack'[i].ops = stack[i].ops
                          /\ stack'[i].result = stack[i].result
                          /\ stack'[i].adopted = stack[i].adopted
                          /\ i \in DOMAIN stack /\ i < n
      BY <1>1, <2>4, <2>5
    <2>7. FrameOK(m) /\ stack[m].result = 0 /\ stack[m].adopted = 0
      <3>1. FrameOK(m)
        BY <2>1 DEF FramesOK
      <3>2. m < Len(stack)
        BY <1>1 DEF n
      <3> QED
        BY <3>1, <3>2 DEF FrameOK
    <2>8. stack[m].el.tag \in ObjectTags
      <3>1. n # 1 /\ n - 1 = m /\ stack[n].el.tag \in ObjectTags
        BY <1>1, <1>2, <1>13
      <3>2. Nests(stack[n].el.tag, stack[m].el.tag)
        BY <1>1, <3>1 DEF Nested
      <3>3. stack[m].el.tag \in ObjectTags \cup PropertyTags \cup OpTags
        BY <2>1 DEF Nested, Nests
      <3> QED
        BY <3>1, <3>2, <3>3, TagSets DEF Nests
    <2>9. Shape'
      BY <1>6, <2>2, <2>5 DEF Shape
    <2>10. FramesOK'
      <3> SUFFICES ASSUME NEW i \in DOMAIN stack' PROVE FrameOK(i)'
        BY DEF FramesOK
      <3>1. i \in 1..m /\ i \in DOMAIN stack /\ i < n /\ Len(stack) = n /\ Len(stack') = m
        BY <2>5, <2>6 DEF n
      <3>2. FrameOK(i) /\ stack[i].result = 0
        BY <3>1 DEF FramesOK, FrameOK
      <3>3. /\ stack'[i].result = 0 /\ stack'[i].adopted = stack[i].adopted
            /\ stack'[i].el = stack[i].el
        BY <2>6, <3>1, <3>2
      <3>4. 0 \in 0..Len(objs')
        BY <1>2, <1>6
      <3>5. CASE i = m
        <4>1. \A j \in DOMAIN stack'[i].children : stack'[i].children[j] \in DOMAIN objs'
          <5>1. stack'[i].children = kids
            BY <2>4, <2>5, <3>5
          <5>2. \A j \in 1..k : j \in 1..(k - 1) \/ j = k
            BY <2>3
          <5>3. \A j \in 1..(k - 1) : stack[m].children[j] \in DOMAIN objs
            BY <2>3, <2>7 DEF FrameOK
          <5> QED
            BY <1>2, <1>6, <2>3, <5>1, <5>2, <5>3
        <4>2. stack'[i].adopted = 0 /\ Len(stack'[i].children) = k
          BY <2>3, <2>4, <2>5, <2>7, <3>3, <3>5
        <4>3. 0 \in 0..k
          BY <2>3
        <4> QED
          BY <2>8, <3>3, <3>4, <3>5, <4>1, <4>2, <4>3 DEF FrameOK
      <3>6. CASE i # m
        <4>1. stack'[i] = stack[i]
          BY <2>5, <3>1, <3>6
        <4> QED
          BY <1>6, <3>2, <3>4, <4>1 DEF FrameOK
      <3> QED
        BY <3>5, <3>6
    <2>11. Nested'
      <3>1. nodes # 0
        BY DEF Nested
      <3>2. \A i \in 1..m : i # 1 => i - 1 \in 1..m
        BY <1>1
      <3>3. ASSUME NEW i \in 1..m
            PROVE  Nests(stack'[i].el.tag, IF i = 1 THEN "none" ELSE stack'[i - 1].el.tag)
        <4>1. Nests(stack[i].el.tag, IF i = 1 THEN "none" ELSE stack[i - 1].el.tag)
          BY <2>6 DEF Nested
        <4>2. stack'[i].el = stack[i].el /\ (i # 1 => stack'[i - 1].el = stack[i - 1].el)
          BY <2>6, <3>2
        <4> QED
          BY <4>1, <4>2
      <3>4. DOMAIN stack' = 1..m /\ nodes' = nodes
        BY <2>5
      <3> QED
        BY <3>1, <3>3, <3>4 DEF Nested
    <2>12. TransformIsOwn'
      <3> SUFFICES ASSUME NEW i \in DOMAIN stack', stack'[i].el.tag = "transform"
                   PROVE  FALSE
        BY DEF TransformIsOwn
      <3>1. i \in DOMAIN stack /\ stack[i].el.tag = "transform" /\ i # Len(stack)
        <4>1. i \in 1..m
          BY <2>5
        <4>2. i < n /\ stack'[i].el = stack[i].el /\ i \in DOMAIN stack
          BY <2>6, <4>1
        <4>3. n = Len(stack) /\ i \in Nat /\ n \in Nat
          BY <1>1, <4>1 DEF n
        <4> QED
          BY <4>2, <4>3
      <3> QED
        BY <1>2, <3>1, TransformLast, TagSets
    <2>13. ASSUME NEW d \in Nat, NEW i \in Nat, NEW j \in Nat
           PROVE  Waits(d, i, j)' <=> Waits(d, i, j) \/ (i = m /\ j = k /\ d = o)
      <3>1. CASE i = m
        <4>1. Waits(d, i, j) <=> j \in 1..(k - 1) /\ 0 < j /\ stack[m].children[j] = d
          BY <2>1, <2>3, <2>7, <3>1 DEF Waits
        <4>2. Waits(d, i, j)' <=> j \in 1..k /\ 0 < j /\ kids[j] = d
          BY <2>1, <2>3, <2>4, <2>5, <2>7, <3>1 DEF Waits
        <4>3. j \in 1..k <=> j \in 1..(k - 1) \/ j = k
          BY <2>3
        <4>4. 0 < k /\ k \notin 1..(k - 1)
          BY <2>3
        <4> QED
          BY <2>3, <3>1, <4>1, <4>2, <4>3, <4>4
      <3>2. CASE i # m
        <4>1. Waits(d, i, j) => i \in 1..m
          <5>1. i = n => ~Waits(d, i, j)
            BY <1>11
          <5>2. i \in 1..n /\ i # n => i \in 1..m
            BY <1>1
          <5> QED
            BY <1>1, <5>1, <5>2 DEF Waits
        <4> QED
          BY <2>5, <2>6, <3>2, <4>1 DEF Waits
      <3> QED
        BY <3>1, <3>2
    <2>14. \A d, i, j \in Nat : Waits(d, i, j) =>
              d \in DOMAIN objs /\ d # o /\ objs[d].ready /\ Owners(d) = {}
      BY <1>2 DEF InHand, Waits, FramesOK, FrameOK
    <2>15. InHand'
      <3>1. \A i \in DOMAIN stack' : stack'[i].result = 0
        BY <2>5, <2>6 DEF FramesOK, FrameOK, n
      <3>2. ASSUME NEW d \in Nat, NEW i \in Nat, NEW j \in Nat, Waits(d, i, j)'
            PROVE  objs'[d].ready /\ Owners(d)' = {}
        <4>1. Waits(d, i, j) \/ d = o
          BY <2>13, <3>2
        <4> QED
          BY <1>2, <1>8, <2>14, <4>1
      <3>3. ASSUME NEW d \in Nat, NEW i \in Nat, NEW j \in Nat, NEW r \in Nat, NEW l \in Nat,
                   Waits(d, i, j)', Waits(d, r, l)'
            PROVE  i = r /\ j = l
        <4>1. Waits(d, i, j) \/ (i = m /\ j = k /\ d = o)
          BY <2>13, <3>3
        <4>2. Waits(d, r, l) \/ (r = m /\ l = k /\ d = o)
          BY <2>13, <3>3
        <4>3. CASE d = o
          BY <2>14, <4>1, <4>2, <4>3
        <4>4. CASE d # o
          BY <4>1, <4>2, <4>4 DEF InHand
        <4> QED
          BY <4>3, <4>4
      <3> QED
        BY <3>1, <3>2, <3>3 DEF InHand
    <2>16. Accounted'
      <3>1. ASSUME NEW x \in DOMAIN objs', Owners(x)' = {}
            PROVE  \E i, j \in Nat : Waits(x, i, j)'
        <4>1. x \in DOMAIN objs /\ Owners(x) = {} /\ x \in Nat
          BY <1>2, <1>9, <3>1
        <4>2. CASE x = o
          BY <1>1, <1>2, <2>3, <2>13, <4>2
        <4>3. CASE \E i, j \in Nat : Waits(x, i, j)
          BY <2>13, <4>1, <4>3
        <4>4. ASSUME NEW i \in DOMAIN stack, stack[i].result = x PROVE x = o
          <5>1. x # 0
            BY <1>2, <4>1
          <5>2. ~(i < Len(stack))
            BY <4>4, <5>1 DEF FramesOK, FrameOK
          <5>3. i = n
            BY <1>1, <5>2 DEF n
          <5> QED
            BY <1>1, <4>4, <5>3
        <4> QED
          BY <4>1, <4>2, <4>3, <4>4 DEF Accounted
      <3> QED
        BY <2>2, <3>1 DEF Accounted
    <2>17. Counted'
      <3>1. Top' = stack'[m] /\ stack' # <<>>
        <4>1. Len(stack') = m /\ m # 0 /\ Len(<<>>) = 0
          BY <1>1, <1>13, <2>5
        <4> QED
          BY <4>1 DEF Top
      <3>2. Top'.result = 0
        BY <2>1, <2>6, <2>7, <3>1
      <3> QED
        <4>1. Len(stack') = m /\ m = n - 1 /\ n \in Nat /\ nodes' = nodes
          BY <1>1, <2>5
        <4>2. Len(objs') \in Nat /\ Len(objs') <= Len(objs) + 2
          BY <1>2, <1>6
        <4>3. Len(objs) + 3 * n <= 3 * nodes + 1 /\ Len(objs) \in Nat /\ nodes \in Nat
          BY <1>2, <1>10 DEF n
        <4>4. n >= 1
          BY <1>1
        <4>5. /\ Len(objs') <= 3 * nodes' /\ Len(objs') + 3 * Len(stack') <= 3 * nodes'
          BY <4>1, <4>2, <4>3, <4>4, AddsTwo
        <4>6. (IF stack' # <<>> /\ Top'.result # 0 THEN 1 ELSE 0) = 0
          BY <3>2
        <4>7. 3 * nodes' + 0 = 3 * nodes'
          BY <4>1, <4>3
        <4> QED
          BY <4>5, <4>6, <4>7 DEF Counted
    <2>18. Deletion'
      BY <2>2, NothingDeleted DEF Deletion
    <2> QED
      BY <1>8, <2>9, <2>10, <2>11, <2>12, <2>15, <2>16, <2>17, <2>18
  <1> QED
    BY <1>12, <1>13

LEMMA ActivateKeeps == IInv /\ Activate => IInv'
  <1> SUFFICES ASSUME IInv, Activate, NEW o, o = Top.result PROVE IInv'
    OBVIOUS
  <1>1. /\ outcome = "parsing" /\ stack # <<>> /\ o # 0 /\ AllAdopted
        /\ UNCHANGED <<grammar, nodes, released>>
    BY DEF Activate, Parsing
  <1>2. \/ /\ Tag(o) = "scene" => SceneUsable(o)
           /\ objs' = Activated(o)
           /\ stack' = IF Len(stack) = 1 THEN <<>>
                       ELSE [Below EXCEPT ![Len(Below)].children = Append(@, o)]
           /\ outcome' = IF Len(stack) = 1 THEN "loaded" ELSE outcome
           /\ pending' = IF Len(stack) = 1 THEN <<o>> ELSE <<>>
           /\ UNCHANGED transform
        \/ /\ objs' = [objs EXCEPT ![o].tree = InSlot(o, "mesh")]
           /\ outcome' = "failed" /\ UNCHANGED <<stack, transform, pending>>
        \/ Fail /\ UNCHANGED pending
    BY DEF Activate, Pop
  <1>3. nodes' \in nodes..MaxNodes
    BY <1>1, MaxNodesAssumption DEF IInv, Shape
  <1> QED
    BY <1>1, <1>2, <1>3, FailKeeps, RefusedKeeps, ReturnKeeps

-----------------------------------------------------------------------------
(* Deletion.                                                               *)

LEMMA ConcatFacts ==
    ASSUME NEW s \in Seq(Nat), NEW t \in Seq(Nat)
    PROVE  /\ s \o t \in Seq(Nat)
           /\ Ran(s \o t) = Ran(s) \cup Ran(t)
           /\ Injective(s) /\ Injective(t) /\ Ran(s) \cap Ran(t) = {} => Injective(s \o t)
  <1> DEFINE m == Len(s)
             n == Len(t)
             u == s \o t
  <1>1. /\ m \in Nat /\ n \in Nat /\ DOMAIN s = 1..m /\ DOMAIN t = 1..n
        /\ u \in Seq(Nat) /\ DOMAIN u = 1..(m + n)
    OBVIOUS
  <1>2. /\ \A i \in 1..m : u[i] = s[i]
        /\ \A i \in 1..n : u[m + i] = t[i]
    OBVIOUS
  <1> HIDE DEF m, n, u
  <1>3. \A i \in 1..(m + n) : i \in 1..m \/ \E j \in 1..n : i = m + j
    <2> SUFFICES ASSUME NEW i \in 1..(m + n), i \notin 1..m PROVE \E j \in 1..n : i = m + j
      OBVIOUS
    <2>1. i - m \in 1..n /\ i = m + (i - m)
      BY <1>1
    <2> QED
      BY <2>1
  <1>4. 1..m \subseteq 1..(m + n) /\ \A j \in 1..n : m + j \in 1..(m + n)
    BY <1>1
  <1>5. Ran(u) = Ran(s) \cup Ran(t)
    <2>1. ASSUME NEW x \in Ran(u) PROVE x \in Ran(s) \cup Ran(t)
      <3>1. PICK i \in 1..(m + n) : x = u[i]
        BY <1>1 DEF Ran
      <3>2. CASE i \in 1..m
        BY <1>1, <1>2, <3>1, <3>2 DEF Ran
      <3>3. CASE \E j \in 1..n : i = m + j
        BY <1>1, <1>2, <3>1, <3>3 DEF Ran
      <3> QED
        BY <1>3, <3>2, <3>3
    <2>2. ASSUME NEW x \in Ran(s) \cup Ran(t) PROVE x \in Ran(u)
      BY <1>1, <1>2, <1>4 DEF Ran
    <2> QED
      BY <2>1, <2>2
  <1>6. ASSUME Injective(s), Injective(t), Ran(s) \cap Ran(t) = {},
               NEW i \in 1..(m + n), NEW j \in 1..(m + n), u[i] = u[j]
        PROVE  i = j
    <2>1. /\ (i \in 1..m /\ u[i] = s[i] /\ u[i] \in Ran(s))
               \/ \E k \in 1..n : i = m + k /\ u[i] = t[k] /\ u[i] \in Ran(t)
          /\ (j \in 1..m /\ u[j] = s[j] /\ u[j] \in Ran(s))
               \/ \E k \in 1..n : j = m + k /\ u[j] = t[k] /\ u[j] \in Ran(t)
      BY <1>1, <1>2, <1>3 DEF Ran
    <2> QED
      BY <1>1, <1>6, <2>1 DEF Injective
  <1> QED
    BY <1>1, <1>5, <1>6 DEF Injective, u

LEMMA TailFacts ==
    ASSUME NEW s \in Seq(Nat), s # <<>>
    PROVE  /\ Head(s) \in Nat /\ Tail(s) \in Seq(Nat)
           /\ Ran(s) = {Head(s)} \cup Ran(Tail(s))
           /\ Injective(s) => Injective(Tail(s)) /\ Head(s) \notin Ran(Tail(s))
  <1> DEFINE n == Len(s)
             t == Tail(s)
  <1>1. /\ n \in Nat \ {0} /\ DOMAIN s = 1..n /\ DOMAIN t = 1..(n - 1)
        /\ t \in Seq(Nat) /\ Head(s) = s[1] /\ s[1] \in Nat
    OBVIOUS
  <1>2. \A i \in 1..(n - 1) : t[i] = s[i + 1]
    OBVIOUS
  <1> HIDE DEF n, t
  <1>3. \A i \in 1..(n - 1) : i + 1 \in 1..n /\ i + 1 # 1
    BY <1>1
  <1>4. 1 \in 1..n /\ \A i \in 1..n : i = 1 \/ (i - 1 \in 1..(n - 1) /\ (i - 1) + 1 = i)
    BY <1>1
  <1>5. Ran(s) = {s[1]} \cup Ran(t)
    <2>1. ASSUME NEW x \in Ran(s) PROVE x = s[1] \/ x \in Ran(t)
      <3>1. PICK i \in 1..n : x = s[i]
        BY <1>1 DEF Ran
      <3>2. i = 1 \/ (i - 1 \in 1..(n - 1) /\ t[i - 1] = x)
        BY <1>2, <1>4, <3>1
      <3> QED
        BY <1>1, <3>1, <3>2 DEF Ran
    <2>2. s[1] \in Ran(s)
      BY <1>1, <1>4 DEF Ran
    <2>3. ASSUME NEW x \in Ran(t) PROVE x \in Ran(s)
      BY <1>1, <1>2, <1>3 DEF Ran
    <2> QED
      BY <2>1, <2>2, <2>3
  <1>6. ASSUME Injective(s) PROVE Injective(t) /\ s[1] \notin Ran(t)
    <2>1. ASSUME NEW i \in 1..(n - 1), NEW j \in 1..(n - 1), t[i] = t[j] PROVE i = j
      <3>1. i + 1 = j + 1
        BY <1>1, <1>2, <1>3, <1>6, <2>1 DEF Injective
      <3> QED
        BY <3>1
    <2>2. \A i \in 1..(n - 1) : t[i] # s[1]
      BY <1>1, <1>2, <1>3, <1>4, <1>6 DEF Injective
    <2> QED
      BY <1>1, <2>1, <2>2 DEF Injective, Ran
  <1> QED
    BY <1>1, <1>5, <1>6 DEF t

LEMMA SetToSeqFacts ==
    ASSUME NEW S, IsFiniteSet(S)
    PROVE  /\ Cardinality(S) \in Nat
           /\ SetToSeq(S) \in [1..Cardinality(S) -> S]
           /\ \A i, j \in 1..Cardinality(S) : SetToSeq(S)[i] = SetToSeq(S)[j] => i = j
  <1>1. Cardinality(S) \in Nat /\ ExistsBijection(1..Cardinality(S), S)
    BY FS_CardinalityType
  <1> DEFINE n == Cardinality(S)
  <1> HIDE DEF n
  <1>2. \E f \in [1..n -> S] : IsInjective(f)
    BY <1>1 DEF ExistsBijection, Bijection, Injection, n
  <1>3. SetToSeq(S) = CHOOSE f \in [1..n -> S] : IsInjective(f)
    BY DEF SetToSeq, n
  <1>4. SetToSeq(S) \in [1..n -> S] /\ IsInjective(SetToSeq(S))
    BY <1>2, <1>3
  <1> QED
    BY <1>1, <1>4 DEF IsInjective, n

\* A destructor deletes members of its object, each once.
LEMMA DestroysFacts ==
    ASSUME Shape, KidsOK, NEW o \in DOMAIN objs
    PROVE  /\ Destroys(o) \in Seq(Nat) /\ Injective(Destroys(o))
           /\ Ran(Destroys(o)) \subseteq KidsIn(o)
  <1> DEFINE kids == objs[o].kids
             S == Doomed(o)
             order == SetToSeq(S)
             n == Cardinality(S)
             d == Destroys(o)
  <1>1. kids \in Seq(Nat) /\ DOMAIN kids = 1..Len(kids) /\ Len(kids) \in Nat
    <2>1. objs[o] \in Objs
      BY DEF Shape
    <2> QED
      BY <2>1 DEF Objs
  <1>2. S \subseteq DOMAIN kids
    BY DEF Doomed
  <1> HIDE DEF kids
  <1>3. IsFiniteSet(S)
    <2> HIDE DEF S
    <2>1. IsFiniteSet(1..Len(kids))
      BY <1>1, FS_Interval
    <2> QED
      BY <1>1, <1>2, <2>1, FS_Subset
  <1>4. n \in Nat /\ order \in [1..n -> S]
        /\ \A i, j \in 1..n : order[i] = order[j] => i = j
    <2> HIDE DEF S
    <2> QED
      BY <1>3, SetToSeqFacts
  <1>5. d = [k \in DOMAIN order |-> kids[order[k]]]
    BY DEF Destroys, kids
  <1> HIDE DEF S, order, n, d
  <1>6. DOMAIN d = 1..n /\ \A k \in 1..n : order[k] \in DOMAIN kids /\ d[k] = kids[order[k]]
    BY <1>2, <1>4, <1>5
  <1>7. d \in Seq(Nat)
    <2>1. \A k \in 1..n : kids[order[k]] \in Nat
      BY <1>1, <1>6
    <2>2. d \in [1..n -> Nat]
      BY <1>4, <1>5, <2>1
    <2> QED
      BY <1>4, <2>2
  <1>8. Injective(d)
    <2>1. Injective(kids)
      BY DEF KidsOK, kids
    <2> QED
      BY <1>4, <1>6, <2>1 DEF Injective
  <1>9. Ran(d) \subseteq KidsIn(o)
    BY <1>6 DEF Ran, KidsIn, kids
  <1> QED
    BY <1>7, <1>8, <1>9 DEF d

LEMMA DeleteKeeps == IInv /\ Delete => IInv'
  <1> SUFFICES ASSUME IInv, Delete, NEW o, o = Head(pending), NEW rest, rest = Tail(pending),
                      NEW gone, gone = Destroys(o)
               PROVE  IInv'
    OBVIOUS
  <1> USE DEF IInv
  <1>1. /\ outcome = "loaded" /\ pending # <<>>
        /\ pending' = gone \o rest /\ released' = Append(released, o)
        /\ outcome' \in {"loaded", "finished"}
        /\ UNCHANGED <<grammar, nodes, stack, objs, transform>>
    BY DEF Delete
  <1>2. pending \in Seq(Nat) /\ released \in Seq(Nat)
    BY DEF Shape
  <1>3. /\ Injective(released) /\ Injective(pending)
        /\ Ran(released) \cap Ran(pending) = {}
        /\ Ran(released) \cup Ran(pending) \subseteq DOMAIN objs
        /\ \A x \in Ran(released) \cup Ran(pending) :
             Owners(x) = {} \/ Owners(x) \cap Ran(released) # {}
    BY DEF Deletion
  <1>4. /\ o \in Nat /\ rest \in Seq(Nat) /\ Ran(pending) = {o} \cup Ran(rest)
        /\ Injective(rest) /\ o \notin Ran(rest)
    BY <1>1, <1>2, <1>3, TailFacts
  <1>5. o \in DOMAIN objs /\ o \in Ran(pending) /\ o \notin Ran(released)
    BY <1>3, <1>4
  <1>6. gone \in Seq(Nat) /\ Injective(gone) /\ Ran(gone) \subseteq KidsIn(o)
    BY <1>5, DestroysFacts
  <1>7. ASSUME NEW c \in KidsIn(o)
        PROVE  Owners(c) = {o} /\ c \in DOMAIN objs /\ c \notin Ran(released) \cup Ran(pending)
    <2>1. o \in Owners(c)
      BY <1>5 DEF Owners
    <2>2. \A p \in Owners(c) : p = o
      BY <1>5 DEF Owners, KidsOK
    <2>3. Owners(c) = {o}
      BY <2>1, <2>2
    <2>4. c \in DOMAIN objs
      BY <1>5 DEF KidsOK
    <2> QED
      BY <1>3, <1>5, <2>3, <2>4
  <1>8. /\ released' \in Seq(Nat) /\ Ran(released') = Ran(released) \cup {o}
        /\ Injective(released')
    <2>1. released' \in Seq(Nat)
      BY <1>1, <1>2, <1>4
    <2> QED
      BY <1>1, <1>2, <1>3, <1>4, <1>5, <2>1, AppendFacts
  <1>9. /\ pending' \in Seq(Nat) /\ Ran(pending') = Ran(gone) \cup Ran(rest)
        /\ Injective(pending')
    <2>1. Ran(gone) \cap Ran(rest) = {}
      BY <1>4, <1>6, <1>7
    <2> QED
      BY <1>1, <1>4, <1>6, <2>1, ConcatFacts
  <1>10. Deletion'
    <2>1. Ran(released') \cap Ran(pending') = {}
      <3>1. o \notin Ran(gone)
        BY <1>5, <1>6, <1>7
      <3>2. Ran(gone) \cap Ran(released) = {}
        BY <1>6, <1>7
      <3>3. Ran(rest) \cap Ran(released) = {}
        BY <1>3, <1>4
      <3> QED
        BY <1>4, <1>8, <1>9, <3>1, <3>2, <3>3
    <2>2. Ran(released') \cup Ran(pending') \subseteq DOMAIN objs'
      BY <1>1, <1>3, <1>4, <1>5, <1>6, <1>7, <1>8, <1>9
    <2>3. ASSUME NEW x \in Ran(released') \cup Ran(pending')
          PROVE  Owners(x)' = {} \/ Owners(x)' \cap Ran(released') # {}
      <3>1. Owners(x)' = Owners(x)
        BY <1>1, SameObjs
      <3>2. CASE x \in Ran(gone)
        <4>1. Owners(x) = {o}
          BY <1>6, <1>7, <3>2
        <4> QED
          BY <1>8, <3>1, <4>1
      <3>3. CASE x \notin Ran(gone)
        <4>1. x \in Ran(released) \cup Ran(pending)
          BY <1>4, <1>5, <1>8, <1>9, <2>3, <3>3
        <4>2. Owners(x) = {} \/ Owners(x) \cap Ran(released) # {}
          BY <1>3, <4>1
        <4> QED
          BY <1>8, <3>1, <4>2
      <3> QED
        BY <3>2, <3>3
    <2> QED
      BY <1>1, <1>8, <1>9, <2>1, <2>2, <2>3 DEF Deletion, Ran, Injective
  <1>11. Shape'
    BY <1>1, <1>8, <1>9 DEF Shape
  <1>12. FramesOK' /\ Nested' /\ TransformIsOwn'
    BY <1>1 DEF FramesOK, FrameOK, Nested, TransformIsOwn
  <1>13. KidsOK' /\ ReadyIsWhole'
    BY <1>1, SameObjs
  <1>14. InHand'
    <2>1. stack' = <<>>
      BY <1>1 DEF Accounted
    <2> QED
      BY <2>1 DEF InHand, Waits
  <1>15. Accounted' /\ Counted'
    <2>1. \A o1 : Owners(o1)' = Owners(o1)
      BY <1>1, SameObjs
    <2> QED
      BY <1>1, <2>1 DEF Accounted, Counted
  <1> QED
    BY <1>10, <1>11, <1>12, <1>13, <1>14, <1>15

-----------------------------------------------------------------------------
(* The invariant, and what follows from it.                                *)

LEMMA InitIInv == Init => IInv
  <1> SUFFICES ASSUME Init PROVE IInv
    OBVIOUS
  <1> USE DEF Init
  <1>1. Shape
    BY MaxNodesAssumption DEF Shape
  <1>2. FramesOK /\ Nested /\ TransformIsOwn /\ InHand
    BY DEF FramesOK, Nested, TransformIsOwn, InHand, Waits
  <1>3. KidsOK /\ ReadyIsWhole
    BY DEF KidsOK, ReadyIsWhole
  <1>4. Accounted /\ Counted
    BY DEF Accounted, Counted
  <1>5. Deletion
    BY DEF Deletion, Ran, Injective
  <1> QED
    BY <1>1, <1>2, <1>3, <1>4, <1>5 DEF IInv

LEMMA NextIInv == IInv /\ [Next]_vars => IInv'
  <1> SUFFICES ASSUME IInv, [Next]_vars PROVE IInv'
    OBVIOUS
  <1>1. ASSUME NEW el \in Elements, Open(el) PROVE IInv'
    BY <1>1, OpenKeeps
  <1>2. CASE CloseOperation
    BY <1>2, CloseOperationKeeps
  <1>3. CASE CloseProperty
    BY <1>3, ClosePropertyKeeps
  <1>4. CASE Instantiate
    BY <1>4, InstantiateKeeps
  <1>5. CASE AdoptNext
    BY <1>5, AdoptNextKeeps
  <1>6. CASE Activate
    BY <1>6, ActivateKeeps
  <1>7. CASE Delete
    BY <1>7, DeleteKeeps
  <1>8. CASE UNCHANGED vars
    <2> USE <1>8 DEF vars, IInv
    <2>1. Shape' /\ FramesOK' /\ Nested' /\ TransformIsOwn'
      BY DEF Shape, FramesOK, FrameOK, Nested, TransformIsOwn
    <2>2. KidsOK' /\ ReadyIsWhole' /\ \A o : Owners(o)' = Owners(o)
      BY SameObjs
    <2>3. InHand'
      BY <2>2, SameWaits DEF InHand
    <2>4. Accounted'
      <3>1. \A o, i, j : Waits(o, i, j)' <=> Waits(o, i, j)
        BY SameWaits
      <3> QED
        BY <2>2, <3>1 DEF Accounted
    <2>5. Counted' /\ Deletion'
      BY <2>2 DEF Counted, Deletion, Top
    <2> QED
      BY <2>1, <2>2, <2>3, <2>4, <2>5
  <1> QED
    BY <1>1, <1>2, <1>3, <1>4, <1>5, <1>6, <1>7, <1>8 DEF Next

\* Every state of loading and of deletion satisfies the invariant above.
THEOREM Invariance == Spec => []IInv
  <1>1. Init => IInv
    BY InitIInv
  <1>2. IInv /\ [Next]_vars => IInv'
    BY NextIInv
  <1> QED
    BY <1>1, <1>2, PTL DEF Spec

\* Whatever parseTag() reads, the frames and the objects point to objects that
\* exist, and no frame adopts more children than it has.
THEOREM TypeCorrect == Spec => []TypeOK
  <1>1. IInv => TypeOK
    <2> SUFFICES ASSUME IInv PROVE TypeOK
      OBVIOUS
    <2>1. ASSUME NEW o \in DOMAIN objs PROVE objs[o].class \in DOMAIN ClassTag
      <3>1. objs[o] \in Objs
        BY DEF IInv, Shape
      <3> QED
        BY <3>1 DEF Objs
    <2> QED
      BY <2>1 DEF IInv, Shape, FramesOK, FrameOK, KidsOK, TypeOK
  <1> QED
    BY <1>1, Invariance, PTL

LEMMA AtMostOne ==
    ASSUME NEW S, \A a, b \in S : a = b
    PROVE  IsFiniteSet(S) /\ Cardinality(S) <= 1 /\ (S # {} => Cardinality(S) = 1)
  <1>1. CASE S = {}
    BY <1>1, FS_EmptySet
  <1>2. CASE S # {}
    <2>1. PICK a : a \in S
      BY <1>2
    <2>2. S = {a}
      BY <2>1
    <2>3. IsFiniteSet({a}) /\ Cardinality({a}) = 1
      BY FS_Singleton
    <2> QED
      BY <2>2, <2>3
  <1> QED
    BY <1>1, <1>2

\* An object whose activate() has returned has every member rendering reads,
\* each of them activated; a scene has its tree over all its meshes and its
\* list of the meshes that emit.
THEOREM ReadyObjectsAreComplete == Spec => []ReadyIsComplete
  <1>1. IInv => ReadyIsComplete
    <2> SUFFICES ASSUME IInv, NEW o \in DOMAIN objs, objs[o].ready PROVE Complete(o)
      BY DEF ReadyIsComplete
    <2> DEFINE class == objs[o].class
    <2>1. class \in DOMAIN ClassTag
      <3>1. objs[o] \in Objs
        BY DEF IInv, Shape
      <3> QED
        BY <3>1 DEF Objs
    <2>2. Whole(o)
      BY DEF IInv, ReadyIsWhole
    <2>3. \A c \in KidsIn(o) : objs[c].ready
      BY DEF IInv, KidsOK
    <2>4. \A slot \in Members[class] : IsList(class, slot) \/ \A c, d \in InSlot(o, slot) : c = d
      BY DEF IInv, KidsOK
    <2> HIDE DEF class
    <2>5. \A slot \in Members[class] : IsList(class, slot) \/ Cardinality(InSlot(o, slot)) <= 1
      BY <2>4, AtMostOne
    <2>6. ASSUME NEW slot \in Members[class], ~IsList(class, slot), InSlot(o, slot) # {}
          PROVE  Cardinality(InSlot(o, slot)) = 1
      BY <2>4, <2>6, AtMostOne
    <2>7. ASSUME class \in DOMAIN DefaultFor
          PROVE  Cardinality(InSlot(o, DefaultFor[class].slot)) = 1
      BY <2>1, <2>2, <2>6, <2>7, SlotTables DEF Whole, class
    <2>8. ASSUME class = "scene"
          PROVE  /\ Cardinality(InSlot(o, "camera")) = 1 /\ Cardinality(InSlot(o, "integrator")) = 1
                 /\ objs[o].tree = InSlot(o, "mesh")
                 /\ objs[o].lights = {m \in InSlot(o, "mesh") : IsEmitter(m)}
      <3>1. /\ InSlot(o, "camera") # {} /\ InSlot(o, "integrator") # {}
            /\ objs[o].tree = InSlot(o, "mesh")
            /\ objs[o].lights = {m \in InSlot(o, "mesh") : IsEmitter(m)}
        BY <2>2, <2>8 DEF Whole, class
      <3>2. /\ "camera" \in Members[class] /\ "integrator" \in Members[class]
            /\ ~IsList(class, "camera") /\ ~IsList(class, "integrator")
        BY <2>8, SceneTables
      <3> QED
        BY <2>6, <3>1, <3>2
    <2> QED
      BY <2>3, <2>5, <2>7, <2>8 DEF Complete, class
  <1> QED
    BY <1>1, Invariance, PTL

\* However the elements are nested, no object has two owners, and in a scene
\* that is loaded the root is the only one without.
THEOREM EachObjectHasItsPlace == Spec => []NothingDropped
  <1>1. IInv => NothingDropped
    <2> SUFFICES ASSUME IInv PROVE NothingDropped
      OBVIOUS
    <2>1. ASSUME NEW o \in DOMAIN objs PROVE Cardinality(Owners(o)) <= 1
      <3>1. \A p, q \in Owners(o) : p = q
        BY DEF IInv, KidsOK, Owners
      <3> QED
        BY <3>1, AtMostOne
    <2>2. ASSUME outcome = "loaded"
          PROVE  Cardinality({o \in DOMAIN objs : Owners(o) = {}}) = 1
      <3>1. PICK root \in DOMAIN objs : \A o \in DOMAIN objs : Owners(o) = {} <=> o = root
        BY <2>2 DEF IInv, Accounted
      <3>2. {o \in DOMAIN objs : Owners(o) = {}} = {root}
        BY <3>1
      <3> QED
        BY <3>2, FS_Singleton
    <2> QED
      BY <2>1, <2>2 DEF NothingDropped
  <1> QED
    BY <1>1, Invariance, PTL

\* The destructors that run when main() deletes the root delete no object twice.
THEOREM DeletedOnce == Spec => []ReleasedOnce
  <1>1. IInv => ReleasedOnce
    <2> SUFFICES ASSUME IInv PROVE ReleasedOnce
      OBVIOUS
    <2>1. pending \in Seq(Nat) /\ released \in Seq(Nat)
      BY DEF IInv, Shape
    <2>2. Injective(released) /\ Injective(pending) /\ Ran(released) \cap Ran(pending) = {}
      BY DEF IInv, Deletion
    <2>3. Injective(released \o pending)
      BY <2>1, <2>2, ConcatFacts
    <2> QED
      BY <2>3 DEF ReleasedOnce, Injective
  <1> QED
    BY <1>1, Invariance, PTL

\* The product in the variable all <transform> elements share is, while one is
\* open, that of its own operations.
THEOREM TransformsDoNotMix == Spec => []TransformIsOwn
  <1>1. IInv => TransformIsOwn
    BY DEF IInv
  <1> QED
    BY <1>1, Invariance, PTL

-----------------------------------------------------------------------------
(* Loading is one of the histories ObjectTree allows.                      *)

StateOf(o) == IF o \notin DOMAIN objs THEN "none" ELSE IF objs[o].ready THEN "ready" ELSE "new"

ParentOf(o) == IF o \in DOMAIN objs /\ Owners(o) # {} THEN CHOOSE p \in Owners(o) : TRUE ELSE 0

States  == [o \in Identities |-> StateOf(o)]
Parents == [o \in Identities |-> ParentOf(o)]

\* The actions of ObjectTree, in terms of the objects.
LEMMA TreeActions ==
    /\ Tree!Init <=> States = [o \in Identities |-> "none"] /\ Parents = [o \in Identities |-> 0]
    /\ Tree!treeVars = <<States, Parents>>
    /\ \A o : Tree!Create(o) <=> /\ States[o] = "none"
                                 /\ States' = [States EXCEPT ![o] = "new"] /\ Parents' = Parents
    /\ \A p, c : Tree!Adopt(p, c) <=>
         /\ States[p] = "new" /\ States[c] = "ready" /\ Parents[c] = 0
         /\ Parents' = [Parents EXCEPT ![c] = p] /\ States' = States
    /\ \A o : Tree!Activate(o) <=>
         /\ States[o] = "new" /\ States'[o] = "ready" /\ Parents'[o] = Parents[o]
         /\ States' \in [Identities -> {"none", "new", "ready"}]
         /\ Parents' \in [Identities -> Identities \cup {0}]
         /\ \A x \in Identities \ {o} :
              \/ States'[x] = States[x] /\ Parents'[x] = Parents[x]
              \/ /\ States[x] = "none" /\ States'[x] = "ready"
                 /\ Parents'[x] # 0
                 /\ \/ Parents'[x] = o
                    \/ States[Parents'[x]] = "none" /\ States'[Parents'[x]] = "ready"
  BY DEF States, Parents, StateOf, ParentOf, Tree!Init, Tree!treeVars, Tree!Create, Tree!Adopt,
         Tree!Activate

LEMMA AtEach ==
    /\ \A o \in Identities : States[o] = StateOf(o) /\ States'[o] = StateOf(o)'
    /\ \A o \in Identities : Parents[o] = ParentOf(o) /\ Parents'[o] = ParentOf(o)'
    /\ (\A o \in Identities : StateOf(o)' = StateOf(o)) => States' = States
    /\ (\A o \in Identities : ParentOf(o)' = ParentOf(o)) => Parents' = Parents
  <1>1. \A o \in Identities : States[o] = StateOf(o) /\ States'[o] = StateOf(o)'
    BY DEF States
  <1>2. \A o \in Identities : Parents[o] = ParentOf(o) /\ Parents'[o] = ParentOf(o)'
    BY DEF Parents
  <1>3. ASSUME \A o \in Identities : StateOf(o)' = StateOf(o) PROVE States' = States
    BY <1>3 DEF States
  <1>4. ASSUME \A o \in Identities : ParentOf(o)' = ParentOf(o) PROVE Parents' = Parents
    BY <1>4 DEF Parents
  <1> QED
    BY <1>1, <1>2, <1>3, <1>4

\* What an object is and whose it is depend on these alone.
LEMMA SameState ==
    ASSUME NEW o, o \in DOMAIN objs' <=> o \in DOMAIN objs,
           o \in DOMAIN objs => (objs'[o].ready <=> objs[o].ready)
    PROVE  StateOf(o)' = StateOf(o)
  BY DEF StateOf

LEMMA SameParent ==
    ASSUME NEW o, o \in DOMAIN objs' <=> o \in DOMAIN objs,
           o \in DOMAIN objs => Owners(o)' = Owners(o)
    PROVE  ParentOf(o)' = ParentOf(o)
  <1>1. CASE o \in DOMAIN objs
    <2>1. Owners(o)' = Owners(o) /\ o \in DOMAIN objs'
      BY <1>1
    <2> QED
      BY <1>1, <2>1 DEF ParentOf
  <1>2. CASE o \notin DOMAIN objs
    BY <1>2 DEF ParentOf
  <1> QED
    BY <1>1, <1>2

\* The objects are numbered from 1, and there are numbers enough.
LEMMA Numbered == IInv => DOMAIN objs \subseteq Identities
  <1> SUFFICES ASSUME IInv PROVE DOMAIN objs \subseteq Identities
    OBVIOUS
  <1>1. DOMAIN objs = 1..Len(objs) /\ Len(objs) \in Nat /\ Len(objs) <= 3 * nodes
    BY DEF IInv, Shape, Counted
  <1>2. nodes \in Nat /\ nodes <= MaxNodes /\ MaxNodes \in Nat
    BY MaxNodesAssumption DEF IInv, Shape
  <1>3. Len(objs) <= 3 * MaxNodes
    BY <1>1, <1>2
  <1> QED
    BY <1>1, <1>2, <1>3 DEF Identities

\* An owner is an object.
LEMMA ParentIs ==
    /\ \A o : o \notin DOMAIN objs \/ Owners(o) = {} => ParentOf(o) = 0
    /\ \A o \in DOMAIN objs : \A p : Owners(o) = {p} => ParentOf(o) = p
    /\ \A o : ParentOf(o) \in DOMAIN objs \cup {0}
  BY DEF ParentOf, Owners

LEMMA TreeStutters ==
    ASSUME DOMAIN objs' = DOMAIN objs,
           \A o \in DOMAIN objs : Owners(o)' = Owners(o) /\ (objs'[o].ready <=> objs[o].ready)
    PROVE  UNCHANGED Tree!treeVars
  <1>1. ASSUME NEW o PROVE StateOf(o)' = StateOf(o)
    BY SameState
  <1>2. ASSUME NEW o PROVE ParentOf(o)' = ParentOf(o)
    BY SameParent
  <1>3. States' = States /\ Parents' = Parents
    BY <1>1, <1>2, AtEach
  <1> QED
    BY <1>3 DEF States, Parents, StateOf, ParentOf, Tree!treeVars

LEMMA CreatesOne ==
    ASSUME IInv, IInv', NEW x, x = Len(objs) + 1, DOMAIN objs' = DOMAIN objs \cup {x},
           objs'[x].ready = FALSE, Owners(x)' = {},
           \A o \in DOMAIN objs : Owners(o)' = Owners(o) /\ objs'[o] = objs[o]
    PROVE  x \in Identities /\ Tree!Create(x)
  <1>1. DOMAIN objs = 1..Len(objs) /\ Len(objs) \in Nat
    BY DEF IInv, Shape
  <1>2. x \notin DOMAIN objs /\ x \in DOMAIN objs'
    BY <1>1
  <1>3. (DOMAIN objs \subseteq Identities)'
    BY Numbered, PTL
  <1>4. x \in Identities
    BY <1>2, <1>3 DEF Identities
  <1>5. StateOf(x) = "none" /\ StateOf(x)' = "new"
    BY <1>2 DEF StateOf
  <1>6. ParentOf(x) = 0 /\ ParentOf(x)' = 0
    BY <1>2 DEF ParentOf
  <1>7. ASSUME NEW o, o # x PROVE StateOf(o)' = StateOf(o)
    BY <1>7, SameState
  <1>8. ASSUME NEW o, o # x PROVE ParentOf(o)' = ParentOf(o)
    BY <1>8, SameParent
  <1>9. Parents' = Parents
    BY <1>6, <1>8, AtEach
  <1>10. States' = [States EXCEPT ![x] = "new"]
    BY <1>4, <1>5, <1>7 DEF States
  <1>11. States[x] = "none"
    BY <1>4, <1>5, AtEach
  <1> QED
    BY ONLY <1>4, <1>9, <1>10, <1>11, TreeActions

LEMMA InstantiateCreates ==
    ASSUME IInv, IInv', Instantiate
    PROVE  UNCHANGED Tree!treeVars \/ \E o \in Identities : Tree!Create(o)
  <1> SUFFICES ASSUME NEW x \in Nat, x = Len(objs) + 1
               PROVE  UNCHANGED Tree!treeVars \/ \E o \in Identities : Tree!Create(o)
    BY DEF IInv, Shape
  <1> DEFINE class == Top.el.type
             new == Construct(class, Top.props)
  <1>1. objs' = objs \/ (class \in DOMAIN ClassTag /\ objs' = Append(objs, new))
    BY DEF Instantiate, Fail
  <1>2. CASE objs' = objs
    BY <1>2, SameObjs, TreeStutters
  <1>3. CASE class \in DOMAIN ClassTag /\ objs' = Append(objs, new)
    <2>1. Top.props \in PropertyLists
      <3>1. Top \in Frames
        BY TopFacts DEF IInv, Instantiate, InBody, Parsing
      <3> QED
        BY <3>1 DEF Frames
    <2>2. /\ new \in Objs /\ new.kids = <<>> /\ new.ready = FALSE
          /\ new.tree = {} /\ new.lights = {}
      <3> HIDE DEF class
      <3> QED
        BY <1>3, <2>1, ConstructIn
    <2> HIDE DEF new
    <2>3. /\ DOMAIN objs' = DOMAIN objs \cup {x} /\ objs'[x] = new
          /\ \A o \in DOMAIN objs : objs'[o] = objs[o]
          /\ \A o \in DOMAIN objs : Owners(o)' = Owners(o)
          /\ Owners(x)' = {}
      <3>1. Shape /\ KidsOK /\ ReadyIsWhole
        BY DEF IInv
      <3> QED
        BY ONLY <1>3, <2>2, <3>1, x = Len(objs) + 1, x \in Nat, NewObjectFacts
    <2>4. objs'[x].ready = FALSE
      BY <2>2, <2>3
    <2> QED
      BY <2>3, <2>4, CreatesOne
  <1> QED
    BY <1>1, <1>2, <1>3

LEMMA AdoptNextAdopts ==
    ASSUME IInv, IInv', AdoptNext
    PROVE  UNCHANGED Tree!treeVars \/ \E p, c \in Identities : Tree!Adopt(p, c)
  <1> SUFFICES ASSUME NEW p, p = Top.result, NEW c, c = Top.children[Top.adopted + 1]
               PROVE  UNCHANGED Tree!treeVars \/ \E q, d \in Identities : Tree!Adopt(q, d)
    OBVIOUS
  <1>1. stack # <<>> /\ Top.result # 0 /\ Top.adopted < Len(Top.children)
    BY DEF AdoptNext, Parsing
  <1>2. p \in DOMAIN objs /\ ~objs[p].ready
    BY <1>1, UnderWay
  <1>3. c \in DOMAIN objs /\ objs[c].ready /\ Owners(c) = {}
    BY <1>1, NextChildFacts
  <1>4. CASE objs' = objs
    BY <1>4, SameObjs, TreeStutters
  <1>5. CASE Accepts(p, c) /\ objs' = AddChild(p, c)
    <2>1. /\ DOMAIN objs' = DOMAIN objs
          /\ \A o \in DOMAIN objs : objs'[o].ready = objs[o].ready
          /\ Owners(c)' = {p}
          /\ \A o \in DOMAIN objs : o # c => Owners(o)' = Owners(o)
      <3>1. Shape /\ KidsOK /\ ReadyIsWhole
        BY DEF IInv
      <3> QED
        BY ONLY <1>2, <1>3, <1>5, <3>1, AddChildFacts
    <2>2. p \in Identities /\ c \in Identities
      BY <1>2, <1>3, Numbered
    <2>3. ASSUME NEW o PROVE StateOf(o)' = StateOf(o)
      BY <2>1, SameState
    <2>4. ParentOf(c) = 0 /\ ParentOf(c)' = p
      <3>1. ParentOf(c) = 0
        BY <1>3, ParentIs
      <3>2. c \in DOMAIN objs' /\ Owners(c)' = {p}
        BY <1>3, <2>1
      <3> QED
        BY <3>1, <3>2 DEF ParentOf
    <2>5. ASSUME NEW o, o # c PROVE ParentOf(o)' = ParentOf(o)
      BY <2>1, <2>5, SameParent
    <2>6. StateOf(p) = "new" /\ StateOf(c) = "ready"
      BY <1>2, <1>3 DEF StateOf
    <2>7. Parents' = [Parents EXCEPT ![c] = p]
      BY <2>2, <2>4, <2>5 DEF Parents
    <2>8. States' = States
      BY <2>3, AtEach
    <2>9. States[p] = "new" /\ States[c] = "ready" /\ Parents[c] = 0
      BY <2>2, <2>4, <2>6, AtEach
    <2>10. Tree!Adopt(p, c)
      BY ONLY <2>7, <2>8, <2>9, TreeActions
    <2> QED
      BY <2>2, <2>10
  <1> QED
    BY <1>4, <1>5 DEF AdoptNext, Fail

LEMMA ActivateActivates ==
    ASSUME IInv, IInv', Activate
    PROVE  UNCHANGED Tree!treeVars \/ \E o \in Identities : Tree!Activate(o)
  <1> SUFFICES ASSUME NEW o, o = Top.result
               PROVE  UNCHANGED Tree!treeVars \/ \E x \in Identities : Tree!Activate(x)
    OBVIOUS
  <1>1. o \in DOMAIN objs /\ ~objs[o].ready /\ Owners(o) = {}
    BY UnderWay DEF Activate, Parsing
  <1>2. Shape /\ KidsOK /\ ReadyIsWhole
    BY DEF IInv
  <1>3. \/ (Tag(o) = "scene" => SceneUsable(o)) /\ objs' = Activated(o)
        \/ objs' = [objs EXCEPT ![o].tree = InSlot(o, "mesh")]
        \/ objs' = objs
    BY DEF Activate, Fail
  <1>4. CASE objs' = objs
    BY <1>4, SameObjs, TreeStutters
  <1>5. CASE objs' = [objs EXCEPT ![o].tree = InSlot(o, "mesh")]
    <2>1. /\ DOMAIN objs' = DOMAIN objs /\ \A x \in DOMAIN objs : objs'[x].ready = objs[x].ready
          /\ \A x : Owners(x)' = Owners(x)
      BY ONLY <1>1, <1>2, <1>5, TreeFacts
    <2> QED
      BY <2>1, TreeStutters
  <1>6. CASE (Tag(o) = "scene" => SceneUsable(o)) /\ objs' = Activated(o)
    <2>1. PICK y, z : NextTwo(y, z)
      BY DEF NextTwo
    <2>2. PICK new \in SUBSET {y, z} :
            /\ objs' \in Seq(Objs) /\ DOMAIN objs' = DOMAIN objs \cup new
            /\ Len(objs') \in Len(objs)..(Len(objs) + 2)
            /\ DOMAIN objs \cap new = {}
            /\ \A x \in DOMAIN objs : /\ Owners(x)' = Owners(x)
                                      /\ objs'[x].ready <=> objs[x].ready \/ x = o
            /\ \A x \in new : objs'[x].ready /\ Owners(x)' = IF x = y THEN {o} ELSE {y}
            /\ KidsOK' /\ ReadyIsWhole'
      BY ONLY <1>1, <1>2, <1>6, <2>1, ActivatedFacts
    <2>3. (DOMAIN objs \subseteq Identities)'
      BY Numbered, PTL
    <2>4. y # z /\ y \notin DOMAIN objs /\ o # 0 /\ y # 0 /\ z # 0 /\ o \in Identities
      <3>1. DOMAIN objs = 1..Len(objs) /\ Len(objs) \in Nat
        BY DEF IInv, Shape
      <3> QED
        BY <1>1, <2>1, <3>1, Numbered DEF NextTwo
    <2>5. ASSUME NEW x \in new PROVE x = y \/ (x = z /\ y \in new)
      <3>1. x = y \/ x = z
        BY <2>2
      <3>2. CASE x # y
        <4>1. Owners(x)' = {y}
          BY <2>2, <3>2
        <4>2. y \in DOMAIN objs'
          BY <4>1 DEF Owners
        <4>3. y \in new
          BY <2>2, <2>4, <4>2
        <4> QED
          BY <3>1, <3>2, <4>3
      <3> QED
        BY <3>2
    <2>6. o \in DOMAIN objs' /\ new \subseteq DOMAIN objs' /\ new \subseteq Identities /\ o \notin new
      BY <1>1, <2>2, <2>3
    <2>7. StateOf(o) = "new" /\ StateOf(o)' = "ready" /\ ParentOf(o) = 0 /\ ParentOf(o)' = 0
      <3>1. objs'[o].ready /\ Owners(o)' = {}
        BY <1>1, <2>2
      <3>2. StateOf(o) = "new" /\ StateOf(o)' = "ready"
        BY <1>1, <2>6, <3>1 DEF StateOf
      <3>3. ParentOf(o) = 0 /\ ParentOf(o)' = 0
        BY <1>1, <2>6, <3>1 DEF ParentOf
      <3> QED
        BY <3>2, <3>3
    <2>8. ASSUME NEW x, x # o, x \notin new
          PROVE  StateOf(x)' = StateOf(x) /\ ParentOf(x)' = ParentOf(x)
      <3>1. x \in DOMAIN objs' <=> x \in DOMAIN objs
        BY <2>2, <2>8
      <3>2. x \in DOMAIN objs => /\ Owners(x)' = Owners(x)
                                 /\ objs'[x].ready <=> objs[x].ready
        BY <2>2, <2>8
      <3>3. StateOf(x)' = StateOf(x)
        BY ONLY <3>1, <3>2, SameState
      <3>4. ParentOf(x)' = ParentOf(x)
        BY ONLY <3>1, <3>2, SameParent
      <3> QED
        BY <3>3, <3>4
    <2>9. ASSUME NEW x \in new
          PROVE  /\ StateOf(x) = "none" /\ StateOf(x)' = "ready"
                 /\ ParentOf(x)' = IF x = y THEN o ELSE y
      <3>1. x \notin DOMAIN objs /\ x \in DOMAIN objs'
        BY <2>2, <2>6
      <3>2. objs'[x].ready /\ Owners(x)' = IF x = y THEN {o} ELSE {y}
        BY <2>2
      <3>3. StateOf(x) = "none" /\ StateOf(x)' = "ready"
        BY <3>1, <3>2 DEF StateOf
      <3>4. ParentOf(x)' = IF x = y THEN o ELSE y
        BY <3>1, <3>2 DEF ParentOf
      <3> QED
        BY <3>3, <3>4
    <2>10. \A x \in Identities : ParentOf(x)' \in Identities \cup {0}
      <3>1. \A x : ParentOf(x)' \in DOMAIN objs' \cup {0}
        BY DEF ParentOf, Owners
      <3> QED
        BY <2>3, <3>1 DEF Identities
    <2>11. /\ States' \in [Identities -> {"none", "new", "ready"}]
           /\ Parents' \in [Identities -> Identities \cup {0}]
      <3>1. States' \in [Identities -> {"none", "new", "ready"}]
        BY DEF States, StateOf
      <3>2. Parents' \in [Identities -> Identities \cup {0}]
        BY <2>10 DEF Parents
      <3> QED
        BY <3>1, <3>2
    <2>12. ASSUME NEW x \in Identities \ {o}
           PROVE  \/ States'[x] = States[x] /\ Parents'[x] = Parents[x]
                  \/ /\ States[x] = "none" /\ States'[x] = "ready"
                     /\ Parents'[x] # 0
                     /\ \/ Parents'[x] = o
                        \/ States[Parents'[x]] = "none" /\ States'[Parents'[x]] = "ready"
      <3>1. /\ States[x] = StateOf(x) /\ States'[x] = StateOf(x)'
            /\ Parents[x] = ParentOf(x) /\ Parents'[x] = ParentOf(x)'
        BY AtEach
      <3>2. CASE x \notin new
        BY <2>8, <3>1, <3>2
      <3>3. CASE x \in new /\ x = y
        <4>1. StateOf(x) = "none" /\ StateOf(x)' = "ready" /\ ParentOf(x)' = o
          BY <2>9, <3>3
        <4> QED
          BY <2>4, <3>1, <4>1
      <3>4. CASE x \in new /\ x # y
        <4>1. StateOf(x) = "none" /\ StateOf(x)' = "ready" /\ ParentOf(x)' = y
          BY <2>9, <3>4
        <4>2. y \in new
          BY <2>5, <3>4
        <4>3. StateOf(y) = "none" /\ StateOf(y)' = "ready"
          BY <2>9, <4>2
        <4>4. States[y] = "none" /\ States'[y] = "ready"
          BY <2>6, <4>2, <4>3, AtEach
        <4> QED
          BY ONLY <2>4, <3>1, <4>1, <4>4
      <3> QED
        BY <3>2, <3>3, <3>4
    <2>13. States[o] = "new" /\ States'[o] = "ready" /\ Parents'[o] = Parents[o]
      BY <2>4, <2>7, AtEach
    <2>14. Tree!Activate(o)
      BY ONLY <2>11, <2>12, <2>13, TreeActions
    <2> QED
      BY <2>4, <2>14
  <1> QED
    BY <1>3, <1>4, <1>5, <1>6

LEMMA InitRefines == Init => Tree!Init
  <1> SUFFICES ASSUME Init PROVE Tree!Init
    OBVIOUS
  <1>1. DOMAIN objs = {}
    BY DEF Init
  <1>2. States = [o \in Identities |-> "none"]
    BY <1>1 DEF States, StateOf
  <1>3. Parents = [o \in Identities |-> 0]
    BY <1>1 DEF Parents, ParentOf
  <1> QED
    BY <1>2, <1>3, TreeActions

LEMMA NextRefines == IInv /\ IInv' /\ [Next]_vars => [Tree!Next]_(Tree!treeVars)
  <1> SUFFICES ASSUME IInv, IInv', [Next]_vars PROVE Tree!Next \/ UNCHANGED Tree!treeVars
    OBVIOUS
  <1>1. CASE objs' = objs
    BY <1>1, SameObjs, TreeStutters
  <1>2. CASE Instantiate
    BY <1>2, InstantiateCreates DEF Tree!Next
  <1>3. CASE AdoptNext
    BY <1>3, AdoptNextAdopts DEF Tree!Next
  <1>4. CASE Activate
    BY <1>4, ActivateActivates DEF Tree!Next
  <1>5. ASSUME NEW el \in Elements, Open(el) PROVE objs' = objs
    BY <1>5 DEF Open, Fail
  <1>6. CloseOperation \/ CloseProperty \/ Delete \/ UNCHANGED vars => objs' = objs
    BY DEF CloseOperation, CloseProperty, Delete, Fail, vars
  <1> QED
    BY <1>1, <1>2, <1>3, <1>4, <1>5, <1>6 DEF Next

\* Whatever the file, the steps of the parser make the object tree in the way
\* object.h describes: a child is complete and nobody's when its parent takes
\* it, no object is adopted by two, and none takes a child once it is activated.
THEOREM Refinement == Spec => ImplementsObjectTree
  BY InitRefines, NextRefines, Invariance, PTL DEF Spec, ImplementsObjectTree, Tree!Spec
=============================================================================

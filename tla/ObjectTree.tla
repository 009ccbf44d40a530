------------------------------ MODULE ObjectTree ------------------------------
(***************************************************************************)
(* What NoriObject promises of the objects of a scene description, whatever *)
(* the file says (object.h 47-75): objects come into being one at a time,   *)
(* a child is complete when it is handed to its parent and belongs to one   *)
(* parent only, and activate() is called once, after the last child.        *)
(***************************************************************************)
CONSTANTS Objects,    \* identities an object may have
          NoObject    \* none of them: the parent of an object that has no parent

VARIABLES state,      \* "none" before the object exists, "new", "ready"
          parent      \* the object it was added to

treeVars == <<state, parent>>

Init ==
  /\ state = [o \in Objects |-> "none"]
  /\ parent = [o \in Objects |-> NoObject]

Create(o) ==
  /\ state[o] = "none"
  /\ state' = [state EXCEPT ![o] = "new"]
  /\ UNCHANGED parent

\* addChild() and setParent(): only before the parent is activated.
Adopt(p, c) ==
  /\ state[p] = "new" /\ state[c] = "ready"
  /\ parent[c] = NoObject
  /\ parent' = [parent EXCEPT ![c] = p]
  /\ UNCHANGED state

\* activate() completes o, and may make default objects below it.
Activate(o) ==
  /\ state[o] = "new" /\ state'[o] = "ready" /\ parent'[o] = parent[o]
  /\ state' \in [Objects -> {"none", "new", "ready"}]
  /\ parent' \in [Objects -> Objects \cup {NoObject}]
  /\ \A x \in Objects \ {o} :
       \/ state'[x] = state[x] /\ parent'[x] = parent[x]
       \/ /\ state[x] = "none" /\ state'[x] = "ready"
          /\ parent'[x] # NoObject
          /\ parent'[x] = o \/ (state[parent'[x]] = "none" /\ state'[parent'[x]] = "ready")

Next ==
  \/ \E o \in Objects : Create(o) \/ Activate(o)
  \/ \E p, c \in Objects : Adopt(p, c)

Spec == Init /\ [][Next]_treeVars
===============================================================================

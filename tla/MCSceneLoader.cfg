SPECIFICATION Spec
CONSTANTS
  Grammars <- Both
  MaxNodes = 8
  Files = {"mesh"}
INVARIANTS TypeOK ReadyIsComplete NothingDropped ReleasedOnce TransformIsOwn
PROPERTIES ImplementsObjectTree
CHECK_DEADLOCK FALSE

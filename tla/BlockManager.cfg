SPECIFICATION Spec
CONSTANTS
  ArenaSize = 9
  Word = 2
  Sizes = {1, 2, 3, 4, 10}
INVARIANTS
  TypeOK
  ObjectsDoNotOverlap
  LinksOutsideObjects
  NoNeedlessRefusal
PROPERTY ImplementsPool

SPECIFICATION Spec
CONSTANTS
  Nowhere = Nowhere
  Threshold = 5
  MaxImmediates = 3
  SelectSlots = 2
  U32 = 64
  PageLines = 7
  AlignLines = 2
  MaxTargets = 2
  MaxPages = 4
  MaxFragments = 5
  MaxNesting = 3
INVARIANTS
  TypeOK
  PagesAccounted
  OnePlace
  RoomKept
  JumpsLand
  FallsThrough
  CompilationReturnsPages
CHECK_DEADLOCK FALSE

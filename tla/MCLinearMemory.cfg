SPECIFICATION Spec
CONSTANTS
  a1 = a1
  a2 = a2
  Null = Null
  Addr <- MCAddr
  PageSize = 2
  LinearMemoryLimit = 3
  Header = 1
  DeclaredMinima <- AllMinima
  DeclaredMaxima <- AllMaxima
  PresizePages <- Presize
  Deltas <- AllDeltas
INVARIANTS
  TypeOK
  MemoryBacked
  ViewsBacked
  CommitTracksReservation
  BufferIsCurrent
  NothingLeaks
PROPERTIES
  BlockStays
  ImplementsWasmMemory
CHECK_DEADLOCK FALSE

SPECIFICATION Spec
CONSTANTS
  a1 = a1
  a2 = a2
  Null = Null
  None = None
  Trapped = Trapped
  Missing = Missing
  Addr <- MCAddr
  StackSlots = 6
  Slack = 2
  MaxSlots = 3
  LiveSlots = 1
  ArgSlots = 2
  MaxCallDepth = 2
  MaxCalls = 5
INVARIANTS
  TypeOK
  MemoryPointerFresh
  CallDepthExact
  StackBaseRestored
  FramesIntact
  ExceptionPendingOnlyInFlight
PROPERTIES
  ImplementsJsCalls
CHECK_DEADLOCK FALSE

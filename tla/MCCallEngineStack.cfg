SPECIFICATION Spec
CONSTANTS
  a1 = a1
  a2 = a2
  Null = Null
  None = None
  Trapped = Trapped
  Missing = Missing
  Addr <- MCAddr
  StackSlots = 6
  Slack = 1
  MaxSlots = 2
  LiveSlots = 2
  ArgSlots = 1
  MaxCallDepth = 4
  MaxCalls = 5
INVARIANTS
  StackChecked
CHECK_DEADLOCK FALSE

SPECIFICATION Spec
CONSTANTS
  Functions <- WideFunctions
  Reserved <- MCReserved
  Code <- MCCode
  MaxFunctionSlots = 16
  MaxConstantTableSize = 4
  MaxHeight <- MCHeight
  MaxDepth <- MCDepth
  MaxFrame = 14
INVARIANTS
  SlotsCounted
CHECK_DEADLOCK FALSE

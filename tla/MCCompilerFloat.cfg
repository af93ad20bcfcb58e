SPECIFICATION Spec
CONSTANTS
  Functions <- FloatFunctions
  Reserved <- MCReserved
  Code <- MCCode
  MaxFunctionSlots = 16
  MaxConstantTableSize = 4
  MaxHeight <- MCHeight
  MaxDepth <- MCDepth
  MaxFrame = 14
INVARIANTS
  ValuesInPlace
CHECK_DEADLOCK FALSE

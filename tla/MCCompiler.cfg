SPECIFICATION Spec
CONSTANTS
  Functions <- MCFunctions
  Reserved <- MCReserved
  Code <- MCCode
  MaxFunctionSlots = 16
  MaxConstantTableSize = 4
  MaxHeight <- MCHeight
  MaxDepth <- MCDepth
  MaxFrame = 14
INVARIANTS
  TypeOK
  ValuesInPlace
  LoopsReenter
  ResultsReturned
  SlotsCounted
  RegistersAgree
  AcceptsPrograms
  WritesInFrame
CHECK_DEADLOCK FALSE

SPECIFICATION Spec
CONSTANTS
  ByteBits = 1
  GroupBits = 3
  SingleBits = 3
  DoubleBits = 6
  SlotValues <- MCSlotValues
  FloatValues <- MCFloatValues
  Offsets <- MCOffsets
  StartMemory <- MCStartMemory
  MaxCode = 3
INVARIANTS
  OperationsAsSpecified
  ReadersAgree
CHECK_DEADLOCK FALSE

CONSTANTS
  MaxSlots = 2
  Descriptors <- MCTooManyFingers
INIT Init
NEXT Next
CHECK_DEADLOCK FALSE
INVARIANT NContsWithinTable

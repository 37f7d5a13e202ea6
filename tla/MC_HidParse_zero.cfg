CONSTANTS
  MaxSlots = 2
  Descriptors <- MCZeroSizeX
INIT Init
NEXT Next
CHECK_DEADLOCK FALSE
INVARIANT AcceptedProfileUsable

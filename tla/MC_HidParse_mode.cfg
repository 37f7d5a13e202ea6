CONSTANTS
  MaxSlots = 2
  Descriptors <- MCModeOutsideConfig
INIT Init
NEXT Next
CHECK_DEADLOCK FALSE
INVARIANT InputModeInConfig

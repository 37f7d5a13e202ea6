CONSTANTS
  MaxSlots = 2
  Descriptors <- MCDescriptors
INIT Init
NEXT Next
CHECK_DEADLOCK FALSE
INVARIANTS
  AcceptedProfileUsable
  AxesFromFirstContact

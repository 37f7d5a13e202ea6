CONSTANTS
  MaxSlots = 2
  Descriptors <- MCReportIdZero
INIT Init
NEXT Next
CHECK_DEADLOCK FALSE
INVARIANT FieldsCoResident

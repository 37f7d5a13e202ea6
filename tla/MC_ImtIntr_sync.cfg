CONSTANTS
  MaxSlots = 2
  NContsPerReport = 2
  SlotMax = 1
  Caps <- MCCaps
  Locs <- MCLocs
  ReportId = 1
  ReportIds = {1, 2}
  MaxCount = 3
  ContactIds = {0, 1, 2}
  TipValues = {0, 1}
  ConfValues = {0, 1}
  RangValues = {0}
INIT Init
NEXT Next
INVARIANT SyncOnlyEndsFrame

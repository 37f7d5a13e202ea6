CONSTANTS
  MaxSlots = 2
  NContsPerReport = 2
  SlotMax = 1
  Caps <- MCCapsRange
  Locs <- MCLocs
  ReportId = 1
  ReportIds = {1, 2}
  MaxCount = 3
  ContactIds = {0, 1, 2}
  TipValues = {0, 1}
  ConfValues = {0, 1}
  RangValues = {1}
INIT Init
NEXT Next
PROPERTY InRangeAlternates

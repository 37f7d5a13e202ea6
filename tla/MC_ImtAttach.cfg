CONSTANTS
  MaxSlots = 2
  BSize = 4
  Types = {0, 4, 5}
  RLens = {0, 3, 5}
  ModeRLens <- MCModeRLens
  Rids = {1, 2}
  FeatureValues = {0, 1, 2, 3}
INIT Init
NEXT Next
\* The life cycle ends: probe rejects, attach fails, or detach returns.
CHECK_DEADLOCK FALSE
INVARIANTS
  TypeOK
  DeliveryOnlyToLiveDevice
  FailureReleases
  SlotRangeFits
  FetchesWithinBsize

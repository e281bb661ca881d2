SPECIFICATION Spec
CONSTANTS
  Address = address
  Url = {atlasnet}
  NoData = NoData
  Limit = 2
  Request = {r1, r2}
  MaxTip = 4
  MaxSwitches = 0
  MaxRequests = 4
INVARIANTS
  FullHistoryIsFull
CHECK_DEADLOCK FALSE

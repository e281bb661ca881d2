SPECIFICATION HistoriesSpec
CONSTANTS
  Address = address
  Url = {atlasnet, universe}
  NoData = NoData
  Limit = 2
  Request = {r1, r2}
  MaxTip = 4
  MaxSwitches = 1
  MaxRequests = 3
  Token = {"gold", "fuel"}
  MintOf <- MCMintOf
  ALL_TOKENS = "ALL"
  OwnedTokens <- MCOwnedTokens
  tokenUrl = "url"
  Ledgers <- MCLedgers
  Filters = {"ALL", "mg"}
  TokenLimit = 1
  MaxLedger = 3
  MaxCalls = 4
  MaxFailures = 1
  MaxPresses = 2
INVARIANTS
  RowsAreContiguous
  MergedTableIsTrue
  EarliestIsThere
PROPERTIES
  ImplementsUrlCache
  HistoriesSettle
CHECK_DEADLOCK FALSE

SPECIFICATION AddressesSpec
CONSTANTS
  Pubkey = {shown, other}
  Shown = shown
  Url = {atlasnet, universe}
  Mainnet = {universe}
  NoData = NoData
  Mode = {"parsed", "skip"}
  BatchSize = 1
  Call = {c1, c2}
  MaxReconnects = 1
  MaxRequests = 1
  Ledgers <- MCLedgers
  Opened <- MCOpened
  MaxActs = 1
  MaxFailures = 1
INVARIANTS
  EntriesAnsweredByCacheUrl
  FetchingIsInFlight
PROPERTIES
  AddressIsTold
  AddressSettles
  ImplementsUrlCache
CHECK_DEADLOCK FALSE

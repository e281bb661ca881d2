SPECIFICATION ServicesSpec
CONSTANTS
  Url = {"u1", "u2", "u3"}
  ClusterOf <- MCClusterOf
  None = None
  MaxSwitches = 1
  MaxToggles = 1
  MaxRetries = 1
  NoData = NoData
  Cluster = {"MainnetBeta", "Custom"}
  Address = "address"
  Accounts <- MCAccounts
  Legacy <- MCLegacy
  Sdk <- MCSdk
  JsonAnswers = {NoData, "own name"}
  Request = {1, 2}
  MaxActs = 3
  Text <- MCText
  reading <- MCReading
  Known <- MCKnown
  epochOf <- MCEpochOf
  tokensOf <- MCTokensOf
  domainOf <- MCDomainOf
  Call = {1, 2}
  MaxInputs = 3
INVARIANTS StatsAreOfUrl ErrorStopsPolling TokenIsTold SearchIsTold
PROPERTIES ServicesSettle
CHECK_DEADLOCK FALSE

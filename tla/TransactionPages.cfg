SPECIFICATION PagesSpec
CONSTANTS
  Signature = signature
  Url = {"atlasnet", "universe"}
  Home = "atlasnet"
  NoData = NoData
  Bailout = 2
  StatusCall = {s1, s2}
  DetailsCall = {d1, d2}
  MaxReconnects = 1
  Malformed = Malformed
  Invalid = Invalid
  Text <- MCText
  messageOf <- MCMessageOf
  inputOf <- MCInputOf
  base64 <- MCBase64
  Signatures = {"s1", "s2"}
  Account = {"account"}
  Cluster = {"atlasnet", "universe"}
  Links <- MCLinks
  Messages <- MCMessages
  Simulations <- MCSimulations
  TableEntries <- MCTableEntries
  Sent <- MCSent
  MaxActs = 4
  MaxFetches = 3
  Slot = {s1, s2}
  MaxSwitches = 2
  MaxChanges = 2
INVARIANTS
  LoadingIsInFlight
  IntervalMatchesPage
  InspectedIsOfUrl
  EnteredIsShown
  MessageIsTold
PROPERTIES
  PagesRest
CHECK_DEADLOCK FALSE

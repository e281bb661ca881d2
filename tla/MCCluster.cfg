SPECIFICATION FairSpec
CONSTANTS
  NamedCluster = {atlasnet, universe}
  Custom = custom
  CustomUrl = {local, malformed}
  ValidUrl = {local}
  DefaultCluster = atlasnet
  DefaultCustomUrl = local
  None = None
  Attempt = {a1, a2, a3}
  MaxNavigations = 3
INVARIANTS
  ShowsRequestedCluster
  ConnectingIsInFlight
PROPERTIES
  EventuallySettles
  ImplementsConnection
CHECK_DEADLOCK FALSE

SPECIFICATION Spec
CONSTANTS
  Url = {atlasnet, universe}
  Fetch = {f1, f2}
  None = None
  MaxReconnects = 2
  MaxClicks = 0
INVARIANTS
  ShownIsOfConnectedCluster
CHECK_DEADLOCK FALSE

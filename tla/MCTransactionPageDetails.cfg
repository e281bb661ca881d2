SPECIFICATION FairSpec
CONSTANTS
  Signature = signature
  Url = {atlasnet, universe}
  Home = atlasnet
  NoData = NoData
  Bailout = 2
  StatusCall = {s1, s2}
  DetailsCall = {d1, d2}
  MaxReconnects = 1
PROPERTIES
  AvailableDetailsAreShown

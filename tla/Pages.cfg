SPECIFICATION PagesSpec
CONSTANTS
  Url = {"u1", "u2"}
  Fetch = {f1, f2}
  None = None
  MaxReconnects = 2
  MaxClicks = 2
  Schedule <- MCSchedule
  Chains <- MCChains
  TableEntries <- MCTableEntries
  Blocks <- MCBlocks
  VOTE_PROGRAM = "vote"
  MINIMUM_SLOT_PER_EPOCH = 2
  Window = 3
  LeaderSlots = 2
  Request = {1, 2}
  Epochs = {0, 2}
  Slots = {5, 12}
  MaxSlot = 12
  MaxGrowth = 1
  MaxActs = 2
  PAGE_SIZE = 2
  MaxBlockClicks = 3
INVARIANTS
  LoadingIsInFlight
  NotConnectedIsTrue
  ChainIsTold
PROPERTIES
  PagesSettle
CHECK_DEADLOCK FALSE

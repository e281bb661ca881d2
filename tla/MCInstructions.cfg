SPECIFICATION MCSpec
CONSTANTS
  sage = sage
  token = token
  loader = loader
  ed25519 = ed25519
  Sage = {sage}
  Other = {token}
  Native = {loader}
  Precompile = {ed25519}
  NoData = NoData
  Bytes <- MCBytes
  Slot = 7
  Limit = {12, 100}
  MaxInstructions = 2
  MaxHeight = 2
  MaxSaid = 3
  COMBAT_DAMAGE_TYPES <- MCTypes
  Damages <- MCDamages
  Blocks = {0, 1}
  Hp = {2}
  SpQ6 = {0, 3}
  Q6_SCALE = 2
  Account = {a, b}
  Mint = {m, n}
  MaxBalance = 2
  MaxOps = 2
  Url = {"atlasnet", "universe"}
  CargoId = {"1", "2", "3"}
  Pending = Pending
  MaxRuns = 2
  ByteValues = 4
  MaxCount = 2
  MaxRemaining = 1
INVARIANTS
  RowsAreOfInstruction
  TelemetryIsExact
  PairedWithOwnEvent
  ReplayTellsTheShots
  SageInstructionIsTold
  CardsTellInstructions
PROPERTIES
  CardSettles
CHECK_DEADLOCK FALSE

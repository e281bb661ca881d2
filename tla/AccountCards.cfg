SPECIFICATION CardsSpec
CONSTANTS
  Address = "a1"
  Url = {"u1", "u2"}
  NoData = NoData
  PageSize = 2
  LowestAvailable <- MCLowestAvailable
  Request = {1, 2}
  MaxEpoch = 4
  MaxNewEpochs = 1
  MaxSwitches = 2
  MaxRequests = 3
  Stakes = {3, 10}
  Others <- MCOthers
  RateNum = 9
  RateDen = 20
  Reserve = 1
  MaxStakeEpoch = 5
  Mainnet = {"u1"}
  Programs <- MCPrograms
  TRUSTED_SIGNERS <- MCTrustedSigners
  Answers <- MCAnswers
  VerifierIdl = {"u1", "u2"}
  squadOf <- MCSquadOf
  isValidLink <- MCIsValidLink
  MaxActs = 2
INVARIANTS RangeIsComplete StakeIsTold ProgramIsTold
PROPERTIES CardsSettle
CHECK_DEADLOCK FALSE

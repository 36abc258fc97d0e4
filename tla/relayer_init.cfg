CONSTANTS
  NBits <- MCNBits
  Difficulty <- MCDifficulty
  RescaledNBits <- MCRescaledNBits
  Headers <- RegtestHeaders
  Hash <- RegtestHash
  Checkpoints <- None
  Batches <- None
  TARGET_TIMESPAN = 1
  DIFF_ADJUSTMENT_INTERVAL = 100
  MAX_FUTURE_BLOCKTIME = 10
  PREV_TIMESTAMPS = 2
  BITCOIN_TESTNET = FALSE
  PRUNING_FACTOR = 3
  Signers = {}
  MaxForks = 0
  InitialTime = 10
  MaxTime = 10
  NoCommitment = NoCommitment
  NoMainState = NoMainState
  NoFork = NoFork
  Base <- RegtestBase
  BaseHeight = 4
  BaseTimestamps <- OlderTimestamps
  NoSubmission = NoSubmission
SPECIFICATION RelayerSpec
PROPERTIES
  StaysUpToDate

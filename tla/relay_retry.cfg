CONSTANTS
  NBits <- MCNBits
  Difficulty <- MCDifficulty
  RescaledNBits <- MCRescaledNBits
  Headers <- MCHeaders
  Hash <- MCHash
  Checkpoints <- MCCheckpoints
  Batches <- SingleHeaders
  TARGET_TIMESPAN = 1
  DIFF_ADJUSTMENT_INTERVAL = 100
  MAX_FUTURE_BLOCKTIME = 10
  PREV_TIMESTAMPS = 2
  BITCOIN_TESTNET = FALSE
  PRUNING_FACTOR = 3
  Signers = {}
  MaxForks = 0
  InitialTime = 10
  MaxTime = 10
  NoCommitment = NoCommitment
  NoMainState = NoMainState
  NoFork = NoFork
  TxIds <- MCTxIds
  Receivers <- MCReceivers
  Included <- MCIncluded
  Outputs <- MCOutputs
  Chunks <- NoChunks
  TxBytes <- MCTxBytes
  TxSizes = {}
  Confirmations = {1}
  Claims <- NoClaims
  Deposits = {20}
  NoAccount = NoAccount
  Base <- MCBase
  BaseHeight = 4
  BaseTimestamps <- OlderTimestamps
  Requests = {1, 2}
  Asked <- MCAsked
  Idle = Idle
SPECIFICATION TxRelayerSpec
INVARIANTS
  MintedOnce

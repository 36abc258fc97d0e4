CONSTANTS
  NBits <- MCNBits
  Difficulty <- MCDifficulty
  RescaledNBits <- MCRescaledNBits
  Headers <- MCHeaders
  Hash <- MCHash
  Checkpoints <- MCCheckpoints
  Batches <- MCBatches
  TARGET_TIMESPAN = 1
  DIFF_ADJUSTMENT_INTERVAL = 100
  MAX_FUTURE_BLOCKTIME = 10
  PREV_TIMESTAMPS = 1
  BITCOIN_TESTNET = FALSE
  PRUNING_FACTOR = 3
  Signers = {}
  MaxForks = 0
  InitialTime = 5
  MaxTime = 5
  NoCommitment = NoCommitment
  NoMainState = NoMainState
  NoFork = NoFork
  TxIds <- MCTxIds
  Receivers <- MCReceivers
  Included <- MCIncluded
  Outputs <- MCOutputs
  Chunks <- MCChunks
  TxBytes <- MCTxBytes
  TxSizes = {1, 3}
  Confirmations = {2}
  Claims <- MCClaims
  Deposits = {60}
  NoAccount = NoAccount
SPECIFICATION BridgeSpec
CHECK_DEADLOCK FALSE
INVARIANTS
  BridgeInvariant
PROPERTIES
  MintsAreBuried
  LamportsAreConserved
  FateIsFinal

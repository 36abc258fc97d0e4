CONSTANTS
  NBits <- MCNBits
  Difficulty <- MCDifficulty
  RescaledNBits <- RescaledByPace
  Headers <- RulesHeaders
  Hash <- RulesHash
  Checkpoints <- RulesCheckpoints
  Batches <- BatchesOf3
  TARGET_TIMESPAN = 4
  DIFF_ADJUSTMENT_INTERVAL = 2
  MAX_FUTURE_BLOCKTIME = 4
  PREV_TIMESTAMPS = 2
  BITCOIN_TESTNET = FALSE
  PRUNING_FACTOR = 3
  Signers = {alice}
  MaxForks = 0
  InitialTime = 10
  MaxTime = 14
  NoCommitment = NoCommitment
  NoMainState = NoMainState
  NoFork = NoFork
SPECIFICATION Spec
CHECK_DEADLOCK FALSE
INVARIANTS
  CarriedHistoryIsTrue
  TargetsFollowRetargeting
  BlocksAreTimely
  TypeOK
  WindowIsOneChain
  RingHoldsTurn
  TipIsStored
PROPERTIES
  ReorgNeedsMoreWork
  ImplementsBoundedChain

CONSTANTS
  NBits <- MCNBits
  Difficulty <- MCDifficulty
  RescaledNBits <- MCRescaledNBits
  Headers <- ForkHeaders
  Hash <- ForkHash
  Checkpoints <- CheckpointsAt2And4
  Batches <- BatchesOf2
  TARGET_TIMESPAN = 1
  DIFF_ADJUSTMENT_INTERVAL = 100
  MAX_FUTURE_BLOCKTIME = 10
  PREV_TIMESTAMPS = 1
  BITCOIN_TESTNET = FALSE
  PRUNING_FACTOR = 4
  Signers = {alice, bob}
  MaxForks = 2
  InitialTime = 5
  MaxTime = 5
  NoCommitment = NoCommitment
  NoMainState = NoMainState
  NoFork = NoFork
SPECIFICATION Spec
CHECK_DEADLOCK FALSE
INVARIANTS
  TipIsOneHeader
  WindowIsFull
  RingHoldsTurn
  TipIsStored
  NothingHeavierThanTip
  ForkBuffersAreChains
  ForkIdsAreUnique
PROPERTIES
  PanicsFromStartOrNever
  ReorgNeedsMoreWork
  AdoptedForkIsLinked

CONSTANTS
  sha256d <- Pair
  MaxTransactions = 7
  MaxIndex = 9
  BASE = 4
  SIZE = 6
  MAX_DIFFICULTY <- Difficulty1
  UNROUNDED_MAX_TARGET <- HighestTarget
  TARGET_TIMESPAN = 4
  InitialWorks = {3850}
  Timespans = {1, 3, 4, 6, 7, 16}
  MaxWork = 4350
  LowestTarget = 16
SPECIFICATION AlgorithmsSpec
CHECK_DEADLOCK FALSE
INVARIANTS
  RootIsBitcoins
  IncludedTxVerifies
  ProofBindsTransaction
  WorkIsSumOfQuotients
  RetargetIsProportional
  CompactFormIsUnique
  ComparisonsAreNumeric

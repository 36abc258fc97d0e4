--------------------------- MODULE ConsensusRules ---------------------------
(***************************************************************************)
(* What Bitcoin's rules say of a block, from the tree of all headers. The  *)
(* program never sees that tree: it judges a header by the fields carried  *)
(* along in the committed header of its parent (accumulated work, height,  *)
(* ten timestamps, start of the difficulty period). The properties compare *)
(* the two, for every commitment the program holds.                        *)
(***************************************************************************)
EXTENDS BtcRelay

TheCheckpoint == CHOOSE c \in Checkpoints : TRUE

\* The headers from the checkpoint's, excluded, to h, by following the links.
Parent(h) == CHOOSE g \in Headers : g.hash = h.reversed_prev_blockhash

Ancestor(h, k) ==
  LET ancestors[i \in 0..k] == IF i = 0 THEN h ELSE Parent(ancestors[i - 1])
  IN  ancestors[k]

\* The header at a height of the chain that ends in c; the checkpoint is its
\* lowest block.
HeaderAt(c, height) == Ancestor(c.header, c.blockheight - height)

\* The work of the blocks up to a height, summed up from the checkpoint.
WorkUpTo(c, height) ==
  LET work[h \in TheCheckpoint.blockheight..height] ==
        IF h = TheCheckpoint.blockheight THEN TheCheckpoint.chain_work
        ELSE work[h - 1] + Difficulty[HeaderAt(c, h).nbits]
  IN  work[height]

\* Heights below the checkpoint are known by the timestamps it was given.
TimestampAt(c, height) ==
  LET below == TheCheckpoint.blockheight - height
  IN  IF below > 0
      THEN TheCheckpoint.prev_block_timestamps[PREV_TIMESTAMPS + 1 - below]
      ELSE HeaderAt(c, height).timestamp

\* The height at which the difficulty period of a height begins.
PeriodStart(height) == height - (height % DIFF_ADJUSTMENT_INTERVAL)

\* The timestamp of that block, for the chain that ends in c.
PeriodStartTime(c, height) ==
  IF PeriodStart(height) <= TheCheckpoint.blockheight
  THEN TheCheckpoint.last_diff_adjustment
  ELSE TimestampAt(c, PeriodStart(height))

\* The middle one of an odd number of timestamps, given by height.
MedianTimestamp(c, heights) ==
  CHOOSE t \in {TimestampAt(c, h) : h \in heights} :
    /\ 2 * Cardinality({h \in heights : TimestampAt(c, h) < t}) < Cardinality(heights)
    /\ 2 * Cardinality({h \in heights : TimestampAt(c, h) > t}) < Cardinality(heights)

HeldCommitments ==
  IF ~Initialized THEN {}
  ELSE ({main_state.block_commitments[s] : s \in Slots} \ {NoCommitment})
         \cup UNION {{forks[f].block_commitments[i] :
                        i \in DOMAIN forks[f].block_commitments} : f \in LiveForks}

-----------------------------------------------------------------------------

\* Everything carried along in a commitment is what its chain says: the chain
\* leads to the checkpoint, the work is that of its blocks, and so are the
\* timestamps of the preceding blocks in their order and the timestamp of the
\* first block of the difficulty period.
HistoryIsTrue(c) ==
  /\ c.blockheight >= TheCheckpoint.blockheight
  /\ HeaderAt(c, TheCheckpoint.blockheight) = TheCheckpoint.header
  /\ c.chain_work = WorkUpTo(c, c.blockheight)
  /\ \A i \in 1..PREV_TIMESTAMPS :
       c.prev_block_timestamps[i]
         = TimestampAt(c, c.blockheight - (PREV_TIMESTAMPS + 1 - i))
  /\ c.last_diff_adjustment = PeriodStartTime(c, c.blockheight)

\* This is so for everything the program holds, on every branch.
CarriedHistoryIsTrue == \A c \in HeldCommitments : HistoryIsTrue(c)

\* The block has the target its period calls for: the parent's, or at a period's
\* first block the parent's rescaled by the time from the first to the last block
\* of the period before.
FollowsRetargeting(c) ==
  LET h == c.blockheight
      parent == HeaderAt(c, h - 1)
      elapsed == parent.timestamp - PeriodStartTime(c, h - 1)
  IN  c.header.nbits =
        IF PeriodStart(h) = h
        THEN RescaledNBits[parent.nbits, ClampedTimespan(elapsed)]
        ELSE parent.nbits

\* Every block above the checkpoint does.
TargetsFollowRetargeting ==
  \A c \in HeldCommitments \ Checkpoints : FollowsRetargeting(c)

\* The block is younger than the median of the preceding ones.
IsAboveMedian(c) ==
  c.header.timestamp >
    MedianTimestamp(c, (c.blockheight - PREV_TIMESTAMPS - 1)..(c.blockheight - 1))

\* Every block above the checkpoint meets its target, is younger than the
\* median of the preceding blocks, and was not from too far in the future.
BlocksAreTimely ==
  \A c \in HeldCommitments \ Checkpoints :
    /\ c.header.meets_target
    /\ c.header.timestamp < now + MAX_FUTURE_BLOCKTIME
    /\ IsAboveMedian(c)

=============================================================================

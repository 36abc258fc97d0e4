----------------------------- MODULE BitcoinNode -----------------------------
(***************************************************************************)
(* bitcoind as the two relayers see it over RPC (external), and the        *)
(* committed header that both make up from its answers.                    *)
(***************************************************************************)
EXTENDS BtcRelay

CONSTANTS
  Base,             \* the lowest header of the tree that bitcoind can adopt
  BaseHeight,       \* its height
  BaseTimestamps    \* the timestamps of the blocks below it, oldest first

ASSUME NodeAssumption ==
  /\ Base \in Headers
  /\ BaseHeight \in Nat /\ BaseHeight >= PREV_TIMESTAMPS
  /\ BaseTimestamps \in [1..PREV_TIMESTAMPS -> Nat]

VARIABLES
  best,     \* the tip of its active chain
  blocks    \* the blocks it has

node_vars == <<best, blocks>>

NodeInit == best = Base /\ blocks = {Base}

\* Every header descends from Base, at its depth.
DepthsAre(depth) ==
  /\ depth \in [Headers -> Nat]
  /\ depth[Base] = 0
  /\ \A g, h \in Headers :
       h.reversed_prev_blockhash = g.hash => depth[h] = depth[g] + 1
  /\ \A h \in Headers \ {Base} :
       \E g \in Headers : g.hash = h.reversed_prev_blockhash

HeadersAreTree == \E depth : DepthsAre(depth)

Parent(h) == CHOOSE g \in Headers : g.hash = h.reversed_prev_blockhash

Height[h \in Headers] == IF h = Base THEN BaseHeight ELSE Height[Parent(h)] + 1

\* The chain that ends in h, from the base on.
ChainOf(h) ==
  LET down[k \in BaseHeight..Height[h]] ==
        IF k = Height[h] THEN h ELSE Parent(down[k + 1])
  IN  down

\* getblockhash, getblock: the timestamp of the active chain's block at k.
TimestampAt(tip, k) ==
  IF k < BaseHeight THEN BaseTimestamps[PREV_TIMESTAMPS + 1 + k - BaseHeight]
  ELSE ChainOf(tip)[k].timestamp

\* The timestamps below a height, as they would be read without interruption.
TimestampsBelow(tip, height) ==
  [i \in 1..PREV_TIMESTAMPS |-> TimestampAt(tip, height - (PREV_TIMESTAMPS + 1 - i))]

\* A longer chain of blocks of equal work: an extension or a reorganisation.
AdoptChain(h) ==
  /\ Height[h] > Height[best]
  /\ best' = h
  /\ blocks' = blocks \cup {ChainOf(h)[k] : k \in BaseHeight..Height[h]}

-----------------------------------------------------------------------------

\* Turn i of the loop that reads the timestamps below a height, from the highest
\* down; prev_block_timestamps are those read so far, oldest first. No answer
\* if the active chain has become too short.
CanReadTimestamp(height, i) == height - i - 1 <= Height[best]

WithTimestamp(prev_block_timestamps, height, i) ==
  <<TimestampAt(best, height - i - 1)>> \o prev_block_timestamps

reconstruct_commited_header(hash, height, last_diff_adjustment, timestamps) ==
  [chain_work |-> 0,
   header |-> CHOOSE h \in Headers : h.hash = hash,
   last_diff_adjustment |-> last_diff_adjustment,
   blockheight |-> height,
   prev_block_timestamps |-> timestamps]

=============================================================================

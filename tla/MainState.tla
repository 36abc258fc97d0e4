------------------------------ MODULE MainState ------------------------------
(***************************************************************************)
(* The relay's main state account (programs/btc-relay/src/state.rs): the   *)
(* tip, the counters and the ring buffer of the last PRUNING_FACTOR block  *)
(* commitments, as operators on the account's value.                       *)
(***************************************************************************)
EXTENDS BlockHeaders

CONSTANTS
  PRUNING_FACTOR,   \* 250: slots of the ring buffer and of a fork's buffer
  NoCommitment      \* the empty commitment [0; 32]

ASSUME RingAssumption ==
  /\ PRUNING_FACTOR \in Nat \ {0}
  /\ NoCommitment \notin CommittedBlockHeader

Slots == 0..(PRUNING_FACTOR - 1)

Commitment == CommittedBlockHeader \cup {NoCommitment}

MainState ==
  [start_height : Nat, last_diff_adjustment : Nat, block_height : Nat,
   total_blocks : Nat, fork_counter : Nat,
   tip_commit_hash : CommittedBlockHeader, tip_block_hash : Hash,
   chain_work : Nat, block_commitments : [Slots -> Commitment]]

-----------------------------------------------------------------------------

\* Faulty variant: the height one turn above the start has no slot.
position_without_wrap(m, block_height) ==
  IF m.start_height <= block_height
  THEN IF block_height - m.start_height > PRUNING_FACTOR THEN 0
       ELSE block_height - m.start_height
  ELSE IF m.start_height - block_height >= PRUNING_FACTOR THEN PRUNING_FACTOR
       ELSE PRUNING_FACTOR - (m.start_height - block_height)

\* The slot of a height; PRUNING_FACTOR when the height is too far below the
\* ring's start. A height a whole turn or more above the start wraps to 0.
get_position(m, block_height) ==
  IF m.start_height <= block_height
  THEN IF block_height - m.start_height >= PRUNING_FACTOR THEN 0
       ELSE block_height - m.start_height
  ELSE IF m.start_height - block_height >= PRUNING_FACTOR THEN PRUNING_FACTOR
       ELSE PRUNING_FACTOR - (m.start_height - block_height)

\* `self.block_height - PRUNING_FACTOR_U32` underflows u32: the build checks
\* overflow, so the transaction that calls get_commitment aborts.
LookupPanics(m, block_height) ==
  block_height <= m.block_height /\ m.block_height < PRUNING_FACTOR

get_commitment(m, block_height) ==
  IF \/ block_height > m.block_height
     \/ block_height <= m.block_height - PRUNING_FACTOR
     \/ get_position(m, block_height) = PRUNING_FACTOR
  THEN NoCommitment
  ELSE m.block_commitments[get_position(m, block_height)]

\* Faulty variant: a wrap of the ring does not move its start.
store_without_start(m, block_height, c) ==
  LET position == get_position(m, block_height)
  IN  IF position = PRUNING_FACTOR THEN m
      ELSE [m EXCEPT !.block_commitments[position] = c,
                     !.total_blocks = @ + 1]

\* All callers ignore the result, which is FALSE exactly when m is returned
\* unchanged.
store_block_commitment(m, block_height, c) ==
  LET position == get_position(m, block_height)
  IN  IF position = PRUNING_FACTOR THEN m
      ELSE [m EXCEPT !.block_commitments[position] = c,
                     !.start_height = IF position = 0 THEN block_height ELSE @,
                     !.total_blocks = @ + 1]

\* The loops that store commits[1], ..., commits[n] at the n heights above
\* `height`, in that order: entry i is the main state after i stores.
StoredAbove(m, height, n, commits) ==
  LET stored[i \in 0..n] ==
        IF i = 0 THEN m
        ELSE store_block_commitment(stored[i - 1], height + i, commits[i])
  IN  stored

StoreAbove(m, height, n, commits) == StoredAbove(m, height, n, commits)[n]

\* Faulty variants: the accumulated work is not taken over; the commitment
\* keeps the zeros block_commit_hash starts with.
TipWithoutWork(m, c, height) ==
  [m EXCEPT !.last_diff_adjustment = c.last_diff_adjustment,
            !.block_height = height,
            !.tip_commit_hash = c,
            !.tip_block_hash = c.header.hash]

TipWithoutCommitment(m, c, height) ==
  [m EXCEPT !.last_diff_adjustment = c.last_diff_adjustment,
            !.block_height = height,
            !.chain_work = c.chain_work,
            !.tip_commit_hash = NoCommitment,
            !.tip_block_hash = c.header.hash]

\* "Update globals": c becomes the tip, at the given height.
WithTip(m, c, height) ==
  [m EXCEPT !.last_diff_adjustment = c.last_diff_adjustment,
            !.block_height = height,
            !.chain_work = c.chain_work,
            !.tip_commit_hash = c,
            !.tip_block_hash = c.header.hash]

=============================================================================

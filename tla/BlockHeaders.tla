---------------------------- MODULE BlockHeaders ----------------------------
(***************************************************************************)
(* Bitcoin block headers, committed headers and the checks of              *)
(* utils::verify_header (programs/btc-relay/src/structs.rs, utils.rs).     *)
(*                                                                         *)
(* A header is known by its double-SHA256 `hash`; `meets_target` stands    *)
(* for the comparison of that hash with the target its nbits encode.       *)
(* Version, merkle root and nonce play no part in the relay's decisions.   *)
(* SHA256 is taken to be collision free: a header's hash determines the    *)
(* header, and the commitment of a CommittedBlockHeader (the hash of all   *)
(* its fields) is represented by the committed header itself.              *)
(***************************************************************************)
EXTENDS Integers, Sequences, FiniteSets

CONSTANTS
  Hash,                     \* block hashes
  NBits,                    \* compact difficulty targets
  Headers,                  \* the block headers anybody can submit
  Difficulty,               \* get_difficulty(nbits_to_target(nbits))
  RescaledNBits,            \* <<nbits, span>>: target * span / TARGET_TIMESPAN, capped
  TARGET_TIMESPAN,          \* 1209600 seconds
  DIFF_ADJUSTMENT_INTERVAL, \* 2016 blocks
  MAX_FUTURE_BLOCKTIME,     \* 4 hours
  PREV_TIMESTAMPS,          \* 10: the timestamps a committed header carries
  BITCOIN_TESTNET           \* the cargo feature that disables the nBits check

BlockHeader ==
  [hash : Hash, reversed_prev_blockhash : Hash, timestamp : Nat,
   nbits : NBits, meets_target : BOOLEAN]

CommittedBlockHeader ==
  [chain_work : Nat, header : Headers, last_diff_adjustment : Nat,
   blockheight : Nat, prev_block_timestamps : [1..PREV_TIMESTAMPS -> Nat]]

ASSUME ParameterAssumption ==
  /\ TARGET_TIMESPAN \in Nat \ {0}
  /\ DIFF_ADJUSTMENT_INTERVAL \in Nat \ {0}
  /\ MAX_FUTURE_BLOCKTIME \in Nat
  /\ PREV_TIMESTAMPS \in Nat \ {0}
  /\ BITCOIN_TESTNET \in BOOLEAN

ASSUME DifficultyAssumption == Difficulty \in [NBits -> Nat]

ASSUME HeadersAssumption ==
  /\ Headers \subseteq BlockHeader
  /\ \A h, g \in Headers : h.hash = g.hash => h = g

-----------------------------------------------------------------------------
(* Difficulty retargeting. *)

\* The clamp of the elapsed time between a quarter and four times the target.
ClampedTimespan(span) ==
  IF span < TARGET_TIMESPAN \div 4 THEN TARGET_TIMESPAN \div 4
  ELSE IF span > TARGET_TIMESPAN * 4 THEN TARGET_TIMESPAN * 4
  ELSE span

compute_new_nbits(prev_time, start_time, prev_nbits) ==
  RescaledNBits[prev_nbits, ClampedTimespan(prev_time - start_time)]

should_diff_adjust(block_height) ==
  block_height % DIFF_ADJUSTMENT_INTERVAL = 0

\* Faulty variant: tests the parent's height instead of the new block's.
RetargetOneBlockLate(prev, current_nbits) ==
  IF should_diff_adjust(prev.blockheight)
  THEN /\ prev.header.timestamp >= prev.last_diff_adjustment
       /\ current_nbits = compute_new_nbits(prev.header.timestamp,
                                            prev.last_diff_adjustment,
                                            prev.header.nbits)
  ELSE current_nbits = prev.header.nbits

\* The first conjunct of the retarget is the checked subtraction
\* `prev_time - start_time` on u32, which aborts the transaction.
has_correct_difficulty_target(prev, current_nbits) ==
  IF should_diff_adjust(prev.blockheight + 1)
  THEN /\ prev.header.timestamp >= prev.last_diff_adjustment
       /\ current_nbits = compute_new_nbits(prev.header.timestamp,
                                            prev.last_diff_adjustment,
                                            prev.header.nbits)
  ELSE current_nbits = prev.header.nbits

-----------------------------------------------------------------------------
(* Header verification. *)

\* Faulty variant: accepts a timestamp equal to the median.
NotBelowMedian(arr, additional, curr_timestamp) ==
  Cardinality({i \in 0..PREV_TIMESTAMPS :
                 curr_timestamp >= IF i = 0 THEN additional ELSE arr[i]})
    > (PREV_TIMESTAMPS + 1) \div 2

\* `amt > 5` of the 11 timestamps.
is_larger_than_median(arr, additional, curr_timestamp) ==
  Cardinality({i \in 0..PREV_TIMESTAMPS :
                 curr_timestamp > IF i = 0 THEN additional ELSE arr[i]})
    > (PREV_TIMESTAMPS + 1) \div 2

\* The require!s of verify_header for header h on top of the committed header
\* `last`. Every error aborts the whole transaction.
HeaderVerifies(last, h, now) ==
  /\ BITCOIN_TESTNET \/ has_correct_difficulty_target(last, h.nbits)
  /\ h.meets_target
  /\ is_larger_than_median(last.prev_block_timestamps, last.header.timestamp,
                           h.timestamp)
  /\ h.timestamp < now + MAX_FUTURE_BLOCKTIME

\* Faulty variant: records the timestamp of the period's last block.
DiffAdjustmentFromParent(last, h) ==
  [chain_work |-> last.chain_work + Difficulty[h.nbits],
   header |-> h,
   last_diff_adjustment |->
     IF should_diff_adjust(last.blockheight + 1) THEN last.header.timestamp
     ELSE last.last_diff_adjustment,
   blockheight |-> last.blockheight + 1,
   prev_block_timestamps |->
     [i \in 1..PREV_TIMESTAMPS |->
        IF i = PREV_TIMESTAMPS THEN last.header.timestamp
        ELSE last.prev_block_timestamps[i + 1]]]

\* Faulty variant: the header's own timestamp is shifted in.
OwnTimestampShiftedIn(last, h) ==
  [chain_work |-> last.chain_work + Difficulty[h.nbits],
   header |-> h,
   last_diff_adjustment |->
     IF should_diff_adjust(last.blockheight + 1) THEN h.timestamp
     ELSE last.last_diff_adjustment,
   blockheight |-> last.blockheight + 1,
   prev_block_timestamps |->
     [i \in 1..PREV_TIMESTAMPS |->
        IF i = PREV_TIMESTAMPS THEN h.timestamp
        ELSE last.prev_block_timestamps[i + 1]]]

\* What verify_header leaves in `last_commited_header`: the parent's timestamp
\* is shifted in and the work of the header's own target is added.
CommittedChild(last, h) ==
  [chain_work |-> last.chain_work + Difficulty[h.nbits],
   header |-> h,
   last_diff_adjustment |->
     IF should_diff_adjust(last.blockheight + 1) THEN h.timestamp
     ELSE last.last_diff_adjustment,
   blockheight |-> last.blockheight + 1,
   prev_block_timestamps |->
     [i \in 1..PREV_TIMESTAMPS |->
        IF i = PREV_TIMESTAMPS THEN last.header.timestamp
        ELSE last.prev_block_timestamps[i + 1]]]

\* The loop over `data` that the three submit instructions share: entry i is
\* `last_commited_header` after i headers.
CommittedHeaders(c, data) ==
  LET commits[i \in 0..Len(data)] ==
        IF i = 0 THEN c ELSE CommittedChild(commits[i - 1], data[i])
  IN  commits

\* The commitments of the new headers alone.
NewCommitments(c, data) == [i \in 1..Len(data) |-> CommittedHeaders(c, data)[i]]

\* Faulty variant: the link to the previous block is not compared.
HeadersVerifyUnlinked(c, data, now) ==
  LET last == CommittedHeaders(c, data)
  IN  \A i \in 1..Len(data) : HeaderVerifies(last[i - 1], data[i], now)

\* No require! of the loop fails.
HeadersVerify(c, data, now) ==
  LET last == CommittedHeaders(c, data)
  IN  \A i \in 1..Len(data) :
        /\ data[i].reversed_prev_blockhash = last[i - 1].header.hash
        /\ HeaderVerifies(last[i - 1], data[i], now)

=============================================================================

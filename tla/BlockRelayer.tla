---------------------------- MODULE BlockRelayer ----------------------------
(***************************************************************************)
(* The process that feeds the header relay (block_relayer/src/lib.rs and   *)
(* relay_program_interaction.rs), composed with it: a loop that reads the  *)
(* main state, asks bitcoind for what the tip's committed header is made   *)
(* of and for the next block, and submits that block. It keeps nothing     *)
(* from one round to the next. Every call may fail, which starts the next  *)
(* round after a pause.                                                    *)
(*                                                                         *)
(* Each RPC to bitcoind whose answer depends on its current chain is a     *)
(* step of its own; one that asks for a block by its hash has only one     *)
(* possible answer and is part of the step that got the hash.              *)
(***************************************************************************)
EXTENDS BitcoinNode

CONSTANT NoSubmission   \* no transaction is being waited for

VARIABLES
  step,                   \* the call the loop makes next
  main_state_data,        \* the account as it read it
  prev_block_timestamps,  \* those it has read, oldest first
  submission,             \* the transaction it waits for
  in_flight               \* transactions sent and not executed yet; of two with
                          \* the same content at most one is accepted, so they
                          \* count as one

Submission == [commited_header : CommittedBlockHeader, header : Headers]

ASSUME SubmissionAssumption == NoSubmission \notin Submission

\* The base is below everything the program may have been initialized with.
ASSUME CheckpointAssumption == \A c \in Checkpoints : c.blockheight >= BaseHeight

loop_vars == <<step, main_state_data, prev_block_timestamps, submission>>
relayer_vars == <<vars, node_vars, loop_vars, in_flight>>

-----------------------------------------------------------------------------
(* Committed headers as the relayer makes them up. *)

\* The tip's, from the account as it was read.
tip_commited_header(data, timestamps) ==
  reconstruct_commited_header(data.tip_block_hash, data.block_height,
                              data.last_diff_adjustment, timestamps)

\* run_init_program: the arguments of initialize, for bitcoind's tip h.
InitialHeader(h) ==
  [chain_work |-> 0, header |-> h, last_diff_adjustment |-> h.timestamp,
   blockheight |-> Height[h],
   prev_block_timestamps |-> [i \in 1..PREV_TIMESTAMPS |-> h.timestamp]]

\* The request that submit_block sends: one header on top of the tip's.
submit_block(header, commited_header) ==
  [commited_header |-> commited_header, header |-> header]

RunInitProgram ==
  /\ Initialize(InitialHeader(best))
  /\ UNCHANGED <<node_vars, loop_vars, in_flight>>

-----------------------------------------------------------------------------
(* The loop of relay_blocks_from_full_node. *)

NextRound ==
  /\ step' = "get_account"
  /\ main_state_data' = NoMainState
  /\ prev_block_timestamps' = <<>>
  /\ submission' = NoSubmission

RelayerInit ==
  /\ Init
  /\ NodeInit
  /\ step = "get_account"
  /\ main_state_data = NoMainState
  /\ prev_block_timestamps = <<>>
  /\ submission = NoSubmission
  /\ in_flight = {}

\* get_account, and getblockheader for the tip's hash.
GetAccount ==
  /\ step = "get_account"
  /\ Initialized
  /\ \E h \in blocks : h.hash = main_state.tip_block_hash
  /\ step' = "get_timestamps"
  /\ main_state_data' = main_state
  /\ UNCHANGED <<vars, node_vars, prev_block_timestamps, submission, in_flight>>

\* Turn i of the loop over the preceding heights, from the highest down.
GetTimestamp(i) ==
  LET height == main_state_data.block_height
  IN  /\ step = "get_timestamps"
      /\ i = Len(prev_block_timestamps)
      /\ CanReadTimestamp(height, i)
      /\ prev_block_timestamps' = WithTimestamp(prev_block_timestamps, height, i)
      /\ step' = IF i + 1 = PREV_TIMESTAMPS THEN "get_best_block" ELSE step
      /\ UNCHANGED <<vars, node_vars, main_state_data, submission, in_flight>>

\* Faulty variant: the last block is never due.
IsNearlyUpToDate(last_submitted_height, best_block_height) ==
  last_submitted_height + 1 >= best_block_height

IsUpToDate(last_submitted_height, best_block_height) ==
  last_submitted_height >= best_block_height

\* getbestblockhash and the height of that block.
GetBestBlock ==
  /\ step = "get_best_block"
  /\ IF IsUpToDate(main_state_data.block_height, Height[best])
     THEN NextRound
     ELSE /\ step' = "get_block"
          /\ UNCHANGED <<main_state_data, prev_block_timestamps, submission>>
  /\ UNCHANGED <<vars, node_vars, in_flight>>

\* getblockhash and getblock for the next height, and submit_block up to the
\* point where the transaction is on its way.
SubmitBlock ==
  LET new_height == main_state_data.block_height + 1
  IN  /\ step = "get_block"
      /\ new_height <= Height[best]
      /\ submission' =
           submit_block(ChainOf(best)[new_height],
                        tip_commited_header(main_state_data, prev_block_timestamps))
      /\ in_flight' = in_flight \cup {submission'}
      /\ step' = "confirm"
      /\ UNCHANGED <<vars, node_vars, main_state_data, prev_block_timestamps>>

\* The transaction is confirmed, rejected or given up waiting for: all the same
\* to the loop.
Confirm ==
  /\ step = "confirm"
  /\ NextRound
  /\ UNCHANGED <<vars, node_vars, in_flight>>

\* Any other call fails: log, sleep, continue.
CallFails ==
  /\ step \notin {"get_account", "confirm"}
  /\ NextRound
  /\ UNCHANGED <<vars, node_vars, in_flight>>

-----------------------------------------------------------------------------
(* The cluster. *)

\* A transaction that the program accepts is executed, whether the relayer
\* still waits for it or not.
Execute(s) ==
  /\ s \in in_flight
  /\ SubmitBlockHeaders(s.commited_header, <<s.header>>)
  /\ in_flight' = in_flight \ {s}
  /\ UNCHANGED <<node_vars, loop_vars>>

\* One is rejected, or expires.
Drop(s) ==
  /\ s \in in_flight
  /\ in_flight' = in_flight \ {s}
  /\ UNCHANGED <<vars, node_vars, loop_vars>>

\* Anybody may submit headers, and may have initialized the program.
OtherCaller ==
  /\ \/ \E c \in Checkpoints : Initialize(c)
     \/ \E c \in PublishedCommitments, data \in Batches :
          SubmitBlockHeaders(c, data)
  /\ UNCHANGED <<node_vars, loop_vars, in_flight>>

\* bitcoind's chain grows or is reorganised.
NodeStep ==
  /\ \E h \in Headers : AdoptChain(h)
  /\ UNCHANGED <<vars, loop_vars, in_flight>>

RelayerNext ==
  \/ NodeStep
  \/ RunInitProgram
  \/ GetAccount
  \/ \E i \in 0..(PREV_TIMESTAMPS - 1) : GetTimestamp(i)
  \/ GetBestBlock
  \/ SubmitBlock
  \/ Confirm
  \/ CallFails
  \/ \E s \in in_flight : Execute(s)
  \/ \E s \in in_flight : Drop(s)
  \/ OtherCaller

\* The loop runs for ever and retries every call: one that is tried again and
\* again succeeds again and again, and so does the execution of acceptable
\* transactions, in time or after the relayer stopped waiting for them.
Fairness ==
  /\ SF_relayer_vars(GetAccount)
  /\ \A i \in 0..(PREV_TIMESTAMPS - 1) : SF_relayer_vars(GetTimestamp(i))
  /\ SF_relayer_vars(GetBestBlock)
  /\ SF_relayer_vars(SubmitBlock)
  /\ WF_relayer_vars(Confirm)
  /\ SF_relayer_vars(\E s \in in_flight : Execute(s))

RelayerSpec == RelayerInit /\ [][RelayerNext]_relayer_vars /\ Fairness

-----------------------------------------------------------------------------
(* Properties. *)

RelayerTypeOK ==
  /\ TypeOK
  /\ best \in blocks /\ blocks \subseteq Headers
  /\ step \in {"get_account", "get_timestamps", "get_best_block", "get_block",
               "confirm"}
  /\ main_state_data \in MainState \cup {NoMainState}
  /\ prev_block_timestamps \in Seq(Nat)
  /\ Len(prev_block_timestamps) <= PREV_TIMESTAMPS
  /\ in_flight \subseteq Submission
  /\ submission # NoSubmission <=> step = "confirm"

\* What is needed for the relayer to extend the tip: the block is on bitcoind's
\* chain, and the commitment stored for it is the one of the header that the
\* relayer rebuilds.
TipIsReconstructible ==
  /\ Initialized
  /\ main_state.block_height <= Height[best]
  /\ ChainOf(best)[main_state.block_height].hash = main_state.tip_block_hash
  /\ main_state.tip_commit_hash =
       tip_commited_header(main_state,
                           TimestampsBelow(best, main_state.block_height))

UpToDate == Initialized /\ main_state.tip_block_hash = best.hash

\* A tip that the relayer can rebuild is enough: whatever calls fail or time
\* out, whoever else submits, the relay reaches the tip of a bitcoind that no
\* longer moves.
KeepsUp ==
  \A h \in Headers :
    <>[](best = h) /\ <>[]TipIsReconstructible => <>[]UpToDate

\* No block carries work, as on the regtest network, whose difficulty rounds
\* to 0.
NoWork == \A h \in Headers : Difficulty[h.nbits] = 0

\* While blocks carry no work and bitcoind only extends its chain, a tip once
\* reconstructible stays so, whoever submits the next blocks of that chain.
StaysReconstructible ==
  [][/\ TipIsReconstructible
     /\ best' # best => ChainOf(best')[Height[best]] = best
     /\ main_state' # main_state =>
          /\ main_state'.block_height <= Height[best]
          /\ ChainOf(best)[main_state'.block_height].hash = main_state'.tip_block_hash
     => TipIsReconstructible']_relayer_vars

\* A block that is submitted again because the first attempt timed out, or by
\* two callers, is stored once.
StoredOnce ==
  Initialized =>
    \A s, t \in Slots :
      LET c == main_state.block_commitments[s]
          d == main_state.block_commitments[t]
      IN  c # NoCommitment /\ d # NoCommitment /\ c.header = d.header => s = t

\* docs/diagrams/bridge_deposit.md:50-51: the relayer's work "ensures that the
\* bridge stays up-to-date with the latest state of the Bitcoin blockchain",
\* however the program was initialized.
StaysUpToDate ==
  \A h \in Headers : <>Initialized /\ <>[](best = h) => <>[]UpToDate

\* The same from a tip that the relayer can rebuild.
StaysUpToDateOnceInStep ==
  \A h \in Headers :
    <>TipIsReconstructible /\ <>[](best = h) => <>[]UpToDate

=============================================================================

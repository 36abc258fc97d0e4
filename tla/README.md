# TLA+ models of the Yona Bitcoin relay

This directory holds TLA+ specifications of the Yona canonical bridge
(`src/`): a Solana program that follows the Bitcoin chain from its block
headers, the process that feeds it, and a faucet. The modules are translated from the
code; TLC checks them on small instances, TLAPS checks the proofs.

## The system

| Component | Code | State | Operations |
|---|---|---|---|
| Header verification | `programs/btc-relay/src/utils.rs`, `structs.rs` | none: a committed header carries all that is needed to judge its child | `verify_header`, `has_correct_difficulty_target`, `is_larger_than_median` |
| Main state | `state.rs` | tip (height, work, hash, commitment, last adjustment), counters, ring buffer of 250 commitments | `get_position`, `get_commitment`, `store_block_commitment` |
| Header relay | `lib.rs` 27-374, `instructions.rs` | the main state account and one fork account for each fork id and signer | `initialize`, `submit_block_headers`, `submit_short_fork_headers`, `submit_fork_headers`, `close_fork_account` |
| Transactions and mint | `lib.rs` 379-540 | the deposit account's balance, one account of bytes for each large transaction | `verify_small_tx`, `deposit`, `init_big_tx_verify`, `store_tx_bytes`, `finalize_tx_processing`, `block_height` |
| 256-bit arithmetic | `arrayutils.rs`, `utils.rs` 54-179 | none | add, mul, div, comparisons, nBits, difficulty |
| Merkle proofs | `block_relayer/src/merkle.rs`, `utils.rs` 306-330 | none | `Proof::create`, `compute_merkle` |
| Block relayer | `block_relayer/src/lib.rs` 52-216, `relay_program_interaction.rs` | none between two rounds of its loop | poll the program and bitcoind, submit the next block |
| Transaction relayer | `block_relayer/src/lib.rs` 224-322, `relay_program_interaction.rs` 175-236 | none between two requests | rebuild a header, prove a transaction, send `verify_small_tx` |
| Command line, configuration | `main.rs`, `config.rs` | none | start the tasks |
| Faucet | `btc_faucet/src/main.rs` | a table of requests | check, send, record |

How they interact. A Solana instruction is a transaction: it takes effect as a
whole or not at all. Callers therefore interleave at instructions, and what goes
stale between two of them is a caller's knowledge: the committed header it
passes along, which the program only knows by its hash. The block relayer reads
the main state, asks bitcoind for the tip's header and the next block in
several RPC calls, and submits. A user deposits on the Bitcoin side and hands the
transaction's id to the transaction relayer, which asks bitcoind for the block,
rebuilds that block's committed header, proves the transaction and has it checked
against the commitments the header relay holds; the program then pays out of the
deposit account. Large transactions are first stored piece by piece. The faucet
stands alone.

What is hard here:

- *Interleaving*: anybody submits headers of any branch. A fork too long
  for one transaction is collected in its own account while the main chain goes
  on, or is replaced by another fork.
- *A wrapping buffer*: 250 slots, whose start moves with the writes; a
  reorganisation lowers or raises heights across the wrap.
- *Carried state*: ten timestamps, work and the period's start travel in the
  committed header and must be right on every branch.
- *Edges*: a fixed-width subtraction, a full buffer, the first block of a
  difficulty period, work that rounds to zero, results nobody looks at.
- *Partial knowledge*: the relayers' RPC calls may fail or see different chains;
  a submission that timed out may have been executed.
- *Use of rewritten state*: a mint is decided by a slot of the ring, and a large
  transaction is paid by what such a slot said long before.
- *Partial failure*: pieces of a transaction out of order, a payment without its record.
- *Arithmetic by hand*: carries, shifts, a sign bit and a rounding in 32-byte arrays, a
  tree whose odd levels repeat their last hash.

What makes each component correct is stated with its module below; the hazards,
each with the properties that cover it, are listed in `PROJECT.json`.

## Modules

| Module | Models | Extends |
|---|---|---|
| `BlockHeaders` | header, committed header, `verify_header`, the loop over the headers of a call | |
| `MainState` | the main state account's value and the ring buffer | `BlockHeaders` |
| `BtcRelay` | the instructions of the header relay, the properties of the system | `MainState` |
| `BoundedChain` | what the relay promises: a bounded chain that only more work may rewrite | |
| `ConsensusRules` | Bitcoin's rules stated over the tree of all headers, for comparison | `BtcRelay` |
| `MCBtcRelay` | the small instances | `ConsensusRules` |
| `BitcoinNode` | bitcoind over RPC, and the committed header both relayers make up from its answers | `BtcRelay` |
| `BlockRelayer` | the process that feeds the header relay, composed with it, bitcoind and the cluster | `BitcoinNode` |
| `MCBlockRelayer` | its small instances | `BlockRelayer` |
| `BridgeTransactions` | verification, mint, deposit, stored transactions, on top of the header relay | `BtcRelay` |
| `MCBridge` | its small instance | `BridgeTransactions` |
| `TxRelayer` | the web service's requests, composed with the bridge, bitcoind and the cluster | `BridgeTransactions`, `BitcoinNode` |
| `MCTxRelayer` | its small instances | `TxRelayer` |
| `Merkle` | `Proof::create` and `compute_merkle` | |
| `ByteArithmetic` | byte arrays, compact targets, difficulty, retargeting | |
| `MCMerkle`, `MCByteArithmetic` | reference definitions for the two | the one each is about, `Powers` |
| `Powers` | powers as a recursive function, which the provers can reason about | |
| `MCAlgorithms` | both in one instance | `MCMerkle`, `MCByteArithmetic` |
| `Faucet` | the faucet's handler, its locks, table and failures | |
| `MCFaucet` | its small instance | `Faucet` |
| `BtcRelay_proofs` | the inductive invariant of the accounts; what the ring holds, the window, the refinement | `BtcRelay`, `SetInduction` |
| `ConsensusRules_proofs` | the program against Bitcoin's rules | `ConsensusRules`, `BtcRelay_proofs` |
| `BitcoinNode_proofs` | bitcoind's tree: heights, chains, timestamps | `BitcoinNode`, `BtcRelay_proofs` |
| `BlockRelayer_proofs` | the theorems about the block relayer | `BlockRelayer`, `BitcoinNode_proofs` |
| `BridgeTransactions_proofs` | the theorems about the bridge, alone and composed with the service | `TxRelayer`, `BitcoinNode_proofs` |
| `Algorithms_proofs` | Merkle proofs and roots, byte arithmetic | `MCAlgorithms`, `SetInduction` |
| `Faucet_proofs` | the faucet's locks, table and payments | `Faucet`, `SetInduction` |
| `SetInduction` | induction over a set of numbers, as a lemma | |

### State and actions

`main_state` is the account at the seeds `"state"`, or `NoMainState` before
`initialize`. `forks[fork_id, signer]` is the account at the seeds `"fork"`, or
`NoFork`. `now` is the cluster's clock. There is one action for each instruction;
`submit_fork_headers` is `OpenFork` for `init = true` and `ExtendFork` for
`init = false`, both of which end in `GrowFork`, the part the code shares. The
loops over `data` and over a fork's buffer are part of the actions
(`CommittedHeaders`, `StoreAbove`). A failing `require!`, a panic of the checked
arithmetic and an index out of bounds abort the transaction: the action is
disabled.

In `BlockRelayer`, `step` is the call the loop makes next, `main_state_data`,
`prev_block_timestamps` and `submission` are the local variables of a round. A
call whose answer depends on when it is made (the account, a block by its height,
the best block, the submission) is an action; one that asks bitcoind for a block by
its hash has one answer and belongs to the action that got the hash. Every
call may fail (`CallFails`, `Confirm`), which starts the next round.
`best` and `blocks` are bitcoind's active chain and the blocks it has (a block of an
abandoned branch can still be asked for by its hash); `AdoptChain` extends or
reorganises it. `in_flight` are the transactions sent: executed late or never
(`Execute`, `Drop`), whether the loop still waits or not. `OtherCaller` submits headers
and initializes the program with true values; `RunInitProgram` initializes it
the way `run_init_program` does. Other callers' forks are left out: they would only
move the tip to blocks of other work, which the relayer
cannot follow anyway.

`BridgeTransactions` adds to the relay's accounts `deposit_account` (the balance at the seed
`"solana_deposit"`), `lamports` of the receivers and `tx_accounts` (the size and bytes at the
seed of each transaction id). `VerifySmallTx`, `Deposit`, `InitBigTxVerify`, `StoreTxBytes`
and `FinalizeTxProcessing` are the five instructions; the last, like its code, does not
look at the main state. `Claims` are the committed headers callers pass, `Included` what a
header's merkle root proves (the module `Merkle` is about that), `Outputs` what
`bridge_mint_amount` finds. The bytes of a transaction are pieces; they decode to it when
they start with its own pieces in order, and whatever follows is ignored, as
`consensus_decode` does. An account that its bytes outgrow cannot be written back.

In `TxRelayer`, `step[r]` is the call that request `r` makes next, and `tx_request`,
`last_diff_adjustment`, `tx_block` and `prev_block_timestamps` are the locals of its
handler. As in `BlockRelayer` a call about bitcoind's current chain is an action of its own,
so the chain may change between any two. bitcoind's index may name a block that was
reorganised away when the transaction is in no active one (`BlocksWith`). A request ends with
an answer or an error (`Confirm`, `CallFails`), its transaction may stay in flight
(`Execute`, `Drop`), and `OtherCaller` is every other instruction of the bridge.

In `Faucet` a handler takes both mutexes in a fixed order and keeps them until it returns, so
they are one `lock`. `requests` (the table) and `payments` (bitcoind's wallet) outlive the
process. The clock ticks more finely than the stored timestamps, which are whole seconds.
A payment whose answer is lost, whose record fails, or that is followed by a restart counts
in `faults`. `Addresses` are the texts of requests, which is what the table is searched by; two
spellings of one address, such as a bech32 address in capitals, are two of them.

`Merkle` follows the loop over levels of `Proof::create`, offsets and padding included, and the
bits of the index in `compute_merkle`; `sha256d` is any function of two arguments.
`ByteArithmetic` has the base and the length of the arrays as parameters; a loop's
`remainder` is a recursive function of the position.

What is abstracted:

- Hashes. A header is identified by its `hash`; the commitment hash of a
  committed header is the committed header itself. Both rest on SHA256 being
  collision free, stated as `HeadersAssumption`. The zero commitment `[0; 32]` is
  `NoCommitment`, which no header commits to.
- Version, merkle root and nonce: the header relay does not look at them. That
  the hash meets the target is a field of the header.
- In the header relay, 256-bit arithmetic. Works are natural numbers (that the byte arrays
  behave as such is the subject of `ByteArithmetic`). `Difficulty` and
  `RescaledNBits` are constants of the model: the functions that
  `get_difficulty` and the target arithmetic of `compute_new_nbits` compute.
- The parameters 250, 2016, 1209600 s, 4 h and the ten timestamps are constants.
  The majority "more than 5 of 11" is half of `PREV_TIMESTAMPS + 1`.
- The topic accounts, which the program uses for indexing only, are the right
  ones. Rent (of the deposit and the byte accounts too), fees and events are left out.
- The relayers read ten timestamps below a height; `NodeAssumption` has the base high enough
  for them (below height 10 the subtraction of the loop underflows).
- `u32` heights and timestamps do not overflow upwards; the subtraction that does
  underflow (`state.rs:67`) is modelled by `LookupPanics`.

The committed headers a caller may pass are the ones in the ring buffer, stale
slots included, and the tips of the forks: with any other one, every
instruction fails at its first commitment check.

## Runs

Deadlock is checked where the system may not stop: in the runs of the two relayers and the
faucet, whose loop and servers never end. The trees of headers and the algorithms' inputs are
finite, and those models end with them.

| Run | Question | Result |
|---|---|---|
| `forks_long` | two signers, two fork ids, three branches of equal difficulty, ring of 4, started at a height below the ring's size or at one above | holds (49145 states) |
| `consensus_rules` | all headers that some choices of timestamp, target and proof of work allow on five heights, periods of 2 blocks, clock running; no fork accounts, branches of mixed difficulty with blocks of no work, ring of 3 | holds (491 states) |
| `early_checkpoint` | can the relay go on from any past block it was started at? | violated |
| `orphaned_base` | is the window of verifiable blocks one chain even with fork accounts? | violated |
| `relayer` | relayer, moving bitcoind, failing calls, late transactions, another caller; three blocks of no work (regtest) on a truly initialized program, ring of 3 | holds (1090 states) |
| `relayer_init` | does the relayer keep up after `run_init_program`? | violated |
| `relayer_reorg` | does it keep up when bitcoind reorganises? | violated |
| `bridge` | two branches and a reorganisation, callers with the true header of any block of either, a small and a large transaction, pieces in any order or twice, accounts too small, a deposit of less than two of each | holds (44411 states) |
| `relay_deposit` | one request after another for a deposit, bitcoind reorganising between its calls, failing calls, late transactions, other callers | holds (1022 states) |
| `relay_retry` | two requests for the same deposit: is it minted once? | violated |
| `algorithms` | blocks of up to 7 transactions with every position and claimed index; targets and works in six digits of base 4, works across the wrap at 4^6 | holds (24999 states) |
| `faucet` | two workers, two addresses, one unrecorded payment, restarts | holds (1155007 states) |

`forks_long` checks:

- `TipIsOneHeader`: height, work, hash, commitment and last adjustment, which
  every instruction that moves the tip assigns one by one, describe the same header
  after each instruction.
- `WindowIsFull`: every height of the last `PRUNING_FACTOR` ones, down to the
  checkpoint, can be verified, however the ring wrapped and whatever was
  replaced.
- `RingHoldsTurn`, what `WindowIsFull` rests on: of the last `PRUNING_FACTOR` heights up
  to some top, each has its own slot, empty below the checkpoint and with a
  commitment of that height from there on; the tip and the starts of
  pending forks are among them. The top is the tip's height when all blocks have the
  same difficulty, and may be above it after a reorganisation to a shorter chain.
- `NothingHeavierThanTip`: no commitment held anywhere, stale slots and
  unfinished forks included, is heavier than the tip. The heaviest chain whose
  headers arrived is the main chain.
- `ForkBuffersAreChains`, `ForkIdsAreUnique`: a fork collected over several
  transactions is a linked chain above its start and fits the buffer; racing
  signers never share a fork id.
- `ReorgNeedsMoreWork`: of two branches of the same work the first one seen
  stays. The tip changes to a chain of more work, or is extended by blocks
  whose difficulty rounds to 0 (regtest).
- `TipIsStored`: the tip is in the slot of its height, so the next header can build on
  it (where the lookup does not panic).
- `PanicsFromStartOrNever`: a relay started below `PRUNING_FACTOR` stays as it was
  initialized; one started above never falls below, whatever fork it adopts.
- `AdoptedForkIsLinked`: if a fork's base is still a main chain block when the fork
  is adopted, the window stays one chain. Together with `orphaned_base` this
  says exactly when it does not.

`consensus_rules` compares the program, which judges a header by what its parent's
commitment carries, with the rules stated over the header tree:
`CarriedHistoryIsTrue` (height, work, timestamps and period start
are what the chain says), `TargetsFollowRetargeting` (the target changes
exactly at the first block of a period, by the time between the first and the last
block of the period before) and `BlocksAreTimely` (proof of work, median of eleven
timestamps, future bound). The header tree holds right and wrong headers, so that
acceptance is what is checked. The checkpoint is the first block of a period there, with
true timestamps: what `initialize` is given is not checked by the program.
The difficulty of a period follows the pace of the one before, so the branches differ in
difficulty and a short heavy one replaces a long one of no work. On these trees the run also
checks `RingHoldsTurn`, `TipIsStored` and `ReorgNeedsMoreWork`, and adds `WindowIsOneChain` and
the refinement `ImplementsBoundedChain`: with every transaction the window of
verifiable blocks does a step of `BoundedChain`: it starts at a checkpoint, is
extended and pruned at the old end, or is rewritten from some block on by a
chain of strictly more work. `TypeOK` is checked here. The build is the one for the main
network; what the testnet build changes, that any target is accepted, is left to the
theorems, which hold for both unless they say otherwise.

`relayer` checks `KeepsUp`: once bitcoind stops moving and the tip can be rebuilt,
the relay reaches bitcoind's tip and stays there, whatever failed before;
`StaysReconstructible`: whoever submits the next blocks, a tip that the relayer can
rebuild is followed by one that it can rebuild; and `StoredOnce`: a block whose first
submission is executed late, while it is submitted again, is in the ring once.

`bridge` checks, of a main chain that is rewritten while callers hold old headers and
stored transactions wait:

- `BridgeInvariant`, the inductive invariant of the proofs.
- `MintsAreBuried`: what is minted, or stored for minting, is in a block of the chain that ends
  in the tip, with the confirmations asked for, at the moment of the check. The
  reference follows the links between headers; the program looks at one slot. A large
  transaction needs this only when its account is created: finalizing looks at
  nothing else, and may pay for a block that has been abandoned since.
  `MintsAreBuried` is checked without fork accounts. With them the window
  need not be one chain (`orphaned_base`), and a transaction in the abandoned block
  that stays in it would be minted.
- `LamportsAreConserved`: receivers get exactly what leaves the deposit account.
- `FateIsFinal`: no piece that arrives late or twice harms a complete transaction; one that is
  out of place, or an account that is too small, cannot be repaired, since
  the account is neither closed nor created again.

`relay_deposit` checks `DepositsArrive`: a deposit in a block that bitcoind and the program
both have from some time on, whose header can be rebuilt and for which there is money, is
minted, whatever happened before; and `MintsAreBuried` again, now for headers put
together from answers about different chains.

`algorithms` checks against definitions in numbers and trees: `RootIsBitcoins` (the root of
`BitcoinRow`, where a hash is given by its row and index and a missing right half is the left
one; the code builds levels and repeats the last hash of every odd one), `IncludedTxVerifies`, `ProofBindsTransaction` (the index a caller
claims cannot make a proof fit another transaction of the block);
`WorkIsSumOfQuotients` (difficulty and accumulated work), `RetargetIsProportional` (scaled,
capped, rounded to a compact target), `CompactFormIsUnique` (the sign bit) and
`ComparisonsAreNumeric`.

`faucet` checks `OnlyFaultsPayTwice`: no more payments come too soon (within a day, less the
second a timestamp cuts off, of an earlier one to the same address) than payments went
unrecorded, however requests overlap and whenever the process restarts; and
`RecordsAreBacked`: there is a payment for each record, so nobody is refused without one.

The violations are disagreements of the code with its comments and documents,
described in `PROJECT.json` under `findings`:

- `early_checkpoint`: `initialize` takes any height ("any past block", `lib.rs:25-26`), but
  below height 250 the checked subtraction in `get_commitment` (`state.rs:67`) panics: no
  header is ever accepted by a relay started there, as on a regtest chain.
- `orphaned_base`: a fork is opened on a block that another reorganisation then
  replaces. When the fork becomes the heaviest it is adopted above its start
  height, but the block at that height is the other branch's. An abandoned block
  remains verifiable, and the chain in the window is broken there, until the
  ring passes it.
- `relayer_init`: `init_program` makes up the ten timestamps, the loop reads the real
  ones; the header it rebuilds does not match and no block is ever accepted.
- `relayer_reorg`: the loop knows only how to extend the tip. After a
  reorganisation the next block of bitcoind's chain does not link to it.
- `relay_retry`: nothing records that a transaction was minted; asking again mints again.

### What the preconditions exclude

Some properties hold only from states or for inputs that the code does not ensure. They
are stated with these preconditions, and this is what lies outside:

- `TipIsStored` and `PanicsFromStartOrNever` distinguish relays by where they were started.
  What `RelayCanAdvance` says of all of them is false below `PRUNING_FACTOR`, as
  `early_checkpoint` shows. `WindowIsFull` is about relays started above it, and proved for them
  (`HighCheckpoints`): below, no block can be verified at all.
- `TipIsStored` and `WindowIsFull` are checked on trees where no fork is both heavier and
  a turn of the ring lower than the chain it replaces, and proved without fork accounts
  (the first one) or for blocks of equal difficulty. `store_block_commitment` refuses heights a
  whole turn or more below the ring's start and its result is ignored (`lib.rs:328`): a heavier
  fork account that much lower, which takes a rise in difficulty, becomes the tip without being
  stored, and the relay accepts nothing on top of it. No run shows this.
- `MintsAreBuried` takes a proof for a proof of inclusion: `Included` is which transactions a
  header's merkle root proves. The program does not compare the length of a proof with the
  height of the tree (`utils.rs:306-330`). `VerifiedHashesAreNodes` says what proofs of other
  lengths prove: a shorter one an inner hash of the tree, a longer one something hashed into
  an id of the block. `OnlyMembersVerify` rules both out for ids that are not the
  hash of 64 bytes, which is what the model assumes of the transactions of `Included`.
- `FateIsFinal` assumes one serialization per transaction (`Decodes`). The id leaves the witness
  out, so the same transaction with and without it has one id and two lengths; the model knows
  one of them.
- `LamportsAreConserved` is about one mint at a time. That a deposit is minted once is false
  (`relay_retry`).
- `KeepsUp` assumes `TipIsReconstructible`. That excludes `relayer_init`, `relayer_reorg`, and
  blocks that have work: the rebuilt header has a work of 0
  (`relay_program_interaction.rs:38`), so that the relayer gets beyond one block only
  where the difficulty rounds to 0.
- `DepositsArrive` assumes `IsReconstructible`, which excludes the same and, besides, a block
  before the tip's last difficulty adjustment: its header is rebuilt with the tip's
  (`relay_program_interaction.rs:207`) and does not match, however often one asks.
- `OnlyFaultsPayTwice` allows one early payment for each unrecorded one: the coins are sent first
  (`main.rs:43-48`), so a failing insertion leaves no trace of them.
- It also counts per text: the limit is not per destination, since the table holds the text of
  the request (`main.rs:55-59`) and several texts parse to one address.
- `RetargetIsProportional` starts at the cap of targets. `mul_in_place` drops the carry out of
  32 bytes; only targets above the cap (regtest's) can reach that, and they never follow
  from a retarget. `ChainAssumption` says that the cap times the longest duration fits, as
  2^224 * 4 * 1209600 fits 32 bytes.
- `StaysReconstructible` is about steps in which bitcoind extends its chain and the tip moves along
  that chain, and about blocks without work: a block with work makes the tip's accumulated work
  differ from the rebuilt one, and a tip outside bitcoind's chain cannot be rebuilt from it.

### Bounds

| Bound | Value | Why it is enough |
|---|---|---|
| `PRUNING_FACTOR` | 2 to 4 | the ring wraps once or twice within the trees; all cases of `get_position` occur |
| branches | 3, up to 5 blocks above the checkpoint | a fork, a fork of the fork, and a fork that crosses the wrap |
| `Batches` | linked lists of 1 to 3 headers, of any branch | a fork is submitted at once or in parts |
| `Signers`, `MaxForks` | 2, 2 | a race for an id, two pending forks |
| checkpoints' heights | 4; 2 and 4 in `forks_long`, 2 in `early_checkpoint` | started at or above the ring's size, and below it |
| `PREV_TIMESTAMPS` | 1 or 2 | the median of 3 tells equal, smaller and larger apart |
| `DIFF_ADJUSTMENT_INTERVAL` | 2, or 100 for none | two adjustments on five heights |
| bitcoind's tree | 3 blocks above the base, for `relayer_reorg` a second branch of 4; two branches of 2 and 3 in `relay_deposit` | every call of a round or request meets a chain that moved; the ring of 3 wraps |
| `MaxTime` | 4 ticks above `InitialTime` in `consensus_rules`, else constant | headers from the future become acceptable |
| `Confirmations` | 2 in `bridge`, 1 in the relayer's runs (as its code passes) | a block loses its confirmations and its place by a reorganisation |
| `TxSizes`, `Chunks` | sizes 1 and 3, two pieces, a transaction of both | too small, large enough for one piece too many; wrong order, repetition, a late piece |
| `Deposits` | 60 for prices of 10 and 30; 20 for a price of 10 | the deposit runs out, also between two mints |
| `Requests` | 1 in `relay_deposit`, {1, 2} in `relay_retry` | requests share nothing but the services they call, and `OtherCaller` stands for the effect of others |
| transactions of a block, index | 7, 0 to 9 | trees with odd levels at the bottom, in the middle and at both; indices beyond the tree |
| `BASE`, `SIZE` | 4, 6 | the sign bit is a digit's, carries run through all digits, all sizes of compact targets |
| `InitialWorks`, `MaxWork`, `LowestTarget` | 3850, 4350, 16 | carries run through all digits and out of the last one: the work wraps at 4^6; targets go down from the cap through every size |
| `Workers`, `Addresses`, `Second`, `Day`, `MaxTime`, `MaxFaults` of the faucet | 2, 2, 2, 4, 9, 1 | two days, overlapping requests, a timestamp's lost fraction |

`MaxForks` and `MaxTime` bound unbounded counters in guards. Wherever a tree is
bounded, so is the number of steps, and TLC explores all of them.

### Fairness

The specification of the header relay has no fairness: nothing obliges anybody to
submit a header, and its properties are safety properties.

`BlockRelayer` assumes of each successful call strong fairness: the loop has no
exit and retries for ever, so a call that is made again and again succeeds again and
again; calls may fail any number of times in between. `Confirm` is weakly fair (waiting
for a transaction ends). Of the transactions in flight some acceptable one is executed
again and again (strong fairness of `Execute`), not necessarily the one waited for,
and not in time. Nothing is assumed of bitcoind, other callers or `run_init_program`.

`TxRelayer` assumes the same for a user who does not give up: for each deposit asked for, a
request is made again and again, and each of its calls, made again and again, succeeds again
and again (strong fairness; failures and other requests in between are free). An answer
is given in the end and a transaction leaves the flight in the end (weak fairness of
`Confirm` and `Drop`: the block hash a transaction names expires), and one that is
acceptable again and again is executed again and again (strong fairness of `Execute`).

The bridge and the faucet promise safety only, and assume no fairness.

## Proofs

All theorems hold for every tree of headers, every set of checkpoints, batches and signers
and every size of the ring, from the assumptions named in the modules (`ParameterAssumption`,
`DifficultyAssumption`, `HeadersAssumption`, `RingAssumption`, `RelayAssumption`,
`BridgeAssumption`, ...): types of the constants, hashes that identify headers, a difficulty
that is a natural number. What a theorem assumes besides is in the last column and
justified below.

| Theorem | Statement | Assumes |
|---|---|---|
| `InvariantHolds` | `Spec => []RelayInvariant` | |
| `TypeCorrect` | `Spec => []TypeOK` | |
| `TipConsistent` | `Spec => []TipIsOneHeader` | |
| `HeaviestChainWins` | `Spec => []NothingHeavierThanTip` | |
| `ForksAreChains` | `Spec => []ForkBuffersAreChains` | |
| `ForkIdsNeverShared` | `Spec => []ForkIdsAreUnique` | |
| `FirstSeenWins` | `Spec => ReorgNeedsMoreWork` | |
| `RingKeepsTurn` | `Spec => []RingHoldsTurn` | `MaxForks = 0` or `EqualDifficulty` |
| `TipAlwaysStored` | `Spec => []TipIsStored` | the same |
| `PanicsDecidedAtStart` | `Spec => PanicsFromStartOrNever` | |
| `WindowAlwaysFull` | `Spec => []WindowIsFull` | `EqualDifficulty`, `HighCheckpoints` |
| `AdoptionLinks` | `Spec => AdoptedForkIsLinked` | `EqualDifficulty` |
| `WindowStaysOneChain` | `Spec => []WindowIsOneChain` | `MaxForks = 0` |
| `RelayImplementsBoundedChain` | `Spec => ImplementsBoundedChain` | `MaxForks = 0`, `ShortBatches` |
| `HistoryAlwaysTrue` | `Spec => []CarriedHistoryIsTrue` | `SingleCheckpoint` |
| `TargetsAlwaysFollow` | `Spec => []TargetsFollowRetargeting` | the same, not the testnet build |
| `BlocksAlwaysTimely` | `Spec => []BlocksAreTimely` | the same (any build), `OddWindow` |
| `BridgeInvariantHolds` | `BridgeSpec => []BridgeInvariant` | |
| `MintsConserveLamports` | `BridgeSpec => LamportsAreConserved` | |
| `FateNeverChanges` | `BridgeSpec => FateIsFinal` | |
| `MintsOnlyBuried` | `BridgeSpec => MintsAreBuried` | `MaxForks = 0` |
| `RelayedMintsAreBuried` | `TxRelayerSpec => MintsAreBuried` | `MaxForks = 0`, `HeadersAreTree` |
| `RelayerTypeCorrect` | `RelayerSpec => []RelayerTypeOK` | `HeadersAreTree` |
| `BlocksStoredOnce` | `RelayerSpec => []StoredOnce` | `HeadersAreTree` |
| `TipStaysReconstructible` | `RelayerSpec => StaysReconstructible` | `HeadersAreTree`, `NoWork` |
| `WorkAccumulates` | `AlgorithmsSpec => []WorkIsSumOfQuotients` | |
| `RetargetsScale` | `AlgorithmsSpec => []RetargetIsProportional` | |
| `TargetsStayCompact` | `AlgorithmsSpec => []CompactFormIsUnique` | |
| `WorksCompareAsNumbers` | `AlgorithmsSpec => []ComparisonsAreNumeric` | |
| `RootsAreBitcoins` | `AlgorithmsSpec => []RootIsBitcoins` | |
| `IncludedVerify` | `AlgorithmsSpec => []IncludedTxVerifies` | |
| `ProofsBind` | `AlgorithmsSpec => []ProofBindsTransaction` | `CollisionFree` |
| `RelayerRootIsBitcoins` | for a block of any size and any hash function, `Root` is `BitcoinRoot` | |
| `CreatedProofVerifies` | for a block of any size, any position in it and any hash function, `compute_merkle` of the relayer's proof is the relayer's root | |
| `VerifiedHashesAreNodes` | what `compute_merkle` accepts with a proof of any length and any index is a node of the block's tree, at the level the length says, or is hashed into an id of the block | `CollisionFree` |
| `OnlyMembersVerify` | what `compute_merkle` accepts with a proof of any length and any index is a transaction of the block | `CollisionFree`, ids that are not `IsPairHash` |
| `CreatedProofProvesNoOther` | the relayer's proof of one transaction proves no other one of the block, whatever index is claimed | `CollisionFree`, transactions that differ |
| `NobodyIsRefusedUnpaid` | `Spec => []RecordsAreBacked` (the faucet) | |
| `FaultsBoundDoublePayments` | `Spec => []OnlyFaultsPayTwice` (the faucet) | |

The hypotheses, and why they are there:

- `MaxForks = 0`: `submit_fork_headers` is not used. `submit_block_headers` and
  `submit_short_fork_headers` are, so reorganisations happen. With fork accounts
  `WindowIsOneChain` is false (`orphaned_base`), and with it the refinement and `MintsAreBuried`.
- `EqualDifficulty`: all headers have the same difficulty, and it is not 0. This is how a
  chain is within a difficulty period. With a rise in difficulty and fork accounts
  `TipIsStored`, `WindowIsFull` and `RingHoldsTurn` are false, as said above.
- `HighCheckpoints`: no checkpoint is below height `PRUNING_FACTOR`. Only `WindowAlwaysFull` needs it;
  `PanicsDecidedAtStart` says what happens below: nothing, for ever.
- `ShortBatches`: no call submits more headers than the ring has slots. A Solana transaction
  has at most 1232 bytes and the ring 250 slots. Only the refinement needs this, which prunes
  what one step adds; `RingHoldsTurn` is proved without.
- `SingleCheckpoint`: the reference starts at one checkpoint; `initialize` succeeds once, so there
  is one in every behaviour.
- `CollisionFree`: `sha256d` never gives the same hash for two different pairs, the assumption
  Bitcoin rests on. `CreatedProofVerifies` does without. The ids of a block's transactions
  differ by Bitcoin's rules.
- Ids that are not `IsPairHash`: no transaction has 64 bytes, the length that a pair of hashes has.
  Bitcoin allows such transactions, and the program does not look for them;
  `VerifiedHashesAreNodes` does without.
- `HeadersAreTree`: every header bitcoind can adopt descends from the base, at a depth of its own,
  as headers do whose hashes identify their contents. It gives the recursion in
  `Height` and `ChainOf` an end. Only the proofs about the relayers need it, where bitcoind is a part.
- `NoWork`: the blocks' difficulty rounds to 0, as regtest's does. With work, the rebuilt header differs
  from the tip's commitment at once (`KeepsUp` excludes this too).
- `OddWindow`: with `PREV_TIMESTAMPS` even, as the code's ten, the number of timestamps
  is odd and has a median.

**The accounts** (`BtcRelay_proofs`). The properties are not inductive alone. That nothing is
heavier than the tip is preserved by `SubmitBlockHeaders` only because the block it builds on,
looked up in the ring, is the tip, with the tip's work: `TipIsFound` and
`TipIsOneHeader`. That an adopted fork outweighs its own buffer needs the buffer to
be a chain (`ForkBuffersAreChains`) of works that the tip bounded before. That
two forks never share an id needs every id in use to be below the counter, and
no fork accounts before `initialize`. `RelayInvariant` is the conjunction.
The file begins with what the loops do, by
induction of `CommittedHeaders` (each commitment is one higher and no lighter than
its parent) and of `StoredAbove` (a slot keeps its value or holds one of the new
commitments; the last one is found at its height or its height has no slot).
It restates the invariant as a predicate on the values of the accounts
(`GoodAccounts`), proves one lemma for each action, with `NewTip` and
`ForkGrows` for the parts the actions share, and combines them in
`StepInvariant`.

**The ring** (the second half of `BtcRelay_proofs`). `StepKinds` reduces the instructions to five kinds of
steps: the chain starts, is extended, reorganised, rewritten by an adopted fork, or kept, with
`Rewrites` (the new commitments are in the slots of their heights, everything else is where
it was) for the middle three. A slot belongs to a height only within a turn of the
ring's start, so the invariant has to name the turn: `RingInvariant` says that for some
checkpoint and some top the ring `HoldsTurn`, that for equal difficulty the top is the tip and
works grow in proportion to heights, that without forks the commitments of the turn
up to the tip are linked, and that pending forks start no lower than the checkpoint and no
higher than the top, with a first block of proportional work. Proportion is what makes a heavier chain a higher one: an adopted fork
then reaches at least the height of the tip it replaces, which is why its writes succeed
and leave no hole. `RewriteKeepsRing` is the step, for all kinds at once.
`FirstSeenWins` needs less (`TipInTurn`) and holds without hypotheses.
`PanicsDecidedAtStart` too: `EarlyInvariant` says that a relay below `PRUNING_FACTOR` is as
`initialize` left it, with no pending fork, and that otherwise the commitments in the ring and
the starts of the forks are at `PRUNING_FACTOR` or above. A low relay stays so because whatever
submits headers to it begins with a lookup that panics, and there is no fork to extend; a high
one because what it adopts builds on a commitment it found.
`AdoptionLinks` needs, besides, that a block the fork's first block is hash-linked to is its
parent in height and work, which follows from the same proportion.
The refinement maps the window to `BoundedChain`'s sequence (`WindowOf`) and each kind of step
to one of its actions: `RewritesChain` shows that a rewrite above a height keeps the blocks up
to it, adds the new ones, and prunes what the turn has no room for. A relay started too low
stutters.

**Bitcoin's rules** (`ConsensusRules_proofs`). `HeldStayIn` is proved once for any set of
committed headers: if the checkpoints are in it, and the child that `verify_header` makes of
a member is a member, then everything the program holds (ring, forks, abandoned branches) stays
in it. Each property is such a set. The children's lemmas compare what is
carried along with the recursive references: the chain of a child is its parent's and the
child (`ChildChain`), so are works (`WorkOfBlocks`) and periods (`PeriodStarts`); the
timestamps counted by `is_larger_than_median` correspond one to one to the preceding blocks
(`CountOfTimestamps`), an odd number of values has a median (`MedianExists`), and a value
above more than half of them is above it.

**The bridge.** `BridgeInvariant` is `RelayInvariant`, the types of the accounts, and `BytesFit`. The relay's
invariant is preserved because the bridge's instructions leave `vars` alone, so that
`StepInvariant` applies to their steps as stutters. `BytesFit` is what `FateIsFinal`
needs: an account too small for its transaction is spoiled only if its bytes can never
be as long as the transaction. That a prefix stays a prefix when pieces are appended,
and a wrong piece stays where it is, gives the rest. `MintsOnlyBuried` follows
the links of the window, by induction, from the tip down to the block whose commitment was
compared (`RingInvariant` gives the links), and counts them as confirmations.

`RelayedMintsAreBuried` is about the composition. A step of it is, for the program, nothing, a step
of `BridgeNext`, or `VerifySmallTx` with a committed header that nobody published but the service
made up (`ProgramStep`). `ServiceInvariant` types what a request holds between its calls and what is
in flight, so that what the service makes up is a committed header at least in form
(`SendKeepsService`); that it is buried when it is accepted follows as above, since the lemma asks only
that the ring holds an equal one, not where it comes from.

**The block relayer.** `RelayerInvariant` types the loop's variables call by call (how many
timestamps have been read, that an account was read before anything is rebuilt from it)
and says of the program that the ring holds `OneChain`: linked commitments from some
committed header up to the tip, at heights not below bitcoind's base. This is inductive because
only `initialize` and `submit_block_headers` are called here, and both keep it,
whatever the arguments (`AccountsStep`): no assumption is needed about what is sent twice
or executed late. The links make a header's depth in the tree grow with the slot's height
(`SlotsAreHeights`), so that a header in two slots would have two heights: `BlocksStoredOnce`.
For `TipStaysReconstructible`, `ReconstructibleMeans` turns what the loop compares into what the tip
has to be: without work, with the timestamps of the blocks below it on bitcoind's chain.
A child keeps that because it shifts its parent's timestamp in (`RebuiltChild`), and a whole
batch does because its headers are bitcoind's, from the tip down (`LinkedOnChain`).

**Byte arithmetic.** Everything rests on the value of an array by prefixes (`Prefixes`): the
number its first digits stand for is the value divided by a power of the base
(`PrefixIsQuotient`). For the loops that carry from the last digit up (`add_in_place`,
`mul_in_place`) the induction is from the first digit down, over the carries the code computes: a
prefix of the result is the prefix of the digits before carrying plus the carry that comes into
it, modulo the power of the base that it can hold (`Carrying`). For the division, which runs down,
the remainder is that of the prefix, and the digit written its quotient (`DivValue`). What leaves
the array at the top is lost; `RetargetValue` shows that nothing does when a target up to the cap
is multiplied by a timespan, by `ChainAssumption`. `CompactDigits` says which digits survive the
compact form (two where the first has the sign bit, else three), and `CompactTwice` that a second
rounding changes nothing. `ChainInvariant` is that the work is the sum of the quotients, modulo
what an array holds, and that the target is at most the cap and one that the compact form
represents; the four theorems follow from it.

**Merkle proofs.** `CreatedProofVerifies` is by induction on the levels: after `k` rounds the hash that
`compute_merkle` holds is the one at the offset of level `k` in `create`'s tree, since the
sibling and the bit of the index are those of that offset. The theorems about other proofs go down
from the root: where hashes do not collide, the hash before a round is one of the two children of the
hash after it, whichever side the index puts it on. A proof shorter than the tree is high
stops at an inner node, a longer one passes through a leaf (`VerifiedHashesAreNodes`);
both are hashes of pairs, so `OnlyMembersVerify` follows for ids that are not. For `RelayerRootIsBitcoins` each level of `create` is a
row of the reference, as long as it has to be for the block (`Spans`), so that the first
level of one hash is the first row that spans the block alone (`NextLevelIsRow`). `BlockInvariant` is that
a block's transactions differ and the position is in it. `SetInduction` derives the
induction from the well-ordering of a set of numbers, stated without an operator
parameter.

**The faucet.** `FaucetInvariant` says that one worker at most is past the locks, that no
record lies in the future, that what its check found still holds when a worker pays
(nobody else can write the table meanwhile), that a record is written only after its payment,
and, for the bound, that the payments that came too soon, together with the addresses whose
last payment went unrecorded and may still lead to one, are no more than the faults.

Only model-checked are `KeepsUp` and `DepositsArrive`: liveness under fairness and `ENABLED` are
out of the prover's reach. Every safety property and every action property of a passing run is
stated by a theorem; the runs that find violations check statements that are false.
Recursive definitions are functions on an interval of numbers throughout, and what they compute is
shown by induction over a set (`SetInductionOnNat`); the provers know no power operator, which is why the
references use `Powers`. The `ASSUME`s of `MCBlockRelayer` and `MCTxRelayer` have TLC check that
the hypotheses of the relayers' theorems hold of the instances the runs explore.

## Plan

Done, in this order: the header relay with the abstract `BoundedChain` and the reference
`ConsensusRules`; its inductive invariant; the block relayer; the bridge's
transactions and their proofs; the transaction relayer; Merkle proofs, checked and proved;
byte arithmetic; the faucet; the ring, the window and the refinement, the consensus rules
and the faucet proved; byte arithmetic, Merkle roots, the block relayer and the mints of the
transaction relayer proved.

What is left:

1. `WindowIsOneChain` with fork accounts whose base is never orphaned, and from it
   `MintsAreBuried`.
2. Liveness, once the prover can express it.

## Not modelled

- Events, error codes and instruction decoding: they change no account.
- `block_height` and `get_deposit_address`: they change no state.
- The bridge form (`bridge_form/index.html`), command line and configuration: no decisions of
  their own.
- `utils/txutils.rs` and `utils/txverify.rs`: part of no crate, nothing includes them.
- The burn and withdrawal path and the bridge nodes of the diagrams: there is no code for them.
- The contents of Bitcoin transactions: parsing is the `bitcoin` crate's; what is found in them is
  `Outputs`.

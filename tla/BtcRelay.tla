------------------------------ MODULE BtcRelay ------------------------------
(***************************************************************************)
(* The header relay of the on-chain program (programs/btc-relay/src/       *)
(* lib.rs): one main state account shared by every caller, and one fork    *)
(* account for each fork id and signer. An instruction is one transaction: *)
(* it takes effect as a whole or, when a require! fails or an arithmetic   *)
(* check panics, not at all. Interleaving is therefore at the granularity  *)
(* of instructions, and a caller's knowledge is in the committed header it *)
(* passes, which may be any commitment published so far.                   *)
(*                                                                         *)
(* The topic accounts of the headers, used for indexing only, are taken to *)
(* be the right ones.                                                      *)
(***************************************************************************)
EXTENDS MainState

CONSTANTS
  Checkpoints,   \* what initialize may be called with
  Batches,       \* the lists of headers callers submit
  Signers,       \* the accounts that sign fork submissions
  MaxForks,      \* bound: fork ids in use
  InitialTime,   \* the cluster's clock at the beginning
  MaxTime,       \* bound on that clock
  NoMainState,   \* the main state account does not exist yet
  NoFork         \* a fork account that does not exist

ForkIds == 0..(MaxForks - 1)

ForkState ==
  [start_height : Nat, tip_commit_hash : CommittedBlockHeader,
   tip_block_hash : Hash, block_commitments : Seq(CommittedBlockHeader)]

ASSUME RelayAssumption ==
  /\ Checkpoints \subseteq CommittedBlockHeader
  /\ Batches \subseteq Seq(Headers)
  /\ MaxForks \in Nat
  /\ InitialTime \in Nat /\ MaxTime \in Nat
  /\ NoMainState \notin MainState
  /\ NoFork \notin ForkState

VARIABLES
  main_state,   \* the account at the seeds "state"
  forks,        \* the accounts at the seeds "fork", fork id, signer
  now           \* Clock::unix_timestamp

vars == <<main_state, forks, now>>

Initialized == main_state # NoMainState

-----------------------------------------------------------------------------
(* The instructions. *)

Init ==
  /\ main_state = NoMainState
  /\ forks = [f \in ForkIds \X Signers |-> NoFork]
  /\ now = InitialTime

\* initialize: the caller's arguments are the fields of the committed header c.
Initialize(c) ==
  /\ ~Initialized
  /\ main_state' =
       [start_height |-> c.blockheight,
        last_diff_adjustment |-> c.last_diff_adjustment,
        block_height |-> c.blockheight,
        total_blocks |-> 1,
        fork_counter |-> 0,
        tip_commit_hash |-> c,
        tip_block_hash |-> c.header.hash,
        chain_work |-> c.chain_work,
        block_commitments |->
          [s \in Slots |-> IF s = 0 THEN c ELSE NoCommitment]]
  /\ UNCHANGED <<forks, now>>

\* Faulty variant: any stored commitment will do.
IsAnyCommitment(c) == \E s \in Slots : c = main_state.block_commitments[s]

\* The commitment stored at the tip's height is c's.
IsTipCommitment(c) ==
  /\ ~LookupPanics(main_state, main_state.block_height)
  /\ c = get_commitment(main_state, main_state.block_height)

\* submit_block_headers: extend the tip.
SubmitBlockHeaders(c, data) ==
  /\ Initialized
  /\ data # <<>>
  /\ IsTipCommitment(c)
  /\ HeadersVerify(c, data, now)
  /\ LET height == main_state.block_height
         commits == CommittedHeaders(c, data)
     IN  main_state' = WithTip(StoreAbove(main_state, height, Len(data), commits),
                               commits[Len(data)], height + Len(data))
  /\ UNCHANGED <<forks, now>>

\* The commitment stored at c's height is c's.
IsMainChainBlock(c) ==
  /\ ~LookupPanics(main_state, c.blockheight)
  /\ c = get_commitment(main_state, c.blockheight)

\* Faulty variants: a fork of equal work wins, any fork wins.
NotLighter(c, m) == c.chain_work >= m.chain_work
AnyWeight(c, m) == TRUE

\* arrayutils::gt_arr on the accumulated works.
Outweighs(c, m) == c.chain_work > m.chain_work

\* submit_short_fork_headers: replace everything above a stored block c by a
\* chain of strictly more work, in one transaction.
SubmitShortForkHeaders(c, data) ==
  /\ Initialized
  /\ data # <<>>
  /\ IsMainChainBlock(c)
  /\ HeadersVerify(c, data, now)
  /\ LET commits == CommittedHeaders(c, data)
         tip == commits[Len(data)]
     IN  /\ Outweighs(tip, main_state)
         /\ main_state' =
              [WithTip(StoreAbove(main_state, c.blockheight, Len(data), commits),
                       tip, c.blockheight + Len(data))
                 EXCEPT !.fork_counter = @ + 1]
  /\ UNCHANGED <<forks, now>>

\* Faulty variant: every call moves the start of the fork.
RestartedFork(fork, tip, commits) ==
  [start_height |-> commits[1].blockheight - 1, tip_commit_hash |-> tip,
   tip_block_hash |-> tip.header.hash,
   block_commitments |-> fork.block_commitments \o commits]

\* The fork account after the loop of ForkState::store_block_commitment.
GrownFork(fork, tip, commits) ==
  [start_height |-> fork.start_height, tip_commit_hash |-> tip,
   tip_block_hash |-> tip.header.hash,
   block_commitments |-> fork.block_commitments \o commits]

\* Faulty variant: the fork replaces its own base.
StoreForkOneTooLow(m, fork) ==
  StoreAbove(m, fork.start_height - 1, Len(fork.block_commitments),
             fork.block_commitments)

\* The fork's whole buffer overwrites the main chain above the start height.
StoreFork(m, fork) ==
  StoreAbove(m, fork.start_height, Len(fork.block_commitments),
             fork.block_commitments)

\* The common end of submit_fork_headers, for the fork account at f: append to
\* the buffer, whose overflow panics, and adopt the fork and close its account
\* as soon as it is heavier than the main chain. m is the main state so far.
GrowFork(m, f, fork, c, data) ==
  LET tip == CommittedHeaders(c, data)[Len(data)]
      grown == GrownFork(fork, tip, NewCommitments(c, data))
  IN  /\ Len(grown.block_commitments) <= PRUNING_FACTOR
      /\ IF Outweighs(tip, m)
         THEN /\ main_state' = WithTip(StoreFork(m, grown), tip,
                                       c.blockheight + Len(data))
              /\ forks' = [forks EXCEPT ![f] = NoFork]
         ELSE /\ main_state' = m
              /\ forks' = [forks EXCEPT ![f] = grown]

\* Faulty variant: the id is not compared with the counter.
AnyForkId(fork_id) == fork_id \in ForkIds

IsNextForkId(fork_id) == main_state.fork_counter = fork_id

\* submit_fork_headers with init = true: the account is created by the same
\* transaction, and c has to be a block of the main chain.
OpenFork(signer, fork_id, c, data) ==
  /\ Initialized
  /\ data # <<>>
  /\ forks[fork_id, signer] = NoFork
  /\ IsNextForkId(fork_id)
  /\ IsMainChainBlock(c)
  /\ HeadersVerify(c, data, now)
  /\ GrowFork([main_state EXCEPT !.fork_counter = fork_id + 1],
              <<fork_id, signer>>,
              [start_height |-> c.blockheight, block_commitments |-> <<>>],
              c, data)
  /\ UNCHANGED now

\* submit_fork_headers with init = false: c has to be the fork's own tip.
ExtendFork(signer, fork_id, c, data) ==
  /\ Initialized
  /\ data # <<>>
  /\ forks[fork_id, signer] # NoFork
  /\ c = forks[fork_id, signer].tip_commit_hash
  /\ HeadersVerify(c, data, now)
  /\ GrowFork(main_state, <<fork_id, signer>>, forks[fork_id, signer], c, data)
  /\ UNCHANGED now

\* close_fork_account: the account's seeds hold the signer, who is its owner.
CloseForkAccount(signer, fork_id) ==
  /\ forks[fork_id, signer] # NoFork
  /\ forks' = [forks EXCEPT ![<<fork_id, signer>>] = NoFork]
  /\ UNCHANGED <<main_state, now>>

\* The cluster's clock.
Tick ==
  /\ now < MaxTime
  /\ now' = now + 1
  /\ UNCHANGED <<main_state, forks>>

-----------------------------------------------------------------------------

LiveForks == {f \in ForkIds \X Signers : forks[f] # NoFork}

\* The committed headers a caller can know of: those in the ring buffer, the
\* overwritten positions of abandoned branches included, and the forks' tips.
\* With any other committed header every instruction fails.
PublishedCommitments ==
  IF Initialized
  THEN ({main_state.block_commitments[s] : s \in Slots} \ {NoCommitment})
         \cup {forks[f].tip_commit_hash : f \in LiveForks}
  ELSE {}

Next ==
  \/ \E c \in Checkpoints : Initialize(c)
  \/ \E c \in PublishedCommitments, data \in Batches : SubmitBlockHeaders(c, data)
  \/ \E c \in PublishedCommitments, data \in Batches : SubmitShortForkHeaders(c, data)
  \/ \E signer \in Signers, fork_id \in ForkIds,
        c \in PublishedCommitments, data \in Batches :
       OpenFork(signer, fork_id, c, data)
  \/ \E signer \in Signers, fork_id \in ForkIds,
        c \in PublishedCommitments, data \in Batches :
       ExtendFork(signer, fork_id, c, data)
  \/ \E signer \in Signers, fork_id \in ForkIds : CloseForkAccount(signer, fork_id)
  \/ Tick

Spec == Init /\ [][Next]_vars

-----------------------------------------------------------------------------
(* What can be verified against the main chain. *)

\* A committed header passes the check of verify_small_tx and of the submit
\* instructions exactly when the commitment at its own height is its own.
Retained(m, h) ==
  /\ ~LookupPanics(m, h)
  /\ get_commitment(m, h) # NoCommitment
  /\ get_commitment(m, h).blockheight = h

RetainedHeights(m) ==
  {h \in (m.block_height - PRUNING_FACTOR + 1)..m.block_height : Retained(m, h)}

IsChild(c, d) ==
  /\ d.header.reversed_prev_blockhash = c.header.hash
  /\ d.blockheight = c.blockheight + 1
  /\ d.chain_work = c.chain_work + Difficulty[d.header.nbits]

-----------------------------------------------------------------------------
(* Properties. *)

\* The account values have the types of state.rs.
TypeOK ==
  /\ main_state \in MainState \cup {NoMainState}
  /\ forks \in [ForkIds \X Signers -> ForkState \cup {NoFork}]
  /\ now \in Nat

\* The four tip fields, which three instructions update separately from the
\* ring buffer, always describe one and the same committed header.
TipIsOneHeader ==
  Initialized =>
    LET tip == main_state.tip_commit_hash
    IN  /\ main_state.block_height = tip.blockheight
        /\ main_state.chain_work = tip.chain_work
        /\ main_state.last_diff_adjustment = tip.last_diff_adjustment
        /\ main_state.tip_block_hash = tip.header.hash

\* The relay can go on from wherever it was started: submit_block_headers
\* accepts the tip's own commitment. lib.rs:25-26 lets the relay start at any
\* past block; below PRUNING_FACTOR the lookup panics (state.rs:67).
RelayCanAdvance ==
  Initialized => IsTipCommitment(main_state.tip_commit_hash)

\* Past that height the tip is stored, although all callers ignore whether
\* store_block_commitment refused it (lib.rs:122, 192, 328). When it was
\* refused, the relay accepts nothing on top of its own tip. It is refused to a
\* fork account that is heavier than the main chain and a turn lower, which
\* takes a rise in difficulty.
TipIsStored ==
  Initialized /\ main_state.block_height >= PRUNING_FACTOR =>
    get_commitment(main_state, main_state.block_height)
      = main_state.tip_commit_hash

\* The blocks that verify form one hash-linked chain without gaps that ends in
\* the tip, however the ring buffer wrapped and whatever forks replaced.
WindowIsOneChain ==
  Initialized =>
    \A h \in RetainedHeights(main_state) :
      LET c == get_commitment(main_state, h)
      IN  IF h = main_state.block_height THEN c = main_state.tip_commit_hash
          ELSE /\ Retained(main_state, h + 1)
               /\ IsChild(c, get_commitment(main_state, h + 1))

\* Nothing recent is lost: every height of the last PRUNING_FACTOR ones, down
\* to the checkpoint, can be verified.
WindowIsFull ==
  Initialized =>
    \E c \in Checkpoints :
      \A h \in (main_state.block_height - PRUNING_FACTOR + 1)
                  ..main_state.block_height :
        h >= c.blockheight => Retained(main_state, h)

\* No commitment the program holds, in an abandoned slot of the ring or in a
\* fork still being submitted, is heavier than the tip: the heaviest chain
\* whose headers arrived is the main chain.
NothingHeavierThanTip ==
  Initialized =>
    /\ \A s \in Slots :
         LET c == main_state.block_commitments[s]
         IN  c # NoCommitment => c.chain_work <= main_state.chain_work
    /\ \A f \in LiveForks :
         \A i \in 1..Len(forks[f].block_commitments) :
           forks[f].block_commitments[i].chain_work <= main_state.chain_work

\* A pending fork's buffer is a hash-linked chain whose heights follow its
\* start height and whose last entry is the fork's tip.
ForkBuffersAreChains ==
  \A f \in LiveForks :
    LET buffer == forks[f].block_commitments
        n == Len(buffer)
    IN  /\ n \in 1..PRUNING_FACTOR
        /\ buffer[n] = forks[f].tip_commit_hash
        /\ buffer[n].header.hash = forks[f].tip_block_hash
        /\ \A i \in 1..n : buffer[i].blockheight = forks[f].start_height + i
        /\ \A i \in 1..(n - 1) : IsChild(buffer[i], buffer[i + 1])

\* Two signers racing for the next fork id: an id belongs to one fork at most,
\* and the counter is past every id in use.
ForkIdsAreUnique ==
  \A f, g \in LiveForks :
    /\ f[1] < main_state.fork_counter
    /\ f[1] = g[1] => f = g

\* The slot of the tip's height, where there is one, holds the tip.
TipIsFound ==
  Initialized =>
    LET position == get_position(main_state, main_state.block_height)
    IN  \/ position = PRUNING_FACTOR
        \/ main_state.block_commitments[position] = main_state.tip_commit_hash

\* A fork account exists only next to the main state.
ForksHaveMainState == ~Initialized => LiveForks = {}

\* The inductive invariant: each part needs the others. A step that keeps the
\* works ordered, for instance, has to know that the block it builds on is the
\* tip (TipIsFound) and that the work stored for the tip is the tip's.
RelayInvariant ==
  /\ TypeOK
  /\ TipIsOneHeader
  /\ TipIsFound
  /\ NothingHeavierThanTip
  /\ ForkBuffersAreChains
  /\ ForkIdsAreUnique
  /\ ForksHaveMainState

\* All blocks have the same difficulty, as within one adjustment period.
EqualDifficulty ==
  \A g, h \in Headers : /\ Difficulty[g.nbits] = Difficulty[h.nbits]
                        /\ Difficulty[g.nbits] > 0

\* The slot of a height, whether or not it is within reach of get_commitment.
SlotOf(m, h) == m.block_commitments[get_position(m, h)]

\* The ring holds the last turn: of the PRUNING_FACTOR heights that end in
\* `top`, each has its slot, which is empty below the checkpoint c and holds a
\* commitment of that very height from there on. The tip is among them, below
\* `top` after a reorganisation to a shorter chain.
HoldsTurn(m, c, top) ==
  /\ top \in m.start_height..(m.start_height + PRUNING_FACTOR - 1)
  /\ m.block_height \in c.blockheight..top
  /\ m.block_height > top - PRUNING_FACTOR
  /\ \A h \in (top - PRUNING_FACTOR + 1)..top :
       IF h < c.blockheight THEN SlotOf(m, h) = NoCommitment
       ELSE SlotOf(m, h) # NoCommitment /\ SlotOf(m, h).blockheight = h

\* However it wrapped and whatever was rewritten, the ring holds the last turn,
\* and a pending fork starts within it when it is adopted: what the window of
\* verifiable blocks rests on. With forks and mixed difficulty it is not so.
RingHoldsTurn ==
  Initialized =>
    \E c \in Checkpoints,
       top \in main_state.start_height..(main_state.start_height + PRUNING_FACTOR - 1) :
      /\ HoldsTurn(main_state, c, top)
      /\ EqualDifficulty => main_state.block_height = top
      /\ \A f \in LiveForks : forks[f].start_height \in c.blockheight..top

\* The first chain seen wins: the tip changes only to a chain of more work,
\* or to an extension of the same chain whose blocks' difficulty rounds to 0.
ReorgNeedsMoreWork ==
  [][Initialized /\ main_state'.tip_commit_hash # main_state.tip_commit_hash =>
       \/ main_state'.chain_work > main_state.chain_work
       \/ /\ main_state'.chain_work = main_state.chain_work
          /\ main_state'.block_height > main_state.block_height
          /\ \A h \in RetainedHeights(main_state') :
               h <= main_state.block_height =>
                 get_commitment(main_state', h) = get_commitment(main_state, h)
    ]_vars

\* The lookup panics from the start or never (state.rs:67). A relay started
\* below PRUNING_FACTOR stays where it was put: no header is ever accepted, no
\* fork is ever opened and adopted. One started above never falls below, not
\* by a short fork nor by a fork of any age.
PanicsFromStartOrNever ==
  [][Initialized => IF main_state.block_height < PRUNING_FACTOR
                    THEN UNCHANGED main_state
                    ELSE main_state'.block_height >= PRUNING_FACTOR]_vars

\* Adopting a fork whose base is still a block of the main chain leaves one
\* chain again: the base is linked to the first block of the fork.
AdoptedForkIsLinked ==
  [][\A f \in LiveForks :
       LET start == forks[f].start_height
           buffer == forks[f].block_commitments
       IN  /\ main_state'.chain_work > main_state.chain_work
           /\ forks'[f] = NoFork
           /\ Retained(main_state, start)
           /\ get_commitment(main_state, start).header.hash
                = buffer[1].header.reversed_prev_blockhash
           /\ WindowIsOneChain
           => WindowIsOneChain'
    ]_vars

-----------------------------------------------------------------------------
(* The abstract specification. *)

\* The window of verifiable blocks, oldest first.
Window ==
  IF ~Initialized THEN <<>>
  ELSE LET heights == RetainedHeights(main_state)
           lowest == main_state.block_height + 1 - Cardinality(heights)
       IN  [i \in 1..Cardinality(heights) |->
              get_commitment(main_state, lowest + i - 1)]

WorkOf(c) == c.chain_work

Chain == INSTANCE BoundedChain WITH
  chain <- Window, Capacity <- PRUNING_FACTOR, Follows <- IsChild

\* Without fork accounts the program implements a bounded chain: only a
\* strictly heavier chain rewrites blocks, and what it rewrites, keeps and
\* prunes is what the abstract chain does in one step.
ImplementsBoundedChain == Chain!ChainSpec

=============================================================================

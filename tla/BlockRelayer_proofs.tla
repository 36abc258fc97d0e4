------------------------- MODULE BlockRelayer_proofs -------------------------
(***************************************************************************)
(* The block relayer next to bitcoind and the program, for every tree of   *)
(* headers, every interleaving of failing, late and repeated calls with    *)
(* those of other callers, and every size of the ring: the types, that a   *)
(* block is stored once, and that a tip which the relayer can rebuild      *)
(* stays one.                                                              *)
(***************************************************************************)
EXTENDS BlockRelayer, BitcoinNode_proofs

-----------------------------------------------------------------------------
(* The ring, when blocks are only added to the tip. *)

\* From commitment c on, the ring holds a linked chain that ends in the tip.
ChainSince(m, c) ==
  /\ HoldsTurn(m, c, m.block_height)
  /\ \A h \in (m.block_height - PRUNING_FACTOR + 1)..(m.block_height - 1) :
       h >= c.blockheight => IsChild(SlotOf(m, h), SlotOf(m, h + 1))

OneChain(m) ==
  /\ GoodMain(m)
  /\ m.block_height >= BaseHeight
  /\ \E c \in CommittedBlockHeader : ChainSince(m, c)

LEMMA InitializeOneChain ==
  ASSUME NEW c \in CommittedBlockHeader, c.blockheight >= BaseHeight, Initialize(c)
  PROVE  OneChain(main_state')
<1> DEFINE t == main_state'
<1>1. GoodMain(t) /\ t \in MainState
  BY InitializeMain DEF GoodMain
<1>2. /\ t.start_height = c.blockheight /\ t.block_height = c.blockheight
      /\ t.block_commitments = [s \in Slots |-> IF s = 0 THEN c ELSE NoCommitment]
  BY DEF Initialize
<1> HIDE DEF t
<1>3. HoldsTurn(t, c, t.block_height)
  BY <1>1, <1>2, StartHoldsTurn
<1>4. \A h \in (t.block_height - PRUNING_FACTOR + 1)..(t.block_height - 1) :
        ~(h >= c.blockheight)
  BY <1>2 DEF CommittedBlockHeader
<1>5. QED
  BY <1>1, <1>2, <1>3, <1>4 DEF OneChain, ChainSince, t

\* The slots of the heights up to the tip after a chain was stored above it.
LEMMA ExtensionKeepsTurn ==
  ASSUME NEW m \in MainState, NEW c \in CommittedBlockHeader, NEW a \in Nat,
         HoldsTurn(m, c, a), a \in c.blockheight..a, a > a - PRUNING_FACTOR,
         NEW t, NEW n, NEW commits, Rewrites(m, t, a, n, commits)
  PROVE  /\ HoldsTurn(t, c, TurnEnd(a, a + n))
         /\ \A h \in (TurnEnd(a, a + n) - PRUNING_FACTOR + 1)..TurnEnd(a, a + n) :
              IF h \in (a + 1)..(a + n) THEN SlotOf(t, h) = commits[h - a]
              ELSE /\ SlotOf(t, h) = SlotOf(m, h)
                   /\ h \in (a - PRUNING_FACTOR + 1)..a
<1>1. a \in Int
  OBVIOUS
<1>2. QED
  BY <1>1, RewriteKeepsTurn

\* A chain that is stored above the tip continues the one in the ring.
LEMMA ExtensionKeepsChain ==
  ASSUME NEW m \in MainState, NEW c \in CommittedBlockHeader, ChainSince(m, c),
         NEW t, NEW a \in Nat, a = m.block_height, NEW n, NEW commits,
         Rewrites(m, t, a, n, commits), IsChild(SlotOf(m, a), commits[1])
  PROVE  ChainSince(t, c)
<1>1. /\ n \in Nat \ {0}
      /\ t.block_height = a + n
      /\ \A i \in 1..(n - 1) : IsChild(commits[i], commits[i + 1])
  BY DEF Rewrites, LinkedAbove
<1>2. PRUNING_FACTOR \in Nat \ {0} /\ c.blockheight \in Nat
  BY RingAssumption DEF CommittedBlockHeader
<1>3. HoldsTurn(m, c, a) /\ a \in c.blockheight..a /\ a > a - PRUNING_FACTOR
  BY <1>2 DEF ChainSince, HoldsTurn
<1> DEFINE top == a + n
<1>4. TurnEnd(a, a + n) = top
  BY <1>1 DEF TurnEnd
<1>5. /\ HoldsTurn(t, c, TurnEnd(a, a + n))
      /\ \A h \in (TurnEnd(a, a + n) - PRUNING_FACTOR + 1)..TurnEnd(a, a + n) :
           IF h \in (a + 1)..(a + n) THEN SlotOf(t, h) = commits[h - a]
           ELSE /\ SlotOf(t, h) = SlotOf(m, h)
                /\ h \in (a - PRUNING_FACTOR + 1)..a
  BY <1>3, ExtensionKeepsTurn
<1>6. top \in Int /\ top = a + n /\ t.block_height = top
  BY <1>1
<1> HIDE DEF top
<1>7. /\ HoldsTurn(t, c, top)
      /\ \A h \in (top - PRUNING_FACTOR + 1)..top :
           IF h \in (a + 1)..(a + n) THEN SlotOf(t, h) = commits[h - a]
           ELSE /\ SlotOf(t, h) = SlotOf(m, h)
                /\ h \in (a - PRUNING_FACTOR + 1)..a
  BY <1>4, <1>5
<1>8. ASSUME NEW h \in (top - PRUNING_FACTOR + 1)..(top - 1), h >= c.blockheight
      PROVE  IsChild(SlotOf(t, h), SlotOf(t, h + 1))
  <2>1. /\ h \in (top - PRUNING_FACTOR + 1)..top
        /\ h + 1 \in (top - PRUNING_FACTOR + 1)..top
        /\ h \in Int
    BY <1>2, <1>6
  <2>2. CASE h > a
    <3>1. /\ h \in (a + 1)..(a + n) /\ h + 1 \in (a + 1)..(a + n)
          /\ h - a \in 1..(n - 1) /\ (h + 1) - a = (h - a) + 1
      BY <1>1, <1>6, <2>1, <2>2
    <3>2. SlotOf(t, h) = commits[h - a] /\ SlotOf(t, h + 1) = commits[(h - a) + 1]
      BY <1>7, <2>1, <3>1
    <3>3. QED
      BY <1>1, <3>1, <3>2
  <2>3. CASE h = a
    <3>1. h \notin (a + 1)..(a + n) /\ h + 1 \in (a + 1)..(a + n) /\ (h + 1) - a = 1
      BY <1>1, <2>3
    <3>2. SlotOf(t, h) = SlotOf(m, a) /\ SlotOf(t, h + 1) = commits[1]
      BY <1>7, <2>1, <2>3, <3>1
    <3>3. QED
      BY <3>2
  <2>4. CASE h < a
    <3>1. h \notin (a + 1)..(a + n) /\ h + 1 \notin (a + 1)..(a + n)
      BY <1>1, <2>1, <2>4
    <3>2. /\ SlotOf(t, h) = SlotOf(m, h) /\ SlotOf(t, h + 1) = SlotOf(m, h + 1)
          /\ h \in (a - PRUNING_FACTOR + 1)..a
      BY <1>7, <2>1, <3>1
    <3>3. h \in (m.block_height - PRUNING_FACTOR + 1)..(m.block_height - 1)
      BY <1>2, <2>1, <2>4, <3>2
    <3>4. QED
      BY <1>8, <3>2, <3>3 DEF ChainSince
  <2>5. QED
    BY <2>1, <2>2, <2>3, <2>4
<1>9. \A h \in (t.block_height - PRUNING_FACTOR + 1)..(t.block_height - 1) :
        h >= c.blockheight => IsChild(SlotOf(t, h), SlotOf(t, h + 1))
  BY <1>6, <1>8, Zenon
<1>10. QED
  BY <1>6, <1>7, <1>9, Zenon DEF ChainSince

\* Whoever submits, and whatever batch.
LEMMA SubmitOneChain ==
  ASSUME OneChain(main_state), NEW x \in CommittedBlockHeader,
         NEW data \in Seq(Headers), SubmitBlockHeaders(x, data)
  PROVE  OneChain(main_state')
<1> DEFINE m == main_state
           t == main_state'
           n == Len(data)
           commits == CommittedHeaders(x, data)
<1>1. PICK c \in CommittedBlockHeader : ChainSince(m, c)
  BY DEF OneChain
<1>2. GoodMain(m) /\ m \in MainState /\ m.block_height >= BaseHeight
  BY DEF OneChain, GoodMain
<1>3. GoodMain(t) /\ x = m.tip_commit_hash
  BY <1>2, SubmitBlockHeadersMain
<1>4. /\ x.blockheight = m.block_height
      /\ IsChild(x, commits[1])
      /\ Rewrites(m, t, x.blockheight, n, commits)
  BY <1>2, SubmitBlockHeadersRewrites
<1>5. /\ n \in Nat \ {0} /\ m.block_height \in Nat /\ m.block_height \in Int
      /\ t.block_height = m.block_height + n
  BY <1>4 DEF Rewrites, LinkedAbove
<1>6. SlotOf(m, m.block_height) = x
  <2>1. HoldsTurn(m, c, m.block_height)
    BY <1>1 DEF ChainSince
  <2>2. QED
    BY <1>2, <1>3, <1>5, <2>1, TipInSlot
<1> HIDE DEF n, commits, t, m
<1>7. ChainSince(t, c)
  BY <1>1, <1>2, <1>4, <1>5, <1>6, ExtensionKeepsChain
<1>8. t.block_height >= BaseHeight
  BY <1>2, <1>5, NodeAssumption
<1>9. QED
  BY <1>3, <1>7, <1>8 DEF OneChain, t

\* In one chain a commitment of the ring is of the height of its slot, and its
\* header that much below the tip's.
LEMMA SlotsAreHeights ==
  ASSUME HeadersAreTree, NEW m, OneChain(m), NEW s \in Slots,
         m.block_commitments[s] # NoCommitment
  PROVE  LET x == m.block_commitments[s]
         IN  /\ x \in CommittedBlockHeader
             /\ get_position(m, x.blockheight) = s
             /\ Height[x.header] =
                  Height[m.tip_commit_hash.header] - (m.block_height - x.blockheight)
<1> DEFINE top == m.block_height
           base == m.start_height
           tip == m.tip_commit_hash
           Below(k) == (top - k > top - PRUNING_FACTOR /\ top - k >= BaseHeight)
<1>1. PICK c \in CommittedBlockHeader : ChainSince(m, c)
  BY DEF OneChain
<1>2. /\ GoodMain(m) /\ m \in MainState /\ top \in Nat /\ base \in Nat
      /\ PRUNING_FACTOR \in Nat \ {0} /\ c.blockheight \in Nat
  BY RingAssumption DEF OneChain, GoodMain, MainState, CommittedBlockHeader
<1>3. /\ HoldsTurn(m, c, top) /\ top \in base..(base + PRUNING_FACTOR - 1)
      /\ \A h \in (top - PRUNING_FACTOR + 1)..top :
           IF h < c.blockheight THEN SlotOf(m, h) = NoCommitment
           ELSE SlotOf(m, h) # NoCommitment /\ SlotOf(m, h).blockheight = h
      /\ \A h \in (top - PRUNING_FACTOR + 1)..(top - 1) :
           h >= c.blockheight => IsChild(SlotOf(m, h), SlotOf(m, h + 1))
  BY <1>1 DEF ChainSince, HoldsTurn
<1>4. tip \in CommittedBlockHeader /\ SlotOf(m, top) = tip
  BY <1>2, <1>3, TipInSlot
<1>5. \A h \in (top - PRUNING_FACTOR + 1)..top :
        h >= c.blockheight => SlotOf(m, h) \in CommittedBlockHeader
  <2> TAKE h \in (top - PRUNING_FACTOR + 1)..top
  <2>1. InReach(m, h) /\ h \in Int
    BY <1>2, <1>3 DEF InReach
  <2>2. get_position(m, h) \in Slots
    BY <1>2, <2>1, PositionInReach
  <2>3. QED
    BY <1>2, <1>3, <2>1, <2>2 DEF SlotOf, MainState, Commitment
<1> DEFINE T == {k \in Nat : k < PRUNING_FACTOR /\ top - k >= c.blockheight =>
                   Height[SlotOf(m, top - k).header] = Height[tip.header] - k}
<1> HIDE DEF top, base, tip
<1>6. Height[tip.header] \in Nat
  BY <1>4, HeightType DEF CommittedBlockHeader
<1>7. 0 \in T
  BY <1>2, <1>4, <1>6
<1>8. ASSUME NEW k \in Nat, k \in T PROVE k + 1 \in T
  <2>1. SUFFICES ASSUME k + 1 < PRUNING_FACTOR, top - (k + 1) >= c.blockheight
                 PROVE  Height[SlotOf(m, top - (k + 1)).header] = Height[tip.header] - (k + 1)
    OBVIOUS
  <2> DEFINE h == top - (k + 1)
  <2>2. /\ h \in (top - PRUNING_FACTOR + 1)..(top - 1)
        /\ h \in (top - PRUNING_FACTOR + 1)..top
        /\ h + 1 \in (top - PRUNING_FACTOR + 1)..top
        /\ h + 1 = top - k /\ h + 1 >= c.blockheight /\ h >= c.blockheight
    BY <1>2, <2>1
  <2>3. Height[SlotOf(m, h + 1).header] = Height[tip.header] - k
    BY <1>2, <1>8, <2>1, <2>2
  <2> HIDE DEF h
  <2>4. /\ SlotOf(m, h) \in CommittedBlockHeader
        /\ SlotOf(m, h + 1) \in CommittedBlockHeader
        /\ IsChild(SlotOf(m, h), SlotOf(m, h + 1))
    BY <1>3, <1>5, <2>2
  <2>5. Height[SlotOf(m, h + 1).header] = Height[SlotOf(m, h).header] + 1
    BY <2>4, ChildIsHigher DEF IsChild, CommittedBlockHeader
  <2>6. Height[SlotOf(m, h).header] \in Nat
    BY <2>4, HeightType DEF CommittedBlockHeader
  <2>7. Height[SlotOf(m, h).header] = Height[tip.header] - (k + 1)
    BY <1>6, <2>3, <2>5, <2>6
  <2>8. QED
    BY <2>7 DEF h
<1>9. Nat \subseteq T
  <2> HIDE DEF T
  <2>1. QED
    BY <1>7, <1>8, SetInductionOnNat
<1> DEFINE h == IF base + s <= top THEN base + s ELSE base + s - PRUNING_FACTOR
<1>10. h \in (top - PRUNING_FACTOR + 1)..top /\ h \in Int
  BY <1>2, <1>3 DEF Slots
<1>11. get_position(m, h) = s
  <2>1. InReach(m, h)
    BY <1>2, <1>3, <1>10 DEF InReach, base
  <2>2. get_position(m, h) = IF h >= base THEN h - base ELSE h - base + PRUNING_FACTOR
    BY <1>2, <1>10, <2>1, PositionInReach DEF base
  <2>3. QED
    BY <1>2, <1>3, <2>2 DEF Slots
<1> HIDE DEF h
<1>12. SlotOf(m, h) = m.block_commitments[s]
  BY <1>11 DEF SlotOf
<1>13. h >= c.blockheight /\ SlotOf(m, h).blockheight = h
  BY <1>2, <1>3, <1>10, <1>12
<1>14. SlotOf(m, h) \in CommittedBlockHeader
  BY <1>5, <1>10, <1>13
<1>15. Height[SlotOf(m, h).header] = Height[tip.header] - (top - h)
  <2>1. /\ top - h \in Nat /\ top - h < PRUNING_FACTOR
        /\ top - (top - h) = h
    BY <1>2, <1>10
  <2>2. QED
    BY <1>9, <1>13, <2>1
<1>16. QED
  BY <1>11, <1>12, <1>13, <1>14, <1>15 DEF top, tip

LEMMA OneChainStoresOnce ==
  ASSUME HeadersAreTree, OneChain(main_state)
  PROVE  StoredOnce
<1>1. ASSUME NEW s \in Slots, NEW t \in Slots,
             main_state.block_commitments[s] # NoCommitment,
             main_state.block_commitments[t] # NoCommitment,
             main_state.block_commitments[s].header =
               main_state.block_commitments[t].header
      PROVE  s = t
  <2> DEFINE x == main_state.block_commitments[s]
             y == main_state.block_commitments[t]
             top == main_state.block_height
             tip == main_state.tip_commit_hash
  <2>1. /\ x \in CommittedBlockHeader
        /\ get_position(main_state, x.blockheight) = s
        /\ Height[x.header] = Height[tip.header] - (top - x.blockheight)
    BY <1>1, SlotsAreHeights
  <2>2. /\ y \in CommittedBlockHeader
        /\ get_position(main_state, y.blockheight) = t
        /\ Height[y.header] = Height[tip.header] - (top - y.blockheight)
    BY <1>1, SlotsAreHeights
  <2>3. x.blockheight \in Nat /\ y.blockheight \in Nat /\ x.header \in Headers
    BY <2>1, <2>2 DEF CommittedBlockHeader
  <2>4. top \in Nat /\ Height[tip.header] \in Nat
    <3>1. /\ main_state \in MainState
      BY DEF OneChain, GoodMain
    <3>2. tip.header \in Headers
      BY <3>1 DEF MainState, CommittedBlockHeader
    <3>3. QED
      BY <3>1, <3>2, HeightType DEF MainState
  <2>5. x.header = y.header
    BY <1>1
  <2> HIDE DEF x, y, top, tip
  <2>6. x.blockheight = y.blockheight
    BY <2>1, <2>2, <2>3, <2>4, <2>5
  <2>7. QED
    BY <2>1, <2>2, <2>6
<1>2. QED
  BY <1>1 DEF StoredOnce

-----------------------------------------------------------------------------
(* The relayer's loop. *)

\* An account as get_account can have read it.
IsReadable(data) ==
  /\ data \in MainState
  /\ data.block_height >= BaseHeight
  /\ \E h \in Headers : h.hash = data.tip_block_hash

LEMMA OneChainIsReadable ==
  ASSUME NEW m, OneChain(m)
  PROVE  IsReadable(m)
<1>1. m \in MainState /\ m.block_height >= BaseHeight /\ TipFields(m)
  BY DEF OneChain, GoodMain
<1>2. m.tip_commit_hash.header \in Headers
  BY <1>1 DEF MainState, CommittedBlockHeader
<1>3. m.tip_block_hash = m.tip_commit_hash.header.hash
  BY <1>1 DEF TipFields
<1>4. QED
  BY <1>1, <1>2, <1>3 DEF IsReadable

LEMMA ReconstructionType ==
  ASSUME NEW data, IsReadable(data),
         NEW timestamps \in [1..PREV_TIMESTAMPS -> Nat]
  PROVE  tip_commited_header(data, timestamps) \in CommittedBlockHeader
<1>1. (CHOOSE h \in Headers : h.hash = data.tip_block_hash) \in Headers
  BY DEF IsReadable
<1>2. data.block_height \in Nat /\ data.last_diff_adjustment \in Nat
  BY DEF IsReadable, MainState
<1>3. QED
  BY <1>1, <1>2 DEF tip_commited_header, reconstruct_commited_header, CommittedBlockHeader

LEMMA InitialHeaderType ==
  ASSUME HeadersAreTree, NEW h \in Headers
  PROVE  /\ InitialHeader(h) \in CommittedBlockHeader
         /\ InitialHeader(h).blockheight >= BaseHeight
<1>1. Height[h] \in Nat /\ Height[h] >= BaseHeight
  BY HeightType
<1>2. h.timestamp \in Nat
  BY HeadersAssumption DEF BlockHeader
<1>3. QED
  BY <1>1, <1>2 DEF InitialHeader, CommittedBlockHeader

AccountsInvariant ==
  /\ now \in Nat
  /\ forks \in [ForkIds \X Signers -> ForkState \cup {NoFork}]
  /\ LiveForks = {}
  /\ main_state = NoMainState \/ OneChain(main_state)

LoopInvariant ==
  /\ step \in {"get_account", "get_timestamps", "get_best_block", "get_block",
               "confirm"}
  /\ main_state_data \in MainState \cup {NoMainState}
  /\ step # "get_account" => IsReadable(main_state_data)
  /\ prev_block_timestamps \in Seq(Nat)
  /\ Len(prev_block_timestamps) <= PREV_TIMESTAMPS
  /\ step = "get_account" => prev_block_timestamps = <<>>
  /\ step = "get_timestamps" => Len(prev_block_timestamps) < PREV_TIMESTAMPS
  /\ step \in {"get_best_block", "get_block"} =>
       Len(prev_block_timestamps) = PREV_TIMESTAMPS
  /\ submission # NoSubmission <=> step = "confirm"
  /\ in_flight \subseteq Submission

RelayerInvariant == AccountsInvariant /\ NodeInvariant /\ LoopInvariant

LEMMA RelayerInitInvariant ==
  ASSUME RelayerInit
  PROVE  RelayerInvariant
<1>1. AccountsInvariant
  BY RelayAssumption DEF RelayerInit, Init, AccountsInvariant, LiveForks
<1>2. NodeInvariant
  BY NodeInitInvariant DEF RelayerInit
<1>3. LoopInvariant
  BY ParameterAssumption DEF RelayerInit, LoopInvariant
<1>4. QED
  BY <1>1, <1>2, <1>3 DEF RelayerInvariant

LEMMA NextRoundInvariant ==
  ASSUME NextRound, in_flight' \subseteq Submission
  PROVE  LoopInvariant'
BY ParameterAssumption DEF NextRound, LoopInvariant

\* The steps of the loop.
LEMMA GetAccountInvariant ==
  ASSUME RelayerInvariant, GetAccount
  PROVE  LoopInvariant'
<1>1. /\ step' = "get_timestamps" /\ main_state_data' = main_state
      /\ prev_block_timestamps' = prev_block_timestamps
      /\ submission' = submission /\ in_flight' = in_flight
      /\ step = "get_account"
  BY DEF GetAccount
<1>2. IsReadable(main_state)
  BY OneChainIsReadable DEF GetAccount, Initialized, RelayerInvariant, AccountsInvariant
<1>3. /\ prev_block_timestamps = <<>> /\ submission = NoSubmission
      /\ in_flight \subseteq Submission
  BY <1>1 DEF RelayerInvariant, LoopInvariant
<1>4. main_state \in MainState
  BY <1>2 DEF IsReadable
<1>5. PREV_TIMESTAMPS \in Nat \ {0}
  BY ParameterAssumption
<1>6. Len(<<>>) < PREV_TIMESTAMPS /\ <<>> \in Seq(Nat) /\ Len(<<>>) <= PREV_TIMESTAMPS
  BY <1>5
<1>7. IsReadable(main_state_data')
  BY <1>1, <1>2
<1>8. QED
  BY <1>1, <1>3, <1>4, <1>6, <1>7 DEF LoopInvariant

LEMMA GetTimestampInvariant ==
  ASSUME HeadersAreTree, RelayerInvariant, NEW i, GetTimestamp(i)
  PROVE  LoopInvariant'
<1> DEFINE height == main_state_data.block_height
           before == prev_block_timestamps
<1>1. /\ step = "get_timestamps" /\ i = Len(before) /\ CanReadTimestamp(height, i)
      /\ before' = WithTimestamp(before, height, i)
      /\ step' = IF i + 1 = PREV_TIMESTAMPS THEN "get_best_block" ELSE step
      /\ main_state_data' = main_state_data
      /\ submission' = submission /\ in_flight' = in_flight
  BY DEF GetTimestamp
<1>2. /\ IsReadable(main_state_data) /\ before \in Seq(Nat)
      /\ Len(before) < PREV_TIMESTAMPS
      /\ submission = NoSubmission /\ in_flight \subseteq Submission
      /\ main_state_data \in MainState \cup {NoMainState}
  BY <1>1 DEF RelayerInvariant, LoopInvariant
<1>3. height \in Nat /\ height >= BaseHeight
  BY <1>2 DEF IsReadable, MainState
<1>4. PREV_TIMESTAMPS \in Nat \ {0} /\ i \in Nat /\ NodeInvariant
  BY <1>1, <1>2, ParameterAssumption DEF RelayerInvariant
<1> HIDE DEF before, height
<1>5. before' \in Seq(Nat) /\ Len(before') = i + 1
  BY <1>1, <1>2, <1>3, <1>4, ReadTimestamp
<1>6. IsReadable(main_state_data')
  BY <1>1, <1>2
<1>7. QED
  BY <1>1, <1>2, <1>4, <1>5, <1>6 DEF LoopInvariant, before

LEMMA GetBestBlockInvariant ==
  ASSUME RelayerInvariant, GetBestBlock
  PROVE  LoopInvariant'
<1>1. CASE NextRound
  BY <1>1, NextRoundInvariant DEF GetBestBlock, RelayerInvariant, LoopInvariant
<1>2. CASE /\ step' = "get_block"
           /\ UNCHANGED <<main_state_data, prev_block_timestamps, submission>>
  <2>1. step = "get_best_block" /\ in_flight' = in_flight
    BY DEF GetBestBlock
  <2>2. IsReadable(main_state_data')
    BY <1>2, <2>1 DEF RelayerInvariant, LoopInvariant
  <2>3. QED
    BY <1>2, <2>1, <2>2 DEF RelayerInvariant, LoopInvariant
<1>3. QED
  BY <1>1, <1>2 DEF GetBestBlock

LEMMA SubmitBlockInvariant ==
  ASSUME HeadersAreTree, RelayerInvariant, SubmitBlock
  PROVE  LoopInvariant'
<1> DEFINE k == main_state_data.block_height + 1
           c == tip_commited_header(main_state_data, prev_block_timestamps)
<1>1. /\ step = "get_block" /\ step' = "confirm" /\ k <= Height[best]
      /\ submission' = submit_block(ChainOf(best)[k], c)
      /\ in_flight' = in_flight \cup {submission'}
      /\ main_state_data' = main_state_data
      /\ prev_block_timestamps' = prev_block_timestamps
  BY DEF SubmitBlock
<1>2. /\ IsReadable(main_state_data)
      /\ prev_block_timestamps \in Seq(Nat)
      /\ Len(prev_block_timestamps) = PREV_TIMESTAMPS
      /\ in_flight \subseteq Submission
      /\ main_state_data \in MainState \cup {NoMainState}
  BY <1>1 DEF RelayerInvariant, LoopInvariant
<1>3. PREV_TIMESTAMPS \in Nat \ {0} /\ BaseHeight \in Nat /\ best \in Headers
  BY ParameterAssumption, NodeAssumption DEF RelayerInvariant, NodeInvariant
<1>4. prev_block_timestamps \in [1..PREV_TIMESTAMPS -> Nat]
  BY <1>2
<1>5. c \in CommittedBlockHeader
  BY <1>2, <1>4, ReconstructionType
<1>6. ChainOf(best)[k] \in Headers
  <2>1. main_state_data.block_height \in Nat /\ main_state_data.block_height >= BaseHeight
    BY <1>2 DEF IsReadable, MainState
  <2>2. Height[best] \in Nat
    BY <1>3, HeightType
  <2>3. k \in BaseHeight..Height[best]
    BY <1>1, <1>3, <2>1, <2>2
  <2> HIDE DEF k
  <2>4. QED
    BY <1>3, <2>3, ChainOfType
<1>7. submission' \in Submission /\ submission' # NoSubmission
  BY <1>1, <1>5, <1>6, SubmissionAssumption DEF submit_block, Submission
<1>8. in_flight' \subseteq Submission /\ IsReadable(main_state_data')
  BY <1>1, <1>2, <1>7
<1>9. prev_block_timestamps' \in Seq(Nat) /\ Len(prev_block_timestamps') <= PREV_TIMESTAMPS
  BY <1>1, <1>2, <1>3
<1>10. QED
  BY <1>1, <1>2, <1>7, <1>8, <1>9 DEF LoopInvariant

\* The steps of the program.
LEMMA AccountsStep ==
  ASSUME HeadersAreTree, AccountsInvariant,
         \/ \E x \in CommittedBlockHeader : x.blockheight >= BaseHeight /\ Initialize(x)
         \/ \E x \in CommittedBlockHeader, data \in Seq(Headers) :
              SubmitBlockHeaders(x, data)
  PROVE  AccountsInvariant'
<1>1. forks' = forks /\ now' = now
  BY DEF Initialize, SubmitBlockHeaders
<1>2. OneChain(main_state')
  <2>1. ASSUME NEW x \in CommittedBlockHeader, x.blockheight >= BaseHeight, Initialize(x)
        PROVE  OneChain(main_state')
    BY <2>1, InitializeOneChain
  <2>2. ASSUME NEW x \in CommittedBlockHeader, NEW data \in Seq(Headers),
               SubmitBlockHeaders(x, data)
        PROVE  OneChain(main_state')
    <3>1. OneChain(main_state)
      BY <2>2 DEF SubmitBlockHeaders, Initialized, AccountsInvariant
    <3>2. QED
      BY <2>2, <3>1, SubmitOneChain
  <2>3. QED
    BY <2>1, <2>2
<1>3. LiveForks' = {}
  BY <1>1 DEF AccountsInvariant, LiveForks
<1>4. QED
  BY <1>1, <1>2, <1>3 DEF AccountsInvariant

LEMMA PublishedByRing ==
  ASSUME AccountsInvariant, NEW c \in PublishedCommitments
  PROVE  c \in CommittedBlockHeader
<1>1. Initialized /\ LiveForks = {}
  BY DEF PublishedCommitments, AccountsInvariant
<1>2. main_state \in MainState
  BY <1>1 DEF Initialized, AccountsInvariant, OneChain, GoodMain
<1>3. PICK s \in Slots : c = main_state.block_commitments[s] /\ c # NoCommitment
  BY <1>1 DEF PublishedCommitments
<1>4. QED
  BY <1>2, <1>3 DEF MainState, Commitment

\* Every step of the relayer, of bitcoind, of the cluster and of other callers
\* preserves the invariant.
LEMMA RelayerStep ==
  ASSUME HeadersAreTree, RelayerInvariant, [RelayerNext]_relayer_vars
  PROVE  RelayerInvariant'
<1>1. AccountsInvariant /\ NodeInvariant /\ LoopInvariant
  BY DEF RelayerInvariant
<1>2. best \in Headers /\ in_flight \subseteq Submission
  BY <1>1 DEF NodeInvariant, LoopInvariant
<1>3. ASSUME UNCHANGED vars PROVE AccountsInvariant'
  BY <1>1, <1>3 DEF vars, AccountsInvariant, LiveForks
<1>4. ASSUME UNCHANGED node_vars PROVE NodeInvariant'
  BY <1>1, <1>4 DEF node_vars, NodeInvariant
<1>5. ASSUME UNCHANGED loop_vars, in_flight' \subseteq in_flight PROVE LoopInvariant'
  <2>1. IsReadable(main_state_data)' <=> IsReadable(main_state_data)
    BY <1>5 DEF loop_vars, IsReadable
  <2>2. QED
    BY <1>1, <1>5, <2>1 DEF loop_vars, LoopInvariant
<1>6. CASE UNCHANGED relayer_vars
  BY <1>3, <1>4, <1>5, <1>6 DEF relayer_vars, RelayerInvariant
<1>7. CASE NodeStep
  <2>1. PICK h \in Headers : AdoptChain(h)
    BY <1>7 DEF NodeStep
  <2>2. NodeInvariant'
    BY <1>1, <2>1, AdoptChainInvariant
  <2>3. QED
    BY <1>3, <1>5, <1>7, <2>2 DEF NodeStep, RelayerInvariant
<1>8. CASE RunInitProgram
  <2>1. /\ InitialHeader(best) \in CommittedBlockHeader
        /\ InitialHeader(best).blockheight >= BaseHeight
        /\ Initialize(InitialHeader(best))
    BY <1>2, <1>8, InitialHeaderType DEF RunInitProgram
  <2>2. AccountsInvariant'
    BY <1>1, <2>1, AccountsStep
  <2>3. QED
    BY <1>4, <1>5, <1>8, <2>2 DEF RunInitProgram, RelayerInvariant
<1>9. CASE GetAccount
  BY <1>3, <1>4, <1>9, GetAccountInvariant DEF GetAccount, RelayerInvariant
<1>10. CASE \E i \in 0..(PREV_TIMESTAMPS - 1) : GetTimestamp(i)
  <2>1. PICK i : GetTimestamp(i)
    BY <1>10
  <2>2. UNCHANGED <<vars, node_vars>>
    BY <2>1 DEF GetTimestamp
  <2>3. LoopInvariant'
    BY <2>1, GetTimestampInvariant
  <2>4. QED
    BY <1>3, <1>4, <2>2, <2>3 DEF RelayerInvariant
<1>11. CASE GetBestBlock
  BY <1>3, <1>4, <1>11, GetBestBlockInvariant DEF GetBestBlock, RelayerInvariant
<1>12. CASE SubmitBlock
  BY <1>3, <1>4, <1>12, SubmitBlockInvariant DEF SubmitBlock, RelayerInvariant
<1>13. CASE Confirm
  BY <1>2, <1>3, <1>4, <1>13, NextRoundInvariant DEF Confirm, RelayerInvariant
<1>14. CASE CallFails
  BY <1>2, <1>3, <1>4, <1>14, NextRoundInvariant DEF CallFails, RelayerInvariant
<1>15. CASE \E s \in in_flight : Execute(s)
  <2>1. PICK s \in in_flight : Execute(s)
    BY <1>15
  <2>2. s \in Submission
    BY <1>2
  <2>3. s.commited_header \in CommittedBlockHeader /\ s.header \in Headers
    BY <2>2 DEF Submission
  <2>4. <<s.header>> \in Seq(Headers)
    BY <2>3
  <2>5. SubmitBlockHeaders(s.commited_header, <<s.header>>)
    BY <2>1 DEF Execute
  <2>6. AccountsInvariant'
    BY <1>1, <2>3, <2>4, <2>5, AccountsStep
  <2>7. QED
    BY <1>4, <1>5, <2>1, <2>6 DEF Execute, RelayerInvariant
<1>16. CASE \E s \in in_flight : Drop(s)
  BY <1>3, <1>4, <1>5, <1>16 DEF Drop, RelayerInvariant
<1>17. CASE OtherCaller
  <2>1. \/ \E x \in CommittedBlockHeader : x.blockheight >= BaseHeight /\ Initialize(x)
        \/ \E x \in CommittedBlockHeader, data \in Seq(Headers) :
             SubmitBlockHeaders(x, data)
    BY <1>1, <1>17, PublishedByRing, RelayAssumption, CheckpointAssumption DEF OtherCaller
  <2>2. AccountsInvariant'
    BY <1>1, <2>1, AccountsStep
  <2>3. QED
    BY <1>4, <1>5, <1>17, <2>2 DEF OtherCaller, RelayerInvariant
<1>18. QED
  BY <1>6, <1>7, <1>8, <1>9, <1>10, <1>11, <1>12, <1>13, <1>14, <1>15, <1>16, <1>17
     DEF RelayerNext

\* Nothing of this depends on the fairness of the calls.
LEMMA RelayerInvariantHolds ==
  ASSUME HeadersAreTree
  PROVE  RelayerSpec => []RelayerInvariant
<1>1. RelayerInit => RelayerInvariant
  BY RelayerInitInvariant
<1>2. RelayerInvariant /\ [RelayerNext]_relayer_vars => RelayerInvariant'
  BY RelayerStep
<1>3. QED
  BY <1>1, <1>2, PTL DEF RelayerSpec

\* The types of what the relayer reads, keeps and sends, and of the program's
\* and bitcoind's state next to it.
THEOREM RelayerTypeCorrect ==
  ASSUME HeadersAreTree
  PROVE  RelayerSpec => []RelayerTypeOK
<1>1. RelayerInvariant => RelayerTypeOK
  BY DEF RelayerInvariant, AccountsInvariant, NodeInvariant, LoopInvariant,
         RelayerTypeOK, TypeOK, OneChain, GoodMain
<1>2. QED
  BY <1>1, RelayerInvariantHolds, PTL

\* A block that is submitted again, because the first attempt timed out or by
\* somebody else, is stored once, whatever the size of the ring.
THEOREM BlocksStoredOnce ==
  ASSUME HeadersAreTree
  PROVE  RelayerSpec => []StoredOnce
<1>1. RelayerInvariant => StoredOnce
  BY OneChainStoresOnce
     DEF RelayerInvariant, AccountsInvariant, StoredOnce, Initialized
<1>2. QED
  BY <1>1, RelayerInvariantHolds, PTL

-----------------------------------------------------------------------------
(* Tips that can be rebuilt. *)

LEMMA TimestampsAgree ==
  ASSUME HeadersAreTree, NEW g \in Headers, NEW h \in Headers,
         Height[h] <= Height[g], ChainOf(g)[Height[h]] = h,
         NEW height \in BaseHeight..Height[h]
  PROVE  TimestampsBelow(g, height) = TimestampsBelow(h, height)
<1>1. /\ BaseHeight \in Nat /\ PREV_TIMESTAMPS \in Nat \ {0} /\ Height[h] \in Nat
  BY HeightType, ParameterAssumption
<1>2. ASSUME NEW i \in 1..PREV_TIMESTAMPS
      PROVE  TimestampAt(g, height - (PREV_TIMESTAMPS + 1 - i))
               = TimestampAt(h, height - (PREV_TIMESTAMPS + 1 - i))
  <2> DEFINE k == height - (PREV_TIMESTAMPS + 1 - i)
  <2>1. k \in Int /\ k <= Height[h]
    BY <1>1
  <2> SUFFICES TimestampAt(g, k) = TimestampAt(h, k)
    OBVIOUS
  <2> HIDE DEF k
  <2>2. CASE k < BaseHeight
    BY <2>2 DEF TimestampAt
  <2>3. CASE ~(k < BaseHeight)
    <3>1. k \in BaseHeight..Height[h]
      BY <1>1, <2>1, <2>3
    <3>2. ChainOf(g)[k] = ChainOf(h)[k]
      BY <3>1, ChainBelow
    <3>3. QED
      BY <2>3, <3>2 DEF TimestampAt
  <2>4. QED
    BY <2>2, <2>3
<1>3. QED
  BY <1>2 DEF TimestampsBelow

\* One height up, the parent's timestamp is shifted in.
LEMMA TimestampsShift ==
  ASSUME HeadersAreTree, NEW tip \in Headers, NEW height \in BaseHeight..Height[tip]
  PROVE  TimestampsBelow(tip, height + 1) =
           [i \in 1..PREV_TIMESTAMPS |->
              IF i = PREV_TIMESTAMPS THEN ChainOf(tip)[height].timestamp
              ELSE TimestampsBelow(tip, height)[i + 1]]
<1>1. /\ BaseHeight \in Nat /\ PREV_TIMESTAMPS \in Nat \ {0} /\ height \in Nat
      /\ height >= BaseHeight
  BY HeightType, ParameterAssumption
<1>2. ASSUME NEW i \in 1..PREV_TIMESTAMPS
      PROVE  TimestampAt(tip, (height + 1) - (PREV_TIMESTAMPS + 1 - i)) =
               IF i = PREV_TIMESTAMPS THEN ChainOf(tip)[height].timestamp
               ELSE TimestampsBelow(tip, height)[i + 1]
  <2>1. CASE i = PREV_TIMESTAMPS
    <3>1. (height + 1) - (PREV_TIMESTAMPS + 1 - i) = height /\ ~(height < BaseHeight)
      BY <1>1, <2>1
    <3>2. QED
      BY <2>1, <3>1 DEF TimestampAt
  <2>2. CASE i # PREV_TIMESTAMPS
    <3>1. /\ i + 1 \in 1..PREV_TIMESTAMPS
          /\ (height + 1) - (PREV_TIMESTAMPS + 1 - i)
               = height - (PREV_TIMESTAMPS + 1 - (i + 1))
      BY <1>1, <2>2
    <3>2. TimestampsBelow(tip, height)[i + 1]
            = TimestampAt(tip, height - (PREV_TIMESTAMPS + 1 - (i + 1)))
      BY <3>1 DEF TimestampsBelow
    <3>3. QED
      BY <2>2, <3>1, <3>2
  <2>3. QED
    BY <2>1, <2>2
<1>3. QED
  BY <1>2 DEF TimestampsBelow

\* c is what the relayer takes the committed header of the block at height k of
\* the chain of `tip` to be.
IsRebuilt(c, tip, k) ==
  /\ c.chain_work = 0
  /\ c.header = ChainOf(tip)[k]
  /\ c.blockheight = k
  /\ c.prev_block_timestamps = TimestampsBelow(tip, k)

LEMMA RebuiltChild ==
  ASSUME HeadersAreTree, NoWork, NEW tip \in Headers, NEW k \in BaseHeight..(Height[tip] - 1),
         NEW c \in CommittedBlockHeader, IsRebuilt(c, tip, k)
  PROVE  IsRebuilt(CommittedChild(c, ChainOf(tip)[k + 1]), tip, k + 1)
<1> DEFINE h == ChainOf(tip)[k + 1]
<1>1. /\ BaseHeight \in Nat /\ Height[tip] \in Nat /\ PREV_TIMESTAMPS \in Nat \ {0}
  BY HeightType, ParameterAssumption
<1>2. k + 1 \in BaseHeight..Height[tip] /\ k \in BaseHeight..Height[tip]
  BY <1>1
<1>3. h \in Headers
  BY <1>2, ChainOfType
<1> HIDE DEF h
<1>4. /\ CommittedChild(c, h).header = h
      /\ CommittedChild(c, h).blockheight = c.blockheight + 1
      /\ CommittedChild(c, h).chain_work = c.chain_work + Difficulty[h.nbits]
  BY <1>3, CommittedChildType
<1>5. c.chain_work + Difficulty[h.nbits] = 0
  BY <1>3 DEF IsRebuilt, NoWork
<1>6. CommittedChild(c, h).prev_block_timestamps =
        [i \in 1..PREV_TIMESTAMPS |->
           IF i = PREV_TIMESTAMPS THEN c.header.timestamp
           ELSE c.prev_block_timestamps[i + 1]]
  BY DEF CommittedChild
<1>7. TimestampsBelow(tip, k + 1) =
        [i \in 1..PREV_TIMESTAMPS |->
           IF i = PREV_TIMESTAMPS THEN ChainOf(tip)[k].timestamp
           ELSE TimestampsBelow(tip, k)[i + 1]]
  BY <1>2, TimestampsShift
<1>8. CommittedChild(c, h).prev_block_timestamps = TimestampsBelow(tip, k + 1)
  BY <1>6, <1>7 DEF IsRebuilt
<1>9. c.blockheight = k
  BY DEF IsRebuilt
<1>10. QED
  BY <1>4, <1>5, <1>8, <1>9 DEF IsRebuilt, h

\* What it means for the tip to be reconstructible.
LEMMA ReconstructibleMeans ==
  ASSUME HeadersAreTree, NEW m, OneChain(m), NEW tip \in Headers
  PROVE  (/\ m.block_height <= Height[tip]
          /\ ChainOf(tip)[m.block_height].hash = m.tip_block_hash
          /\ m.tip_commit_hash =
               tip_commited_header(m, TimestampsBelow(tip, m.block_height)))
         <=>
         (/\ m.block_height <= Height[tip]
          /\ IsRebuilt(m.tip_commit_hash, tip, m.block_height))
<1> DEFINE c == m.tip_commit_hash
           k == m.block_height
           r == tip_commited_header(m, TimestampsBelow(tip, k))
<1>1. /\ m \in MainState /\ TipFields(m) /\ k >= BaseHeight /\ k \in Nat
      /\ c \in CommittedBlockHeader
  BY DEF OneChain, GoodMain, MainState
<1>2. BaseHeight \in Nat /\ Height[tip] \in Nat
  BY HeightType
<1>3. /\ c.header \in Headers /\ c.header.hash = m.tip_block_hash
      /\ c.blockheight = k /\ c.last_diff_adjustment = m.last_diff_adjustment
  BY <1>1 DEF TipFields, CommittedBlockHeader
<1>4. (CHOOSE h \in Headers : h.hash = m.tip_block_hash) = c.header
  BY <1>3, HeadersAssumption
<1>5. r = [chain_work |-> 0, header |-> c.header,
           last_diff_adjustment |-> m.last_diff_adjustment,
           blockheight |-> k, prev_block_timestamps |-> TimestampsBelow(tip, k)]
  BY <1>4 DEF tip_commited_header, reconstruct_commited_header
<1>6. c = [chain_work |-> c.chain_work, header |-> c.header,
           last_diff_adjustment |-> c.last_diff_adjustment,
           blockheight |-> c.blockheight,
           prev_block_timestamps |-> c.prev_block_timestamps]
  BY <1>1 DEF CommittedBlockHeader
<1>7. k <= Height[tip] => ChainOf(tip)[k] \in Headers
  <2>1. SUFFICES ASSUME k <= Height[tip] PROVE ChainOf(tip)[k] \in Headers
    OBVIOUS
  <2>2. k \in BaseHeight..Height[tip]
    BY <1>1, <1>2, <2>1
  <2>3. QED
    BY <2>2, ChainOfType
<1>8. k <= Height[tip] =>
        (ChainOf(tip)[k].hash = m.tip_block_hash <=> c.header = ChainOf(tip)[k])
  BY <1>3, <1>7, HeadersAssumption
<1> HIDE DEF c, r, k
<1>9. c = r <=> c.chain_work = 0 /\ c.prev_block_timestamps = TimestampsBelow(tip, k)
  BY <1>3, <1>5, <1>6
<1>10. QED
  BY <1>3, <1>8, <1>9 DEF IsRebuilt, c, r, k

\* The headers of a chain that ends on bitcoind's are bitcoind's.
LEMMA LinkedOnChain ==
  ASSUME HeadersAreTree, NEW tip \in Headers, NEW a, NEW n, NEW commits,
         LinkedAbove(a, n, commits), a >= BaseHeight, a + n <= Height[tip],
         commits[n].header = ChainOf(tip)[a + n]
  PROVE  \A i \in 1..n : commits[i].header = ChainOf(tip)[a + i]
<1> DEFINE T == {j \in Nat : j <= n - 1 =>
                   commits[n - j].header = ChainOf(tip)[a + (n - j)]}
<1>1. /\ a \in Nat /\ n \in Nat \ {0}
      /\ \A i \in 1..n : commits[i].header \in Headers
      /\ \A i \in 1..(n - 1) :
           commits[i + 1].header.reversed_prev_blockhash = commits[i].header.hash
  BY DEF LinkedAbove, IsChild, CommittedBlockHeader
<1>2. BaseHeight \in Nat /\ Height[tip] \in Nat
  BY HeightType
<1>3. 0 \in T
  BY <1>1
<1>4. ASSUME NEW j \in Nat, j \in T PROVE j + 1 \in T
  <2>1. SUFFICES ASSUME j + 1 <= n - 1
                 PROVE  commits[n - (j + 1)].header = ChainOf(tip)[a + (n - (j + 1))]
    OBVIOUS
  <2> DEFINE i == n - (j + 1)
  <2>2. /\ i \in 1..(n - 1) /\ i \in 1..n /\ i + 1 = n - j /\ j <= n - 1
        /\ a + i \in BaseHeight..(Height[tip] - 1) /\ a + i \in BaseHeight..Height[tip]
        /\ (a + i) + 1 = a + (n - j)
    BY <1>1, <1>2, <2>1
  <2>3. commits[n - j].header = ChainOf(tip)[a + (n - j)]
    BY <1>4, <2>2
  <2> HIDE DEF i
  <2>4. commits[i + 1].header = ChainOf(tip)[(a + i) + 1]
    BY <2>2, <2>3
  <2>5. /\ ChainOf(tip)[a + i] \in Headers
        /\ ChainOf(tip)[(a + i) + 1].reversed_prev_blockhash = ChainOf(tip)[a + i].hash
    BY <2>2, ChainOfType
  <2>6. commits[i].header.hash = ChainOf(tip)[a + i].hash
    BY <1>1, <2>2, <2>4, <2>5
  <2>7. commits[i].header = ChainOf(tip)[a + i]
    BY <1>1, <2>2, <2>5, <2>6, HeadersAssumption
  <2>8. QED
    BY <2>7 DEF i
<1>5. Nat \subseteq T
  <2> HIDE DEF T
  <2>1. QED
    BY <1>3, <1>4, SetInductionOnNat
<1>6. ASSUME NEW i \in 1..n PROVE commits[i].header = ChainOf(tip)[a + i]
  <2>1. n - i \in Nat /\ n - i <= n - 1 /\ n - (n - i) = i
    BY <1>1
  <2>2. commits[n - (n - i)].header = ChainOf(tip)[a + (n - (n - i))]
    BY <1>5, <2>1
  <2>3. QED
    BY <2>1, <2>2
<1>7. QED
  BY <1>6

\* Headers of bitcoind's chain on top of a tip that can be rebuilt.
LEMMA SubmitKeepsRebuilt ==
  ASSUME HeadersAreTree, NoWork, OneChain(main_state),
         NEW tip \in Headers,
         main_state.block_height <= Height[tip],
         IsRebuilt(main_state.tip_commit_hash, tip, main_state.block_height),
         NEW x \in CommittedBlockHeader, NEW data \in Seq(Headers),
         SubmitBlockHeaders(x, data), OneChain(main_state'),
         main_state'.block_height <= Height[tip],
         ChainOf(tip)[main_state'.block_height].hash = main_state'.tip_block_hash
  PROVE  IsRebuilt(main_state'.tip_commit_hash, tip, main_state'.block_height)
<1> DEFINE m == main_state
           t == main_state'
           a == m.block_height
           n == Len(data)
           commits == CommittedHeaders(x, data)
<1>1. GoodMain(m) /\ m \in MainState /\ a \in Nat /\ a >= BaseHeight
  BY DEF OneChain, GoodMain, MainState
<1>2. /\ x = m.tip_commit_hash /\ x.blockheight = a
      /\ Rewrites(m, t, x.blockheight, n, commits)
  BY <1>1, SubmitBlockHeadersRewrites
<1>3. /\ n \in Nat \ {0} /\ LinkedAbove(a, n, commits)
      /\ t.block_height = a + n /\ t.tip_commit_hash = commits[n]
  BY <1>2 DEF Rewrites, LinkedAbove
<1>4. /\ commits[0] = x
      /\ \A i \in 1..n : commits[i] = CommittedChild(commits[i - 1], data[i])
      /\ \A i \in 0..n : commits[i] \in CommittedBlockHeader
  BY CommittedHeadersType
<1>5. \A i \in 1..n : data[i] \in Headers
  OBVIOUS
<1>6. BaseHeight \in Nat /\ Height[tip] \in Nat /\ a + n <= Height[tip]
  BY <1>3, HeightType
<1>7. commits[n].header = ChainOf(tip)[a + n]
  <2>1. TipFields(t)
    BY DEF OneChain, GoodMain
  <2>2. commits[n].header.hash = ChainOf(tip)[a + n].hash
    BY <1>3, <2>1 DEF TipFields
  <2>3. a + n \in BaseHeight..Height[tip] /\ n \in 0..n
    BY <1>1, <1>3, <1>6
  <2>4. ChainOf(tip)[a + n] \in Headers
    BY <2>3, ChainOfType
  <2>5. commits[n].header \in Headers
    BY <1>4, <2>3 DEF CommittedBlockHeader
  <2>6. QED
    BY <2>2, <2>4, <2>5, HeadersAssumption
<1> HIDE DEF n, commits, m, t, a
<1>8. \A i \in 1..n : commits[i].header = ChainOf(tip)[a + i]
  <2>1. /\ LinkedAbove(a, n, commits) /\ a >= BaseHeight /\ a + n <= Height[tip]
        /\ commits[n].header = ChainOf(tip)[a + n]
    BY <1>1, <1>3, <1>6, <1>7
  <2>2. QED
    BY <2>1, LinkedOnChain
<1> DEFINE T == {i \in Nat : i <= n => IsRebuilt(commits[i], tip, a + i)}
<1>9. 0 \in T
  <2>1. a + 0 = a /\ IsRebuilt(x, tip, a)
    BY <1>1, <1>2 DEF a, m
  <2>2. QED
    BY <1>4, <2>1
<1>10. ASSUME NEW i \in Nat, i \in T PROVE i + 1 \in T
  <2>1. SUFFICES ASSUME i + 1 <= n PROVE IsRebuilt(commits[i + 1], tip, a + (i + 1))
    OBVIOUS
  <2>2. /\ i \in 0..n /\ i + 1 \in 1..n /\ (i + 1) - 1 = i /\ i <= n
        /\ a + i \in BaseHeight..(Height[tip] - 1) /\ a + (i + 1) = (a + i) + 1
    BY <1>1, <1>3, <1>6, <2>1
  <2>3. IsRebuilt(commits[i], tip, a + i) /\ commits[i] \in CommittedBlockHeader
    BY <1>4, <1>10, <2>2
  <2>4. commits[i + 1] = CommittedChild(commits[i], data[i + 1])
    BY <1>4, <2>2
  <2>5. CommittedChild(commits[i], data[i + 1]).header = data[i + 1]
    BY <1>5, <2>2, <2>3, CommittedChildType
  <2>6. data[i + 1] = ChainOf(tip)[(a + i) + 1]
    BY <1>8, <2>2, <2>4, <2>5
  <2>7. IsRebuilt(CommittedChild(commits[i], ChainOf(tip)[(a + i) + 1]), tip, (a + i) + 1)
    BY <2>2, <2>3, RebuiltChild
  <2>8. QED
    BY <2>2, <2>4, <2>6, <2>7
<1>11. IsRebuilt(commits[n], tip, a + n)
  <2> HIDE DEF T
  <2>1. Nat \subseteq T
    BY <1>9, <1>10, SetInductionOnNat
  <2>2. QED
    BY <1>3, <2>1 DEF T
<1>12. QED
  BY <1>3, <1>11 DEF t

\* One step.
LEMMA ReconstructibleStep ==
  ASSUME HeadersAreTree, NoWork, RelayerInvariant, RelayerInvariant',
         [RelayerNext]_relayer_vars, TipIsReconstructible,
         best' # best => ChainOf(best')[Height[best]] = best,
         main_state' # main_state =>
           /\ main_state'.block_height <= Height[best]
           /\ ChainOf(best)[main_state'.block_height].hash = main_state'.tip_block_hash
  PROVE  TipIsReconstructible'
<1>1. Initialized
  BY DEF TipIsReconstructible
<1>2. /\ OneChain(main_state) /\ best \in Headers /\ AccountsInvariant
      /\ best' \in Headers /\ in_flight \subseteq Submission
  BY <1>1 DEF RelayerInvariant, AccountsInvariant, NodeInvariant, LoopInvariant, Initialized
<1>3. /\ main_state.block_height <= Height[best]
      /\ IsRebuilt(main_state.tip_commit_hash, best, main_state.block_height)
  BY <1>2, ReconstructibleMeans DEF TipIsReconstructible
<1>4. \/ main_state' = main_state /\ best' = best
      \/ main_state' = main_state /\ \E h \in Headers : AdoptChain(h)
      \/ /\ best' = best
         /\ \E x \in CommittedBlockHeader, data \in Seq(Headers) :
              SubmitBlockHeaders(x, data)
  <2>1. CASE UNCHANGED relayer_vars
    BY <2>1 DEF relayer_vars, vars, node_vars
  <2>2. CASE NodeStep
    BY <2>2 DEF NodeStep, vars
  <2>3. CASE RunInitProgram
    BY <1>1, <2>3 DEF RunInitProgram, Initialize
  <2>4. CASE \/ GetAccount \/ GetBestBlock \/ SubmitBlock \/ Confirm \/ CallFails
             \/ \E i \in 0..(PREV_TIMESTAMPS - 1) : GetTimestamp(i)
             \/ \E s \in in_flight : Drop(s)
    BY <2>4 DEF GetAccount, GetBestBlock, SubmitBlock, Confirm, CallFails,
                GetTimestamp, Drop, vars, node_vars
  <2>5. CASE \E s \in in_flight : Execute(s)
    <3>1. PICK s \in in_flight : Execute(s)
      BY <2>5
    <3>2. s.commited_header \in CommittedBlockHeader /\ <<s.header>> \in Seq(Headers)
      BY <1>2, <3>1 DEF Submission
    <3>3. SubmitBlockHeaders(s.commited_header, <<s.header>>) /\ best' = best
      BY <3>1 DEF Execute, node_vars
    <3>4. QED
      BY <3>2, <3>3
  <2>6. CASE OtherCaller
    BY <1>1, <1>2, <2>6, PublishedByRing, RelayAssumption
       DEF OtherCaller, Initialize, node_vars
  <2>7. QED
    BY <2>1, <2>2, <2>3, <2>4, <2>5, <2>6 DEF RelayerNext
<1>5. OneChain(main_state')
  <2>1. main_state' # NoMainState
    <3>1. main_state' = main_state \/ main_state' \in MainState
      <4>1. ASSUME NEW x \in CommittedBlockHeader, NEW data \in Seq(Headers),
                   SubmitBlockHeaders(x, data)
            PROVE  main_state' \in MainState
        BY <1>2, <4>1, SubmitBlockHeadersMain DEF OneChain, GoodMain
      <4>2. QED
        BY <1>4, <4>1
    <3>2. QED
      BY <1>1, <3>1, RelayAssumption DEF Initialized
  <2>2. QED
    BY <2>1 DEF RelayerInvariant, AccountsInvariant
<1>6. /\ main_state'.block_height <= Height[best']
      /\ IsRebuilt(main_state'.tip_commit_hash, best', main_state'.block_height)
  <2>1. CASE main_state' = main_state /\ best' = best
    BY <1>3, <2>1
  <2>2. CASE main_state' = main_state /\ \E h \in Headers : AdoptChain(h)
    <3> DEFINE k == main_state.block_height
    <3>1. Height[best'] > Height[best]
      BY <2>2 DEF AdoptChain
    <3>2. /\ BaseHeight \in Nat /\ Height[best] \in Nat /\ Height[best'] \in Nat
          /\ k \in Nat /\ k >= BaseHeight
      BY <1>2, HeightType DEF OneChain, GoodMain, MainState
    <3>3. ChainOf(best')[Height[best]] = best
      <4>1. best' # best
        BY <3>1, <3>2
      <4>2. QED
        BY <4>1
    <3>4. k \in BaseHeight..Height[best] /\ k <= Height[best'] /\ Height[best] <= Height[best']
      BY <1>3, <3>1, <3>2
    <3> HIDE DEF k
    <3>5. /\ ChainOf(best')[k] = ChainOf(best)[k]
          /\ TimestampsBelow(best', k) = TimestampsBelow(best, k)
      BY <1>2, <3>3, <3>4, ChainBelow, TimestampsAgree
    <3>6. IsRebuilt(main_state.tip_commit_hash, best', k)
      BY <1>3, <3>5 DEF IsRebuilt, k
    <3>7. QED
      BY <2>2, <3>4, <3>6 DEF k
  <2>3. CASE /\ best' = best
             /\ \E x \in CommittedBlockHeader, data \in Seq(Headers) :
                  SubmitBlockHeaders(x, data)
    <3>1. PICK x \in CommittedBlockHeader, data \in Seq(Headers) :
            SubmitBlockHeaders(x, data)
      BY <2>3
    <3>2. CASE main_state' = main_state
      BY <1>3, <2>3, <3>2
    <3>3. CASE main_state' # main_state
      <4>1. IsRebuilt(main_state'.tip_commit_hash, best, main_state'.block_height)
        BY <1>2, <1>3, <1>5, <3>1, <3>3, SubmitKeepsRebuilt
      <4>2. QED
        BY <2>3, <3>3, <4>1
    <3>4. QED
      BY <3>2, <3>3
  <2>4. QED
    BY <1>4, <2>1, <2>2, <2>3
<1>7. /\ main_state'.block_height <= Height[best']
      /\ ChainOf(best')[main_state'.block_height].hash = main_state'.tip_block_hash
      /\ main_state'.tip_commit_hash =
           tip_commited_header(main_state', TimestampsBelow(best', main_state'.block_height))
  BY <1>2, <1>5, <1>6, ReconstructibleMeans
<1>8. Initialized'
  BY <1>5, RelayAssumption DEF Initialized, OneChain, GoodMain
<1>9. QED
  BY <1>7, <1>8 DEF TipIsReconstructible

\* While blocks carry no work and bitcoind only extends its chain, the blocks
\* that anybody adds from that chain leave a tip that the relayer can rebuild.
THEOREM TipStaysReconstructible ==
  ASSUME HeadersAreTree, NoWork
  PROVE  RelayerSpec => StaysReconstructible
<1> DEFINE Rebuilt ==
             /\ TipIsReconstructible
             /\ best' # best => ChainOf(best')[Height[best]] = best
             /\ main_state' # main_state =>
                  /\ main_state'.block_height <= Height[best]
                  /\ ChainOf(best)[main_state'.block_height].hash
                       = main_state'.tip_block_hash
             => TipIsReconstructible'
<1>1. RelayerInvariant /\ RelayerInvariant' /\ [RelayerNext]_relayer_vars => Rebuilt
  BY ReconstructibleStep
<1> HIDE DEF Rebuilt
<1>2. RelayerSpec => [][Rebuilt]_relayer_vars
  BY <1>1, RelayerInvariantHolds, PTL DEF RelayerSpec
<1>3. QED
  BY <1>2 DEF StaysReconstructible, Rebuilt

=============================================================================

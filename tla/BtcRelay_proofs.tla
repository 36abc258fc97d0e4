--------------------------- MODULE BtcRelay_proofs ---------------------------
(***************************************************************************)
(* The inductive invariant of the header relay, for every tree of headers, *)
(* every set of checkpoints, batches and signers, and every size of the    *)
(* ring buffer.                                                            *)
(*                                                                         *)
(* First, facts about the two loops of the submit instructions: the loop   *)
(* that verifies and commits headers (CommittedHeaders) and the loop that  *)
(* stores commitments in the ring buffer (StoreAbove). Both are recursive  *)
(* functions on 0..n; that they exist is proved by induction, with the     *)
(* induction principle stated for a set of natural numbers.                *)
(***************************************************************************)
EXTENDS BtcRelay, SetInduction, SequenceTheorems, FiniteSetTheorems

-----------------------------------------------------------------------------
(* The loop that commits headers. *)

\* A child of a committed header is a committed header of the next height and
\* of at least its work.
LEMMA CommittedChildType ==
  ASSUME NEW c \in CommittedBlockHeader, NEW h \in Headers
  PROVE  /\ CommittedChild(c, h) \in CommittedBlockHeader
         /\ CommittedChild(c, h).header = h
         /\ CommittedChild(c, h).blockheight = c.blockheight + 1
         /\ CommittedChild(c, h).chain_work = c.chain_work + Difficulty[h.nbits]
         /\ Difficulty[h.nbits] \in Nat
<1>1. h \in BlockHeader /\ c.header \in BlockHeader
  BY HeadersAssumption DEF CommittedBlockHeader
<1>2. Difficulty[h.nbits] \in Nat
  BY <1>1, DifficultyAssumption DEF BlockHeader
<1>3. [i \in 1..PREV_TIMESTAMPS |->
         IF i = PREV_TIMESTAMPS THEN c.header.timestamp
         ELSE c.prev_block_timestamps[i + 1]] \in [1..PREV_TIMESTAMPS -> Nat]
  BY <1>1, ParameterAssumption DEF CommittedBlockHeader, BlockHeader
<1>4. QED
  BY <1>1, <1>2, <1>3 DEF CommittedChild, CommittedBlockHeader, BlockHeader

\* The recursive definition of CommittedHeaders has a solution.
LEMMA CommittedHeadersDef ==
  ASSUME NEW c, NEW data, Len(data) \in Nat
  PROVE  CommittedHeaders(c, data) =
           [i \in 0..Len(data) |->
              IF i = 0 THEN c
              ELSE CommittedChild(CommittedHeaders(c, data)[i - 1], data[i])]
<1> DEFINE Solves(g, k) ==
             g = [i \in 0..k |-> IF i = 0 THEN c
                                 ELSE CommittedChild(g[i - 1], data[i])]
           T == {k \in Nat : \E g : Solves(g, k)}
<1>1. 0 \in T
  <2>1. Solves([i \in 0..0 |-> c], 0)
    OBVIOUS
  <2>2. QED
    BY <2>1
<1>2. ASSUME NEW k \in Nat, k \in T PROVE k + 1 \in T
  <2>1. PICK g : Solves(g, k)
    BY <1>2
  <2> DEFINE h == [i \in 0..(k + 1) |->
                     IF i = k + 1 THEN CommittedChild(g[k], data[k + 1])
                     ELSE g[i]]
  <2>2. \A i \in 0..(k + 1) :
          h[i] = IF i = 0 THEN c ELSE CommittedChild(h[i - 1], data[i])
    <3> TAKE i \in 0..(k + 1)
    <3>1. CASE i = 0
      BY <2>1, <3>1
    <3>2. CASE i = k + 1
      BY <3>2
    <3>3. CASE i \in 1..k
      <4>1. i \in 0..k /\ i - 1 \in 0..k /\ i # 0 /\ i # k + 1 /\ i - 1 # k + 1
        BY <3>3
      <4>2. g[i] = CommittedChild(g[i - 1], data[i])
        BY <2>1, <4>1
      <4>3. h[i] = g[i] /\ h[i - 1] = g[i - 1]
        BY <4>1
      <4>4. QED
        BY <4>1, <4>2, <4>3
    <3>4. QED
      BY <3>1, <3>2, <3>3
  <2>3. Solves(h, k + 1)
    BY <2>2
  <2> HIDE DEF h
  <2>4. QED
    BY <2>3
<1>3. Len(data) \in T
  <2> HIDE DEF T
  <2>1. QED
    BY <1>1, <1>2, SetInductionOnNat
<1>4. PICK g : Solves(g, Len(data))
  BY <1>3
<1>5. QED
  BY <1>4 DEF CommittedHeaders

\* What the loop returns: committed headers of consecutive heights, each the
\* child of the one before, of work that never decreases.
LEMMA CommittedHeadersType ==
  ASSUME NEW c \in CommittedBlockHeader, NEW data \in Seq(Headers)
  PROVE  LET commits == CommittedHeaders(c, data)
         IN  /\ commits[0] = c
             /\ \A i \in 1..Len(data) :
                  commits[i] = CommittedChild(commits[i - 1], data[i])
             /\ \A i \in 0..Len(data) :
                  /\ commits[i] \in CommittedBlockHeader
                  /\ commits[i].blockheight = c.blockheight + i
             /\ \A i, j \in 0..Len(data) :
                  i <= j => commits[i].chain_work <= commits[j].chain_work
<1> DEFINE commits == CommittedHeaders(c, data)
           n == Len(data)
<1>1. /\ n \in Nat
      /\ \A i \in 1..n : data[i] \in Headers
  OBVIOUS
<1>2. commits = [i \in 0..n |-> IF i = 0 THEN c
                                ELSE CommittedChild(commits[i - 1], data[i])]
  BY <1>1, CommittedHeadersDef
<1> HIDE DEF commits, n
<1>3. commits[0] = c
  BY <1>1, <1>2
<1>4. \A i \in 1..n : commits[i] = CommittedChild(commits[i - 1], data[i])
  <2> TAKE i \in 1..n
  <2>1. i \in 0..n /\ i # 0
    BY <1>1
  <2>2. QED
    BY <1>2, <2>1
<1> DEFINE Typed == {k \in Nat : k <= n => /\ commits[k] \in CommittedBlockHeader
                                          /\ commits[k].blockheight = c.blockheight + k}
<1>5. Nat \subseteq Typed
  <2>1. c.blockheight \in Nat
    BY DEF CommittedBlockHeader
  <2>2. 0 \in Typed
    BY <1>3, <2>1
  <2>3. ASSUME NEW k \in Nat, k \in Typed PROVE k + 1 \in Typed
    <3>1. SUFFICES ASSUME k + 1 <= n
                   PROVE  /\ commits[k + 1] \in CommittedBlockHeader
                          /\ commits[k + 1].blockheight = c.blockheight + (k + 1)
      OBVIOUS
    <3>2. k <= n /\ k + 1 \in 1..n /\ (k + 1) - 1 = k
      BY <1>1, <3>1
    <3>3. /\ commits[k] \in CommittedBlockHeader
          /\ commits[k].blockheight = c.blockheight + k
      BY <2>3, <3>2
    <3>4. commits[k + 1] = CommittedChild(commits[k], data[k + 1])
      BY <1>4, <3>2
    <3>5. data[k + 1] \in Headers
      BY <1>1, <3>2
    <3> DEFINE child == CommittedChild(commits[k], data[k + 1])
    <3>6. /\ child \in CommittedBlockHeader
          /\ child.blockheight = commits[k].blockheight + 1
      BY <3>3, <3>5, CommittedChildType
    <3>7. QED
      BY <2>1, <3>3, <3>4, <3>6, SMTT(30)
  <2> HIDE DEF Typed
  <2>4. QED
    BY <2>2, <2>3, SetInductionOnNat
<1>6. \A i \in 0..n : /\ commits[i] \in CommittedBlockHeader
                      /\ commits[i].blockheight = c.blockheight + i
  BY <1>1, <1>5
<1>7. \A i \in 0..n : commits[i].chain_work \in Nat
  BY <1>6 DEF CommittedBlockHeader
<1>8. \A i \in 1..n : commits[i - 1].chain_work <= commits[i].chain_work
  <2> TAKE i \in 1..n
  <2>1. /\ i - 1 \in 0..n /\ i \in 0..n /\ data[i] \in Headers
        /\ commits[i - 1] \in CommittedBlockHeader
    BY <1>1, <1>6
  <2> DEFINE child == CommittedChild(commits[i - 1], data[i])
  <2>2. /\ child.chain_work = commits[i - 1].chain_work + Difficulty[data[i].nbits]
        /\ Difficulty[data[i].nbits] \in Nat
    BY <2>1, CommittedChildType
  <2>3. commits[i] = child
    BY <1>4
  <2>4. commits[i - 1].chain_work \in Nat
    BY <1>7, <2>1
  <2>5. QED
    BY <2>2, <2>3, <2>4
<1> DEFINE Heavier == {k \in Nat : \A i \in 0..n : i + k <= n =>
                         commits[i].chain_work <= commits[i + k].chain_work}
<1>9. Nat \subseteq Heavier
  <2>1. 0 \in Heavier
    BY <1>1, <1>7
  <2>2. ASSUME NEW k \in Nat, k \in Heavier PROVE k + 1 \in Heavier
    <3>1. SUFFICES ASSUME NEW i \in 0..n, i + (k + 1) <= n
                   PROVE  commits[i].chain_work <= commits[i + (k + 1)].chain_work
      OBVIOUS
    <3>2. /\ i + k <= n /\ i + k \in 0..n
          /\ i + (k + 1) \in 1..n /\ (i + (k + 1)) - 1 = i + k
      BY <1>1, <3>1
    <3>3. commits[i].chain_work <= commits[i + k].chain_work
      BY <2>2, <3>2
    <3>4. commits[i + k].chain_work <= commits[i + (k + 1)].chain_work
      BY <1>8, <3>2
    <3>5. /\ commits[i].chain_work \in Nat
          /\ commits[i + k].chain_work \in Nat
          /\ commits[i + (k + 1)].chain_work \in Nat
      BY <1>7, <3>2
    <3>6. QED
      BY <3>3, <3>4, <3>5
  <2> HIDE DEF Heavier
  <2>3. QED
    BY <2>1, <2>2, SetInductionOnNat
<1>10. ASSUME NEW i \in 0..n, NEW j \in 0..n, i <= j
       PROVE  commits[i].chain_work <= commits[j].chain_work
  <2>1. j - i \in Nat /\ i + (j - i) = j /\ i + (j - i) <= n
    BY <1>1, <1>10
  <2>2. j - i \in Heavier
    BY <1>9, <2>1
  <2>3. QED
    BY <2>1, <2>2
<1>11. QED
  BY <1>3, <1>4, <1>6, <1>10 DEF commits, n

-----------------------------------------------------------------------------
(* The loop that stores commitments. *)

\* A position is a slot or the sentinel PRUNING_FACTOR.
LEMMA PositionType ==
  ASSUME NEW m \in MainState, NEW h \in Nat
  PROVE  get_position(m, h) \in Slots \cup {PRUNING_FACTOR}
BY RingAssumption DEF get_position, MainState, Slots

\* One store: only the ring, its start and the counter of blocks change, every
\* slot keeps its commitment or takes the new one, and the stored height is
\* found again unless it had no slot.
LEMMA StoreType ==
  ASSUME NEW m \in MainState, NEW h \in Nat, NEW c \in CommittedBlockHeader
  PROVE  LET s == store_block_commitment(m, h, c)
         IN  /\ s \in MainState
             /\ s.fork_counter = m.fork_counter
             /\ \A p \in Slots : \/ s.block_commitments[p] = m.block_commitments[p]
                                \/ s.block_commitments[p] = c
             /\ \/ get_position(s, h) = PRUNING_FACTOR
                \/ s.block_commitments[get_position(s, h)] = c
<1> DEFINE p == get_position(m, h)
           s == store_block_commitment(m, h, c)
<1>1. p \in Slots \cup {PRUNING_FACTOR}
  BY PositionType
<1>2. CASE p = PRUNING_FACTOR
  <2>1. s = m
    BY <1>2 DEF store_block_commitment
  <2>2. QED
    BY <1>2, <2>1
<1>3. CASE p \in Slots
  <2>1. p # PRUNING_FACTOR
    BY <1>3, RingAssumption DEF Slots
  <2>2. s = [m EXCEPT !.block_commitments[p] = c,
                      !.start_height = IF p = 0 THEN h ELSE @,
                      !.total_blocks = @ + 1]
    BY <2>1 DEF store_block_commitment
  <2> DEFINE ring == [m.block_commitments EXCEPT ![p] = c]
             start == IF p = 0 THEN h ELSE m.start_height
             blocks == m.total_blocks + 1
  <2>3. /\ m.start_height \in Nat /\ m.total_blocks \in Nat
        /\ m.block_commitments \in [Slots -> Commitment]
    BY DEF MainState
  <2>4. s = [m EXCEPT !.block_commitments = ring, !.start_height = start,
                      !.total_blocks = blocks]
    BY <2>2 DEF MainState
  <2>5. /\ ring \in [Slots -> Commitment]
        /\ ring[p] = c
        /\ \A q \in Slots : ring[q] = m.block_commitments[q] \/ ring[q] = c
    BY <1>3, <2>3 DEF Commitment
  <2>6. start \in Nat /\ blocks \in Nat
    BY <2>3
  <2> HIDE DEF p, s, ring, blocks
  <2>7. s \in MainState
    BY <2>4, <2>5, <2>6 DEF MainState
  <2>8. /\ s.block_commitments = ring
        /\ s.start_height = start
        /\ s.fork_counter = m.fork_counter
    BY <2>4 DEF MainState
  <2>9. get_position(s, h) = p
    <3>1. CASE p = 0
      BY <2>8, <3>1, RingAssumption DEF get_position
    <3>2. CASE p # 0
      BY <2>8, <3>2 DEF get_position, p
    <3>3. QED
      BY <3>1, <3>2
  <2>10. QED
    BY <2>5, <2>7, <2>8, <2>9 DEF s
<1>4. QED
  BY <1>1, <1>2, <1>3

\* The recursive definition of StoredAbove has a solution.
LEMMA StoredAboveDef ==
  ASSUME NEW m, NEW height, NEW n \in Nat, NEW commits
  PROVE  StoredAbove(m, height, n, commits) =
           [i \in 0..n |->
              IF i = 0 THEN m
              ELSE store_block_commitment(
                     StoredAbove(m, height, n, commits)[i - 1], height + i,
                     commits[i])]
<1> DEFINE Solves(g, k) ==
             g = [i \in 0..k |->
                    IF i = 0 THEN m
                    ELSE store_block_commitment(g[i - 1], height + i, commits[i])]
           T == {k \in Nat : \E g : Solves(g, k)}
<1>1. 0 \in T
  <2>1. Solves([i \in 0..0 |-> m], 0)
    OBVIOUS
  <2>2. QED
    BY <2>1
<1>2. ASSUME NEW k \in Nat, k \in T PROVE k + 1 \in T
  <2>1. PICK g : Solves(g, k)
    BY <1>2
  <2> DEFINE next == store_block_commitment(g[k], height + (k + 1), commits[k + 1])
             h == [i \in 0..(k + 1) |-> IF i = k + 1 THEN next ELSE g[i]]
  <2>2. \A i \in 0..(k + 1) :
          h[i] = IF i = 0 THEN m
                 ELSE store_block_commitment(h[i - 1], height + i, commits[i])
    <3> TAKE i \in 0..(k + 1)
    <3>1. CASE i = 0
      BY <2>1, <3>1
    <3>2. CASE i = k + 1
      BY <3>2
    <3>3. CASE i \in 1..k
      <4>1. i \in 0..k /\ i - 1 \in 0..k /\ i # 0 /\ i # k + 1 /\ i - 1 # k + 1
        BY <3>3
      <4>2. g[i] = store_block_commitment(g[i - 1], height + i, commits[i])
        BY <2>1, <4>1
      <4>3. h[i] = g[i] /\ h[i - 1] = g[i - 1]
        BY <4>1
      <4>4. QED
        BY <4>1, <4>2, <4>3
    <3>4. QED
      BY <3>1, <3>2, <3>3
  <2>3. Solves(h, k + 1)
    BY <2>2
  <2> HIDE DEF h
  <2>4. QED
    BY <2>3
<1>3. n \in T
  <2> HIDE DEF T
  <2>1. QED
    BY <1>1, <1>2, SetInductionOnNat
<1>4. PICK g : Solves(g, n)
  BY <1>3
<1>5. QED
  BY <1>4 DEF StoredAbove

\* Storing n commitments: every slot keeps what it held or holds one of them,
\* and the last height stored is found again unless it had no slot.
LEMMA StoreAboveType ==
  ASSUME NEW m \in MainState, NEW height \in Nat, NEW n \in Nat, NEW commits,
         \A i \in 1..n : commits[i] \in CommittedBlockHeader
  PROVE  LET s == StoreAbove(m, height, n, commits)
         IN  /\ s \in MainState
             /\ s.fork_counter = m.fork_counter
             /\ \A p \in Slots :
                  \/ s.block_commitments[p] = m.block_commitments[p]
                  \/ \E i \in 1..n : s.block_commitments[p] = commits[i]
             /\ n > 0 =>
                  \/ get_position(s, height + n) = PRUNING_FACTOR
                  \/ s.block_commitments[get_position(s, height + n)] = commits[n]
<1> DEFINE Good(s, k) ==
             /\ s \in MainState
             /\ s.fork_counter = m.fork_counter
             /\ \A p \in Slots :
                  \/ s.block_commitments[p] = m.block_commitments[p]
                  \/ \E i \in 1..k : s.block_commitments[p] = commits[i]
             /\ k > 0 =>
                  \/ get_position(s, height + k) = PRUNING_FACTOR
                  \/ s.block_commitments[get_position(s, height + k)] = commits[k]
<1> DEFINE stored == StoredAbove(m, height, n, commits)
<1>1. stored = [i \in 0..n |->
                  IF i = 0 THEN m
                  ELSE store_block_commitment(stored[i - 1], height + i, commits[i])]
  BY StoredAboveDef
<1> HIDE DEF stored
<1> DEFINE T == {k \in Nat : k <= n => Good(stored[k], k)}
<1>2. 0 \in T
  <2>1. stored[0] = m
    BY <1>1
  <2>2. QED
    BY <2>1
<1>3. ASSUME NEW k \in Nat, k \in T PROVE k + 1 \in T
  <2>1. SUFFICES ASSUME k + 1 <= n PROVE Good(stored[k + 1], k + 1)
    OBVIOUS
  <2>2. k <= n /\ k + 1 \in 0..n /\ k + 1 \in 1..n /\ (k + 1) - 1 = k /\ k + 1 # 0
    BY <2>1
  <2> DEFINE s == stored[k]
             t == stored[k + 1]
  <2>3. Good(s, k)
    BY <1>3, <2>2
  <2>4. t = store_block_commitment(s, height + (k + 1), commits[k + 1])
    BY <1>1, <2>2
  <2>5. commits[k + 1] \in CommittedBlockHeader /\ height + (k + 1) \in Nat
    BY <2>2
  <2> HIDE DEF s, t
  <2>6. /\ t \in MainState
        /\ t.fork_counter = s.fork_counter
        /\ \A p \in Slots : \/ t.block_commitments[p] = s.block_commitments[p]
                           \/ t.block_commitments[p] = commits[k + 1]
        /\ \/ get_position(t, height + (k + 1)) = PRUNING_FACTOR
           \/ t.block_commitments[get_position(t, height + (k + 1))] = commits[k + 1]
    BY <2>3, <2>4, <2>5, StoreType
  <2>7. ASSUME NEW p \in Slots
        PROVE  \/ t.block_commitments[p] = m.block_commitments[p]
               \/ \E i \in 1..(k + 1) : t.block_commitments[p] = commits[i]
    BY <2>3, <2>6
  <2>8. QED
    BY <2>3, <2>6, <2>7 DEF t
<1>4. n \in T
  <2> HIDE DEF T
  <2>1. QED
    BY <1>2, <1>3, SetInductionOnNat
<1>5. QED
  BY <1>4 DEF StoreAbove, stored

\* "Update globals" leaves a main state whose tip fields are those of c.
LEMMA WithTipType ==
  ASSUME NEW m \in MainState, NEW c \in CommittedBlockHeader, NEW height \in Nat
  PROVE  LET s == WithTip(m, c, height)
         IN  /\ s \in MainState
             /\ s.fork_counter = m.fork_counter
             /\ s.start_height = m.start_height
             /\ s.block_commitments = m.block_commitments
             /\ s.last_diff_adjustment = c.last_diff_adjustment
             /\ s.block_height = height
             /\ s.chain_work = c.chain_work
             /\ s.tip_commit_hash = c
             /\ s.tip_block_hash = c.header.hash
<1>1. /\ c.last_diff_adjustment \in Nat /\ c.chain_work \in Nat
      /\ c.header.hash \in Hash
  BY HeadersAssumption DEF CommittedBlockHeader, BlockHeader
<1>2. QED
  BY <1>1 DEF WithTip, MainState

-----------------------------------------------------------------------------
(* The invariant on values of the accounts. *)

\* The parts of the invariant, as predicates of a value of the main state.
TipFields(m) ==
  /\ m.block_height = m.tip_commit_hash.blockheight
  /\ m.chain_work = m.tip_commit_hash.chain_work
  /\ m.last_diff_adjustment = m.tip_commit_hash.last_diff_adjustment
  /\ m.tip_block_hash = m.tip_commit_hash.header.hash

TipSlot(m) ==
  \/ get_position(m, m.block_height) = PRUNING_FACTOR
  \/ m.block_commitments[get_position(m, m.block_height)] = m.tip_commit_hash

RingWithin(m, work) ==
  \A s \in Slots : m.block_commitments[s] # NoCommitment =>
                     m.block_commitments[s].chain_work <= work

GoodMain(m) ==
  /\ m \in MainState
  /\ TipFields(m)
  /\ TipSlot(m)
  /\ RingWithin(m, m.chain_work)

\* The same for the value of a fork account.
GoodFork(fork) ==
  LET buffer == fork.block_commitments
      n == Len(buffer)
  IN  /\ fork \in ForkState
      /\ n \in 1..PRUNING_FACTOR
      /\ buffer[n] = fork.tip_commit_hash
      /\ buffer[n].header.hash = fork.tip_block_hash
      /\ \A i \in 1..n : buffer[i].blockheight = fork.start_height + i
      /\ \A i \in 1..(n - 1) : IsChild(buffer[i], buffer[i + 1])

BufferWithin(buffer, work) ==
  \A i \in 1..Len(buffer) : buffer[i].chain_work <= work

GoodForks(fs, m) ==
  /\ fs \in [ForkIds \X Signers -> ForkState \cup {NoFork}]
  /\ \A f \in ForkIds \X Signers : fs[f] # NoFork =>
       /\ GoodFork(fs[f])
       /\ BufferWithin(fs[f].block_commitments, m.chain_work)
       /\ f[1] < m.fork_counter
  /\ \A f, g \in ForkIds \X Signers :
       fs[f] # NoFork /\ fs[g] # NoFork /\ f[1] = g[1] => f = g

GoodAccounts(m, fs) ==
  \/ m = NoMainState /\ fs = [f \in ForkIds \X Signers |-> NoFork]
  \/ GoodMain(m) /\ GoodForks(fs, m)

\* RelayInvariant in these terms.
LEMMA InvariantParts ==
  RelayInvariant <=> now \in Nat /\ GoodAccounts(main_state, forks)
<1> USE DEF LiveForks, Initialized, GoodAccounts
<1>1. NoMainState \notin MainState /\ NoFork \notin ForkState
  BY RelayAssumption
<1>2. CASE main_state = NoMainState
  BY <1>1, <1>2 DEF RelayInvariant, TypeOK, TipIsOneHeader, TipIsFound,
     NothingHeavierThanTip, ForkBuffersAreChains, ForkIdsAreUnique,
     ForksHaveMainState, GoodMain
<1>3. CASE main_state # NoMainState
  <2>1. TypeOK /\ TipIsOneHeader /\ TipIsFound
        <=> /\ main_state \in MainState /\ TipFields(main_state) /\ TipSlot(main_state)
            /\ forks \in [ForkIds \X Signers -> ForkState \cup {NoFork}]
            /\ now \in Nat
    BY <1>1, <1>3 DEF TypeOK, TipIsOneHeader, TipIsFound, TipFields, TipSlot
  <2>2. NothingHeavierThanTip
        <=> /\ RingWithin(main_state, main_state.chain_work)
            /\ \A f \in LiveForks :
                 BufferWithin(forks[f].block_commitments, main_state.chain_work)
    BY <1>3 DEF NothingHeavierThanTip, RingWithin, BufferWithin
  <2>3. ASSUME forks \in [ForkIds \X Signers -> ForkState \cup {NoFork}]
        PROVE  ForkBuffersAreChains <=> \A f \in LiveForks : GoodFork(forks[f])
    BY <2>3 DEF ForkBuffersAreChains, GoodFork
  <2>4. ForkIdsAreUnique
        <=> /\ \A f \in LiveForks : f[1] < main_state.fork_counter
            /\ \A f, g \in LiveForks : f[1] = g[1] => f = g
    BY DEF ForkIdsAreUnique
  <2>5. ForksHaveMainState
    BY <1>3 DEF ForksHaveMainState
  <2>6. QED
    BY <1>3, <2>1, <2>2, <2>3, <2>4, <2>5 DEF RelayInvariant, GoodMain, GoodForks
<1>4. QED
  BY <1>2, <1>3

-----------------------------------------------------------------------------
(* The steps the instructions are made of. *)

\* A commitment read from a main state is one of its slots.
LEMMA LookupIsSlot ==
  ASSUME NEW m \in MainState, NEW h \in Nat,
         get_commitment(m, h) # NoCommitment
  PROVE  /\ get_position(m, h) \in Slots
         /\ get_commitment(m, h) = m.block_commitments[get_position(m, h)]
         /\ get_commitment(m, h) \in CommittedBlockHeader
<1>1. get_position(m, h) # PRUNING_FACTOR
  BY DEF get_commitment
<1>2. get_position(m, h) \in Slots
  BY <1>1, PositionType
<1>3. get_commitment(m, h) = m.block_commitments[get_position(m, h)]
  BY DEF get_commitment
<1>4. QED
  BY <1>2, <1>3 DEF MainState, Commitment

\* The last of n commitments is the heaviest and belongs n blocks above a height.
HeaviestLast(commits, n, height) ==
  /\ n \in Nat \ {0}
  /\ \A i \in 1..n : /\ commits[i] \in CommittedBlockHeader
                      /\ commits[i].chain_work <= commits[n].chain_work
  /\ commits[n].blockheight = height + n

\* Storing commitments above a height and making the last one the tip gives a
\* good main state, if that one is the heaviest of all.
LEMMA NewTip ==
  ASSUME NEW m \in MainState, NEW height \in Nat, NEW n, NEW commits,
         HeaviestLast(commits, n, height),
         RingWithin(m, m.chain_work),
         m.chain_work <= commits[n].chain_work
  PROVE  LET s == WithTip(StoreAbove(m, height, n, commits), commits[n], height + n)
         IN  /\ GoodMain(s)
             /\ s.chain_work = commits[n].chain_work
             /\ s.fork_counter = m.fork_counter
<1> DEFINE r == StoreAbove(m, height, n, commits)
           tip == commits[n]
           s == WithTip(r, tip, height + n)
<1>0. /\ n \in Nat \ {0}
      /\ \A i \in 1..n : /\ commits[i] \in CommittedBlockHeader
                          /\ commits[i].chain_work <= commits[n].chain_work
      /\ commits[n].blockheight = height + n
  BY DEF HeaviestLast
<1>1. tip \in CommittedBlockHeader /\ height + n \in Nat
  BY <1>0
<1>2. /\ r \in MainState
      /\ r.fork_counter = m.fork_counter
      /\ \A p \in Slots :
           \/ r.block_commitments[p] = m.block_commitments[p]
           \/ \E i \in 1..n : r.block_commitments[p] = commits[i]
      /\ \/ get_position(r, height + n) = PRUNING_FACTOR
         \/ r.block_commitments[get_position(r, height + n)] = commits[n]
  BY <1>0, StoreAboveType
<1> HIDE DEF r
<1>3. /\ s \in MainState
      /\ s.fork_counter = r.fork_counter
      /\ s.start_height = r.start_height
      /\ s.block_commitments = r.block_commitments
      /\ s.last_diff_adjustment = tip.last_diff_adjustment
      /\ s.block_height = height + n
      /\ s.chain_work = tip.chain_work
      /\ s.tip_commit_hash = tip
      /\ s.tip_block_hash = tip.header.hash
  BY <1>1, <1>2, WithTipType
<1> HIDE DEF s
<1>4. TipFields(s)
  BY <1>0, <1>3 DEF TipFields
<1>5. TipSlot(s)
  <2>1. get_position(s, height + n) = get_position(r, height + n)
    BY <1>3 DEF get_position
  <2>2. QED
    BY <1>2, <1>3, <2>1 DEF TipSlot
<1>6. RingWithin(s, s.chain_work)
  <2>1. SUFFICES ASSUME NEW p \in Slots, s.block_commitments[p] # NoCommitment
                 PROVE  s.block_commitments[p].chain_work <= tip.chain_work
    BY <1>3 DEF RingWithin
  <2>2. CASE s.block_commitments[p] = m.block_commitments[p]
    <3>1. m.block_commitments[p].chain_work <= m.chain_work
      BY <2>1, <2>2 DEF RingWithin
    <3>2. /\ m.block_commitments[p].chain_work \in Nat
          /\ m.chain_work \in Nat /\ tip.chain_work \in Nat
      BY <1>1, <2>1, <2>2 DEF MainState, Commitment, CommittedBlockHeader
    <3>3. QED
      BY <2>2, <3>1, <3>2
  <2>3. CASE \E i \in 1..n : s.block_commitments[p] = commits[i]
    BY <1>0, <2>3
  <2>4. QED
    BY <1>2, <1>3, <2>2, <2>3
<1>7. QED
  BY <1>2, <1>3, <1>4, <1>5, <1>6 DEF GoodMain, r, s

\* The headers that pass HeadersVerify, once committed: children of one
\* another, the last one the heaviest.
LEMMA VerifiedHeaders ==
  ASSUME NEW c \in CommittedBlockHeader, NEW data \in Seq(Headers), data # <<>>,
         HeadersVerify(c, data, now)
  PROVE  LET commits == CommittedHeaders(c, data)
             n == Len(data)
         IN  /\ n \in Nat \ {0}
             /\ commits[0] = c
             /\ \A i \in 0..n : /\ commits[i] \in CommittedBlockHeader
                                 /\ commits[i].blockheight = c.blockheight + i
                                 /\ commits[i].chain_work <= commits[n].chain_work
             /\ \A i \in 1..n : IsChild(commits[i - 1], commits[i])
<1> DEFINE commits == CommittedHeaders(c, data)
           n == Len(data)
<1>1. n \in Nat \ {0} /\ \A i \in 1..n : data[i] \in Headers
  OBVIOUS
<1>2. /\ commits[0] = c
      /\ \A i \in 1..n : commits[i] = CommittedChild(commits[i - 1], data[i])
      /\ \A i \in 0..n : /\ commits[i] \in CommittedBlockHeader
                          /\ commits[i].blockheight = c.blockheight + i
      /\ \A i, j \in 0..n :
           i <= j => commits[i].chain_work <= commits[j].chain_work
  BY CommittedHeadersType
<1>3. \A i \in 1..n : data[i].reversed_prev_blockhash = commits[i - 1].header.hash
  BY DEF HeadersVerify
<1> HIDE DEF commits
<1>4. \A i \in 1..n : IsChild(commits[i - 1], commits[i])
  <2> TAKE i \in 1..n
  <2>1. i - 1 \in 0..n /\ data[i] \in Headers
    BY <1>1
  <2> DEFINE child == CommittedChild(commits[i - 1], data[i])
  <2>2. /\ child.header = data[i]
        /\ child.blockheight = commits[i - 1].blockheight + 1
        /\ child.chain_work = commits[i - 1].chain_work + Difficulty[data[i].nbits]
    BY <1>2, <2>1, CommittedChildType
  <2> HIDE DEF child
  <2>3. commits[i] = child
    BY <1>2 DEF child
  <2>4. QED
    BY <1>3, <2>2, <2>3 DEF IsChild
<1>5. QED
  BY <1>1, <1>2, <1>4 DEF commits

\* The buffer of a fork is a chain above the start height that ends in c, or is
\* still empty, c being the block at the start height.
EndsIn(fork, c) ==
  LET buffer == fork.block_commitments
      n == Len(buffer)
  IN  /\ fork.start_height \in Nat
      /\ buffer \in Seq(CommittedBlockHeader)
      /\ \A i \in 1..n : buffer[i].blockheight = fork.start_height + i
      /\ \A i \in 1..(n - 1) : IsChild(buffer[i], buffer[i + 1])
      /\ \/ n = 0 /\ c.blockheight = fork.start_height
         \/ n > 0 /\ buffer[n] = c

\* What a fork that ends in c has become when verified headers are appended.
ForkGrowth(fork, c, data) ==
  LET commits == CommittedHeaders(c, data)
      grown == GrownFork(fork, commits[Len(data)], NewCommitments(c, data))
      length == Len(fork.block_commitments) + Len(data)
  IN  /\ GoodFork(grown)
      /\ grown.start_height = fork.start_height
      /\ grown.tip_commit_hash = commits[Len(data)]
      /\ Len(grown.block_commitments) = length
      /\ fork.start_height + length = c.blockheight + Len(data)
      /\ \A i \in 1..length :
           \/ /\ i \in 1..Len(fork.block_commitments)
              /\ grown.block_commitments[i] = fork.block_commitments[i]
           \/ \E j \in 1..Len(data) : grown.block_commitments[i] = commits[j]

\* Appending verified headers to a fork that ends in c, or to one without a
\* block that starts at c, gives a good fork account.
LEMMA ForkGrows ==
  ASSUME NEW fork, NEW c \in CommittedBlockHeader, EndsIn(fork, c),
         NEW data \in Seq(Headers), data # <<>>, HeadersVerify(c, data, now),
         Len(fork.block_commitments) + Len(data) <= PRUNING_FACTOR
  PROVE  ForkGrowth(fork, c, data)
<1> DEFINE old == fork.block_commitments
           l == Len(old)
           n == Len(data)
           commits == CommittedHeaders(c, data)
           new == NewCommitments(c, data)
           buffer == old \o new
           tip == commits[n]
           grown == GrownFork(fork, tip, new)
<1>0. /\ fork.start_height \in Nat
      /\ old \in Seq(CommittedBlockHeader)
      /\ \A i \in 1..l : old[i].blockheight = fork.start_height + i
      /\ \A i \in 1..(l - 1) : IsChild(old[i], old[i + 1])
      /\ \/ l = 0 /\ c.blockheight = fork.start_height
         \/ l > 0 /\ old[l] = c
  BY DEF EndsIn
<1>1. /\ n \in Nat \ {0}
      /\ commits[0] = c
      /\ \A i \in 0..n : /\ commits[i] \in CommittedBlockHeader
                          /\ commits[i].blockheight = c.blockheight + i
      /\ \A i \in 1..n : IsChild(commits[i - 1], commits[i])
  BY VerifiedHeaders
<1>2. grown = [start_height |-> fork.start_height, tip_commit_hash |-> tip,
               tip_block_hash |-> tip.header.hash, block_commitments |-> buffer]
  BY DEF GrownFork
<1> HIDE DEF commits, grown, old
<1>3. l \in Nat /\ old \in Seq(CommittedBlockHeader)
  BY <1>0 DEF old
<1>4. new \in Seq(CommittedBlockHeader) /\ Len(new) = n
  BY <1>1 DEF NewCommitments, commits
<1>5. /\ buffer \in Seq(CommittedBlockHeader)
      /\ Len(buffer) = l + n
      /\ \A i \in 1..l : buffer[i] = old[i]
      /\ \A j \in 1..n : buffer[l + j] = commits[j]
  <2> HIDE DEF new
  <2>0. /\ old \o new \in Seq(CommittedBlockHeader)
        /\ Len(old \o new) = Len(old) + Len(new)
        /\ \A i \in 1..(Len(old) + Len(new)) :
             (old \o new)[i] = IF i <= Len(old) THEN old[i] ELSE new[i - Len(old)]
    BY <1>3, <1>4, ConcatProperties, Zenon
  <2>1. /\ buffer \in Seq(CommittedBlockHeader)
        /\ Len(buffer) = l + n
        /\ \A i \in 1..(l + n) :
             buffer[i] = IF i <= l THEN old[i] ELSE new[i - l]
    BY <1>4, <2>0
  <2> HIDE DEF buffer, l, n
  <2>2. \A i \in 1..l : buffer[i] = old[i]
    BY <1>1, <1>3, <2>1
  <2>3. \A j \in 1..n : buffer[l + j] = new[j]
    <3> TAKE j \in 1..n
    <3>1. l + j \in 1..(l + n) /\ ~(l + j <= l) /\ (l + j) - l = j
      BY <1>1, <1>3
    <3>2. QED
      BY <2>1, <3>1
  <2>4. \A j \in 1..n : new[j] = commits[j]
    BY DEF new, NewCommitments, commits, n
  <2>5. QED
    BY <2>1, <2>2, <2>3, <2>4
<1> HIDE DEF buffer, l, n
<1>6. l + n \in 1..PRUNING_FACTOR
  BY <1>1, <1>3, RingAssumption DEF l, n, old
<1>7. /\ \A i \in 1..l : old[i].blockheight = fork.start_height + i
      /\ c.blockheight = fork.start_height + l
  BY <1>0, <1>3 DEF l
<1>8. \A i \in 1..(l + n) : i \in 1..l \/ \E j \in 1..n : i = l + j
  <2> TAKE i \in 1..(l + n)
  <2>1. CASE i <= l
    BY <1>3, <2>1
  <2>2. CASE i > l
    <3>1. i - l \in 1..n /\ i = l + (i - l)
      BY <1>1, <1>3, <2>2
    <3>2. QED
      BY <3>1
  <2>3. QED
    BY <1>3, <2>1, <2>2
<1>9. ASSUME NEW i \in 1..(l + n)
      PROVE  buffer[i].blockheight = fork.start_height + i
  <2>1. CASE i \in 1..l
    BY <1>5, <1>7, <2>1
  <2>2. ASSUME NEW j \in 1..n, i = l + j
        PROVE  buffer[i].blockheight = fork.start_height + i
    <3>1. buffer[i] = commits[j] /\ j \in 0..n
      BY <1>1, <1>5, <2>2
    <3>2. commits[j].blockheight = c.blockheight + j
      BY <1>1, <3>1
    <3>3. QED
      BY <1>0, <1>1, <1>3, <1>7, <2>2, <3>1, <3>2
  <2>3. QED
    BY <1>8, <2>1, <2>2
<1>10. ASSUME NEW i \in 1..(l + n - 1)
       PROVE  IsChild(buffer[i], buffer[i + 1])
  <2>1. CASE i < l
    <3>1. i \in 1..l /\ i + 1 \in 1..l /\ i \in 1..(l - 1)
      BY <1>1, <1>3, <2>1
    <3>2. IsChild(old[i], old[i + 1])
      BY <1>0, <3>1 DEF l
    <3>3. QED
      BY <1>5, <3>1, <3>2
  <2>2. CASE i = l
    <3>1. old[l] = c /\ l \in 1..l /\ 1 \in 1..n
      BY <1>0, <1>1, <1>3, <2>2 DEF l
    <3>2. IsChild(commits[1 - 1], commits[1])
      BY <1>1, <3>1
    <3>3. buffer[i] = commits[0] /\ buffer[i + 1] = commits[1]
      BY <1>1, <1>5, <2>2, <3>1
    <3>4. QED
      BY <3>2, <3>3
  <2>3. CASE i > l
    <3> DEFINE j == i - l
    <3>1. j \in 1..n /\ j + 1 \in 1..n /\ i = l + j /\ i + 1 = l + (j + 1)
      BY <1>1, <1>3, <2>3
    <3>2. IsChild(commits[(j + 1) - 1], commits[j + 1])
      BY <1>1, <3>1
    <3>3. (j + 1) - 1 = j
      BY <3>1
    <3> HIDE DEF j
    <3>4. buffer[i] = commits[j] /\ buffer[i + 1] = commits[j + 1]
      BY <1>5, <3>1
    <3>5. QED
      BY <3>2, <3>3, <3>4
  <2>4. QED
    BY <1>1, <1>3, <2>1, <2>2, <2>3
<1>11. buffer[l + n] = tip /\ tip \in CommittedBlockHeader
  BY <1>1, <1>5
<1>12. tip.header.hash \in Hash
  BY <1>11, HeadersAssumption DEF CommittedBlockHeader, BlockHeader
<1>13. grown \in ForkState
  BY <1>0, <1>2, <1>5, <1>11, <1>12 DEF ForkState
<1>14. GoodFork(grown)
  <2> DEFINE b == grown.block_commitments
  <2>1. b = buffer /\ grown.start_height = fork.start_height
    BY <1>2
  <2>2. grown.tip_commit_hash = tip /\ grown.tip_block_hash = tip.header.hash
    BY <1>2
  <2>3. Len(b) = l + n
    BY <1>5, <2>1
  <2>4. /\ Len(b) \in 1..PRUNING_FACTOR
        /\ b[Len(b)] = grown.tip_commit_hash
        /\ b[Len(b)].header.hash = grown.tip_block_hash
    BY <1>6, <1>11, <2>1, <2>2, <2>3
  <2>5. \A i \in 1..Len(b) : b[i].blockheight = grown.start_height + i
    BY <1>9, <2>1, <2>3
  <2>6. ASSUME NEW i \in 1..(Len(b) - 1) PROVE IsChild(b[i], b[i + 1])
    <3>1. i \in 1..(l + n - 1)
      BY <1>1, <1>3, <2>3
    <3>2. IsChild(buffer[i], buffer[i + 1])
      BY <1>10, <3>1
    <3>3. QED
      BY <2>1, <3>2
  <2>7. QED
    BY <1>13, <2>4, <2>5, <2>6 DEF GoodFork
<1>15. \A i \in 1..(l + n) :
         \/ i \in 1..l /\ buffer[i] = old[i]
         \/ \E j \in 1..n : buffer[i] = commits[j]
  BY <1>5, <1>8
<1>16. fork.start_height + (l + n) = c.blockheight + n
  BY <1>0, <1>1, <1>3, <1>7
<1>17. /\ grown.start_height = fork.start_height
       /\ grown.tip_commit_hash = tip
       /\ grown.block_commitments = buffer
  BY <1>2
<1>18. Len(grown.block_commitments) = l + n
  BY <1>5, <1>17
<1>19. \A i \in 1..(l + n) :
         \/ i \in 1..l /\ grown.block_commitments[i] = old[i]
         \/ \E j \in 1..n : grown.block_commitments[i] = commits[j]
  BY <1>15, <1>17
<1>20. QED
  BY <1>14, <1>16, <1>17, <1>18, <1>19 DEF ForkGrowth, grown, commits, old, l, n

-----------------------------------------------------------------------------
(* Every instruction preserves the invariant. *)

\* What callers can refer to are committed headers.
LEMMA PublishedType ==
  ASSUME GoodAccounts(main_state, forks), NEW c \in PublishedCommitments
  PROVE  /\ GoodMain(main_state) /\ GoodForks(forks, main_state)
         /\ c \in CommittedBlockHeader
<1>1. Initialized
  BY DEF PublishedCommitments
<1>2. GoodMain(main_state) /\ GoodForks(forks, main_state)
  BY <1>1 DEF GoodAccounts, Initialized
<1>3. CASE c \in {main_state.block_commitments[s] : s \in Slots} \ {NoCommitment}
  BY <1>2, <1>3 DEF GoodMain, MainState, Commitment
<1>4. CASE c \in {forks[f].tip_commit_hash : f \in LiveForks}
  BY <1>2, <1>4 DEF GoodForks, GoodFork, ForkState, LiveForks
<1>5. QED
  BY <1>1, <1>2, <1>3, <1>4 DEF PublishedCommitments

\* The forks stay good when the main state gets heavier and the counter grows.
LEMMA ForksStayGood ==
  ASSUME NEW m \in MainState, NEW t \in MainState, NEW fs, GoodForks(fs, m),
         m.chain_work <= t.chain_work, m.fork_counter <= t.fork_counter
  PROVE  GoodForks(fs, t)
<1>1. /\ m.chain_work \in Nat /\ t.chain_work \in Nat
      /\ m.fork_counter \in Nat /\ t.fork_counter \in Nat
  BY DEF MainState
<1>2. ASSUME NEW f \in ForkIds \X Signers, fs[f] # NoFork
      PROVE  /\ BufferWithin(fs[f].block_commitments, t.chain_work)
             /\ f[1] < t.fork_counter
  <2> DEFINE buffer == fs[f].block_commitments
  <2>1. /\ BufferWithin(buffer, m.chain_work)
        /\ f[1] < m.fork_counter /\ GoodFork(fs[f])
    BY <1>2 DEF GoodForks
  <2>2. f[1] \in Int
    BY RelayAssumption DEF ForkIds
  <2>3. buffer \in Seq(CommittedBlockHeader)
    BY <2>1 DEF GoodFork, ForkState
  <2> HIDE DEF buffer
  <2>4. ASSUME NEW i \in 1..Len(buffer) PROVE buffer[i].chain_work \in Nat
    <3>1. buffer[i] \in CommittedBlockHeader
      BY <2>3, ElementOfSeq
    <3>2. QED
      BY <3>1 DEF CommittedBlockHeader
  <2>5. BufferWithin(buffer, t.chain_work)
    BY <1>1, <2>1, <2>4 DEF BufferWithin
  <2>6. QED
    BY <1>1, <2>1, <2>2, <2>5 DEF buffer
<1>3. QED
  BY <1>2 DEF GoodForks

\* The invariant holds before initialize: there is nothing yet.
LEMMA InitInvariant == Init => RelayInvariant
BY InvariantParts, RelayAssumption DEF Init, GoodAccounts

\* initialize makes the checkpoint the tip and the only commitment.
LEMMA InitializeMain ==
  ASSUME NEW c \in CommittedBlockHeader, Initialize(c)
  PROVE  GoodMain(main_state')
<1>1. c.header.hash \in Hash
  BY HeadersAssumption DEF CommittedBlockHeader, BlockHeader
<1> DEFINE m == main_state'
<1>2. m = [start_height |-> c.blockheight,
           last_diff_adjustment |-> c.last_diff_adjustment,
           block_height |-> c.blockheight,
           total_blocks |-> 1,
           fork_counter |-> 0,
           tip_commit_hash |-> c,
           tip_block_hash |-> c.header.hash,
           chain_work |-> c.chain_work,
           block_commitments |->
             [s \in Slots |-> IF s = 0 THEN c ELSE NoCommitment]]
  BY DEF Initialize
<1> HIDE DEF m
<1>3. m \in MainState
  BY <1>1, <1>2 DEF MainState, CommittedBlockHeader, Commitment
<1>4. TipFields(m)
  BY <1>2 DEF TipFields
<1>5. TipSlot(m)
  BY <1>2, RingAssumption DEF TipSlot, get_position, Slots, CommittedBlockHeader
<1>6. RingWithin(m, m.chain_work)
  BY <1>2 DEF RingWithin, CommittedBlockHeader
<1>7. QED
  BY <1>3, <1>4, <1>5, <1>6 DEF GoodMain, m

LEMMA InitializeInvariant ==
  ASSUME RelayInvariant, NEW c \in Checkpoints, Initialize(c)
  PROVE  GoodAccounts(main_state', forks') /\ main_state' \in MainState
<1>1. c \in CommittedBlockHeader
  BY RelayAssumption
<1>2. main_state = NoMainState /\ forks' = [f \in ForkIds \X Signers |-> NoFork]
  BY InvariantParts, RelayAssumption
     DEF Initialize, Initialized, GoodAccounts, GoodMain
<1>3. GoodMain(main_state')
  BY <1>1, InitializeMain
<1>4. GoodForks(forks', main_state')
  BY <1>2 DEF GoodForks
<1>5. QED
  BY <1>3, <1>4 DEF GoodAccounts, GoodMain

\* The commitment at a good main state's own height, if any, is its tip.
LEMMA LookupOfTip ==
  ASSUME NEW m, GoodMain(m), NEW c \in CommittedBlockHeader,
         c = get_commitment(m, m.block_height)
  PROVE  c = m.tip_commit_hash
<1>1. m \in MainState /\ m.block_height \in Nat /\ c # NoCommitment
  BY RingAssumption DEF GoodMain, MainState
<1>2. /\ get_position(m, m.block_height) \in Slots
      /\ c = m.block_commitments[get_position(m, m.block_height)]
  BY <1>1, LookupIsSlot
<1>3. get_position(m, m.block_height) # PRUNING_FACTOR
  BY <1>2, RingAssumption DEF Slots
<1>4. QED
  BY <1>2, <1>3 DEF GoodMain, TipSlot

\* submit_block_headers builds on the tip.
LEMMA SubmitBlockHeadersMain ==
  ASSUME GoodMain(main_state), NEW c \in CommittedBlockHeader,
         NEW data \in Seq(Headers), SubmitBlockHeaders(c, data)
  PROVE  /\ c = main_state.tip_commit_hash
         /\ GoodMain(main_state')
         /\ main_state.chain_work <= main_state'.chain_work
         /\ main_state'.fork_counter = main_state.fork_counter
<1> DEFINE m == main_state
           n == Len(data)
           commits == CommittedHeaders(c, data)
<1>1. /\ data # <<>> /\ HeadersVerify(c, data, now)
      /\ c = get_commitment(m, m.block_height)
      /\ main_state' = WithTip(StoreAbove(m, m.block_height, n, commits),
                               commits[n], m.block_height + n)
  BY DEF SubmitBlockHeaders, IsTipCommitment
<1>2. /\ n \in Nat \ {0} /\ commits[0] = c
      /\ \A i \in 0..n : /\ commits[i] \in CommittedBlockHeader
                          /\ commits[i].blockheight = c.blockheight + i
                          /\ commits[i].chain_work <= commits[n].chain_work
  BY <1>1, VerifiedHeaders
<1>3. c = m.tip_commit_hash
  BY <1>1, LookupOfTip
<1> HIDE DEF commits, n
<1>4. /\ m \in MainState /\ m.block_height \in Nat
      /\ RingWithin(m, m.chain_work)
      /\ m.block_height = c.blockheight /\ m.chain_work = c.chain_work
  BY <1>3 DEF GoodMain, TipFields, MainState
<1>5. /\ commits[n].blockheight = m.block_height + n
      /\ m.chain_work <= commits[n].chain_work
      /\ \A i \in 1..n : /\ commits[i] \in CommittedBlockHeader
                          /\ commits[i].chain_work <= commits[n].chain_work
  BY <1>2, <1>4
<1> DEFINE t == WithTip(StoreAbove(m, m.block_height, n, commits),
                        commits[n], m.block_height + n)
<1>6. /\ GoodMain(t)
      /\ t.chain_work = commits[n].chain_work
      /\ t.fork_counter = m.fork_counter
  <2>1. HeaviestLast(commits, n, m.block_height)
    BY <1>2, <1>5 DEF HeaviestLast
  <2>2. QED
    BY <1>4, <1>5, <2>1, NewTip
<1>7. main_state' = t
  BY <1>1 DEF commits, n
<1> HIDE DEF t
<1>8. QED
  BY <1>3, <1>5, <1>6, <1>7

\* submit_block_headers preserves the invariant.
LEMMA SubmitBlockHeadersInvariant ==
  ASSUME RelayInvariant, NEW c \in PublishedCommitments, NEW data \in Batches,
         SubmitBlockHeaders(c, data)
  PROVE  GoodAccounts(main_state', forks')
<1>1. /\ GoodMain(main_state) /\ GoodForks(forks, main_state)
      /\ c \in CommittedBlockHeader /\ data \in Seq(Headers)
  BY InvariantParts, PublishedType, RelayAssumption
<1>2. /\ GoodMain(main_state')
      /\ main_state.chain_work <= main_state'.chain_work
      /\ main_state'.fork_counter = main_state.fork_counter
  BY <1>1, SubmitBlockHeadersMain
<1>3. /\ main_state \in MainState /\ main_state' \in MainState
      /\ main_state.fork_counter \in Nat
  BY <1>1, <1>2 DEF GoodMain, MainState
<1>4. GoodForks(forks, main_state')
  BY <1>1, <1>2, <1>3, ForksStayGood
<1>5. forks' = forks
  BY DEF SubmitBlockHeaders
<1>6. QED
  BY <1>2, <1>4, <1>5 DEF GoodAccounts

\* submit_short_fork_headers preserves it: the new tip is heavier than all.
LEMMA SubmitShortForkHeadersInvariant ==
  ASSUME RelayInvariant, NEW c \in PublishedCommitments, NEW data \in Batches,
         SubmitShortForkHeaders(c, data)
  PROVE  GoodAccounts(main_state', forks')
<1>1. /\ GoodMain(main_state) /\ GoodForks(forks, main_state)
      /\ c \in CommittedBlockHeader /\ data \in Seq(Headers)
  BY InvariantParts, PublishedType, RelayAssumption
<1> DEFINE m == main_state
           n == Len(data)
           commits == CommittedHeaders(c, data)
           t == WithTip(StoreAbove(m, c.blockheight, n, commits),
                        commits[n], c.blockheight + n)
<1>2. /\ data # <<>> /\ HeadersVerify(c, data, now)
      /\ commits[n].chain_work > m.chain_work
      /\ main_state' = [t EXCEPT !.fork_counter = @ + 1]
      /\ forks' = forks
  BY DEF SubmitShortForkHeaders, Outweighs
<1>3. /\ n \in Nat \ {0}
      /\ \A i \in 0..n : /\ commits[i] \in CommittedBlockHeader
                          /\ commits[i].blockheight = c.blockheight + i
                          /\ commits[i].chain_work <= commits[n].chain_work
  BY <1>1, <1>2, VerifiedHeaders
<1> HIDE DEF commits, n
<1>4. /\ m \in MainState /\ m.chain_work \in Nat /\ c.blockheight \in Nat
      /\ RingWithin(m, m.chain_work)
  BY <1>1 DEF GoodMain, MainState, CommittedBlockHeader
<1>5. /\ commits[n] \in CommittedBlockHeader
      /\ commits[n].blockheight = c.blockheight + n
      /\ \A i \in 1..n : /\ commits[i] \in CommittedBlockHeader
                          /\ commits[i].chain_work <= commits[n].chain_work
  BY <1>3
<1>6. m.chain_work <= commits[n].chain_work
  BY <1>2, <1>4, <1>5 DEF CommittedBlockHeader
<1>7. /\ GoodMain(t)
      /\ t.chain_work = commits[n].chain_work
      /\ t.fork_counter = m.fork_counter
  <2>1. HeaviestLast(commits, n, c.blockheight)
    BY <1>3, <1>5 DEF HeaviestLast
  <2>2. QED
    BY <1>4, <1>6, <2>1, NewTip
<1> HIDE DEF t
<1> DEFINE u == [t EXCEPT !.fork_counter = @ + 1]
<1>8. /\ t \in MainState /\ t.fork_counter \in Nat
      /\ m.fork_counter \in Nat
  BY <1>4, <1>7 DEF GoodMain, MainState
<1>9. /\ u \in MainState
      /\ u.fork_counter = m.fork_counter + 1
      /\ u.chain_work = t.chain_work
  BY <1>7, <1>8 DEF MainState
<1>10. GoodMain(u)
  BY <1>7, <1>8, <1>9
     DEF GoodMain, TipFields, TipSlot, RingWithin, get_position, MainState
<1> HIDE DEF u
<1>11. GoodForks(forks, u)
  BY <1>1, <1>4, <1>6, <1>7, <1>8, <1>9, ForksStayGood
<1>12. QED
  BY <1>2, <1>10, <1>11 DEF GoodAccounts, u

\* The common part of submit_fork_headers, for a fork account that nobody else's
\* shares its id with and that ends in c or starts at c.
LEMMA GrowForkInvariant ==
  ASSUME NEW m, GoodMain(m), GoodForks(forks, m),
         NEW f \in ForkIds \X Signers, f[1] < m.fork_counter,
         \A g \in ForkIds \X Signers : forks[g] # NoFork /\ g[1] = f[1] => g = f,
         NEW fork, NEW c \in CommittedBlockHeader, EndsIn(fork, c),
         BufferWithin(fork.block_commitments, m.chain_work),
         NEW data \in Seq(Headers), data # <<>>, HeadersVerify(c, data, now),
         GrowFork(m, f, fork, c, data)
  PROVE  GoodAccounts(main_state', forks')
<1> DEFINE commits == CommittedHeaders(c, data)
           n == Len(data)
           tip == commits[n]
           new == NewCommitments(c, data)
           grown == GrownFork(fork, tip, new)
           old == fork.block_commitments
           buffer == grown.block_commitments
           length == Len(old) + n
<1>1. /\ n \in Nat \ {0}
      /\ \A i \in 0..n : /\ commits[i] \in CommittedBlockHeader
                          /\ commits[i].blockheight = c.blockheight + i
                          /\ commits[i].chain_work <= commits[n].chain_work
  BY VerifiedHeaders
<1>2. /\ Len(buffer) <= PRUNING_FACTOR
      /\ IF tip.chain_work > m.chain_work
         THEN /\ main_state' = WithTip(StoreFork(m, grown), tip, c.blockheight + n)
              /\ forks' = [forks EXCEPT ![f] = NoFork]
         ELSE /\ main_state' = m
              /\ forks' = [forks EXCEPT ![f] = grown]
  BY DEF GrowFork, Outweighs
<1>3. Len(buffer) = length
  <2>1. new \in Seq(CommittedBlockHeader) /\ Len(new) = n
    BY <1>1 DEF NewCommitments
  <2> HIDE DEF commits
  <2> HIDE DEF new
  <2>2. Len(old \o new) = Len(old) + Len(new)
    <3>1. old \in Seq(CommittedBlockHeader)
      BY DEF EndsIn
    <3>2. QED
      BY <2>1, <3>1, ConcatProperties, Zenon
  <2>3. QED
    BY <2>1, <2>2 DEF GrownFork
<1>4. /\ GoodFork(grown)
      /\ grown.start_height = fork.start_height
      /\ fork.start_height + length = c.blockheight + n
      /\ \A i \in 1..length :
           \/ i \in 1..Len(old) /\ buffer[i] = old[i]
           \/ \E j \in 1..n : buffer[i] = commits[j]
      /\ grown.tip_commit_hash = tip
  <2>1. Len(old) + n <= PRUNING_FACTOR
    BY <1>2, <1>3
  <2>2. ForkGrowth(fork, c, data)
    BY <2>1, ForkGrows
  <2>3. QED
    BY <2>2 DEF ForkGrowth
<1> HIDE DEF commits, n, new, grown
<1>5. /\ m \in MainState /\ m.chain_work \in Nat
      /\ tip \in CommittedBlockHeader /\ tip.chain_work \in Nat
      /\ c.blockheight \in Nat /\ fork.start_height \in Nat
  <2>1. tip \in CommittedBlockHeader
    BY <1>1
  <2>2. m \in MainState /\ m.chain_work \in Nat
    BY DEF GoodMain, MainState
  <2>3. fork.start_height \in Nat
    BY DEF EndsIn
  <2>4. QED
    BY <2>1, <2>2, <2>3 DEF CommittedBlockHeader
<1>6. length \in Nat \ {0} /\ Len(old) \in Nat
  BY <1>1 DEF EndsIn
<1>7. \A i \in 1..length : buffer[i] \in CommittedBlockHeader
  <2>1. buffer \in Seq(CommittedBlockHeader)
    BY <1>4 DEF GoodFork, ForkState
  <2>2. QED
    BY <1>3, <2>1, ElementOfSeq
<1>8. buffer[length] = tip
  BY <1>3, <1>4 DEF GoodFork
<1>9. ASSUME NEW work \in Nat, m.chain_work <= work, tip.chain_work <= work
      PROVE  \A i \in 1..length : buffer[i].chain_work <= work
  <2> TAKE i \in 1..length
  <2>1. CASE i \in 1..Len(old) /\ buffer[i] = old[i]
    <3>1. old[i].chain_work <= m.chain_work
      BY <2>1 DEF BufferWithin
    <3>2. old[i].chain_work \in Nat
      BY <1>7, <2>1 DEF CommittedBlockHeader
    <3>3. QED
      BY <1>5, <1>9, <2>1, <3>1, <3>2
  <2>2. ASSUME NEW j \in 1..n, buffer[i] = commits[j]
        PROVE  buffer[i].chain_work <= work
    <3>1. j \in 0..n
      BY <1>1
    <3>2. commits[j].chain_work <= tip.chain_work /\ commits[j].chain_work \in Nat
      BY <1>1, <3>1 DEF CommittedBlockHeader
    <3>3. QED
      BY <1>5, <1>9, <2>2, <3>2
  <2>3. QED
    BY <1>4, <2>1, <2>2
<1>10. CASE tip.chain_work > m.chain_work
  <2> DEFINE start == fork.start_height
             t == WithTip(StoreAbove(m, start, length, buffer), buffer[length],
                          start + length)
  <2>1. main_state' = t /\ forks' = [forks EXCEPT ![f] = NoFork]
    BY <1>2, <1>3, <1>4, <1>8, <1>10 DEF StoreFork
  <2>2. \A i \in 1..length : buffer[i].chain_work <= buffer[length].chain_work
    <3>1. m.chain_work <= tip.chain_work /\ tip.chain_work <= tip.chain_work
      BY <1>5, <1>10
    <3>2. \A i \in 1..length : buffer[i].chain_work <= tip.chain_work
      BY <1>5, <1>9, <3>1
    <3>3. QED
      BY <1>8, <3>2
  <2>3. buffer[length].blockheight = fork.start_height + length
    <3>1. \A i \in 1..Len(buffer) : buffer[i].blockheight = grown.start_height + i
      BY <1>4 DEF GoodFork
    <3>2. length \in 1..length
      BY <1>6
    <3>3. QED
      BY <1>3, <1>4, <3>1, <3>2
  <2>4. RingWithin(m, m.chain_work) /\ m.chain_work <= buffer[length].chain_work
    BY <1>5, <1>8, <1>10 DEF GoodMain
  <2>5. start \in Nat /\ buffer[length].blockheight = start + length
    BY <1>5, <2>3
  <2> HIDE DEF buffer, length, tip, start
  <2>6. /\ GoodMain(t)
        /\ t.chain_work = buffer[length].chain_work
        /\ t.fork_counter = m.fork_counter
    <3>1. HeaviestLast(buffer, length, start)
      BY <1>6, <1>7, <2>2, <2>5 DEF HeaviestLast
    <3>2. QED
      BY <1>5, <2>4, <2>5, <3>1, NewTip
  <2> HIDE DEF t
  <2>7. t \in MainState /\ m.fork_counter \in Nat
    BY <1>5, <2>6 DEF GoodMain, MainState
  <2>8. GoodForks(forks, t)
    BY <1>5, <1>8, <1>10, <2>6, <2>7, ForksStayGood
  <2>9. GoodForks(forks', t)
    BY <2>1, <2>8 DEF GoodForks
  <2>10. QED
    BY <2>1, <2>6, <2>9 DEF GoodAccounts
<1>11. CASE ~(tip.chain_work > m.chain_work)
  <2>1. main_state' = m /\ forks' = [forks EXCEPT ![f] = grown]
    BY <1>2, <1>11
  <2>2. BufferWithin(buffer, m.chain_work)
    <3>1. m.chain_work <= m.chain_work /\ tip.chain_work <= m.chain_work
      BY <1>5, <1>11
    <3>2. \A i \in 1..length : buffer[i].chain_work <= m.chain_work
      BY <1>5, <1>9, <3>1
    <3>3. QED
      BY <1>3, <3>2 DEF BufferWithin
  <2>3. grown \in ForkState
    BY <1>4 DEF GoodFork
  <2>4. GoodForks(forks', m)
    <3>1. forks' \in [ForkIds \X Signers -> ForkState \cup {NoFork}]
      BY <2>1, <2>3 DEF GoodForks
    <3>2. ASSUME NEW g \in ForkIds \X Signers, forks'[g] # NoFork
          PROVE  /\ GoodFork(forks'[g])
                 /\ BufferWithin(forks'[g].block_commitments, m.chain_work)
                 /\ g[1] < m.fork_counter
      <4>1. CASE g = f
        <5>1. forks'[g] = grown
          BY <2>1, <4>1 DEF GoodForks
        <5>2. QED
          BY <1>4, <2>2, <4>1, <5>1
      <4>2. CASE g # f
        <5>1. forks'[g] = forks[g]
          BY <2>1, <4>2 DEF GoodForks
        <5>2. QED
          BY <3>2, <5>1 DEF GoodForks
      <4>3. QED
        BY <4>1, <4>2
    <3>3. ASSUME NEW g \in ForkIds \X Signers, NEW h \in ForkIds \X Signers,
                 forks'[g] # NoFork, forks'[h] # NoFork, g[1] = h[1]
          PROVE  g = h
      <4>1. \A e \in ForkIds \X Signers : e # f => forks'[e] = forks[e]
        BY <2>1 DEF GoodForks
      <4>2. CASE g = f \/ h = f
        BY <3>3, <4>1, <4>2
      <4>3. CASE g # f /\ h # f
        BY <3>3, <4>1, <4>3 DEF GoodForks
      <4>4. QED
        BY <4>2, <4>3
    <3>4. QED
      BY <3>1, <3>2, <3>3 DEF GoodForks
  <2>5. QED
    BY <2>1, <2>4 DEF GoodAccounts
<1>12. QED
  BY <1>10, <1>11

\* The first submit_fork_headers of a fork preserves it.
LEMMA OpenForkInvariant ==
  ASSUME RelayInvariant, NEW signer \in Signers, NEW fork_id \in ForkIds,
         NEW c \in PublishedCommitments, NEW data \in Batches,
         OpenFork(signer, fork_id, c, data)
  PROVE  GoodAccounts(main_state', forks')
<1>1. /\ GoodMain(main_state) /\ GoodForks(forks, main_state)
      /\ c \in CommittedBlockHeader /\ data \in Seq(Headers)
  BY InvariantParts, PublishedType, RelayAssumption
<1> DEFINE m == [main_state EXCEPT !.fork_counter = fork_id + 1]
           f == <<fork_id, signer>>
           fork == [start_height |-> c.blockheight, block_commitments |-> <<>>]
<1>2. /\ data # <<>> /\ HeadersVerify(c, data, now)
      /\ main_state.fork_counter = fork_id
      /\ GrowFork(m, f, fork, c, data)
  BY DEF OpenFork, IsNextForkId
<1>3. main_state \in MainState /\ fork_id \in Nat
  BY <1>1, RelayAssumption DEF GoodMain, ForkIds
<1>4. /\ m \in MainState
      /\ m.fork_counter = fork_id + 1
      /\ m.chain_work = main_state.chain_work
  BY <1>3 DEF MainState
<1>5. GoodMain(m)
  BY <1>1, <1>3, <1>4
     DEF GoodMain, TipFields, TipSlot, RingWithin, get_position, MainState
<1> HIDE DEF m
<1>6. main_state.chain_work <= m.chain_work /\ main_state.fork_counter <= m.fork_counter
  BY <1>2, <1>3, <1>4 DEF MainState
<1>7. GoodForks(forks, m)
  BY <1>1, <1>3, <1>4, <1>6, ForksStayGood
<1>8. f \in ForkIds \X Signers /\ f[1] < m.fork_counter
  BY <1>3, <1>4
<1>9. ASSUME NEW g \in ForkIds \X Signers, forks[g] # NoFork, g[1] = f[1]
      PROVE  g = f
  <2>1. g[1] < fork_id
    BY <1>1, <1>2, <1>9 DEF GoodForks
  <2>2. QED
    BY <1>3, <1>9, <2>1
<1>10. c.blockheight \in Nat
  BY <1>1 DEF CommittedBlockHeader
<1>11. EndsIn(fork, c)
  BY <1>10 DEF EndsIn
<1>12. BufferWithin(fork.block_commitments, m.chain_work)
  BY DEF BufferWithin
<1> HIDE DEF f, fork
<1>13. QED
  BY <1>1, <1>2, <1>5, <1>7, <1>8, <1>9, <1>11, <1>12, GrowForkInvariant

\* Every later submit_fork_headers preserves it.
LEMMA ExtendForkInvariant ==
  ASSUME RelayInvariant, NEW signer \in Signers, NEW fork_id \in ForkIds,
         NEW c \in PublishedCommitments, NEW data \in Batches,
         ExtendFork(signer, fork_id, c, data)
  PROVE  GoodAccounts(main_state', forks')
<1>1. /\ GoodMain(main_state) /\ GoodForks(forks, main_state)
      /\ c \in CommittedBlockHeader /\ data \in Seq(Headers)
  BY InvariantParts, PublishedType, RelayAssumption
<1> DEFINE f == <<fork_id, signer>>
           fork == forks[f]
<1>2. /\ data # <<>> /\ HeadersVerify(c, data, now)
      /\ fork # NoFork /\ c = fork.tip_commit_hash
      /\ GrowFork(main_state, f, fork, c, data)
  BY DEF ExtendFork
<1>3. f \in ForkIds \X Signers
  OBVIOUS
<1> HIDE DEF f
<1>4. /\ GoodFork(fork) /\ f[1] < main_state.fork_counter
      /\ BufferWithin(fork.block_commitments, main_state.chain_work)
      /\ \A g \in ForkIds \X Signers :
           forks[g] # NoFork /\ g[1] = f[1] => g = f
  BY <1>1, <1>2, <1>3 DEF GoodForks
<1>5. EndsIn(fork, c)
  BY <1>2, <1>4 DEF EndsIn, GoodFork, ForkState
<1> HIDE DEF fork
<1>6. QED
  BY <1>1, <1>2, <1>3, <1>4, <1>5, GrowForkInvariant

\* close_fork_account preserves it: it only removes a fork.
LEMMA CloseForkAccountInvariant ==
  ASSUME RelayInvariant, NEW signer \in Signers, NEW fork_id \in ForkIds,
         CloseForkAccount(signer, fork_id)
  PROVE  GoodAccounts(main_state', forks')
<1>1. /\ forks' = [forks EXCEPT ![<<fork_id, signer>>] = NoFork]
      /\ forks[fork_id, signer] # NoFork
      /\ main_state' = main_state
  BY DEF CloseForkAccount
<1>2. GoodMain(main_state) /\ GoodForks(forks, main_state)
  BY <1>1, InvariantParts DEF GoodAccounts
<1>3. GoodForks(forks', main_state)
  BY <1>1, <1>2 DEF GoodForks
<1>4. QED
  BY <1>1, <1>2, <1>3 DEF GoodAccounts

\* A step of the relay, or of anything else, preserves the invariant.
LEMMA StepInvariant ==
  ASSUME RelayInvariant, [Next]_vars
  PROVE  RelayInvariant'
<1>1. now \in Nat /\ GoodAccounts(main_state, forks)
  BY InvariantParts
<1>2. now' \in Nat
  <2>1. CASE Tick
    BY <1>1, <2>1 DEF Tick
  <2>2. CASE ~Tick
    <3>1. UNCHANGED now
      BY <2>2, Zenon
         DEF Next, vars, Initialize, SubmitBlockHeaders, SubmitShortForkHeaders,
             OpenFork, ExtendFork, CloseForkAccount
    <3>2. QED
      BY <1>1, <3>1
  <2>3. QED
    BY <2>1, <2>2
<1>3. GoodAccounts(main_state', forks')
  <2>1. ASSUME NEW c \in Checkpoints, Initialize(c)
        PROVE  GoodAccounts(main_state', forks')
    BY <2>1, InitializeInvariant
  <2>2. ASSUME NEW c \in PublishedCommitments, NEW data \in Batches,
               SubmitBlockHeaders(c, data)
        PROVE  GoodAccounts(main_state', forks')
    BY <2>2, SubmitBlockHeadersInvariant
  <2>3. ASSUME NEW c \in PublishedCommitments, NEW data \in Batches,
               SubmitShortForkHeaders(c, data)
        PROVE  GoodAccounts(main_state', forks')
    BY <2>3, SubmitShortForkHeadersInvariant
  <2>4. ASSUME NEW signer \in Signers, NEW fork_id \in ForkIds,
               NEW c \in PublishedCommitments, NEW data \in Batches,
               OpenFork(signer, fork_id, c, data)
        PROVE  GoodAccounts(main_state', forks')
    BY <2>4, OpenForkInvariant
  <2>5. ASSUME NEW signer \in Signers, NEW fork_id \in ForkIds,
               NEW c \in PublishedCommitments, NEW data \in Batches,
               ExtendFork(signer, fork_id, c, data)
        PROVE  GoodAccounts(main_state', forks')
    BY <2>5, ExtendForkInvariant
  <2>6. ASSUME NEW signer \in Signers, NEW fork_id \in ForkIds,
               CloseForkAccount(signer, fork_id)
        PROVE  GoodAccounts(main_state', forks')
    BY <2>6, CloseForkAccountInvariant
  <2>7. CASE Tick
    BY <1>1, <2>7 DEF Tick
  <2>8. CASE UNCHANGED vars
    BY <1>1, <2>8 DEF vars
  <2>9. QED
    BY <2>1, <2>2, <2>3, <2>4, <2>5, <2>6, <2>7, <2>8 DEF Next
<1>4. RelayInvariant' <=> (now \in Nat /\ GoodAccounts(main_state, forks))'
  BY InvariantParts, PTL
<1>5. QED
  BY <1>2, <1>3, <1>4

\* The invariant holds in every reachable state, for all constants.
THEOREM InvariantHolds == Spec => []RelayInvariant
<1>1. Init => RelayInvariant
  BY InitInvariant
<1>2. RelayInvariant /\ [Next]_vars => RelayInvariant'
  BY StepInvariant
<1>3. QED
  BY <1>1, <1>2, PTL DEF Spec

-----------------------------------------------------------------------------
(* What it implies, property by property. *)

\* The account values keep the types of state.rs: heights and works never leave
\* the naturals, a fork's start height stays above none, no slot gets a value
\* that is not a commitment.
THEOREM TypeCorrect == Spec => []TypeOK
  BY InvariantHolds, PTL DEF RelayInvariant

\* The tip fields that initialize and the three submit instructions write one by
\* one always describe the same committed header.
THEOREM TipConsistent == Spec => []TipIsOneHeader
  BY InvariantHolds, PTL DEF RelayInvariant

\* Whichever instructions run in whichever order, no commitment that the ring
\* buffer or a pending fork holds is heavier than the tip: a fork that is
\* heavier is adopted by the transaction that makes it so.
THEOREM HeaviestChainWins == Spec => []NothingHeavierThanTip
  BY InvariantHolds, PTL DEF RelayInvariant

\* The buffer of submit_fork_headers is a linked chain, however many
\* transactions it was filled by, never above the size of the ring.
THEOREM ForksAreChains == Spec => []ForkBuffersAreChains
  BY InvariantHolds, PTL DEF RelayInvariant

\* Signers that race for a fork id never get the same one.
THEOREM ForkIdsNeverShared == Spec => []ForkIdsAreUnique
  BY InvariantHolds, PTL DEF RelayInvariant

-----------------------------------------------------------------------------
(* The ring buffer. *)

\* The heights less than a turn away from the ring's start.
InReach(m, h) ==
  /\ h > m.start_height - PRUNING_FACTOR
  /\ h < m.start_height + PRUNING_FACTOR

\* get_position within reach: a slot, and two heights share it only when they
\* are a turn apart.
LEMMA PositionInReach ==
  ASSUME NEW m \in MainState, NEW g \in Int, NEW h \in Int,
         InReach(m, g), InReach(m, h)
  PROVE  /\ get_position(m, g) =
              IF g >= m.start_height THEN g - m.start_height
              ELSE g - m.start_height + PRUNING_FACTOR
         /\ get_position(m, g) \in Slots
         /\ get_position(m, g) = get_position(m, h)
              => g \in {h, h - PRUNING_FACTOR, h + PRUNING_FACTOR}
<1>1. m.start_height \in Nat /\ PRUNING_FACTOR \in Nat \ {0}
  BY RingAssumption DEF MainState
<1>2. QED
  BY <1>1 DEF get_position, InReach, Slots

\* When the start moves up, the heights still within reach keep their slots.
LEMMA PositionAfterTurn ==
  ASSUME NEW m \in MainState, NEW t \in MainState, NEW g \in Int,
         \/ t.start_height = m.start_height
         \/ t.start_height = m.start_height + PRUNING_FACTOR,
         InReach(m, g), InReach(t, g)
  PROVE  get_position(t, g) = get_position(m, g)
<1>1. /\ m.start_height \in Nat /\ t.start_height \in Nat
      /\ PRUNING_FACTOR \in Nat \ {0}
  BY RingAssumption DEF MainState
<1>2. QED
  BY <1>1 DEF get_position, InReach

\* store_block_commitment within reach, or at the height one turn above the
\* start, where it moves the start: the commitment gets its slot, and every
\* other height that stays within reach keeps what it had.
LEMMA StoreInReach ==
  ASSUME NEW m \in MainState, NEW h \in Nat, NEW c \in CommittedBlockHeader,
         h > m.start_height - PRUNING_FACTOR,
         h <= m.start_height + PRUNING_FACTOR
  PROVE  LET t == store_block_commitment(m, h, c)
         IN  /\ t \in MainState
             /\ t.start_height =
                  IF h = m.start_height + PRUNING_FACTOR THEN h ELSE m.start_height
             /\ InReach(t, h)
             /\ SlotOf(t, h) = c
             /\ \A g \in Int :
                  /\ InReach(m, g) /\ InReach(t, g)
                  /\ g \notin {h, h - PRUNING_FACTOR, h + PRUNING_FACTOR}
                  => SlotOf(t, g) = SlotOf(m, g)
<1> DEFINE s == m.start_height
           p == get_position(m, h)
           t == store_block_commitment(m, h, c)
           ring == [m.block_commitments EXCEPT ![p] = c]
           start == IF h = s + PRUNING_FACTOR THEN h ELSE s
<1>1. s \in Nat /\ PRUNING_FACTOR \in Nat \ {0}
  BY RingAssumption DEF MainState
<1>2. /\ p \in Slots /\ p # PRUNING_FACTOR
      /\ p = 0 <=> (h = s \/ h = s + PRUNING_FACTOR)
  BY <1>1 DEF get_position, Slots
<1>3. t = [m EXCEPT !.block_commitments[p] = c,
                    !.start_height = IF p = 0 THEN h ELSE @,
                    !.total_blocks = @ + 1]
  BY <1>2 DEF store_block_commitment
<1>4. (IF p = 0 THEN h ELSE s) = start
  BY <1>1, <1>2
<1>5. t \in MainState
  BY StoreType
<1> HIDE DEF p
<1>6. t.start_height = start /\ t.block_commitments = ring
  BY <1>3, <1>4 DEF MainState
<1>7. /\ ring[p] = c
      /\ \A q \in Slots : q # p => ring[q] = m.block_commitments[q]
  BY <1>2 DEF MainState
<1> HIDE DEF t, ring
<1>8. InReach(t, h)
  BY <1>1, <1>6 DEF InReach
<1>9. get_position(t, h) = p
  <2>1. CASE h = s + PRUNING_FACTOR
    BY <1>1, <1>2, <1>6, <2>1 DEF get_position
  <2>2. CASE h # s + PRUNING_FACTOR
    BY <1>6, <2>2 DEF get_position, p
  <2>3. QED
    BY <2>1, <2>2
<1>10. ASSUME NEW g \in Int, InReach(m, g), InReach(t, g),
              g \notin {h, h - PRUNING_FACTOR, h + PRUNING_FACTOR}
       PROVE  SlotOf(t, g) = SlotOf(m, g)
  <2>1. get_position(t, g) = get_position(m, g)
    BY <1>1, <1>5, <1>6, <1>10, PositionAfterTurn
  <2>2. get_position(m, g) \in Slots /\ get_position(t, g) \in Slots
    BY <1>10, <2>1, PositionInReach
  <2>3. get_position(t, g) # p
    BY <1>5, <1>8, <1>9, <1>10, PositionInReach
  <2>4. QED
    BY <1>6, <1>7, <2>1, <2>2, <2>3 DEF SlotOf
<1>11. SlotOf(t, h) = c
  BY <1>6, <1>7, <1>9 DEF SlotOf
<1>12. QED
  BY <1>5, <1>6, <1>8, <1>10, <1>11 DEF t

\* What the loop that stores commits[1], ..., commits[k] above height a leaves
\* in the main state t: the ring's start stays or is one of the heights stored,
\* the commitments of the last turn are in their slots, and a height within
\* reach that no stored one shares its slot with keeps what it had.
StoredFrom(m, t, a, k, commits) ==
  /\ t \in MainState
  /\ t.start_height >= m.start_height
  /\ t.start_height = m.start_height \/ t.start_height \in (a + 1)..(a + k)
  /\ InReach(t, a + k)
  /\ \A i \in 1..k : i > k - PRUNING_FACTOR => SlotOf(t, a + i) = commits[i]
  /\ \A g \in Int :
       /\ InReach(m, g) /\ InReach(t, g)
       /\ \A i \in 1..k :
            g \notin {a + i, a + i - PRUNING_FACTOR, a + i + PRUNING_FACTOR}
       => SlotOf(t, g) = SlotOf(m, g)

\* The loop does that, from any height within reach.
LEMMA StoreAboveInReach ==
  ASSUME NEW m \in MainState, NEW a \in Nat, InReach(m, a), NEW n \in Nat,
         NEW commits, \A i \in 1..n : commits[i] \in CommittedBlockHeader
  PROVE  StoredFrom(m, StoreAbove(m, a, n, commits), a, n, commits)
<1> DEFINE stored == StoredAbove(m, a, n, commits)
           T == {k \in Nat : k <= n => StoredFrom(m, stored[k], a, k, commits)}
<1>1. stored = [i \in 0..n |->
                  IF i = 0 THEN m
                  ELSE store_block_commitment(stored[i - 1], a + i, commits[i])]
  BY StoredAboveDef
<1> HIDE DEF stored
<1>2. m.start_height \in Nat /\ PRUNING_FACTOR \in Nat \ {0}
  BY RingAssumption DEF MainState
<1>3. 0 \in T
  <2>1. stored[0] = m
    BY <1>1
  <2>2. QED
    BY <1>2, <2>1 DEF StoredFrom
<1>4. ASSUME NEW k \in Nat, k \in T PROVE k + 1 \in T
  <2>1. SUFFICES ASSUME k + 1 <= n
                 PROVE  StoredFrom(m, stored[k + 1], a, k + 1, commits)
    OBVIOUS
  <2> DEFINE r == stored[k]
             h == a + (k + 1)
             t == stored[k + 1]
  <2>2. k <= n /\ k + 1 \in 0..n /\ k + 1 \in 1..n /\ (k + 1) - 1 = k /\ k + 1 # 0
    BY <2>1
  <2>3. StoredFrom(m, r, a, k, commits)
    BY <1>4, <2>2
  <2>4. t = store_block_commitment(r, h, commits[k + 1])
    BY <1>1, <2>2
  <2> HIDE DEF r, t
  <2>5. r \in MainState /\ r.start_height \in Nat
    BY <2>3 DEF StoredFrom, MainState
  <2>6. /\ h \in Nat
        /\ h > r.start_height - PRUNING_FACTOR
        /\ h <= r.start_height + PRUNING_FACTOR
    BY <1>2, <2>3, <2>5 DEF StoredFrom, InReach
  <2>7. /\ t \in MainState
        /\ t.start_height =
             IF h = r.start_height + PRUNING_FACTOR THEN h ELSE r.start_height
        /\ InReach(t, h)
        /\ SlotOf(t, h) = commits[k + 1]
        /\ \A g \in Int :
             /\ InReach(r, g) /\ InReach(t, g)
             /\ g \notin {h, h - PRUNING_FACTOR, h + PRUNING_FACTOR}
             => SlotOf(t, g) = SlotOf(r, g)
    BY <2>2, <2>4, <2>5, <2>6, StoreInReach
  <2>8. /\ r.start_height >= m.start_height
        /\ r.start_height = m.start_height \/ r.start_height \in (a + 1)..(a + k)
        /\ InReach(r, a + k)
    BY <2>3 DEF StoredFrom
  <2>9. /\ t.start_height >= m.start_height
        /\ t.start_height = m.start_height \/ t.start_height \in (a + 1)..(a + (k + 1))
    BY <1>2, <2>5, <2>7, <2>8
  <2>10. ASSUME NEW i \in 1..(k + 1), i > (k + 1) - PRUNING_FACTOR
         PROVE  SlotOf(t, a + i) = commits[i]
    <3>1. CASE i = k + 1
      BY <2>7, <3>1
    <3>2. CASE i # k + 1
      <4>1. i \in 1..k /\ i > k - PRUNING_FACTOR
        BY <1>2, <2>10, <3>2
      <4>2. SlotOf(r, a + i) = commits[i]
        BY <2>3, <4>1 DEF StoredFrom
      <4>3. a + i \in Int /\ InReach(r, a + i) /\ InReach(t, a + i)
        BY <1>2, <2>5, <2>7, <2>8, <2>10, <4>1 DEF InReach
      <4>4. a + i \notin {h, h - PRUNING_FACTOR, h + PRUNING_FACTOR}
        BY <1>2, <2>10, <4>1
      <4>5. QED
        BY <2>7, <4>2, <4>3, <4>4
    <3>3. QED
      BY <3>1, <3>2
  <2>11. ASSUME NEW g \in Int, InReach(m, g), InReach(t, g),
                \A i \in 1..(k + 1) :
                  g \notin {a + i, a + i - PRUNING_FACTOR, a + i + PRUNING_FACTOR}
         PROVE  SlotOf(t, g) = SlotOf(m, g)
    <3>1. InReach(r, g)
      BY <1>2, <2>5, <2>7, <2>8, <2>11 DEF InReach
    <3>2. SlotOf(r, g) = SlotOf(m, g)
      BY <2>3, <2>11, <3>1 DEF StoredFrom
    <3>3. g \notin {h, h - PRUNING_FACTOR, h + PRUNING_FACTOR}
      BY <1>2, <2>11
    <3>4. QED
      BY <2>7, <2>11, <3>1, <3>2, <3>3
  <2>12. QED
    BY <2>7, <2>9, <2>10, <2>11 DEF StoredFrom, t
<1>5. n \in T
  <2> HIDE DEF T
  <2>1. QED
    BY <1>3, <1>4, SetInductionOnNat
<1>6. QED
  BY <1>5 DEF StoreAbove, stored

\* One store, at any height: the height is less than a turn above the start.
LEMMA StoreWithinTurn ==
  ASSUME NEW m \in MainState, NEW h \in Nat, NEW c \in CommittedBlockHeader
  PROVE  h < store_block_commitment(m, h, c).start_height + PRUNING_FACTOR
<1> DEFINE p == get_position(m, h)
           t == store_block_commitment(m, h, c)
<1>1. m.start_height \in Nat /\ PRUNING_FACTOR \in Nat \ {0}
  BY RingAssumption DEF MainState
<1>2. CASE p = PRUNING_FACTOR
  <2>1. t = m
    BY <1>2 DEF store_block_commitment
  <2>2. QED
    BY <1>1, <1>2, <2>1 DEF get_position
<1>3. CASE p # PRUNING_FACTOR
  <2>1. t.start_height = IF p = 0 THEN h ELSE m.start_height
    BY <1>3 DEF store_block_commitment, MainState
  <2>2. QED
    BY <1>1, <1>3, <2>1 DEF get_position
<1>4. QED
  BY <1>2, <1>3

\* The same after the loop, for the last height stored.
LEMMA StoreAboveWithinTurn ==
  ASSUME NEW m \in MainState, NEW a \in Nat, NEW n \in Nat \ {0},
         NEW commits, \A i \in 1..n : commits[i] \in CommittedBlockHeader
  PROVE  a + n < StoreAbove(m, a, n, commits).start_height + PRUNING_FACTOR
<1> DEFINE stored == StoredAbove(m, a, n, commits)
<1>1. /\ stored = [i \in 0..n |->
                  IF i = 0 THEN m
                  ELSE store_block_commitment(stored[i - 1], a + i, commits[i])]
      /\ n - 1 \in Nat /\ n \in 0..n /\ n \in 1..n /\ n - 1 \in 0..n
  BY StoredAboveDef
<1> HIDE DEF stored
<1> DEFINE T == {k \in Nat : k <= n => stored[k] \in MainState}
<1>2. 0 \in T
  BY <1>1
<1>3. ASSUME NEW k \in Nat, k \in T PROVE k + 1 \in T
  <2>1. SUFFICES ASSUME k + 1 <= n PROVE stored[k + 1] \in MainState
    OBVIOUS
  <2>2. k <= n /\ k + 1 \in 0..n /\ k + 1 \in 1..n /\ (k + 1) - 1 = k /\ k + 1 # 0
    BY <2>1
  <2>3. stored[k + 1] = store_block_commitment(stored[k], a + (k + 1), commits[k + 1])
    BY <1>1, <2>2
  <2>4. stored[k] \in MainState /\ commits[k + 1] \in CommittedBlockHeader
    BY <1>3, <2>2
  <2>5. QED
    BY <2>3, <2>4, StoreType
<1>4. n - 1 \in T
  <2> HIDE DEF T
  <2>1. QED
    BY <1>1, <1>2, <1>3, SetInductionOnNat
<1>5. stored[n] = store_block_commitment(stored[n - 1], a + n, commits[n])
  BY <1>1
<1>6. stored[n - 1] \in MainState /\ commits[n] \in CommittedBlockHeader /\ a + n \in Nat
  BY <1>1, <1>4
<1>7. QED
  BY <1>5, <1>6, StoreWithinTurn DEF StoreAbove, stored

-----------------------------------------------------------------------------
(* The steps, by what they do to the chain in the ring. *)

\* Two main states with the same ring and the same tip: they differ in counters.
SameChain(m, t) ==
  /\ t.start_height = m.start_height
  /\ t.block_commitments = m.block_commitments
  /\ t.block_height = m.block_height
  /\ t.tip_commit_hash = m.tip_commit_hash
  /\ t.chain_work = m.chain_work

\* commits[1], ..., commits[n] are a linked chain of the heights above a.
LinkedAbove(a, n, commits) ==
  /\ a \in Nat /\ n \in Nat \ {0}
  /\ \A i \in 1..n : /\ commits[i] \in CommittedBlockHeader
                      /\ commits[i].blockheight = a + i
  /\ \A i \in 1..(n - 1) : IsChild(commits[i], commits[i + 1])

\* From main state m to t the chain above height a became those commitments:
\* the last one is the tip, within a turn of the start, no other commitment
\* entered the ring, and where a is in reach the ring is what the loop of stores
\* leaves.
Rewrites(m, t, a, n, commits) ==
  /\ LinkedAbove(a, n, commits)
  /\ t \in MainState
  /\ t.block_height = a + n
  /\ t.tip_commit_hash = commits[n]
  /\ t.chain_work = commits[n].chain_work
  /\ t.block_height < t.start_height + PRUNING_FACTOR
  /\ \A p \in Slots :
       \/ t.block_commitments[p] = m.block_commitments[p]
       \/ \E i \in 1..n : t.block_commitments[p] = commits[i]
  /\ InReach(m, a) => StoredFrom(m, t, a, n, commits)

\* The stores followed by "update globals" do that, whatever they make of the
\* counter of forks.
LEMMA StoringRewrites ==
  ASSUME NEW m \in MainState, NEW t \in MainState, NEW u \in MainState,
         SameChain(m, u), NEW a, NEW n, NEW commits, LinkedAbove(a, n, commits),
         SameChain(WithTip(StoreAbove(u, a, n, commits), commits[n], a + n), t)
  PROVE  Rewrites(m, t, a, n, commits)
<1> DEFINE r == StoreAbove(u, a, n, commits)
           w == WithTip(r, commits[n], a + n)
<1>1. /\ a \in Nat /\ n \in Nat \ {0} /\ n \in 1..n
      /\ \A i \in 1..n : /\ commits[i] \in CommittedBlockHeader
                          /\ commits[i].blockheight = a + i
  BY DEF LinkedAbove
<1>2. /\ r \in MainState
      /\ \A p \in Slots : \/ r.block_commitments[p] = u.block_commitments[p]
                         \/ \E i \in 1..n : r.block_commitments[p] = commits[i]
  BY <1>1, StoreAboveType
<1>3. commits[n] \in CommittedBlockHeader /\ a + n \in Nat
  BY <1>1
<1>4. a + n < r.start_height + PRUNING_FACTOR
  BY <1>1, StoreAboveWithinTurn
<1>5. InReach(u, a) => StoredFrom(u, r, a, n, commits)
  BY <1>1, StoreAboveInReach
<1> HIDE DEF r
<1>6. /\ w.start_height = r.start_height
      /\ w.block_commitments = r.block_commitments
      /\ w.block_height = a + n
      /\ w.tip_commit_hash = commits[n]
      /\ w.chain_work = commits[n].chain_work
  BY <1>2, <1>3, WithTipType
<1> HIDE DEF w
<1>7. /\ t.start_height = r.start_height
      /\ t.block_commitments = r.block_commitments
      /\ t.block_height = a + n
      /\ t.tip_commit_hash = commits[n]
      /\ t.chain_work = commits[n].chain_work
  BY <1>6 DEF SameChain, w, r
<1>8. /\ m.start_height = u.start_height
      /\ m.block_commitments = u.block_commitments
  BY DEF SameChain
<1>9. InReach(m, a) => StoredFrom(m, t, a, n, commits)
  BY <1>5, <1>7, <1>8 DEF StoredFrom, InReach, SlotOf, get_position
<1>10. ASSUME NEW p \in Slots
       PROVE  \/ t.block_commitments[p] = m.block_commitments[p]
              \/ \E i \in 1..n : t.block_commitments[p] = commits[i]
  BY <1>2, <1>7, <1>8
<1>11. QED
  BY <1>4, <1>7, <1>9, <1>10 DEF Rewrites

\* The main state they leave has its type.
LEMMA StoringType ==
  ASSUME NEW m \in MainState, NEW a, NEW n, NEW commits, LinkedAbove(a, n, commits)
  PROVE  WithTip(StoreAbove(m, a, n, commits), commits[n], a + n) \in MainState
<1>1. /\ a \in Nat /\ n \in Nat \ {0} /\ n \in 1..n
      /\ \A i \in 1..n : commits[i] \in CommittedBlockHeader
  BY DEF LinkedAbove
<1>2. StoreAbove(m, a, n, commits) \in MainState
  BY <1>1, StoreAboveType
<1>3. commits[n] \in CommittedBlockHeader /\ a + n \in Nat
  BY <1>1
<1>4. QED
  BY <1>2, <1>3, WithTipType

\* Headers that verify on top of c, once committed, are a chain above c.
LEMMA VerifiedChain ==
  ASSUME NEW c \in CommittedBlockHeader, NEW data \in Seq(Headers), data # <<>>,
         HeadersVerify(c, data, now)
  PROVE  /\ LinkedAbove(c.blockheight, Len(data), CommittedHeaders(c, data))
         /\ IsChild(c, CommittedHeaders(c, data)[1])
<1> DEFINE commits == CommittedHeaders(c, data)
           n == Len(data)
<1>1. /\ n \in Nat \ {0} /\ commits[0] = c
      /\ \A i \in 0..n : /\ commits[i] \in CommittedBlockHeader
                          /\ commits[i].blockheight = c.blockheight + i
      /\ \A i \in 1..n : IsChild(commits[i - 1], commits[i])
  BY VerifiedHeaders
<1> HIDE DEF commits, n
<1>2. \A i \in 1..(n - 1) : IsChild(commits[i], commits[i + 1])
  <2> TAKE i \in 1..(n - 1)
  <2>1. i + 1 \in 1..n /\ (i + 1) - 1 = i
    BY <1>1
  <2>2. QED
    BY <1>1, <2>1
<1>3. 1 \in 1..n /\ 1 - 1 = 0
  BY <1>1
<1>4. c.blockheight \in Nat
  BY DEF CommittedBlockHeader
<1>5. QED
  BY <1>1, <1>2, <1>3, <1>4 DEF LinkedAbove, commits, n

\* initialize.
Starts ==
  \E c \in Checkpoints : Initialize(c)

\* submit_block_headers, on the commitment looked up at the tip's height.
Extends ==
  \E c, data, commits :
    /\ c \in PublishedCommitments /\ data \in Batches
    /\ Initialized
    /\ c = main_state.tip_commit_hash
    /\ c.blockheight = main_state.block_height
    /\ IsMainChainBlock(c)
    /\ IsChild(c, commits[1])
    /\ Rewrites(main_state, main_state', c.blockheight, Len(data), commits)
    /\ main_state'.chain_work >= main_state.chain_work

\* submit_short_fork_headers, or the first submit_fork_headers of a fork that is
\* heavier at once.
Reorganises ==
  \E c, data, commits :
    /\ c \in PublishedCommitments /\ data \in Batches
    /\ Initialized
    /\ IsMainChainBlock(c)
    /\ IsChild(c, commits[1])
    /\ Rewrites(main_state, main_state', c.blockheight, Len(data), commits)
    /\ main_state'.chain_work > main_state.chain_work

\* A later submit_fork_headers that makes the fork heavier.
Adopts ==
  \E f \in LiveForks, grown \in ForkState :
    /\ Initialized
    /\ GoodFork(grown)
    /\ grown.start_height = forks[f].start_height
    /\ grown.block_commitments[1] = forks[f].block_commitments[1]
    /\ Rewrites(main_state, main_state', grown.start_height,
                Len(grown.block_commitments), grown.block_commitments)
    /\ main_state'.chain_work > main_state.chain_work
    /\ forks' = [forks EXCEPT ![f] = NoFork]

\* Anything else.
KeepsChain ==
  \/ main_state' = main_state
  \/ Initialized /\ main_state' \in MainState /\ SameChain(main_state, main_state')

\* submit_block_headers extends the chain.
LEMMA SubmitBlockHeadersRewrites ==
  ASSUME GoodMain(main_state), NEW c \in CommittedBlockHeader,
         NEW data \in Seq(Headers), SubmitBlockHeaders(c, data)
  PROVE  LET commits == CommittedHeaders(c, data)
         IN  /\ c = main_state.tip_commit_hash
             /\ c.blockheight = main_state.block_height
             /\ IsMainChainBlock(c)
             /\ IsChild(c, commits[1])
             /\ Rewrites(main_state, main_state', c.blockheight, Len(data), commits)
<1> DEFINE m == main_state
           n == Len(data)
           commits == CommittedHeaders(c, data)
           t == WithTip(StoreAbove(m, m.block_height, n, commits),
                        commits[n], m.block_height + n)
<1>1. /\ data # <<>> /\ HeadersVerify(c, data, now)
      /\ ~LookupPanics(m, m.block_height)
      /\ c = get_commitment(m, m.block_height)
      /\ main_state' = t
  BY DEF SubmitBlockHeaders, IsTipCommitment
<1>2. LinkedAbove(c.blockheight, n, commits) /\ IsChild(c, commits[1])
  BY <1>1, VerifiedChain
<1>3. c = m.tip_commit_hash
  BY <1>1, LookupOfTip
<1>4. m \in MainState /\ m.block_height = c.blockheight
  BY <1>3 DEF GoodMain, TipFields
<1> HIDE DEF commits, n
<1>5. t \in MainState
  BY <1>2, <1>4, StoringType
<1>6. Rewrites(m, main_state', c.blockheight, n, commits)
  <2>1. SameChain(m, m) /\ SameChain(t, main_state')
    BY <1>1 DEF SameChain
  <2>2. QED
    BY <1>1, <1>2, <1>4, <1>5, <2>1, StoringRewrites
<1>7. IsMainChainBlock(c)
  BY <1>1, <1>4 DEF IsMainChainBlock
<1>8. QED
  BY <1>2, <1>3, <1>4, <1>6, <1>7 DEF commits, n

LEMMA SubmitBlockHeadersExtends ==
  ASSUME RelayInvariant, NEW c \in PublishedCommitments, NEW data \in Batches,
         SubmitBlockHeaders(c, data)
  PROVE  Extends
<1>1. /\ GoodMain(main_state)
      /\ c \in CommittedBlockHeader /\ data \in Seq(Headers)
  BY InvariantParts, PublishedType, RelayAssumption
<1> DEFINE commits == CommittedHeaders(c, data)
<1>2. /\ c = main_state.tip_commit_hash
      /\ c.blockheight = main_state.block_height
      /\ IsMainChainBlock(c)
      /\ IsChild(c, commits[1])
      /\ Rewrites(main_state, main_state', c.blockheight, Len(data), commits)
  BY <1>1, SubmitBlockHeadersRewrites
<1>3. main_state'.chain_work >= main_state.chain_work
  <2>1. main_state.chain_work <= main_state'.chain_work /\ GoodMain(main_state')
    BY <1>1, SubmitBlockHeadersMain
  <2>2. main_state.chain_work \in Nat /\ main_state'.chain_work \in Nat
    BY <1>1, <2>1 DEF GoodMain, MainState
  <2>3. QED
    BY <2>1, <2>2
<1>4. Initialized
  BY DEF SubmitBlockHeaders
<1> HIDE DEF commits
<1>5. QED
  BY <1>2, <1>3, <1>4 DEF Extends

\* submit_short_fork_headers rewrites the chain above a stored commitment.
LEMMA SubmitShortForkHeadersReorganises ==
  ASSUME RelayInvariant, NEW c \in PublishedCommitments, NEW data \in Batches,
         SubmitShortForkHeaders(c, data)
  PROVE  Reorganises
<1>1. /\ GoodMain(main_state)
      /\ c \in CommittedBlockHeader /\ data \in Seq(Headers)
  BY InvariantParts, PublishedType, RelayAssumption
<1> DEFINE m == main_state
           n == Len(data)
           commits == CommittedHeaders(c, data)
           t == WithTip(StoreAbove(m, c.blockheight, n, commits),
                        commits[n], c.blockheight + n)
<1>2. /\ Initialized
      /\ data # <<>> /\ HeadersVerify(c, data, now)
      /\ IsMainChainBlock(c)
      /\ commits[n].chain_work > m.chain_work
      /\ main_state' = [t EXCEPT !.fork_counter = @ + 1]
  BY DEF SubmitShortForkHeaders, Outweighs
<1>3. LinkedAbove(c.blockheight, n, commits) /\ IsChild(c, commits[1])
  BY <1>1, <1>2, VerifiedChain
<1>4. m \in MainState
  BY <1>1 DEF GoodMain
<1> HIDE DEF commits, n
<1>5. t \in MainState
  BY <1>3, <1>4, StoringType
<1> HIDE DEF t
<1>6. main_state' \in MainState /\ SameChain(t, main_state')
  BY <1>2, <1>5 DEF MainState, SameChain
<1>7. Rewrites(m, main_state', c.blockheight, n, commits)
  <2>1. SameChain(m, m)
    BY DEF SameChain
  <2>2. QED
    BY <1>3, <1>4, <1>6, <2>1, StoringRewrites DEF t
<1>8. main_state'.chain_work > m.chain_work
  BY <1>2, <1>7 DEF Rewrites
<1>9. QED
  BY <1>2, <1>3, <1>7, <1>8 DEF Reorganises, n

\* The buffer of a fork is a chain above the fork's start.
LEMMA BufferIsLinked ==
  ASSUME NEW fork, GoodFork(fork)
  PROVE  LinkedAbove(fork.start_height, Len(fork.block_commitments),
                     fork.block_commitments)
<1> DEFINE buffer == fork.block_commitments
           n == Len(buffer)
<1>1. /\ fork \in ForkState
      /\ n \in 1..PRUNING_FACTOR
      /\ \A i \in 1..n : buffer[i].blockheight = fork.start_height + i
      /\ \A i \in 1..(n - 1) : IsChild(buffer[i], buffer[i + 1])
  BY DEF GoodFork
<1>2. buffer \in Seq(CommittedBlockHeader) /\ fork.start_height \in Nat
  BY <1>1 DEF ForkState
<1>3. \A i \in 1..n : buffer[i] \in CommittedBlockHeader
  BY <1>2, ElementOfSeq
<1>4. n \in Nat \ {0}
  BY <1>1, RingAssumption
<1>5. QED
  BY <1>1, <1>2, <1>3, <1>4 DEF LinkedAbove

\* The common part of submit_fork_headers: the fork account grows, its first
\* block stays, and when it got heavier its buffer replaces the main chain
\* above its start.
LEMMA GrowForkEffect ==
  ASSUME NEW m \in MainState, main_state \in MainState, SameChain(main_state, m),
         NEW f \in ForkIds \X Signers,
         NEW fork, NEW c \in CommittedBlockHeader, EndsIn(fork, c),
         NEW data \in Seq(Headers), data # <<>>, HeadersVerify(c, data, now),
         GrowFork(m, f, fork, c, data)
  PROVE  \E grown \in ForkState :
           /\ GoodFork(grown)
           /\ grown.start_height = fork.start_height
           /\ IF fork.block_commitments = <<>>
              THEN /\ Len(grown.block_commitments) = Len(data)
                   /\ IsChild(c, grown.block_commitments[1])
              ELSE grown.block_commitments[1] = fork.block_commitments[1]
           /\ \/ /\ Rewrites(main_state, main_state', grown.start_height,
                             Len(grown.block_commitments), grown.block_commitments)
                 /\ main_state'.chain_work > main_state.chain_work
                 /\ forks' = [forks EXCEPT ![f] = NoFork]
              \/ /\ main_state' = m
                 /\ forks' = [forks EXCEPT ![f] = grown]
<1> DEFINE commits == CommittedHeaders(c, data)
           n == Len(data)
           tip == commits[n]
           new == NewCommitments(c, data)
           grown == GrownFork(fork, tip, new)
           old == fork.block_commitments
           buffer == grown.block_commitments
           start == fork.start_height
<1>1. LinkedAbove(c.blockheight, n, commits) /\ IsChild(c, commits[1])
  BY VerifiedChain
<1>2. /\ n \in Nat \ {0}
      /\ \A i \in 1..n : /\ commits[i] \in CommittedBlockHeader
                          /\ commits[i].blockheight = c.blockheight + i
  BY <1>1 DEF LinkedAbove
<1>3. /\ Len(buffer) <= PRUNING_FACTOR
      /\ IF tip.chain_work > m.chain_work
         THEN /\ main_state' = WithTip(StoreFork(m, grown), tip, c.blockheight + n)
              /\ forks' = [forks EXCEPT ![f] = NoFork]
         ELSE /\ main_state' = m
              /\ forks' = [forks EXCEPT ![f] = grown]
  BY DEF GrowFork, Outweighs
<1>4. old \in Seq(CommittedBlockHeader) /\ Len(old) \in Nat /\ start \in Nat
  BY DEF EndsIn
<1>5. Len(buffer) = Len(old) + n
  <2>1. new \in Seq(CommittedBlockHeader) /\ Len(new) = n
    BY <1>2 DEF NewCommitments
  <2> HIDE DEF commits, new
  <2>2. Len(old \o new) = Len(old) + Len(new)
    BY <1>4, <2>1, ConcatProperties, Zenon
  <2>3. QED
    BY <2>1, <2>2 DEF GrownFork
<1>6. /\ GoodFork(grown)
      /\ grown.start_height = start
      /\ grown.tip_commit_hash = tip
      /\ start + (Len(old) + n) = c.blockheight + n
      /\ \A i \in 1..(Len(old) + n) :
           \/ i \in 1..Len(old) /\ buffer[i] = old[i]
           \/ \E j \in 1..n : buffer[i] = commits[j]
  <2>1. Len(old) + n <= PRUNING_FACTOR
    BY <1>3, <1>5
  <2>2. ForkGrowth(fork, c, data)
    BY <2>1, ForkGrows
  <2>3. QED
    BY <2>2 DEF ForkGrowth
<1> HIDE DEF commits, n, new, grown
<1>7. grown \in ForkState /\ LinkedAbove(start, Len(buffer), buffer)
  BY <1>6, BufferIsLinked DEF GoodFork
<1>8. 1 \in 1..(Len(old) + n) /\ buffer[1].blockheight = start + 1
  <2>1. \A i \in 1..Len(buffer) : buffer[i].blockheight = start + i
    BY <1>7 DEF LinkedAbove
  <2> HIDE DEF old, start, buffer
  <2>2. 1 \in 1..(Len(old) + n)
    BY <1>2, <1>4
  <2>3. QED
    BY <1>5, <2>1, <2>2
<1>9. /\ old # <<>> => buffer[1] = old[1]
      /\ old = <<>> => Len(buffer) = n /\ buffer[1] = commits[1]
  <2>1. CASE 1 \in 1..Len(old) /\ buffer[1] = old[1]
    BY <1>4, <2>1
  <2>2. ASSUME NEW j \in 1..n, buffer[1] = commits[j]
        PROVE  Len(old) = 0 /\ buffer[1] = commits[1]
    <3>1. start + 1 = c.blockheight + j /\ c.blockheight \in Nat
      BY <1>2, <1>8, <2>2 DEF CommittedBlockHeader
    <3>2. start + (Len(old) + n) = c.blockheight + n
      BY <1>6
    <3> HIDE DEF old, start, buffer
    <3>3. Len(old) = 0 /\ j = 1
      BY <1>2, <1>4, <3>1, <3>2
    <3>4. QED
      BY <2>2, <3>3
  <2>3. old = <<>> <=> Len(old) = 0
    BY <1>4, EmptySeq
  <2>4. QED
    BY <1>2, <1>4, <1>5, <1>6, <1>8, <2>1, <2>2, <2>3
<1>10. CASE tip.chain_work > m.chain_work
  <2> DEFINE l == Len(buffer)
             t == WithTip(StoreAbove(m, start, l, buffer), buffer[l], start + l)
  <2>1. buffer[l] = tip
    BY <1>6 DEF GoodFork
  <2>2. main_state' = t /\ forks' = [forks EXCEPT ![f] = NoFork]
    BY <1>3, <1>5, <1>6, <1>10, <2>1 DEF StoreFork
  <2> HIDE DEF buffer, l
  <2>3. t \in MainState
    BY <1>7, StoringType DEF l
  <2>4. Rewrites(main_state, main_state', start, l, buffer)
    <3>1. SameChain(t, main_state')
      BY <2>2 DEF SameChain
    <3>2. main_state' \in MainState
      BY <2>2, <2>3
    <3>3. QED
      BY <1>7, <3>1, <3>2, StoringRewrites DEF l
  <2>5. main_state'.chain_work > main_state.chain_work
    BY <1>10, <2>1, <2>4 DEF Rewrites, SameChain
  <2>6. QED
    BY <1>1, <1>6, <1>7, <1>9, <2>2, <2>4, <2>5 DEF buffer, l, n
<1>11. CASE ~(tip.chain_work > m.chain_work)
  BY <1>1, <1>3, <1>6, <1>7, <1>9, <1>11 DEF n
<1>12. QED
  BY <1>10, <1>11

\* What a step does to fork accounts: an account keeps its start and its first
\* block, or is opened on a block of the main chain.
ForkSteps ==
  \A f \in ForkIds \X Signers : forks'[f] # NoFork =>
    \/ /\ forks[f] # NoFork
       /\ forks'[f].start_height = forks[f].start_height
       /\ forks'[f].block_commitments[1] = forks[f].block_commitments[1]
    \/ \E c \in PublishedCommitments :
         /\ Initialized
         /\ IsMainChainBlock(c)
         /\ forks'[f].start_height = c.blockheight
         /\ IsChild(c, forks'[f].block_commitments[1])

\* The first submit_fork_headers opens the fork, or is a reorganisation.
LEMMA OpenForkStep ==
  ASSUME RelayInvariant, NEW signer \in Signers, NEW fork_id \in ForkIds,
         NEW c \in PublishedCommitments, NEW data \in Batches,
         OpenFork(signer, fork_id, c, data)
  PROVE  ForkSteps /\ (Reorganises \/ KeepsChain)
<1> DEFINE m == [main_state EXCEPT !.fork_counter = fork_id + 1]
           f == <<fork_id, signer>>
           fork == [start_height |-> c.blockheight, block_commitments |-> <<>>]
<1>1. /\ main_state \in MainState
      /\ forks \in [ForkIds \X Signers -> ForkState \cup {NoFork}]
      /\ c \in CommittedBlockHeader /\ data \in Seq(Headers)
  BY InvariantParts, PublishedType, RelayAssumption DEF GoodMain, GoodForks
<1>2. /\ Initialized
      /\ data # <<>> /\ HeadersVerify(c, data, now)
      /\ IsMainChainBlock(c)
      /\ GrowFork(m, f, fork, c, data)
  BY DEF OpenFork
<1>3. m \in MainState /\ SameChain(main_state, m)
  <2>1. fork_id + 1 \in Nat
    BY RelayAssumption DEF ForkIds
  <2>2. QED
    BY <1>1, <2>1 DEF MainState, SameChain
<1>4. f \in ForkIds \X Signers
  OBVIOUS
<1>5. EndsIn(fork, c) /\ fork.block_commitments = <<>> /\ fork.start_height = c.blockheight
  BY <1>1 DEF EndsIn, CommittedBlockHeader
<1> HIDE DEF m, f, fork
<1>6. PICK grown \in ForkState :
        /\ grown.start_height = c.blockheight
        /\ Len(grown.block_commitments) = Len(data)
        /\ IsChild(c, grown.block_commitments[1])
        /\ \/ /\ Rewrites(main_state, main_state', grown.start_height,
                          Len(grown.block_commitments), grown.block_commitments)
              /\ main_state'.chain_work > main_state.chain_work
              /\ forks' = [forks EXCEPT ![f] = NoFork]
           \/ /\ main_state' = m
              /\ forks' = [forks EXCEPT ![f] = grown]
  BY <1>1, <1>2, <1>3, <1>4, <1>5, GrowForkEffect, SMTT(30)
<1>7. ForkSteps
  <2>1. ASSUME NEW g \in ForkIds \X Signers, forks'[g] # NoFork, g # f
        PROVE  forks'[g] = forks[g]
    BY <1>1, <1>6, <2>1
  <2>2. forks'[f] # NoFork => forks'[f] = grown
    BY <1>1, <1>4, <1>6
  <2>3. QED
    BY <1>2, <1>6, <2>1, <2>2 DEF ForkSteps
<1>8. Reorganises \/ KeepsChain
  <2>1. CASE /\ Rewrites(main_state, main_state', grown.start_height,
                         Len(grown.block_commitments), grown.block_commitments)
             /\ main_state'.chain_work > main_state.chain_work
    BY <1>2, <1>6, <2>1 DEF Reorganises
  <2>2. CASE main_state' = m
    BY <1>2, <1>3, <2>2 DEF KeepsChain
  <2>3. QED
    BY <1>6, <2>1, <2>2
<1>9. QED
  BY <1>7, <1>8

\* A later one extends the fork or adopts it.
LEMMA ExtendForkStep ==
  ASSUME RelayInvariant, NEW signer \in Signers, NEW fork_id \in ForkIds,
         NEW c \in PublishedCommitments, NEW data \in Batches,
         ExtendFork(signer, fork_id, c, data)
  PROVE  ForkSteps /\ (Adopts \/ KeepsChain)
<1> DEFINE f == <<fork_id, signer>>
           fork == forks[f]
<1>1. /\ main_state \in MainState /\ GoodForks(forks, main_state)
      /\ forks \in [ForkIds \X Signers -> ForkState \cup {NoFork}]
      /\ c \in CommittedBlockHeader /\ data \in Seq(Headers)
  BY InvariantParts, PublishedType, RelayAssumption DEF GoodMain, GoodForks
<1>2. /\ Initialized
      /\ data # <<>> /\ HeadersVerify(c, data, now)
      /\ fork # NoFork /\ c = fork.tip_commit_hash
      /\ GrowFork(main_state, f, fork, c, data)
  BY DEF ExtendFork
<1>3. SameChain(main_state, main_state)
  BY DEF SameChain
<1>4. f \in ForkIds \X Signers
  OBVIOUS
<1> HIDE DEF f
<1>5. GoodFork(fork)
  BY <1>1, <1>2, <1>4 DEF GoodForks
<1>6. EndsIn(fork, c) /\ fork.block_commitments # <<>>
  <2> HIDE DEF fork
  <2>1. EndsIn(fork, c)
    BY <1>2, <1>5 DEF EndsIn, GoodFork, ForkState
  <2>2. Len(fork.block_commitments) # 0
    BY <1>5 DEF GoodFork
  <2>3. QED
    BY <2>1, <2>2, EmptySeq
<1>7. PICK grown \in ForkState :
        /\ GoodFork(grown)
        /\ grown.start_height = fork.start_height
        /\ grown.block_commitments[1] = fork.block_commitments[1]
        /\ \/ /\ Rewrites(main_state, main_state', grown.start_height,
                          Len(grown.block_commitments), grown.block_commitments)
              /\ main_state'.chain_work > main_state.chain_work
              /\ forks' = [forks EXCEPT ![f] = NoFork]
           \/ /\ main_state' = main_state
              /\ forks' = [forks EXCEPT ![f] = grown]
  <2> HIDE DEF fork
  <2>1. PICK grown \in ForkState :
          /\ GoodFork(grown)
          /\ grown.start_height = fork.start_height
          /\ IF fork.block_commitments = <<>>
             THEN /\ Len(grown.block_commitments) = Len(data)
                  /\ IsChild(c, grown.block_commitments[1])
             ELSE grown.block_commitments[1] = fork.block_commitments[1]
          /\ \/ /\ Rewrites(main_state, main_state', grown.start_height,
                            Len(grown.block_commitments), grown.block_commitments)
                /\ main_state'.chain_work > main_state.chain_work
                /\ forks' = [forks EXCEPT ![f] = NoFork]
             \/ /\ main_state' = main_state
                /\ forks' = [forks EXCEPT ![f] = grown]
    BY <1>1, <1>2, <1>3, <1>4, <1>6, GrowForkEffect
  <2>2. grown.block_commitments[1] = fork.block_commitments[1]
    BY <1>6, <2>1
  <2>3. QED
    BY <2>1, <2>2
<1>8. ForkSteps
  <2>1. ASSUME NEW g \in ForkIds \X Signers, forks'[g] # NoFork, g # f
        PROVE  forks'[g] = forks[g]
    BY <1>1, <1>7, <2>1
  <2>2. forks'[f] # NoFork => forks'[f] = grown
    BY <1>1, <1>4, <1>7
  <2>3. QED
    BY <1>2, <1>7, <2>1, <2>2 DEF ForkSteps
<1>9. f \in LiveForks
  BY <1>2, <1>4 DEF LiveForks
<1>10. QED
  BY <1>2, <1>7, <1>8, <1>9 DEF Adopts, KeepsChain

\* Every step is of one of these kinds.
LEMMA StepKinds ==
  ASSUME RelayInvariant, [Next]_vars
  PROVE  ForkSteps /\ (Starts \/ Extends \/ Reorganises \/ Adopts \/ KeepsChain)
<1>1. ASSUME UNCHANGED forks PROVE ForkSteps
  BY <1>1 DEF ForkSteps
<1>2. ASSUME NEW c \in Checkpoints, Initialize(c)
      PROVE  ForkSteps /\ Starts
  BY <1>1, <1>2 DEF Initialize, Starts
<1>3. ASSUME NEW c \in PublishedCommitments, NEW data \in Batches,
             SubmitBlockHeaders(c, data)
      PROVE  ForkSteps /\ Extends
  BY <1>1, <1>3, SubmitBlockHeadersExtends DEF SubmitBlockHeaders
<1>4. ASSUME NEW c \in PublishedCommitments, NEW data \in Batches,
             SubmitShortForkHeaders(c, data)
      PROVE  ForkSteps /\ Reorganises
  BY <1>1, <1>4, SubmitShortForkHeadersReorganises DEF SubmitShortForkHeaders
<1>5. ASSUME NEW signer \in Signers, NEW fork_id \in ForkIds,
             CloseForkAccount(signer, fork_id)
      PROVE  ForkSteps /\ KeepsChain
  <2>1. forks \in [ForkIds \X Signers -> ForkState \cup {NoFork}]
    BY DEF RelayInvariant, TypeOK
  <2>2. QED
    BY <1>5, <2>1 DEF CloseForkAccount, ForkSteps, KeepsChain
<1>6. CASE Tick
  BY <1>1, <1>6 DEF Tick, KeepsChain
<1>7. CASE UNCHANGED vars
  BY <1>1, <1>7 DEF vars, KeepsChain
<1>8. QED
  BY <1>2, <1>3, <1>4, <1>5, <1>6, <1>7, OpenForkStep, ExtendForkStep DEF Next

-----------------------------------------------------------------------------
(* Which chain wins. *)

\* get_commitment within the last PRUNING_FACTOR heights and within reach is
\* the slot of the height; what it finds was there.
LEMMA LookupInReach ==
  ASSUME NEW m \in MainState, NEW h \in Int
  PROVE  /\ get_commitment(m, h) # NoCommitment =>
              /\ h <= m.block_height
              /\ h > m.block_height - PRUNING_FACTOR
              /\ h > m.start_height - PRUNING_FACTOR
              /\ get_commitment(m, h) = SlotOf(m, h)
         /\ /\ h <= m.block_height
            /\ h > m.block_height - PRUNING_FACTOR
            /\ InReach(m, h)
            => get_commitment(m, h) = SlotOf(m, h)
<1>1. /\ m.start_height \in Nat /\ m.block_height \in Nat
      /\ PRUNING_FACTOR \in Nat \ {0}
  BY RingAssumption DEF MainState
<1>2. ASSUME get_position(m, h) # PRUNING_FACTOR
      PROVE  h > m.start_height - PRUNING_FACTOR
  BY <1>1, <1>2 DEF get_position
<1>3. InReach(m, h) => get_position(m, h) # PRUNING_FACTOR
  BY <1>1, PositionInReach DEF Slots
<1>4. QED
  BY <1>1, <1>2, <1>3 DEF get_commitment, SlotOf

\* A block of the main chain, found by its committed header, is in its slot.
LEMMA MainChainBlockInSlot ==
  ASSUME NEW m \in MainState, NEW c \in CommittedBlockHeader,
         c = get_commitment(m, c.blockheight)
  PROVE  /\ c.blockheight \in Nat
         /\ c.blockheight <= m.block_height
         /\ c.blockheight > m.block_height - PRUNING_FACTOR
         /\ c.blockheight > m.start_height - PRUNING_FACTOR
         /\ SlotOf(m, c.blockheight) = c
<1>1. c # NoCommitment /\ c.blockheight \in Nat
  BY RingAssumption DEF CommittedBlockHeader
<1>2. QED
  BY <1>1, LookupInReach

\* The tip is less than a turn above the ring's start, whatever was stored
\* where: a store that would be a turn away moves the start.
TipInTurn ==
  Initialized => main_state.block_height < main_state.start_height + PRUNING_FACTOR

\* Both parts are inductive together.
LEMMA TipInTurnStep ==
  ASSUME RelayInvariant, TipInTurn, [Next]_vars
  PROVE  TipInTurn'
<1>1. Starts \/ Extends \/ Reorganises \/ Adopts \/ KeepsChain
  BY StepKinds
<1>2. PRUNING_FACTOR \in Nat \ {0}
  BY RingAssumption
<1>3. CASE Starts
  <2>1. PICK c \in Checkpoints : Initialize(c)
    BY <1>3 DEF Starts
  <2>2. c.blockheight \in Nat
    BY RelayAssumption DEF CommittedBlockHeader
  <2>3. main_state'.block_height = c.blockheight /\ main_state'.start_height = c.blockheight
    BY <2>1 DEF Initialize
  <2>4. QED
    BY <1>2, <2>2, <2>3 DEF TipInTurn
<1>4. CASE Extends \/ Reorganises \/ Adopts
  BY <1>4 DEF Extends, Reorganises, Adopts, Rewrites, TipInTurn
<1>5. CASE KeepsChain
  BY <1>5 DEF KeepsChain, SameChain, TipInTurn, Initialized
<1>6. QED
  BY <1>1, <1>3, <1>4, <1>5

\* An extension keeps every commitment that can still be looked up.
LEMMA ExtensionKeepsBlocks ==
  ASSUME NEW m \in MainState, NEW t, NEW n, NEW commits,
         Rewrites(m, t, m.block_height, n, commits),
         InReach(m, m.block_height),
         NEW h \in RetainedHeights(t), h <= m.block_height
  PROVE  get_commitment(t, h) = get_commitment(m, h)
<1> DEFINE b == m.block_height
<1>1. /\ t \in MainState /\ n \in Nat \ {0}
      /\ t.block_height = b + n
      /\ StoredFrom(m, t, b, n, commits)
  BY DEF Rewrites, LinkedAbove
<1>2. /\ t.start_height >= m.start_height
      /\ \A g \in Int :
           /\ InReach(m, g) /\ InReach(t, g)
           /\ \A i \in 1..n :
                g \notin {b + i, b + i - PRUNING_FACTOR, b + i + PRUNING_FACTOR}
           => SlotOf(t, g) = SlotOf(m, g)
  BY <1>1 DEF StoredFrom
<1>3. /\ PRUNING_FACTOR \in Nat \ {0}
      /\ b \in Nat /\ m.start_height \in Nat /\ t.start_height \in Nat
  BY <1>1, RingAssumption DEF MainState
<1>4. h \in Int /\ h > b + n - PRUNING_FACTOR /\ get_commitment(t, h) # NoCommitment
  BY <1>1, <1>3 DEF RetainedHeights, Retained
<1>5. h > t.start_height - PRUNING_FACTOR /\ get_commitment(t, h) = SlotOf(t, h)
  BY <1>1, <1>4, LookupInReach
<1> HIDE DEF b
<1>6. InReach(m, b) /\ h <= b
  BY DEF b
<1>7. InReach(m, h) /\ InReach(t, h)
  BY <1>2, <1>3, <1>4, <1>5, <1>6 DEF InReach
<1>8. \A i \in 1..n :
        h \notin {b + i, b + i - PRUNING_FACTOR, b + i + PRUNING_FACTOR}
  BY <1>1, <1>3, <1>4, <1>6
<1>9. SlotOf(t, h) = SlotOf(m, h)
  BY <1>2, <1>4, <1>7, <1>8
<1>10. h > b - PRUNING_FACTOR
  BY <1>1, <1>3, <1>4
<1>11. get_commitment(m, h) = SlotOf(m, h)
  BY <1>4, <1>6, <1>7, <1>10, LookupInReach DEF b
<1>12. QED
  BY <1>5, <1>9, <1>11

\* What a step may do to the tip.
LEMMA TipStep ==
  ASSUME RelayInvariant, TipInTurn, [Next]_vars,
         Initialized, main_state'.tip_commit_hash # main_state.tip_commit_hash
  PROVE  \/ main_state'.chain_work > main_state.chain_work
         \/ /\ main_state'.chain_work = main_state.chain_work
            /\ main_state'.block_height > main_state.block_height
            /\ \A h \in RetainedHeights(main_state') :
                 h <= main_state.block_height =>
                   get_commitment(main_state', h) = get_commitment(main_state, h)
<1>1. Starts \/ Extends \/ Reorganises \/ Adopts \/ KeepsChain
  BY StepKinds
<1>2. ~Starts /\ ~KeepsChain
  BY DEF Starts, Initialize, KeepsChain, SameChain
<1>3. CASE Reorganises \/ Adopts
  BY <1>3 DEF Reorganises, Adopts
<1>4. CASE Extends
  <2>1. PICK c, data, commits :
          /\ c \in PublishedCommitments /\ data \in Batches
          /\ c.blockheight = main_state.block_height
          /\ IsMainChainBlock(c)
          /\ Rewrites(main_state, main_state', c.blockheight, Len(data), commits)
          /\ main_state'.chain_work >= main_state.chain_work
    BY <1>4 DEF Extends
  <2> DEFINE m == main_state
             t == main_state'
             n == Len(data)
  <2>2. c \in CommittedBlockHeader /\ m \in MainState
    BY <2>1, InvariantParts, PublishedType DEF GoodMain
  <2>3. /\ t \in MainState /\ n \in Nat \ {0}
        /\ t.block_height = m.block_height + n
    BY <2>1 DEF Rewrites, LinkedAbove
  <2>4. m.block_height \in Nat /\ m.chain_work \in Nat /\ t.chain_work \in Nat
    BY <2>2, <2>3 DEF MainState
  <2>5. InReach(m, m.block_height)
    <3>1. c = get_commitment(m, c.blockheight)
      BY <2>1 DEF IsMainChainBlock
    <3>2. m.block_height > m.start_height - PRUNING_FACTOR
      BY <2>1, <2>2, <3>1, MainChainBlockInSlot
    <3>3. QED
      BY <3>2 DEF TipInTurn, InReach
  <2>6. \A h \in RetainedHeights(t) : h <= m.block_height =>
          get_commitment(t, h) = get_commitment(m, h)
    <3> HIDE DEF n
    <3>1. QED
      BY <2>1, <2>2, <2>5, ExtensionKeepsBlocks DEF n
  <2> HIDE DEF n
  <2>7. t.block_height > m.block_height
    BY <2>3, <2>4
  <2>8. t.chain_work > m.chain_work \/ t.chain_work = m.chain_work
    BY <2>1, <2>4
  <2>9. QED
    BY <2>6, <2>7, <2>8
<1>5. QED
  BY <1>1, <1>2, <1>3, <1>4

\* Among chains of equal work the first one seen stays: a step that changes the
\* tip leads to strictly more work, or extends the chain by blocks whose
\* difficulty rounds to 0 and leaves every block that can be looked up.
THEOREM FirstSeenWins == Spec => ReorgNeedsMoreWork
<1>1. Init => RelayInvariant /\ TipInTurn
  BY InitInvariant DEF Init, TipInTurn, Initialized
<1>2. RelayInvariant /\ TipInTurn /\ [Next]_vars => (RelayInvariant /\ TipInTurn)'
  BY StepInvariant, TipInTurnStep
<1> DEFINE A == Initialized /\ main_state'.tip_commit_hash # main_state.tip_commit_hash =>
                  \/ main_state'.chain_work > main_state.chain_work
                  \/ /\ main_state'.chain_work = main_state.chain_work
                     /\ main_state'.block_height > main_state.block_height
                     /\ \A h \in RetainedHeights(main_state') :
                          h <= main_state.block_height =>
                            get_commitment(main_state', h) = get_commitment(main_state, h)
<1>3. RelayInvariant /\ TipInTurn /\ [Next]_vars => A
  BY TipStep
<1> HIDE DEF A
<1>4. Spec => [][A]_vars
  BY <1>1, <1>2, <1>3, PTL DEF Spec
<1>5. QED
  BY <1>4 DEF ReorgNeedsMoreWork, A

-----------------------------------------------------------------------------
(* What the ring holds. *)

\* Two heights a turn apart share their slot.
LEMMA PositionOneTurnUp ==
  ASSUME NEW m \in MainState, NEW h \in Int,
         h > m.start_height - PRUNING_FACTOR, h < m.start_height
  PROVE  get_position(m, h + PRUNING_FACTOR) = get_position(m, h)
<1>1. m.start_height \in Nat /\ PRUNING_FACTOR \in Nat \ {0}
  BY RingAssumption DEF MainState
<1>2. QED
  BY <1>1 DEF get_position

\* In a ring that holds a turn the blocks of the main chain are within it.
LEMMA MainChainBlockInTurn ==
  ASSUME NEW m \in MainState, NEW c \in CommittedBlockHeader, NEW top \in Int,
         HoldsTurn(m, c, top),
         NEW x \in CommittedBlockHeader, x = get_commitment(m, x.blockheight)
  PROVE  /\ x.blockheight \in c.blockheight..m.block_height
         /\ x.blockheight > top - PRUNING_FACTOR
         /\ SlotOf(m, x.blockheight) = x
<1> DEFINE h == x.blockheight
           s == m.start_height
<1>1. /\ h \in Nat /\ c.blockheight \in Nat /\ x # NoCommitment
      /\ s \in Nat /\ m.block_height \in Nat /\ PRUNING_FACTOR \in Nat \ {0}
  BY RingAssumption DEF MainState, CommittedBlockHeader
<1>2. /\ h <= m.block_height
      /\ h > m.block_height - PRUNING_FACTOR
      /\ h > s - PRUNING_FACTOR
      /\ SlotOf(m, h) = x
  BY MainChainBlockInSlot
<1>3. /\ top \in s..(s + PRUNING_FACTOR - 1)
      /\ m.block_height \in c.blockheight..top
      /\ m.block_height > top - PRUNING_FACTOR
      /\ \A g \in (top - PRUNING_FACTOR + 1)..top :
           IF g < c.blockheight THEN SlotOf(m, g) = NoCommitment
           ELSE SlotOf(m, g) # NoCommitment /\ SlotOf(m, g).blockheight = g
  BY DEF HoldsTurn
<1> HIDE DEF h, s
<1>4. h > top - PRUNING_FACTOR
  <2>1. SUFFICES ASSUME h <= top - PRUNING_FACTOR PROVE FALSE
    BY <1>1, <1>3
  <2>2. h < s
    BY <1>1, <1>3, <2>1
  <2>3. get_position(m, h + PRUNING_FACTOR) = get_position(m, h)
    BY <1>1, <1>2, <2>2, PositionOneTurnUp DEF s
  <2>4. SlotOf(m, h + PRUNING_FACTOR) = x
    BY <1>2, <2>3 DEF SlotOf
  <2>5. h + PRUNING_FACTOR \in (top - PRUNING_FACTOR + 1)..top
    BY <1>1, <1>2, <1>3, <2>1
  <2>6. x.blockheight = h + PRUNING_FACTOR
    BY <1>1, <1>3, <2>4, <2>5
  <2>7. QED
    BY <1>1, <2>6 DEF h
<1>5. h \in (top - PRUNING_FACTOR + 1)..top
  BY <1>1, <1>2, <1>3, <1>4
<1>6. h >= c.blockheight
  BY <1>1, <1>2, <1>3, <1>5
<1>7. QED
  BY <1>1, <1>2, <1>4, <1>6 DEF h

\* The turn's end once a chain reached a height.
TurnEnd(top, reached) == IF reached > top THEN reached ELSE top

\* The slot of a height of the turn after the chain above height a was rewritten.
LEMMA RewriteKeepsTurn ==
  ASSUME NEW m \in MainState, NEW c \in CommittedBlockHeader, NEW top \in Int,
         HoldsTurn(m, c, top),
         NEW t, NEW a \in Nat, NEW n, NEW commits, Rewrites(m, t, a, n, commits),
         a \in c.blockheight..top, a > top - PRUNING_FACTOR
  PROVE  LET newtop == TurnEnd(top, a + n)
         IN  /\ HoldsTurn(t, c, newtop)
             /\ \A h \in (newtop - PRUNING_FACTOR + 1)..newtop :
                  IF h \in (a + 1)..(a + n)
                  THEN SlotOf(t, h) = commits[h - a]
                  ELSE /\ SlotOf(t, h) = SlotOf(m, h)
                       /\ h \in (top - PRUNING_FACTOR + 1)..top
<1> DEFINE s == m.start_height
           newtop == IF a + n > top THEN a + n ELSE top
<1>1. /\ s \in Nat /\ c.blockheight \in Nat /\ PRUNING_FACTOR \in Nat \ {0}
  BY RingAssumption DEF MainState, CommittedBlockHeader
<1>2. /\ top \in s..(s + PRUNING_FACTOR - 1)
      /\ \A g \in (top - PRUNING_FACTOR + 1)..top :
           IF g < c.blockheight THEN SlotOf(m, g) = NoCommitment
           ELSE SlotOf(m, g) # NoCommitment /\ SlotOf(m, g).blockheight = g
  BY DEF HoldsTurn
<1>3. /\ n \in Nat \ {0}
      /\ \A i \in 1..n : /\ commits[i] \in CommittedBlockHeader
                          /\ commits[i].blockheight = a + i
      /\ t \in MainState
      /\ t.block_height = a + n
  BY DEF Rewrites, LinkedAbove
<1>4. InReach(m, a)
  BY <1>1, <1>2 DEF InReach
<1>5. /\ t.start_height >= s
      /\ t.start_height = s \/ t.start_height \in (a + 1)..(a + n)
      /\ InReach(t, a + n)
      /\ \A i \in 1..n : i > n - PRUNING_FACTOR => SlotOf(t, a + i) = commits[i]
      /\ \A g \in Int :
           /\ InReach(m, g) /\ InReach(t, g)
           /\ \A i \in 1..n :
                g \notin {a + i, a + i - PRUNING_FACTOR, a + i + PRUNING_FACTOR}
           => SlotOf(t, g) = SlotOf(m, g)
  BY <1>4 DEF Rewrites, StoredFrom
<1>6. t.start_height \in Nat
  BY <1>3 DEF MainState
<1>7. newtop \in t.start_height..(t.start_height + PRUNING_FACTOR - 1)
  BY <1>1, <1>2, <1>3, <1>5, <1>6 DEF InReach
<1>8. ASSUME NEW h \in (newtop - PRUNING_FACTOR + 1)..newtop
      PROVE  IF h \in (a + 1)..(a + n)
             THEN SlotOf(t, h) = commits[h - a]
             ELSE /\ SlotOf(t, h) = SlotOf(m, h)
                  /\ h \in (top - PRUNING_FACTOR + 1)..top
  <2>1. h \in Int
    BY <1>1, <1>3
  <2>2. CASE h \in (a + 1)..(a + n)
    <3>1. h - a \in 1..n /\ h - a > n - PRUNING_FACTOR /\ a + (h - a) = h
      BY <1>1, <1>3, <1>8, <2>1, <2>2
    <3>2. QED
      BY <1>5, <2>2, <3>1
  <2>3. CASE h \notin (a + 1)..(a + n)
    <3>1. h \in (top - PRUNING_FACTOR + 1)..top /\ h > a + n - PRUNING_FACTOR
      BY <1>1, <1>3, <1>8, <2>1, <2>3
    <3>2. InReach(m, h)
      BY <1>1, <1>2, <2>1, <3>1 DEF InReach
    <3>3. InReach(t, h)
      BY <1>1, <1>3, <1>6, <1>7, <1>8, <2>1 DEF InReach
    <3>4. \A i \in 1..n :
            h \notin {a + i, a + i - PRUNING_FACTOR, a + i + PRUNING_FACTOR}
      BY <1>1, <1>3, <2>1, <2>3, <3>1
    <3>5. SlotOf(t, h) = SlotOf(m, h)
      BY <1>5, <2>1, <3>2, <3>3, <3>4
    <3>6. QED
      BY <2>3, <3>1, <3>5
  <2>4. QED
    BY <2>2, <2>3
<1>9. t.block_height \in c.blockheight..newtop /\ t.block_height > newtop - PRUNING_FACTOR
  BY <1>1, <1>3
<1> HIDE DEF newtop
<1>10. ASSUME NEW h \in (newtop - PRUNING_FACTOR + 1)..newtop
       PROVE  IF h < c.blockheight THEN SlotOf(t, h) = NoCommitment
              ELSE SlotOf(t, h) # NoCommitment /\ SlotOf(t, h).blockheight = h
  <2>1. CASE h \in (a + 1)..(a + n)
    <3>1. h - a \in 1..n /\ a + (h - a) = h /\ ~(h < c.blockheight)
      BY <1>1, <1>3, <2>1
    <3>2. SlotOf(t, h) \in CommittedBlockHeader /\ SlotOf(t, h).blockheight = h
      BY <1>3, <1>8, <2>1, <3>1
    <3>3. QED
      BY <3>1, <3>2, RingAssumption
  <2>2. CASE h \notin (a + 1)..(a + n)
    BY <1>2, <1>8, <2>2
  <2>3. QED
    BY <2>1, <2>2
<1>11. QED
  BY <1>7, <1>8, <1>9, <1>10 DEF HoldsTurn, newtop, TurnEnd

\* initialize leaves a ring that holds its one block.
LEMMA StartHoldsTurn ==
  ASSUME NEW c \in CommittedBlockHeader, NEW t \in MainState,
         t.start_height = c.blockheight, t.block_height = c.blockheight,
         t.block_commitments = [s \in Slots |-> IF s = 0 THEN c ELSE NoCommitment]
  PROVE  HoldsTurn(t, c, c.blockheight) /\ SlotOf(t, c.blockheight) = c
<1> DEFINE b == c.blockheight
<1>1. b \in Nat /\ PRUNING_FACTOR \in Nat \ {0} /\ c # NoCommitment
  BY RingAssumption DEF CommittedBlockHeader
<1>2. ASSUME NEW h \in (b - PRUNING_FACTOR + 1)..b
      PROVE  SlotOf(t, h) = IF h = b THEN c ELSE NoCommitment
  <2>1. h \in Int /\ InReach(t, h)
    BY <1>1 DEF InReach
  <2>2. /\ get_position(t, h) \in Slots
        /\ get_position(t, h) = IF h >= b THEN h - b ELSE h - b + PRUNING_FACTOR
    BY <2>1, PositionInReach
  <2>3. get_position(t, h) = 0 <=> h = b
    BY <1>1, <2>1, <2>2
  <2>4. QED
    BY <2>2, <2>3 DEF SlotOf
<1> HIDE DEF b
<1>3. b \in (b - PRUNING_FACTOR + 1)..b
  BY <1>1
<1>4. b \in b..(b + PRUNING_FACTOR - 1) /\ b \in b..b /\ b > b - PRUNING_FACTOR
  BY <1>1
<1>5. \A h \in (b - PRUNING_FACTOR + 1)..b :
        IF h < b THEN SlotOf(t, h) = NoCommitment
        ELSE SlotOf(t, h) # NoCommitment /\ SlotOf(t, h).blockheight = h
  <2> TAKE h \in (b - PRUNING_FACTOR + 1)..b
  <2>1. h < b \/ h = b
    BY <1>1
  <2>2. h < b => h # b
    BY <1>1
  <2>3. QED
    BY <1>1, <1>2, <2>1, <2>2 DEF b
<1>6. QED
  BY <1>2, <1>3, <1>4, <1>5 DEF HoldsTurn, b

-----------------------------------------------------------------------------
(* Work and height, when all blocks have the same difficulty. *)

\* The work of x above c is its height above c, in units of the difficulty.
InProportion(c, x) ==
  \A g \in Headers :
    x.chain_work = c.chain_work + Difficulty[g.nbits] * (x.blockheight - c.blockheight)

\* Difficulties are natural numbers.
LEMMA DifficultyType == \A g \in Headers : Difficulty[g.nbits] \in Nat
BY DifficultyAssumption, HeadersAssumption DEF BlockHeader

\* Committing a child adds one unit of work and of height.
LEMMA ChildInProportion ==
  ASSUME EqualDifficulty,
         NEW c \in CommittedBlockHeader, NEW x \in CommittedBlockHeader,
         NEW y \in CommittedBlockHeader, InProportion(c, x), IsChild(x, y)
  PROVE  InProportion(c, y)
<1>1. y.header \in Headers
  BY DEF CommittedBlockHeader
<1> SUFFICES ASSUME NEW g \in Headers
             PROVE  y.chain_work = c.chain_work
                      + Difficulty[g.nbits] * (y.blockheight - c.blockheight)
  BY DEF InProportion
<1> DEFINE D == Difficulty[g.nbits]
           k == x.blockheight - c.blockheight
<1>2. D \in Nat /\ Difficulty[y.header.nbits] = D
  BY <1>1, DifficultyType DEF EqualDifficulty
<1>3. /\ x.chain_work = c.chain_work + D * k
      /\ y.chain_work = x.chain_work + D
      /\ y.blockheight = x.blockheight + 1
  BY <1>2 DEF InProportion, IsChild
<1>4. /\ x.blockheight \in Nat /\ c.blockheight \in Nat
      /\ x.chain_work \in Nat /\ c.chain_work \in Nat
  BY DEF CommittedBlockHeader
<1>5. k \in Int /\ y.blockheight - c.blockheight = k + 1
  BY <1>3, <1>4
<1> HIDE DEF D, k
<1>6. D * (k + 1) = D * k + D /\ D * k \in Int
  BY <1>2, <1>5
<1>7. y.chain_work = c.chain_work + D * (k + 1)
  BY <1>2, <1>3, <1>4, <1>6
<1>8. QED
  BY <1>5, <1>7 DEF D

\* So does a chain, block by block.
LEMMA ChainInProportion ==
  ASSUME EqualDifficulty, NEW c \in CommittedBlockHeader,
         NEW a, NEW n, NEW commits, LinkedAbove(a, n, commits),
         InProportion(c, commits[1])
  PROVE  \A i \in 1..n : InProportion(c, commits[i])
<1> DEFINE T == {k \in Nat : k + 1 <= n => InProportion(c, commits[k + 1])}
<1>1. /\ n \in Nat \ {0}
      /\ \A i \in 1..n : commits[i] \in CommittedBlockHeader
      /\ \A i \in 1..(n - 1) : IsChild(commits[i], commits[i + 1])
  BY DEF LinkedAbove
<1>2. 0 \in T
  BY <1>1
<1>3. ASSUME NEW k \in Nat, k \in T PROVE k + 1 \in T
  <2>1. SUFFICES ASSUME (k + 1) + 1 <= n
                 PROVE  InProportion(c, commits[(k + 1) + 1])
    OBVIOUS
  <2>2. k + 1 \in 1..(n - 1) /\ k + 1 \in 1..n /\ (k + 1) + 1 \in 1..n
    BY <1>1, <2>1
  <2>3. InProportion(c, commits[k + 1])
    BY <1>3, <2>2
  <2>4. QED
    BY <1>1, <2>2, <2>3, ChildInProportion
<1> HIDE DEF T
<1>4. Nat \subseteq T
  BY <1>2, <1>3, SetInductionOnNat
<1>5. ASSUME NEW i \in 1..n PROVE InProportion(c, commits[i])
  <2>1. i - 1 \in T /\ (i - 1) + 1 = i /\ i <= n
    BY <1>1, <1>4
  <2>2. QED
    BY <2>1 DEF T
<1>6. QED
  BY <1>5

\* The product is monotonic.
LEMMA ProductMonotonic ==
  ASSUME NEW d \in Nat, NEW j \in Int, NEW k \in Int, j <= k
  PROVE  d * j <= d * k
<1>1. d * (k - j) >= 0
  OBVIOUS
<1>2. d * (k - j) = d * k - d * j
  OBVIOUS
<1>3. d * j \in Int /\ d * k \in Int
  OBVIOUS
<1>4. QED
  BY <1>1, <1>2, <1>3

\* More work is more height.
LEMMA MoreWorkIsHigher ==
  ASSUME NEW c \in CommittedBlockHeader, NEW x \in CommittedBlockHeader,
         NEW y \in CommittedBlockHeader, InProportion(c, x), InProportion(c, y),
         y.chain_work > x.chain_work
  PROVE  y.blockheight > x.blockheight
<1> DEFINE D == Difficulty[c.header.nbits]
           j == y.blockheight - c.blockheight
           k == x.blockheight - c.blockheight
<1>1. c.header \in Headers
  BY DEF CommittedBlockHeader
<1>2. D \in Nat
  BY <1>1, DifficultyType
<1>3. /\ x.chain_work = c.chain_work + D * k
      /\ y.chain_work = c.chain_work + D * j
  BY <1>1 DEF InProportion
<1>4. /\ x.blockheight \in Nat /\ y.blockheight \in Nat /\ c.blockheight \in Nat
      /\ x.chain_work \in Nat /\ y.chain_work \in Nat /\ c.chain_work \in Nat
  BY DEF CommittedBlockHeader
<1>5. j \in Int /\ k \in Int /\ (y.blockheight > x.blockheight <=> j > k)
  BY <1>4
<1> HIDE DEF D, j, k
<1>6. D * j \in Int /\ D * k \in Int
  BY <1>2, <1>5
<1>7. D * j > D * k
  BY <1>3, <1>4, <1>6
<1>8. j <= k => D * j <= D * k
  BY <1>2, <1>5, ProductMonotonic
<1>9. QED
  BY <1>5, <1>6, <1>7, <1>8

-----------------------------------------------------------------------------
(* The inductive invariant of the ring, for a checkpoint c and a turn that  *)
(* ends in top: with blocks of equal difficulty the tip is the turn's end   *)
(* and works grow with heights; without fork accounts the blocks up to the  *)
(* tip are linked.                                                          *)

RingHolds(m, c, top) ==
  /\ HoldsTurn(m, c, top)
  /\ EqualDifficulty =>
       /\ m.block_height = top
       /\ \A h \in (top - PRUNING_FACTOR + 1)..top :
            h >= c.blockheight => InProportion(c, SlotOf(m, h))
  /\ MaxForks = 0 =>
       \A h \in (top - PRUNING_FACTOR + 1)..(m.block_height - 1) :
         h >= c.blockheight => IsChild(SlotOf(m, h), SlotOf(m, h + 1))

ForksHold(fs, c, top) ==
  \A f \in ForkIds \X Signers : fs[f] # NoFork =>
    /\ fs[f].start_height \in c.blockheight..top
    /\ EqualDifficulty => InProportion(c, fs[f].block_commitments[1])

RingInvariant ==
  Initialized =>
    \E c \in Checkpoints,
       top \in main_state.start_height..(main_state.start_height + PRUNING_FACTOR - 1) :
      /\ RingHolds(main_state, c, top)
      /\ ForksHold(forks, c, top)

\* Rewriting the chain above a height of the turn, up to the turn's end at
\* least if all blocks have the same difficulty.
LEMMA RewriteKeepsRing ==
  ASSUME NEW m \in MainState, NEW c \in CommittedBlockHeader, NEW top \in Int,
         RingHolds(m, c, top),
         NEW t, NEW a \in Nat, NEW n, NEW commits, Rewrites(m, t, a, n, commits),
         a \in c.blockheight..top, a > top - PRUNING_FACTOR,
         EqualDifficulty => a + n > top /\ InProportion(c, commits[1]),
         MaxForks = 0 => a <= m.block_height /\ IsChild(SlotOf(m, a), commits[1])
  PROVE  LET newtop == TurnEnd(top, a + n)
         IN  /\ newtop \in t.start_height..(t.start_height + PRUNING_FACTOR - 1)
             /\ newtop >= top
             /\ RingHolds(t, c, newtop)
<1> DEFINE newtop == IF a + n > top THEN a + n ELSE top
<1>1. /\ HoldsTurn(t, c, newtop)
      /\ \A h \in (newtop - PRUNING_FACTOR + 1)..newtop :
           IF h \in (a + 1)..(a + n)
           THEN SlotOf(t, h) = commits[h - a]
           ELSE /\ SlotOf(t, h) = SlotOf(m, h)
                /\ h \in (top - PRUNING_FACTOR + 1)..top
  BY RewriteKeepsTurn DEF RingHolds, TurnEnd
<1>2. /\ n \in Nat \ {0}
      /\ t.block_height = a + n
      /\ LinkedAbove(a, n, commits)
  BY DEF Rewrites, LinkedAbove
<1>3. newtop >= top /\ newtop >= a + n
  BY <1>2
<1>4. PRUNING_FACTOR \in Nat \ {0} /\ c.blockheight \in Nat /\ m.block_height \in Nat
  BY RingAssumption DEF CommittedBlockHeader, MainState
<1>5. newtop \in Int /\ (a + n > top => newtop = a + n)
  BY <1>2
<1> HIDE DEF newtop
<1>6. ASSUME EqualDifficulty
      PROVE  /\ t.block_height = newtop
             /\ \A h \in (newtop - PRUNING_FACTOR + 1)..newtop :
                  h >= c.blockheight => InProportion(c, SlotOf(t, h))
  <2>1. \A i \in 1..n : InProportion(c, commits[i])
    BY <1>2, <1>6, ChainInProportion
  <2>2. ASSUME NEW h \in (newtop - PRUNING_FACTOR + 1)..newtop, h >= c.blockheight
        PROVE  InProportion(c, SlotOf(t, h))
    <3>1. CASE h \in (a + 1)..(a + n)
      <4>1. h - a \in 1..n
        BY <1>2, <3>1
      <4>2. QED
        BY <1>1, <2>1, <3>1, <4>1
    <3>2. CASE h \notin (a + 1)..(a + n)
      BY <1>1, <1>6, <2>2, <3>2 DEF RingHolds
    <3>3. QED
      BY <3>1, <3>2
  <2>3. QED
    BY <1>2, <1>5, <1>6, <2>2
<1>7. ASSUME MaxForks = 0,
             NEW h \in (newtop - PRUNING_FACTOR + 1)..(t.block_height - 1),
             h >= c.blockheight
      PROVE  IsChild(SlotOf(t, h), SlotOf(t, h + 1))
  <2>1. /\ h \in Int /\ h <= a + n - 1
        /\ h \in (newtop - PRUNING_FACTOR + 1)..newtop
        /\ h + 1 \in (newtop - PRUNING_FACTOR + 1)..newtop
    BY <1>2, <1>3, <1>4, <1>5, <1>7
  <2>2. CASE h > a
    <3>1. /\ h \in (a + 1)..(a + n) /\ h + 1 \in (a + 1)..(a + n)
          /\ h - a \in 1..(n - 1) /\ (h + 1) - a = (h - a) + 1
      BY <1>2, <2>1, <2>2
    <3>2. SlotOf(t, h) = commits[h - a] /\ SlotOf(t, h + 1) = commits[(h - a) + 1]
      BY <1>1, <2>1, <3>1
    <3>3. QED
      BY <1>2, <3>1, <3>2 DEF LinkedAbove
  <2>3. CASE h = a
    <3>1. /\ h \notin (a + 1)..(a + n) /\ h + 1 \in (a + 1)..(a + n)
          /\ (h + 1) - a = 1
      BY <1>2, <2>3
    <3>2. SlotOf(t, h) = SlotOf(m, a) /\ SlotOf(t, h + 1) = commits[1]
      BY <1>1, <2>1, <2>3, <3>1
    <3>3. QED
      BY <1>7, <3>2
  <2>4. CASE h < a
    <3>1. h \notin (a + 1)..(a + n) /\ h + 1 \notin (a + 1)..(a + n)
      BY <1>2, <2>1, <2>4
    <3>2. /\ SlotOf(t, h) = SlotOf(m, h) /\ SlotOf(t, h + 1) = SlotOf(m, h + 1)
          /\ h \in (top - PRUNING_FACTOR + 1)..top
      BY <1>1, <2>1, <3>1
    <3>3. h \in (top - PRUNING_FACTOR + 1)..(m.block_height - 1)
      BY <1>4, <1>7, <2>1, <2>4, <3>2
    <3>4. QED
      BY <1>7, <3>2, <3>3 DEF RingHolds
  <2>5. QED
    BY <2>1, <2>2, <2>3, <2>4
<1>8. newtop \in t.start_height..(t.start_height + PRUNING_FACTOR - 1)
  BY <1>1 DEF HoldsTurn
<1>9. QED
  BY <1>1, <1>3, <1>6, <1>7, <1>8 DEF RingHolds, newtop, TurnEnd

\* In such a ring the tip is in its slot.
LEMMA TipInSlot ==
  ASSUME NEW m, GoodMain(m), NEW c \in CommittedBlockHeader, NEW top \in Int,
         HoldsTurn(m, c, top)
  PROVE  /\ m.tip_commit_hash \in CommittedBlockHeader
         /\ m.block_height = m.tip_commit_hash.blockheight
         /\ InReach(m, m.block_height)
         /\ m.block_height \in (top - PRUNING_FACTOR + 1)..top
         /\ m.block_height >= c.blockheight
         /\ SlotOf(m, m.block_height) = m.tip_commit_hash
<1>1. m \in MainState /\ TipFields(m) /\ TipSlot(m)
  BY DEF GoodMain
<1>2. /\ m.start_height \in Nat /\ m.block_height \in Nat /\ c.blockheight \in Nat
      /\ PRUNING_FACTOR \in Nat \ {0}
  BY <1>1, RingAssumption DEF MainState, CommittedBlockHeader
<1>3. /\ top \in m.start_height..(m.start_height + PRUNING_FACTOR - 1)
      /\ m.block_height \in c.blockheight..top
      /\ m.block_height > top - PRUNING_FACTOR
  BY DEF HoldsTurn
<1>4. /\ InReach(m, m.block_height)
      /\ m.block_height \in (top - PRUNING_FACTOR + 1)..top
      /\ m.block_height >= c.blockheight
  BY <1>2, <1>3 DEF InReach
<1>5. get_position(m, m.block_height) # PRUNING_FACTOR
  BY <1>1, <1>2, <1>4, PositionInReach DEF Slots
<1>6. SlotOf(m, m.block_height) = m.tip_commit_hash
  BY <1>1, <1>5 DEF TipSlot, SlotOf
<1>7. QED
  BY <1>1, <1>4, <1>6 DEF MainState, TipFields

\* With blocks of equal difficulty a heavier chain ends above the turn.
LEMMA HeavierIsHigher ==
  ASSUME EqualDifficulty, NEW m, GoodMain(m),
         NEW c \in CommittedBlockHeader, NEW top \in Int, RingHolds(m, c, top),
         NEW t, NEW a \in Nat, NEW n, NEW commits, Rewrites(m, t, a, n, commits),
         InProportion(c, commits[1]), t.chain_work > m.chain_work
  PROVE  a + n > top
<1>1. /\ n \in Nat \ {0} /\ n \in 1..n
      /\ commits[n] \in CommittedBlockHeader
      /\ commits[n].blockheight = a + n
      /\ t.chain_work = commits[n].chain_work
      /\ LinkedAbove(a, n, commits)
  BY DEF Rewrites, LinkedAbove
<1>2. InProportion(c, commits[n])
  BY <1>1, ChainInProportion
<1>3. /\ m.tip_commit_hash \in CommittedBlockHeader
      /\ m.block_height = m.tip_commit_hash.blockheight
      /\ m.block_height \in (top - PRUNING_FACTOR + 1)..top
      /\ m.block_height >= c.blockheight
      /\ SlotOf(m, m.block_height) = m.tip_commit_hash
  BY TipInSlot DEF RingHolds
<1>4. m.block_height = top /\ InProportion(c, m.tip_commit_hash)
  BY <1>3 DEF RingHolds
<1>5. m.chain_work = m.tip_commit_hash.chain_work
  BY DEF GoodMain, TipFields
<1>6. commits[n].blockheight > m.tip_commit_hash.blockheight
  BY <1>1, <1>2, <1>3, <1>4, <1>5, MoreWorkIsHigher
<1>7. QED
  BY <1>1, <1>3, <1>4, <1>6

\* A block of the main chain, as the instructions look it up.
LEMMA BaseInRing ==
  ASSUME main_state \in MainState,
         NEW c \in CommittedBlockHeader, NEW top \in Int, RingHolds(main_state, c, top),
         NEW x \in CommittedBlockHeader, IsMainChainBlock(x)
  PROVE  /\ x.blockheight \in c.blockheight..top
         /\ x.blockheight <= main_state.block_height
         /\ x.blockheight > top - PRUNING_FACTOR
         /\ SlotOf(main_state, x.blockheight) = x
         /\ EqualDifficulty => InProportion(c, x)
<1>1. x = get_commitment(main_state, x.blockheight)
  BY DEF IsMainChainBlock
<1>2. /\ x.blockheight \in c.blockheight..main_state.block_height
      /\ x.blockheight > top - PRUNING_FACTOR
      /\ SlotOf(main_state, x.blockheight) = x
  BY <1>1, MainChainBlockInTurn DEF RingHolds
<1>3. main_state.block_height <= top
  BY DEF RingHolds, HoldsTurn
<1>4. /\ main_state.block_height \in Nat /\ c.blockheight \in Nat
      /\ PRUNING_FACTOR \in Nat \ {0} /\ x.blockheight \in Nat
  BY RingAssumption DEF MainState, CommittedBlockHeader
<1>5. /\ x.blockheight \in c.blockheight..top
      /\ x.blockheight \in (top - PRUNING_FACTOR + 1)..top
      /\ x.blockheight >= c.blockheight
      /\ x.blockheight <= main_state.block_height
  BY <1>2, <1>3, <1>4
<1>6. EqualDifficulty => InProportion(c, x)
  BY <1>2, <1>5 DEF RingHolds
<1>7. QED
  BY <1>2, <1>5, <1>6

\* submit_block_headers, submit_short_fork_headers and the first
\* submit_fork_headers, when they change the chain, build on a block x of the
\* turn and keep the ring's invariant.
LEMMA BuildsOnBase ==
  ASSUME RelayInvariant, Initialized, Extends \/ Reorganises,
         NEW c \in CommittedBlockHeader, NEW top \in Int, RingHolds(main_state, c, top)
  PROVE  \E x, data, commits :
           LET newtop == TurnEnd(top, x.blockheight + Len(data))
           IN  /\ x \in CommittedBlockHeader /\ data \in Batches
               /\ x.blockheight \in c.blockheight..top
               /\ x.blockheight <= main_state.block_height
               /\ x.blockheight > top - PRUNING_FACTOR
               /\ SlotOf(main_state, x.blockheight) = x
               /\ IsChild(x, commits[1])
               /\ Rewrites(main_state, main_state', x.blockheight, Len(data), commits)
               /\ \/ Extends /\ x.blockheight = main_state.block_height
                  \/ main_state'.chain_work > main_state.chain_work
               /\ newtop \in main_state'.start_height
                              ..(main_state'.start_height + PRUNING_FACTOR - 1)
               /\ newtop >= top
               /\ RingHolds(main_state', c, newtop)
<1>1. PICK x, data, commits :
        /\ x \in PublishedCommitments /\ data \in Batches
        /\ IsMainChainBlock(x)
        /\ IsChild(x, commits[1])
        /\ Rewrites(main_state, main_state', x.blockheight, Len(data), commits)
        /\ \/ Extends /\ x.blockheight = main_state.block_height
           \/ main_state'.chain_work > main_state.chain_work
  BY DEF Extends, Reorganises
<1> DEFINE n == Len(data)
           m == main_state
           t == main_state'
<1>2. /\ GoodMain(m) /\ m \in MainState
      /\ x \in CommittedBlockHeader
  BY <1>1, InvariantParts, PublishedType DEF GoodAccounts, GoodMain, Initialized
<1>3. /\ x.blockheight \in c.blockheight..top
      /\ x.blockheight <= m.block_height
      /\ x.blockheight > top - PRUNING_FACTOR
      /\ SlotOf(m, x.blockheight) = x
      /\ EqualDifficulty => InProportion(c, x)
  BY <1>1, <1>2, BaseInRing
<1>4. /\ x.blockheight \in Nat /\ n \in Nat \ {0}
      /\ commits[1] \in CommittedBlockHeader
      /\ m.block_height \in Nat
  <2>1. LinkedAbove(x.blockheight, n, commits)
    BY <1>1 DEF Rewrites
  <2> HIDE DEF n
  <2>2. n \in Nat \ {0} /\ 1 \in 1..n /\ x.blockheight \in Nat
    BY <2>1 DEF LinkedAbove
  <2>3. commits[1] \in CommittedBlockHeader
    BY <2>1, <2>2 DEF LinkedAbove
  <2>4. m.block_height \in Nat
    BY <1>2 DEF MainState
  <2>5. QED
    BY <2>2, <2>3, <2>4
<1> HIDE DEF n
<1>5. ASSUME EqualDifficulty
      PROVE  x.blockheight + n > top /\ InProportion(c, commits[1])
  <2>1. InProportion(c, commits[1])
    BY <1>1, <1>2, <1>3, <1>4, <1>5, ChildInProportion
  <2>2. CASE x.blockheight = m.block_height
    <3>1. m.block_height = top
      BY <1>5 DEF RingHolds
    <3>2. QED
      BY <1>4, <2>1, <2>2, <3>1
  <2>3. CASE t.chain_work > m.chain_work
    <3>1. x.blockheight + n > top
      BY <1>1, <1>2, <1>4, <1>5, <2>1, <2>3, HeavierIsHigher DEF n
    <3>2. QED
      BY <2>1, <3>1
  <2>4. QED
    BY <1>1, <2>2, <2>3
<1> DEFINE newtop == TurnEnd(top, x.blockheight + n)
<1>6. /\ newtop \in t.start_height..(t.start_height + PRUNING_FACTOR - 1)
      /\ newtop >= top
      /\ RingHolds(t, c, newtop)
  <2>1. MaxForks = 0 => /\ x.blockheight <= m.block_height
                       /\ IsChild(SlotOf(m, x.blockheight), commits[1])
    BY <1>1, <1>3
  <2>2. Rewrites(m, t, x.blockheight, n, commits)
    BY <1>1 DEF n
  <2> HIDE DEF m, t
  <2>3. QED
    BY <1>2, <1>3, <1>4, <1>5, <2>1, <2>2, RewriteKeepsRing DEF m, newtop
<1>7. QED
  BY <1>1, <1>2, <1>3, <1>6 DEF n

\* What a step makes of the forks, when the turn's end does not go down.
LEMMA ForksHoldStep ==
  ASSUME RelayInvariant, RelayInvariant', ForkSteps, Initialized,
         NEW c \in CommittedBlockHeader, NEW top \in Int,
         RingHolds(main_state, c, top), ForksHold(forks, c, top),
         NEW newtop \in Int, newtop >= top
  PROVE  ForksHold(forks', c, newtop)
<1> SUFFICES ASSUME NEW f \in ForkIds \X Signers, forks'[f] # NoFork
             PROVE  /\ forks'[f].start_height \in c.blockheight..newtop
                    /\ EqualDifficulty =>
                         InProportion(c, forks'[f].block_commitments[1])
  BY DEF ForksHold
<1>1. c.blockheight \in Nat
  BY DEF CommittedBlockHeader
<1>2. CASE /\ forks[f] # NoFork
           /\ forks'[f].start_height = forks[f].start_height
           /\ forks'[f].block_commitments[1] = forks[f].block_commitments[1]
  <2>1. /\ forks[f].start_height \in c.blockheight..top
        /\ EqualDifficulty => InProportion(c, forks[f].block_commitments[1])
    BY <1>2 DEF ForksHold
  <2>2. QED
    BY <1>1, <1>2, <2>1
<1>3. CASE \E x \in PublishedCommitments :
             /\ Initialized
             /\ IsMainChainBlock(x)
             /\ forks'[f].start_height = x.blockheight
             /\ IsChild(x, forks'[f].block_commitments[1])
  <2>1. PICK x \in PublishedCommitments :
          /\ IsMainChainBlock(x)
          /\ forks'[f].start_height = x.blockheight
          /\ IsChild(x, forks'[f].block_commitments[1])
    BY <1>3
  <2>2. x \in CommittedBlockHeader /\ main_state \in MainState
    BY InvariantParts, PublishedType DEF GoodMain
  <2>3. /\ x.blockheight \in c.blockheight..top
        /\ EqualDifficulty => InProportion(c, x)
    BY <2>1, <2>2, BaseInRing
  <2>4. GoodFork(forks'[f])
    <3>1. (now \in Nat /\ GoodAccounts(main_state, forks))'
      <4>1. RelayInvariant' <=> (now \in Nat /\ GoodAccounts(main_state, forks))'
        BY InvariantParts, PTL
      <4>2. QED
        BY <4>1
    <3>2. CASE forks' = [g \in ForkIds \X Signers |-> NoFork]
      BY <3>2
    <3>3. CASE GoodForks(forks', main_state')
      BY <3>3 DEF GoodForks
    <3>4. QED
      BY <3>1, <3>2, <3>3 DEF GoodAccounts
  <2>5. forks'[f].block_commitments[1] \in CommittedBlockHeader
    <3>1. LinkedAbove(forks'[f].start_height, Len(forks'[f].block_commitments),
                      forks'[f].block_commitments)
      BY <2>4, BufferIsLinked
    <3>2. QED
      BY <3>1 DEF LinkedAbove
  <2>6. EqualDifficulty => InProportion(c, forks'[f].block_commitments[1])
    BY <2>1, <2>2, <2>3, <2>5, ChildInProportion
  <2>7. QED
    BY <1>1, <2>1, <2>3, <2>6
<1>4. QED
  BY <1>2, <1>3 DEF ForkSteps

\* Every step keeps the ring's invariant: without fork accounts, or with blocks
\* of equal difficulty.
LEMMA RingStep ==
  ASSUME MaxForks = 0 \/ EqualDifficulty,
         RelayInvariant, RingInvariant, [Next]_vars
  PROVE  RingInvariant'
<1>1. ForkSteps /\ (Starts \/ Extends \/ Reorganises \/ Adopts \/ KeepsChain)
  BY StepKinds
<1>2. RelayInvariant'
  BY StepInvariant
<1>3. PRUNING_FACTOR \in Nat \ {0}
  BY RingAssumption
<1>4. CASE Starts
  <2>1. PICK c \in Checkpoints : Initialize(c)
    BY <1>4 DEF Starts
  <2>2. c \in CommittedBlockHeader /\ c.blockheight \in Nat
    BY RelayAssumption DEF CommittedBlockHeader
  <2> DEFINE t == main_state'
             b == c.blockheight
  <2>3. /\ ~Initialized /\ forks' = forks
        /\ t.start_height = b /\ t.block_height = b
        /\ t.block_commitments = [s \in Slots |-> IF s = 0 THEN c ELSE NoCommitment]
    BY <2>1 DEF Initialize
  <2>4. t \in MainState
    BY <2>1, InitializeInvariant
  <2>5. HoldsTurn(t, c, b) /\ SlotOf(t, b) = c
    <3> HIDE DEF t
    <3>1. QED
      BY <2>2, <2>3, <2>4, StartHoldsTurn
  <2>6. RingHolds(t, c, b)
    <3>1. InProportion(c, c)
      <4>1. \A g \in Headers : Difficulty[g.nbits] * (b - b) = 0
        BY <2>2, DifficultyType
      <4>2. c.chain_work \in Nat
        BY <2>2 DEF CommittedBlockHeader
      <4>3. QED
        BY <4>1, <4>2 DEF InProportion
    <3>2. \A h \in (b - PRUNING_FACTOR + 1)..b : h >= b => h = b
      BY <1>3, <2>2
    <3>3. \A h \in (b - PRUNING_FACTOR + 1)..(b - 1) : ~(h >= b)
      BY <1>3, <2>2
    <3>4. QED
      BY <2>3, <2>5, <3>1, <3>2, <3>3 DEF RingHolds
  <2>7. ForksHold(forks', c, b)
    <3>1. \A f \in ForkIds \X Signers : forks[f] = NoFork
      BY <2>3 DEF RelayInvariant, ForksHaveMainState, LiveForks
    <3>2. QED
      BY <2>3, <3>1 DEF ForksHold
  <2>8. b \in t.start_height..(t.start_height + PRUNING_FACTOR - 1)
    BY <1>3, <2>2, <2>3
  <2>9. QED
    BY <2>6, <2>7, <2>8 DEF RingInvariant
<1>5. ASSUME Initialized, ~Starts PROVE RingInvariant'
  <2>1. PICK c \in Checkpoints,
             top \in main_state.start_height..(main_state.start_height + PRUNING_FACTOR - 1) :
          RingHolds(main_state, c, top) /\ ForksHold(forks, c, top)
    BY <1>5 DEF RingInvariant
  <2>2. /\ c \in CommittedBlockHeader /\ GoodMain(main_state)
        /\ main_state \in MainState
        /\ \A x \in PublishedCommitments : x \in CommittedBlockHeader
    BY <1>5, InvariantParts, PublishedType, RelayAssumption
       DEF GoodAccounts, GoodMain, Initialized
  <2>3. /\ top \in Int /\ c.blockheight \in Nat
        /\ main_state.start_height \in Nat /\ main_state.block_height \in Nat
    BY <1>3, <2>2 DEF MainState, CommittedBlockHeader
  <2>4. SUFFICES
          \E newtop \in main_state'.start_height
                          ..(main_state'.start_height + PRUNING_FACTOR - 1) :
            newtop >= top /\ RingHolds(main_state', c, newtop)
    <3>1. ASSUME NEW newtop \in main_state'.start_height
                          ..(main_state'.start_height + PRUNING_FACTOR - 1),
                 newtop >= top, RingHolds(main_state', c, newtop)
          PROVE  RingInvariant'
      <4>1. newtop \in Int
        OBVIOUS
      <4>2. ForksHold(forks', c, newtop)
        BY <1>1, <1>2, <1>5, <2>1, <2>2, <2>3, <3>1, <4>1, ForksHoldStep
      <4>3. QED
        BY <3>1, <4>2 DEF RingInvariant
    <3>2. QED
      BY <2>4, <3>1
  <2>5. CASE Extends \/ Reorganises
    BY <1>5, <2>1, <2>2, <2>3, <2>5, BuildsOnBase
  <2>6. CASE Adopts
    <3>1. PICK f \in LiveForks, grown \in ForkState :
            /\ GoodFork(grown)
            /\ grown.start_height = forks[f].start_height
            /\ grown.block_commitments[1] = forks[f].block_commitments[1]
            /\ Rewrites(main_state, main_state', grown.start_height,
                        Len(grown.block_commitments), grown.block_commitments)
            /\ main_state'.chain_work > main_state.chain_work
      BY <2>6 DEF Adopts
    <3> DEFINE a == grown.start_height
               commits == grown.block_commitments
               n == Len(commits)
    <3>2. EqualDifficulty /\ MaxForks # 0
      <4>1. f \in ForkIds \X Signers
        BY DEF LiveForks
      <4>2. MaxForks # 0
        BY <4>1 DEF ForkIds
      <4>3. QED
        BY <4>2
    <3>3. /\ a \in c.blockheight..top
          /\ InProportion(c, commits[1])
      <4>1. f \in ForkIds \X Signers /\ forks[f] # NoFork
        BY DEF LiveForks
      <4>2. QED
        BY <2>1, <3>1, <3>2, <4>1 DEF ForksHold
    <3>4. n \in 1..PRUNING_FACTOR
      BY <3>1 DEF GoodFork
    <3> HIDE DEF a, n, commits
    <3>5. a \in Nat /\ n \in Nat
      BY <1>3, <2>3, <3>3, <3>4
    <3>6. a + n > top
      BY <2>1, <2>2, <2>3, <3>1, <3>2, <3>3, <3>5, HeavierIsHigher DEF a, n, commits
    <3>7. a > top - PRUNING_FACTOR
      BY <1>3, <2>3, <3>4, <3>5, <3>6
    <3>8. QED
      BY <2>1, <2>2, <2>3, <3>1, <3>2, <3>3, <3>5, <3>6, <3>7, RewriteKeepsRing
         DEF a, n, commits
  <2>7. CASE KeepsChain
    <3>1. /\ main_state'.start_height = main_state.start_height
          /\ main_state'.block_commitments = main_state.block_commitments
          /\ main_state'.block_height = main_state.block_height
      BY <2>7 DEF KeepsChain, SameChain
    <3>2. \A h : SlotOf(main_state', h) = SlotOf(main_state, h)
      BY <3>1 DEF SlotOf, get_position
    <3>3. RingHolds(main_state', c, top)
      BY <2>1, <3>1, <3>2 DEF RingHolds, HoldsTurn
    <3>4. top >= top
      BY <2>3
    <3>5. QED
      BY <2>1, <3>1, <3>3, <3>4
  <2>8. QED
    BY <1>1, <1>5, <2>5, <2>6, <2>7
<1>6. CASE ~Initialized /\ ~Starts
  <2>1. KeepsChain
    BY <1>1, <1>6 DEF Extends, Reorganises, Adopts
  <2>2. main_state' = main_state
    BY <1>6, <2>1 DEF KeepsChain
  <2>3. QED
    BY <1>6, <2>2 DEF RingInvariant, Initialized
<1>7. QED
  BY <1>4, <1>5, <1>6

\* Without fork accounts, which is how the repository's relayer uses the
\* program, or with blocks of equal difficulty, which is what an adjustment
\* period has, the invariant holds in every reachable state.
LEMMA RingInvariantHolds ==
  ASSUME MaxForks = 0 \/ EqualDifficulty
  PROVE  Spec => [](RelayInvariant /\ RingInvariant)
<1>1. Init => RelayInvariant /\ RingInvariant
  BY InitInvariant DEF Init, RingInvariant, Initialized
<1>2. RelayInvariant /\ RingInvariant /\ [Next]_vars => (RelayInvariant /\ RingInvariant)'
  BY StepInvariant, RingStep
<1>3. QED
  BY <1>1, <1>2, PTL DEF Spec

-----------------------------------------------------------------------------
(* Relays started below PRUNING_FACTOR. *)

\* Every commitment in the ring is at PRUNING_FACTOR or above.
HighSlots(m) ==
  \A s \in Slots : m.block_commitments[s] # NoCommitment =>
    m.block_commitments[s].blockheight >= PRUNING_FACTOR

\* A relay below PRUNING_FACTOR has no forks; one above has nothing, in the ring
\* or at the start of a fork, that could take it below.
EarlyInvariant ==
  Initialized =>
    IF main_state.block_height < PRUNING_FACTOR THEN LiveForks = {}
    ELSE /\ HighSlots(main_state)
         /\ \A f \in LiveForks : forks[f].start_height >= PRUNING_FACTOR

\* What a lookup finds is in a slot, and the lookup did not panic.
LEMMA FoundIsHigh ==
  ASSUME NEW m \in MainState, NEW c \in CommittedBlockHeader,
         ~LookupPanics(m, c.blockheight), c = get_commitment(m, c.blockheight)
  PROVE  /\ ~(m.block_height < PRUNING_FACTOR)
         /\ HighSlots(m) => c.blockheight >= PRUNING_FACTOR
<1>1. /\ c.blockheight \in Nat /\ c.blockheight <= m.block_height
      /\ SlotOf(m, c.blockheight) = c
  BY MainChainBlockInSlot
<1>2. c # NoCommitment
  BY RingAssumption
<1>3. get_position(m, c.blockheight) # PRUNING_FACTOR
  BY <1>2 DEF get_commitment
<1>4. get_position(m, c.blockheight) \in Slots
  BY <1>1, <1>3, PositionType
<1>5. QED
  BY <1>1, <1>2, <1>4 DEF LookupPanics, HighSlots, SlotOf

\* Below PRUNING_FACTOR every instruction fails.
LEMMA EarlyRelayIsStuck ==
  ASSUME RelayInvariant, Initialized, LiveForks = {},
         main_state.block_height < PRUNING_FACTOR, [Next]_vars
  PROVE  UNCHANGED <<main_state, forks>>
<1>1. main_state \in MainState
  BY RelayAssumption DEF RelayInvariant, TypeOK, Initialized
<1>2. ASSUME NEW c \in PublishedCommitments PROVE ~IsMainChainBlock(c)
  <2>1. c \in CommittedBlockHeader
    BY InvariantParts, PublishedType
  <2>2. QED
    BY <1>1, <2>1, FoundIsHigh DEF IsMainChainBlock
<1>3. ASSUME NEW c PROVE ~IsTipCommitment(c)
  BY <1>1 DEF IsTipCommitment, LookupPanics, MainState
<1>4. \A signer \in Signers, fork_id \in ForkIds : forks[fork_id, signer] = NoFork
  BY DEF LiveForks
<1>5. \A c \in Checkpoints : ~Initialize(c)
  BY DEF Initialize
<1>6. \A c \in PublishedCommitments, data \in Batches :
        ~SubmitBlockHeaders(c, data) /\ ~SubmitShortForkHeaders(c, data)
  BY <1>2, <1>3 DEF SubmitBlockHeaders, SubmitShortForkHeaders
<1>7. \A signer \in Signers, fork_id \in ForkIds,
         c \in PublishedCommitments, data \in Batches :
        ~OpenFork(signer, fork_id, c, data) /\ ~ExtendFork(signer, fork_id, c, data)
  BY <1>2, <1>4 DEF OpenFork, ExtendFork
<1>8. \A signer \in Signers, fork_id \in ForkIds : ~CloseForkAccount(signer, fork_id)
  BY <1>4 DEF CloseForkAccount
<1>9. CASE Tick
  BY <1>9 DEF Tick
<1>10. CASE UNCHANGED vars
  BY <1>10 DEF vars
<1>11. QED
  BY <1>5, <1>6, <1>7, <1>8, <1>9, <1>10 DEF Next

\* Storing above a height of PRUNING_FACTOR or more stores nothing below it.
LEMMA RewriteStaysHigh ==
  ASSUME NEW m \in MainState, NEW t, NEW a, NEW n, NEW commits,
         Rewrites(m, t, a, n, commits), a >= PRUNING_FACTOR, HighSlots(m)
  PROVE  t.block_height >= PRUNING_FACTOR /\ HighSlots(t)
<1>1. /\ a \in Nat /\ n \in Nat \ {0} /\ PRUNING_FACTOR \in Nat
      /\ \A i \in 1..n : commits[i].blockheight = a + i
      /\ t.block_height = a + n
  BY RingAssumption DEF Rewrites, LinkedAbove
<1>2. t.block_height >= PRUNING_FACTOR
  BY <1>1
<1>3. \A i \in 1..n : commits[i].blockheight >= PRUNING_FACTOR
  BY <1>1
<1>4. ASSUME NEW s \in Slots, t.block_commitments[s] # NoCommitment
      PROVE  t.block_commitments[s].blockheight >= PRUNING_FACTOR
  <2>1. \/ t.block_commitments[s] = m.block_commitments[s]
        \/ \E i \in 1..n : t.block_commitments[s] = commits[i]
    BY DEF Rewrites
  <2>2. QED
    BY <1>3, <1>4, <2>1 DEF HighSlots
<1>5. QED
  BY <1>2, <1>4 DEF HighSlots

\* A relay at PRUNING_FACTOR or above stays there.
LEMMA HighStep ==
  ASSUME RelayInvariant, Initialized, HighSlots(main_state),
         ~(main_state.block_height < PRUNING_FACTOR),
         \A f \in LiveForks : forks[f].start_height >= PRUNING_FACTOR, [Next]_vars
  PROVE  /\ main_state'.block_height >= PRUNING_FACTOR
         /\ HighSlots(main_state')
         /\ \A f \in LiveForks' : forks'[f].start_height >= PRUNING_FACTOR
<1>1. ForkSteps /\ (Starts \/ Extends \/ Reorganises \/ Adopts \/ KeepsChain)
  BY StepKinds
<1>2. main_state \in MainState /\ main_state.block_height >= PRUNING_FACTOR
  BY RelayAssumption, RingAssumption DEF RelayInvariant, TypeOK, Initialized, MainState
<1>3. ASSUME NEW c \in PublishedCommitments, IsMainChainBlock(c)
      PROVE  c.blockheight >= PRUNING_FACTOR
  <2>1. c \in CommittedBlockHeader
    BY InvariantParts, PublishedType
  <2>2. QED
    BY <1>2, <1>3, <2>1, FoundIsHigh DEF IsMainChainBlock
<1>4. ASSUME NEW f \in LiveForks'
      PROVE  forks'[f].start_height >= PRUNING_FACTOR
  <2>1. f \in ForkIds \X Signers /\ forks'[f] # NoFork
    BY DEF LiveForks
  <2>2. QED
    BY <1>1, <1>3, <2>1 DEF ForkSteps, LiveForks
<1>5. ~Starts
  BY DEF Starts, Initialize
<1>6. CASE Extends \/ Reorganises
  <2>1. PICK c, data, commits :
          /\ c \in PublishedCommitments /\ IsMainChainBlock(c)
          /\ Rewrites(main_state, main_state', c.blockheight, Len(data), commits)
    BY <1>6 DEF Extends, Reorganises
  <2>2. c.blockheight >= PRUNING_FACTOR
    BY <1>3, <2>1
  <2>3. QED
    BY <1>2, <1>4, <2>1, <2>2, RewriteStaysHigh
<1>7. CASE Adopts
  <2>1. PICK f \in LiveForks, grown \in ForkState :
          /\ grown.start_height = forks[f].start_height
          /\ Rewrites(main_state, main_state', grown.start_height,
                      Len(grown.block_commitments), grown.block_commitments)
    BY <1>7 DEF Adopts
  <2>2. QED
    BY <1>2, <1>4, <2>1, RewriteStaysHigh
<1>8. CASE KeepsChain
  <2>1. /\ main_state'.block_height = main_state.block_height
        /\ main_state'.block_commitments = main_state.block_commitments
    BY <1>8 DEF KeepsChain, SameChain
  <2>2. QED
    BY <1>2, <1>4, <2>1 DEF HighSlots
<1>9. QED
  BY <1>1, <1>5, <1>6, <1>7, <1>8

\* initialize decides which of the two it is.
LEMMA StartIsEarlyOrHigh ==
  ASSUME RelayInvariant, Starts
  PROVE  EarlyInvariant'
<1>1. PICK c \in Checkpoints : Initialize(c)
  BY DEF Starts
<1>2. /\ c.blockheight \in Nat /\ PRUNING_FACTOR \in Nat
  BY RelayAssumption, RingAssumption DEF CommittedBlockHeader
<1>3. /\ main_state'.block_height = c.blockheight
      /\ main_state'.block_commitments =
           [s \in Slots |-> IF s = 0 THEN c ELSE NoCommitment]
      /\ forks' = forks /\ ~Initialized
  BY <1>1 DEF Initialize
<1>4. LiveForks' = {}
  BY <1>3 DEF RelayInvariant, ForksHaveMainState, LiveForks
<1>5. ~(main_state'.block_height < PRUNING_FACTOR) => HighSlots(main_state')
  BY <1>2, <1>3 DEF HighSlots
<1>6. QED
  BY <1>4, <1>5 DEF EarlyInvariant

\* One step, from either.
LEMMA EarlyStep ==
  ASSUME RelayInvariant, EarlyInvariant, [Next]_vars
  PROVE  /\ EarlyInvariant'
         /\ Initialized => IF main_state.block_height < PRUNING_FACTOR
                           THEN UNCHANGED main_state
                           ELSE main_state'.block_height >= PRUNING_FACTOR
<1>1. CASE Initialized /\ main_state.block_height < PRUNING_FACTOR
  <2>1. UNCHANGED <<main_state, forks>>
    BY <1>1, EarlyRelayIsStuck DEF EarlyInvariant
  <2>2. EarlyInvariant'
    BY <2>1 DEF EarlyInvariant, LiveForks, Initialized
  <2>3. QED
    BY <1>1, <2>1, <2>2
<1>2. CASE Initialized /\ ~(main_state.block_height < PRUNING_FACTOR)
  <2>1. /\ main_state'.block_height >= PRUNING_FACTOR
        /\ HighSlots(main_state')
        /\ \A f \in LiveForks' : forks'[f].start_height >= PRUNING_FACTOR
    BY <1>2, HighStep DEF EarlyInvariant
  <2>2. Initialized' => main_state' \in MainState
    <3>1. RelayInvariant'
      BY StepInvariant
    <3>2. QED
      BY <3>1 DEF RelayInvariant, TypeOK, Initialized
  <2>3. Initialized' => ~(main_state'.block_height < PRUNING_FACTOR)
    BY <2>1, <2>2, RingAssumption DEF MainState
  <2>4. EarlyInvariant'
    BY <2>1, <2>3 DEF EarlyInvariant
  <2>5. QED
    BY <1>2, <2>1, <2>4
<1>3. CASE ~Initialized
  <2>1. CASE Initialized'
    <3>1. Starts
      <4>1. Starts \/ Extends \/ Reorganises \/ Adopts \/ KeepsChain
        BY StepKinds
      <4>2. QED
        BY <1>3, <2>1, <4>1 DEF Extends, Reorganises, Adopts, KeepsChain, Initialized
    <3>2. QED
      BY <1>3, <3>1, StartIsEarlyOrHigh
  <2>2. QED
    BY <1>3, <2>1 DEF EarlyInvariant
<1>4. QED
  BY <1>1, <1>2, <1>3

\* The invariant holds in every reachable state.
LEMMA EarlyInvariantHolds == Spec => []EarlyInvariant
<1>1. Init => EarlyInvariant
  BY DEF Init, EarlyInvariant, Initialized
<1>2. RelayInvariant /\ EarlyInvariant /\ [Next]_vars => EarlyInvariant'
  BY EarlyStep
<1>3. QED
  BY <1>1, <1>2, InvariantHolds, PTL DEF Spec

\* A relay started below PRUNING_FACTOR is stuck for good, and one started at
\* or above it never gets there, whatever forks are adopted.
THEOREM PanicsDecidedAtStart == Spec => PanicsFromStartOrNever
<1> DEFINE A == Initialized => IF main_state.block_height < PRUNING_FACTOR
                              THEN UNCHANGED main_state
                              ELSE main_state'.block_height >= PRUNING_FACTOR
<1>1. RelayInvariant /\ EarlyInvariant /\ [Next]_vars => [A]_vars
  BY EarlyStep
<1> HIDE DEF A
<1>2. Spec => [][A]_vars
  BY <1>1, InvariantHolds, EarlyInvariantHolds, PTL DEF Spec
<1>3. QED
  BY <1>2 DEF PanicsFromStartOrNever, A

-----------------------------------------------------------------------------
(* What the invariant of the ring implies, property by property. *)

\* What the invariant says of an existing main state.
LEMMA RingParts ==
  ASSUME RelayInvariant, RingInvariant, Initialized
  PROVE  /\ GoodMain(main_state) /\ main_state \in MainState
         /\ \E c \in Checkpoints,
               top \in main_state.start_height
                         ..(main_state.start_height + PRUNING_FACTOR - 1) :
              /\ c \in CommittedBlockHeader /\ c.blockheight \in Nat /\ top \in Int
              /\ RingHolds(main_state, c, top)
              /\ ForksHold(forks, c, top)
<1>1. GoodMain(main_state) /\ main_state \in MainState
  BY InvariantParts DEF GoodAccounts, GoodMain, Initialized
<1>2. \A c \in Checkpoints : c \in CommittedBlockHeader /\ c.blockheight \in Nat
  BY RelayAssumption DEF CommittedBlockHeader
<1>3. PICK c \in Checkpoints,
           top \in main_state.start_height
                     ..(main_state.start_height + PRUNING_FACTOR - 1) :
        RingHolds(main_state, c, top) /\ ForksHold(forks, c, top)
  BY DEF RingInvariant
<1>4. QED
  BY <1>1, <1>2, <1>3

\* The ring buffer never loses a block of the last turn, and no block it should
\* have overwritten passes for one, however often it wrapped, whatever was
\* reorganised, and with batches longer than the ring.
THEOREM RingKeepsTurn ==
  ASSUME MaxForks = 0 \/ EqualDifficulty
  PROVE  Spec => []RingHoldsTurn
<1>1. RelayInvariant /\ RingInvariant => RingHoldsTurn
  BY RingParts DEF RingHoldsTurn, RingHolds, ForksHold, LiveForks
<1>2. QED
  BY <1>1, RingInvariantHolds, PTL

\* Checkpoints high enough for the u32 subtraction in get_commitment.
HighCheckpoints == \A c \in Checkpoints : c.blockheight >= PRUNING_FACTOR

\* get_commitment does not panic from a high checkpoint on.
LEMMA NoPanic ==
  ASSUME HighCheckpoints, NEW m \in MainState, NEW c \in Checkpoints, NEW top \in Int,
         HoldsTurn(m, c, top), NEW h
  PROVE  ~LookupPanics(m, h)
<1>1. /\ c.blockheight >= PRUNING_FACTOR /\ c.blockheight \in Nat
      /\ m.block_height \in Nat /\ PRUNING_FACTOR \in Nat
  BY RelayAssumption, RingAssumption DEF HighCheckpoints, MainState, CommittedBlockHeader
<1>2. m.block_height \in c.blockheight..top
  BY DEF HoldsTurn
<1>3. QED
  BY <1>1, <1>2 DEF LookupPanics

\* The tip is in the slot of its height, so that the next header can build on
\* it: no store of a tip is refused, without fork accounts or with blocks of
\* equal difficulty. With PanicsDecidedAtStart, submit_block_headers never gets
\* stuck in a relay that was not stuck from the start.
THEOREM TipAlwaysStored ==
  ASSUME MaxForks = 0 \/ EqualDifficulty
  PROVE  Spec => []TipIsStored
<1>1. ASSUME RelayInvariant, RingInvariant, Initialized
      PROVE  get_commitment(main_state, main_state.block_height)
               = main_state.tip_commit_hash
  <2>1. PICK c \in Checkpoints,
             top \in main_state.start_height
                       ..(main_state.start_height + PRUNING_FACTOR - 1) :
          /\ c \in CommittedBlockHeader /\ top \in Int
          /\ RingHolds(main_state, c, top)
    BY <1>1, RingParts
  <2>2. GoodMain(main_state) /\ main_state \in MainState
    BY <1>1, RingParts
  <2>3. HoldsTurn(main_state, c, top)
    BY <2>1 DEF RingHolds
  <2>4. /\ InReach(main_state, main_state.block_height)
        /\ SlotOf(main_state, main_state.block_height) = main_state.tip_commit_hash
    BY <2>1, <2>2, <2>3, TipInSlot
  <2>5. /\ main_state.block_height \in Int
        /\ main_state.block_height <= main_state.block_height
        /\ main_state.block_height > main_state.block_height - PRUNING_FACTOR
    BY <2>2, RingAssumption DEF MainState
  <2>6. QED
    BY <2>2, <2>4, <2>5, LookupInReach
<1>2. RelayInvariant /\ RingInvariant => TipIsStored
  BY <1>1 DEF TipIsStored
<1>3. QED
  BY <1>2, RingInvariantHolds, PTL

\* Every height of the last turn, down to the checkpoint, can be verified, when
\* all blocks have the same difficulty: no adoption of a fork, however long it
\* was in the making, makes a hole.
THEOREM WindowAlwaysFull ==
  ASSUME EqualDifficulty, HighCheckpoints
  PROVE  Spec => []WindowIsFull
<1>1. ASSUME RelayInvariant, RingInvariant, Initialized
      PROVE  \E c \in Checkpoints :
               \A h \in (main_state.block_height - PRUNING_FACTOR + 1)
                           ..main_state.block_height :
                 h >= c.blockheight => Retained(main_state, h)
  <2>1. PICK c \in Checkpoints,
             top \in main_state.start_height
                       ..(main_state.start_height + PRUNING_FACTOR - 1) :
          /\ c \in CommittedBlockHeader /\ c.blockheight \in Nat /\ top \in Int
          /\ RingHolds(main_state, c, top)
    BY <1>1, RingParts
  <2>2. main_state \in MainState
    BY <1>1, RingParts
  <2>3. HoldsTurn(main_state, c, top) /\ main_state.block_height = top
    BY <2>1 DEF RingHolds
  <2>4. /\ main_state.start_height \in Nat /\ PRUNING_FACTOR \in Nat \ {0}
    BY <2>2, RingAssumption DEF MainState
  <2>5. ASSUME NEW h \in (top - PRUNING_FACTOR + 1)..top, h >= c.blockheight
        PROVE  Retained(main_state, h)
    <3>1. h \in Int /\ h <= top /\ h > top - PRUNING_FACTOR
      BY <2>1, <2>4
    <3>2. top \in main_state.start_height..(main_state.start_height + PRUNING_FACTOR - 1)
      BY <2>3 DEF HoldsTurn
    <3>3. InReach(main_state, h)
      BY <2>4, <3>1, <3>2 DEF InReach
    <3>4. get_commitment(main_state, h) = SlotOf(main_state, h)
      BY <2>2, <2>3, <3>1, <3>3, LookupInReach
    <3>5. SlotOf(main_state, h) # NoCommitment /\ SlotOf(main_state, h).blockheight = h
      <4>1. ~(h < c.blockheight)
        BY <2>1, <2>5, <3>1
      <4>2. QED
        BY <2>3, <2>5, <4>1 DEF HoldsTurn
    <3>6. ~LookupPanics(main_state, h)
      BY <2>1, <2>2, <2>3, NoPanic
    <3>7. QED
      BY <3>4, <3>5, <3>6 DEF Retained
  <2>6. QED
    BY <2>3, <2>5
<1>2. RelayInvariant /\ RingInvariant => WindowIsFull
  BY <1>1 DEF WindowIsFull
<1>3. QED
  BY <1>2, RingInvariantHolds, PTL

-----------------------------------------------------------------------------
(* The window of verifiable blocks. *)

\* The lowest height of a turn that ends in top, down to the checkpoint.
Lowest(c, top) ==
  IF c.blockheight > top - PRUNING_FACTOR THEN c.blockheight
  ELSE top - PRUNING_FACTOR + 1

\* The heights that can be verified are those of the turn up to the tip, and
\* each lookup finds the slot.
LEMMA RetainedAreTurn ==
  ASSUME NEW m \in MainState, NEW c \in CommittedBlockHeader, NEW top \in Int,
         HoldsTurn(m, c, top), m.block_height >= PRUNING_FACTOR
  PROVE  /\ Lowest(c, top) \in Nat /\ Lowest(c, top) <= m.block_height
         /\ RetainedHeights(m) = Lowest(c, top)..m.block_height
         /\ \A h \in Lowest(c, top)..m.block_height :
              /\ get_commitment(m, h) = SlotOf(m, h)
              /\ h \in (top - PRUNING_FACTOR + 1)..top
              /\ h >= c.blockheight
<1> DEFINE lo == Lowest(c, top)
           b == m.block_height
           s == m.start_height
<1>1. /\ s \in Nat /\ b \in Nat /\ c.blockheight \in Nat
      /\ PRUNING_FACTOR \in Nat \ {0}
  BY RingAssumption DEF MainState, CommittedBlockHeader
<1>2. /\ top \in s..(s + PRUNING_FACTOR - 1)
      /\ b \in c.blockheight..top
      /\ b > top - PRUNING_FACTOR
      /\ \A h \in (top - PRUNING_FACTOR + 1)..top :
           IF h < c.blockheight THEN SlotOf(m, h) = NoCommitment
           ELSE SlotOf(m, h) # NoCommitment /\ SlotOf(m, h).blockheight = h
  BY DEF HoldsTurn
<1>3. /\ lo \in Nat /\ lo <= b
      /\ \A h \in lo..b : /\ h \in (top - PRUNING_FACTOR + 1)..top
                           /\ h >= c.blockheight
  BY <1>1, <1>2 DEF Lowest
<1>4. \A h : ~LookupPanics(m, h)
  BY <1>1 DEF LookupPanics
<1>5. ASSUME NEW h \in lo..b
      PROVE  get_commitment(m, h) = SlotOf(m, h) /\ h \in RetainedHeights(m)
  <2>1. /\ h \in Int /\ h \in (top - PRUNING_FACTOR + 1)..top
        /\ ~(h < c.blockheight) /\ h <= b
    BY <1>1, <1>3
  <2> HIDE DEF lo, b, s
  <2>2. h > b - PRUNING_FACTOR
    BY <1>1, <1>2, <2>1
  <2>3. InReach(m, h)
    BY <1>1, <1>2, <2>1 DEF InReach, s
  <2>4. get_commitment(m, h) = SlotOf(m, h)
    BY <2>1, <2>2, <2>3, LookupInReach DEF b
  <2>5. SlotOf(m, h) # NoCommitment /\ SlotOf(m, h).blockheight = h
    BY <1>2, <2>1
  <2>6. h \in (b - PRUNING_FACTOR + 1)..b
    BY <1>1, <2>1, <2>2
  <2>7. QED
    BY <1>4, <2>4, <2>5, <2>6 DEF RetainedHeights, Retained, b
<1>6. ASSUME NEW h \in RetainedHeights(m) PROVE h \in lo..b
  <2>1. /\ h \in (b - PRUNING_FACTOR + 1)..b
        /\ get_commitment(m, h) # NoCommitment
        /\ get_commitment(m, h).blockheight = h
    BY DEF RetainedHeights, Retained
  <2>2. h \in Nat
    BY <1>1, <2>1
  <2>3. get_commitment(m, h) \in CommittedBlockHeader
    BY <2>1, <2>2, LookupIsSlot
  <2>4. h \in c.blockheight..b /\ h > top - PRUNING_FACTOR
    BY <2>1, <2>3, MainChainBlockInTurn
  <2>5. QED
    BY <1>1, <2>2, <2>4 DEF Lowest
<1>7. RetainedHeights(m) = lo..b
  BY <1>5, <1>6
<1>8. QED
  BY <1>3, <1>5, <1>7

\* Without fork accounts the verifiable blocks are one linked chain, with no gap
\* between the lowest and the tip.
THEOREM WindowStaysOneChain ==
  ASSUME MaxForks = 0
  PROVE  Spec => []WindowIsOneChain
<1>1. ASSUME RelayInvariant, RingInvariant, Initialized,
             NEW h \in RetainedHeights(main_state)
      PROVE  LET c == get_commitment(main_state, h)
             IN  IF h = main_state.block_height THEN c = main_state.tip_commit_hash
                 ELSE /\ Retained(main_state, h + 1)
                      /\ IsChild(c, get_commitment(main_state, h + 1))
  <2> DEFINE m == main_state
             b == m.block_height
  <2>1. PICK c \in Checkpoints, top \in m.start_height..(m.start_height + PRUNING_FACTOR - 1) :
          /\ c \in CommittedBlockHeader /\ c.blockheight \in Nat /\ top \in Int
          /\ RingHolds(m, c, top)
    BY <1>1, RingParts
  <2>2. GoodMain(m) /\ m \in MainState
    BY <1>1, RingParts
  <2>3. HoldsTurn(m, c, top)
    BY <2>1 DEF RingHolds
  <2>4. b \in Nat /\ PRUNING_FACTOR \in Nat \ {0}
    BY <2>2, RingAssumption DEF MainState
  <2>5. b >= PRUNING_FACTOR
    <3>1. h <= b /\ ~LookupPanics(m, h)
      BY <1>1, <2>4 DEF RetainedHeights, Retained
    <3>2. QED
      BY <2>4, <3>1 DEF LookupPanics
  <2> DEFINE lo == Lowest(c, top)
  <2>6. /\ lo \in Nat /\ lo <= b
        /\ RetainedHeights(m) = lo..b
        /\ \A g \in lo..b : /\ get_commitment(m, g) = SlotOf(m, g)
                             /\ g \in (top - PRUNING_FACTOR + 1)..top
                             /\ g >= c.blockheight
    BY <2>1, <2>2, <2>3, <2>5, RetainedAreTurn
  <2> HIDE DEF lo, b
  <2>7. h \in lo..b /\ h \in Int
    BY <1>1, <2>4, <2>6
  <2>8. CASE h = b
    BY <2>1, <2>2, <2>3, <2>6, <2>7, <2>8, TipInSlot DEF b
  <2>9. CASE h # b
    <3>1. h + 1 \in lo..b /\ h \in (top - PRUNING_FACTOR + 1)..(b - 1)
      BY <2>1, <2>4, <2>6, <2>7, <2>9
    <3>2. Retained(m, h + 1)
      BY <2>6, <3>1 DEF RetainedHeights
    <3>3. IsChild(SlotOf(m, h), SlotOf(m, h + 1))
      BY <2>1, <2>6, <2>7, <3>1 DEF RingHolds, b
    <3>4. QED
      BY <2>6, <2>7, <2>9, <3>1, <3>2, <3>3 DEF b
  <2>10. QED
    BY <2>8, <2>9 DEF b
<1>2. RelayInvariant /\ RingInvariant => WindowIsOneChain
  BY <1>1 DEF WindowIsOneChain
<1>3. QED
  BY <1>2, RingInvariantHolds, PTL

-----------------------------------------------------------------------------
(* Adopting a fork. *)

\* A block of the window is in its slot, within the turn, when the window is not
\* empty.
LEMMA RetainedInTurn ==
  ASSUME NEW m \in MainState, NEW c \in CommittedBlockHeader, NEW top \in Int,
         HoldsTurn(m, c, top), NEW h \in Nat, Retained(m, h)
  PROVE  /\ m.block_height >= PRUNING_FACTOR
         /\ h \in Lowest(c, top)..m.block_height
         /\ get_commitment(m, h) = SlotOf(m, h)
         /\ SlotOf(m, h).blockheight = h
<1>1. m.block_height \in Nat /\ PRUNING_FACTOR \in Nat \ {0}
  BY RingAssumption DEF MainState
<1>2. ~LookupPanics(m, h) /\ get_commitment(m, h) # NoCommitment
      /\ get_commitment(m, h).blockheight = h
  BY DEF Retained
<1>3. /\ h <= m.block_height
      /\ h > m.block_height - PRUNING_FACTOR
      /\ get_commitment(m, h) = SlotOf(m, h)
  BY <1>2, LookupInReach
<1>4. m.block_height >= PRUNING_FACTOR
  BY <1>1, <1>2, <1>3 DEF LookupPanics
<1>5. h \in RetainedHeights(m)
  BY <1>1, <1>3 DEF RetainedHeights
<1>6. QED
  BY <1>2, <1>3, <1>4, <1>5, RetainedAreTurn

\* Rewriting the chain above a block of the window that the new blocks are
\* linked to keeps the window one chain.
LEMMA RewriteKeepsOneChain ==
  ASSUME main_state \in MainState, Initialized, WindowIsOneChain,
         NEW c \in CommittedBlockHeader, NEW top \in Int,
         HoldsTurn(main_state, c, top),
         NEW a \in Nat, NEW n, NEW commits, Retained(main_state, a),
         Rewrites(main_state, main_state', a, n, commits),
         IsChild(SlotOf(main_state, a), commits[1])
  PROVE  WindowIsOneChain'
<1> DEFINE m == main_state
           t == main_state'
           newtop == TurnEnd(top, a + n)
           lo == Lowest(c, top)
           newlo == Lowest(c, newtop)
<1>1. /\ m.block_height >= PRUNING_FACTOR
      /\ a \in lo..m.block_height
  BY RetainedInTurn
<1>2. /\ lo \in Nat
      /\ RetainedHeights(m) = lo..m.block_height
      /\ \A h \in lo..m.block_height :
           /\ get_commitment(m, h) = SlotOf(m, h)
           /\ h \in (top - PRUNING_FACTOR + 1)..top
           /\ h >= c.blockheight
  BY <1>1, RetainedAreTurn
<1>3. /\ c.blockheight \in Nat /\ PRUNING_FACTOR \in Nat \ {0}
      /\ m.block_height \in Nat
  BY RingAssumption DEF CommittedBlockHeader, MainState
<1>4. /\ n \in Nat \ {0}
      /\ \A i \in 1..(n - 1) : IsChild(commits[i], commits[i + 1])
      /\ t \in MainState /\ t.block_height = a + n
      /\ t.tip_commit_hash = commits[n]
  BY DEF Rewrites, LinkedAbove
<1>5. a \in c.blockheight..top /\ a > top - PRUNING_FACTOR
  BY <1>1, <1>2, <1>3
<1>6. /\ HoldsTurn(t, c, newtop)
      /\ \A h \in (newtop - PRUNING_FACTOR + 1)..newtop :
           IF h \in (a + 1)..(a + n)
           THEN SlotOf(t, h) = commits[h - a]
           ELSE /\ SlotOf(t, h) = SlotOf(m, h)
                /\ h \in (top - PRUNING_FACTOR + 1)..top
  BY <1>5, RewriteKeepsTurn
<1> SUFFICES ASSUME NEW h \in RetainedHeights(t)
             PROVE  IF h = t.block_height
                    THEN get_commitment(t, h) = t.tip_commit_hash
                    ELSE /\ Retained(t, h + 1)
                         /\ IsChild(get_commitment(t, h), get_commitment(t, h + 1))
  BY DEF WindowIsOneChain
<1>7. newtop \in Int /\ newtop >= top
  BY <1>4 DEF TurnEnd
<1>8. t.block_height >= PRUNING_FACTOR
  <2>1. h <= t.block_height /\ ~LookupPanics(t, h)
    BY <1>3, <1>4 DEF RetainedHeights, Retained
  <2>2. QED
    BY <1>3, <1>4, <2>1 DEF LookupPanics
<1> HIDE DEF newtop
<1>9. /\ newlo \in Nat
      /\ RetainedHeights(t) = newlo..(a + n)
      /\ \A g \in newlo..(a + n) :
           /\ get_commitment(t, g) = SlotOf(t, g)
           /\ g \in (newtop - PRUNING_FACTOR + 1)..newtop
           /\ g >= c.blockheight
  BY <1>4, <1>6, <1>7, <1>8, RetainedAreTurn
<1>10. \A g \in newlo..a :
         /\ g \in lo..m.block_height
         /\ get_commitment(t, g) = SlotOf(m, g)
  <2> TAKE g \in newlo..a
  <2> HIDE DEF lo, newlo, m, t
  <2>1. g \in Nat /\ g \in newlo..(a + n) /\ g \notin (a + 1)..(a + n)
    BY <1>4, <1>9
  <2>2. /\ get_commitment(t, g) = SlotOf(m, g)
        /\ g \in (top - PRUNING_FACTOR + 1)..top
        /\ g >= c.blockheight
    BY <1>6, <1>9, <2>1
  <2>3. g >= lo
    BY <1>3, <2>1, <2>2 DEF lo, Lowest
  <2>4. g <= m.block_height
    BY <1>1, <1>2, <1>3, <2>1
  <2>5. QED
    BY <1>2, <1>3, <2>1, <2>2, <2>3, <2>4
<1>11. \A g \in newlo..(a + n) :
         g \in (a + 1)..(a + n) => get_commitment(t, g) = commits[g - a]
  BY <1>6, <1>9
<1>12. h \in newlo..(a + n) /\ h \in Nat
  BY <1>4, <1>9
<1>13. CASE h = a + n
  <2>1. h \in (a + 1)..(a + n) /\ h - a = n
    BY <1>4, <1>13
  <2>2. QED
    BY <1>4, <1>11, <1>12, <1>13, <2>1
<1>14. CASE h # a + n
  <2>1. /\ h + 1 \in newlo..(a + n)
        /\ Retained(t, h + 1)
    <3>1. h + 1 \in newlo..(a + n)
      BY <1>4, <1>9, <1>12, <1>14
    <3>2. QED
      BY <1>9, <3>1 DEF RetainedHeights
  <2>2. CASE h > a
    <3>1. /\ h \in (a + 1)..(a + n) /\ h + 1 \in (a + 1)..(a + n)
          /\ h - a \in 1..(n - 1) /\ (h + 1) - a = (h - a) + 1
      BY <1>4, <1>12, <1>14, <2>2
    <3>2. IsChild(commits[h - a], commits[(h - a) + 1])
      BY <1>4, <3>1
    <3>3. QED
      BY <1>4, <1>11, <1>12, <1>14, <2>1, <3>1, <3>2
  <2>3. CASE h = a
    <3>1. /\ a \in newlo..a /\ h + 1 \in (a + 1)..(a + n) /\ (h + 1) - a = 1
      BY <1>4, <1>9, <1>12, <2>3
    <3>2. get_commitment(t, h) = SlotOf(m, a) /\ get_commitment(t, h + 1) = commits[1]
      BY <1>10, <1>11, <2>1, <2>3, <3>1
    <3>3. QED
      BY <1>4, <1>14, <2>1, <3>2
  <2>4. CASE h < a
    <3>1. h \in newlo..a /\ h + 1 \in newlo..a
      BY <1>9, <1>12, <2>4
    <3>2. /\ h \in lo..m.block_height /\ h + 1 \in lo..m.block_height
          /\ get_commitment(t, h) = get_commitment(m, h)
          /\ get_commitment(t, h + 1) = get_commitment(m, h + 1)
      BY <1>2, <1>10, <3>1
    <3>3. h # m.block_height
      BY <1>2, <1>3, <1>12, <3>2
    <3>4. IsChild(get_commitment(m, h), get_commitment(m, h + 1))
      <4>1. h \in RetainedHeights(m)
        BY <1>2, <3>2
      <4>2. QED
        BY <3>3, <4>1 DEF WindowIsOneChain
    <3>5. QED
      BY <1>4, <1>14, <2>1, <3>2, <3>4
  <2>5. QED
    BY <1>12, <2>2, <2>3, <2>4
<1>15. QED
  BY <1>13, <1>14

\* With equal difficulty, a block that the first block of a fork is linked to
\* is its parent in every respect.
LEMMA BaseIsParent ==
  ASSUME EqualDifficulty,
         NEW c \in CommittedBlockHeader, NEW x \in CommittedBlockHeader,
         NEW y \in CommittedBlockHeader, InProportion(c, x), InProportion(c, y),
         y.blockheight = x.blockheight + 1,
         y.header.reversed_prev_blockhash = x.header.hash
  PROVE  IsChild(x, y)
<1> DEFINE D == Difficulty[y.header.nbits]
           k == x.blockheight - c.blockheight
<1>1. y.header \in Headers /\ D \in Nat
  BY DifficultyType DEF CommittedBlockHeader
<1>2. /\ x.blockheight \in Nat /\ c.blockheight \in Nat
      /\ x.chain_work \in Nat /\ y.chain_work \in Nat /\ c.chain_work \in Nat
  BY DEF CommittedBlockHeader
<1>3. k \in Int /\ y.blockheight - c.blockheight = k + 1
  BY <1>2
<1>4. x.chain_work = c.chain_work + D * k /\ y.chain_work = c.chain_work + D * (k + 1)
  BY <1>1, <1>3 DEF InProportion
<1> HIDE DEF D, k
<1>5. D * (k + 1) = D * k + D /\ D * k \in Int
  BY <1>1, <1>3
<1>6. y.chain_work = x.chain_work + D
  BY <1>1, <1>2, <1>4, <1>5
<1>7. QED
  BY <1>6 DEF IsChild, D

\* What AdoptedForkIsLinked says of a step.
LEMMA AdoptionStep ==
  ASSUME EqualDifficulty, RelayInvariant, RingInvariant, [Next]_vars,
         NEW f \in LiveForks,
         main_state'.chain_work > main_state.chain_work,
         forks'[f] = NoFork,
         Retained(main_state, forks[f].start_height),
         get_commitment(main_state, forks[f].start_height).header.hash
           = forks[f].block_commitments[1].header.reversed_prev_blockhash,
         WindowIsOneChain
  PROVE  WindowIsOneChain'
<1> DEFINE start == forks[f].start_height
           first == forks[f].block_commitments[1]
           m == main_state
<1>1. /\ f \in ForkIds \X Signers /\ forks[f] # NoFork
      /\ Initialized
  BY DEF LiveForks, RelayInvariant, ForksHaveMainState
<1>2. PICK c \in Checkpoints,
           top \in m.start_height..(m.start_height + PRUNING_FACTOR - 1) :
        /\ c \in CommittedBlockHeader /\ c.blockheight \in Nat /\ top \in Int
        /\ RingHolds(m, c, top) /\ ForksHold(forks, c, top)
  BY <1>1, RingParts
<1>3. /\ m \in MainState /\ GoodMain(m) /\ GoodForks(forks, m)
      /\ \A x \in PublishedCommitments : x \in CommittedBlockHeader
  BY <1>1, InvariantParts, PublishedType DEF GoodAccounts, GoodMain, Initialized
<1>4. HoldsTurn(m, c, top)
  BY <1>2 DEF RingHolds
<1>5. ASSUME Extends \/ Reorganises PROVE WindowIsOneChain'
  <2>1. PICK x, data, commits :
          /\ x \in PublishedCommitments
          /\ IsMainChainBlock(x)
          /\ IsChild(x, commits[1])
          /\ Rewrites(m, main_state', x.blockheight, Len(data), commits)
    BY <1>5 DEF Extends, Reorganises
  <2>2. x \in CommittedBlockHeader /\ x # NoCommitment /\ x.blockheight \in Nat
    BY <1>3, <2>1, RingAssumption DEF CommittedBlockHeader
  <2>3. Retained(m, x.blockheight)
    BY <2>1, <2>2 DEF IsMainChainBlock, Retained
  <2>4. SlotOf(m, x.blockheight) = x
    BY <1>2, <1>3, <2>1, <2>2, BaseInRing
  <2>5. QED
    BY <1>1, <1>2, <1>3, <1>4, <2>1, <2>2, <2>3, <2>4, RewriteKeepsOneChain
<1>6. ASSUME Adopts PROVE WindowIsOneChain'
  <2>1. PICK g \in LiveForks, grown \in ForkState :
          /\ grown.start_height = forks[g].start_height
          /\ grown.block_commitments[1] = forks[g].block_commitments[1]
          /\ Rewrites(m, main_state', grown.start_height,
                      Len(grown.block_commitments), grown.block_commitments)
          /\ forks' = [forks EXCEPT ![g] = NoFork]
    BY <1>6 DEF Adopts
  <2>2. g = f
    BY <1>1, <1>3, <2>1 DEF GoodForks
  <2>3. /\ GoodFork(forks[f])
        /\ EqualDifficulty => InProportion(c, first)
    BY <1>1, <1>2, <1>3 DEF GoodForks, ForksHold
  <2>4. /\ start \in Nat /\ first \in CommittedBlockHeader
        /\ first.blockheight = start + 1
    <3>1. LinkedAbove(start, Len(forks[f].block_commitments), forks[f].block_commitments)
      BY <2>3, BufferIsLinked
    <3>2. QED
      BY <3>1 DEF LinkedAbove
  <2> DEFINE base == SlotOf(m, start)
  <2>5. /\ m.block_height >= PRUNING_FACTOR
        /\ start \in Lowest(c, top)..m.block_height
        /\ get_commitment(m, start) = base
        /\ base.blockheight = start
    BY <1>2, <1>3, <1>4, <2>4, RetainedInTurn
  <2>6. base \in CommittedBlockHeader
    BY <1>3, <2>4, <2>5, LookupIsSlot DEF Retained
  <2>7. start \in (top - PRUNING_FACTOR + 1)..top /\ start >= c.blockheight
    BY <1>2, <1>3, <1>4, <2>5, RetainedAreTurn
  <2>8. InProportion(c, base)
    BY <1>2, <2>7 DEF RingHolds
  <2>9. IsChild(base, first)
    BY <1>2, <2>3, <2>4, <2>5, <2>6, <2>8, BaseIsParent
  <2>10. QED
    BY <1>1, <1>2, <1>3, <1>4, <2>1, <2>2, <2>4, <2>9, RewriteKeepsOneChain
<1>7. ~KeepsChain
  <2>1. m.chain_work \in Nat
    BY <1>3 DEF MainState
  <2>2. QED
    BY <2>1 DEF KeepsChain, SameChain
<1>8. ~Starts
  BY <1>1 DEF Starts, Initialize
<1>9. QED
  BY <1>5, <1>6, <1>7, <1>8, StepKinds

\* With equal difficulty, a fork whose base is still a block of the main chain
\* when it is adopted leaves one chain, whatever happened while it was in the
\* making: with WindowIsOneChain broken only by a base that is gone.
THEOREM AdoptionLinks ==
  ASSUME EqualDifficulty
  PROVE  Spec => AdoptedForkIsLinked
<1> DEFINE A == \A f \in LiveForks :
                  LET start == forks[f].start_height
                      buffer == forks[f].block_commitments
                  IN  /\ main_state'.chain_work > main_state.chain_work
                      /\ forks'[f] = NoFork
                      /\ Retained(main_state, start)
                      /\ get_commitment(main_state, start).header.hash
                           = buffer[1].header.reversed_prev_blockhash
                      /\ WindowIsOneChain
                      => WindowIsOneChain'
<1>1. RelayInvariant /\ RingInvariant /\ [Next]_vars => A
  BY AdoptionStep
<1> HIDE DEF A
<1>2. Spec => [][A]_vars
  BY <1>1, RingInvariantHolds, PTL DEF Spec
<1>3. QED
  BY <1>2 DEF AdoptedForkIsLinked, A

-----------------------------------------------------------------------------
(* The refinement of BoundedChain. *)

\* The window as a function of the main state's value.
WindowOf(m) ==
  LET heights == RetainedHeights(m)
      lowest == m.block_height + 1 - Cardinality(heights)
  IN  [i \in 1..Cardinality(heights) |-> get_commitment(m, lowest + i - 1)]

LEMMA WindowIsWindowOf ==
  /\ Window = IF main_state = NoMainState THEN <<>> ELSE WindowOf(main_state)
  /\ Window' = IF main_state' = NoMainState THEN <<>> ELSE WindowOf(main_state')
BY DEF Window, WindowOf, Initialized

\* The window is the slots of the turn, from its lowest height to the tip's.
LEMMA WindowIsTurn ==
  ASSUME NEW m \in MainState, NEW c \in CommittedBlockHeader, NEW top \in Int,
         HoldsTurn(m, c, top), m.block_height >= PRUNING_FACTOR
  PROVE  LET lo == Lowest(c, top)
             n == m.block_height - lo + 1
         IN  /\ lo \in Nat /\ n \in Nat \ {0} /\ lo <= m.block_height
             /\ Len(WindowOf(m)) = n
             /\ \A i \in 1..n : WindowOf(m)[i] = SlotOf(m, lo + i - 1)
<1> DEFINE lo == Lowest(c, top)
           b == m.block_height
           n == b - lo + 1
<1>1. /\ lo \in Nat /\ lo <= b /\ b \in Nat
      /\ RetainedHeights(m) = lo..b
      /\ \A h \in lo..b : get_commitment(m, h) = SlotOf(m, h)
  BY RetainedAreTurn DEF MainState
<1> HIDE DEF lo, b
<1>2. Cardinality(lo..b) = n
  BY <1>1, FS_Interval
<1>3. n \in Nat \ {0} /\ b + 1 - n = lo
  BY <1>1
<1> HIDE DEF n
<1>4. WindowOf(m) = [i \in 1..n |-> get_commitment(m, lo + i - 1)]
  BY <1>1, <1>2, <1>3 DEF WindowOf, b
<1>5. Len(WindowOf(m)) = n
  BY <1>3, <1>4
<1>6. ASSUME NEW i \in 1..n PROVE WindowOf(m)[i] = SlotOf(m, lo + i - 1)
  <2>1. lo + i - 1 \in lo..b
    BY <1>1, <1>3 DEF n
  <2>2. QED
    BY <1>1, <1>4, <2>1
<1>7. QED
  BY <1>1, <1>3, <1>5, <1>6 DEF lo, b, n

\* A transaction has at most 1232 bytes, so that a batch never has as many
\* headers as the ring has slots.
ShortBatches == \A data \in Batches : Len(data) <= PRUNING_FACTOR

\* initialize starts the chain, unless the relay can look up nothing.
LEMMA StartsChain ==
  ASSUME RelayInvariant, Starts
  PROVE  Chain!Start \/ Window' = Window
<1>1. PICK c \in Checkpoints : Initialize(c)
  BY DEF Starts
<1> DEFINE t == main_state'
           b == c.blockheight
<1>2. /\ c \in CommittedBlockHeader /\ b \in Nat
      /\ PRUNING_FACTOR \in Nat \ {0}
  BY RelayAssumption, RingAssumption DEF CommittedBlockHeader
<1>3. /\ main_state = NoMainState
      /\ t.start_height = b /\ t.block_height = b
      /\ t.block_commitments = [s \in Slots |-> IF s = 0 THEN c ELSE NoCommitment]
  BY <1>1 DEF Initialize, Initialized
<1>4. t \in MainState /\ t # NoMainState
  BY <1>1, InitializeInvariant, RelayAssumption
<1>5. Window = <<>> /\ Window' = WindowOf(t)
  BY <1>3, <1>4, WindowIsWindowOf
<1> HIDE DEF t
<1>6. HoldsTurn(t, c, b)
  BY <1>2, <1>3, <1>4, StartHoldsTurn
<1>7. Lowest(c, b) = b
  BY <1>2 DEF Lowest
<1>8. CASE b >= PRUNING_FACTOR
  <2>1. Len(WindowOf(t)) = t.block_height - Lowest(c, b) + 1
    BY <1>2, <1>3, <1>4, <1>6, <1>8, WindowIsTurn
  <2>2. Len(WindowOf(t)) = 1
    BY <1>2, <1>3, <1>7, <2>1
  <2>3. QED
    BY <1>5, <2>2 DEF Chain!Start
<1>9. CASE b < PRUNING_FACTOR
  <2>1. ASSUME NEW h \in (t.block_height - PRUNING_FACTOR + 1)..t.block_height
        PROVE  LookupPanics(t, h)
    BY <1>2, <1>3, <1>9, <2>1 DEF LookupPanics
  <2>2. RetainedHeights(t) = {}
    BY <2>1 DEF RetainedHeights, Retained
  <2>3. Cardinality(RetainedHeights(t)) = 0
    BY <2>2, FS_EmptySet
  <2>4. WindowOf(t) = <<>>
    BY <2>3 DEF WindowOf
  <2>5. QED
    BY <1>5, <2>4
<1>10. QED
  BY <1>2, <1>8, <1>9

\* The heights of the turn before and after, in the terms of BoundedChain.
LEMMA RewriteArithmetic ==
  ASSUME NEW c \in CommittedBlockHeader, NEW top \in Int,
         NEW a \in Nat, NEW b \in Nat, NEW n \in Nat \ {0}, n <= PRUNING_FACTOR,
         c.blockheight <= a, a <= b, b <= top, a > top - PRUNING_FACTOR
  PROVE  LET lo == Lowest(c, top)
             newtop == TurnEnd(top, a + n)
             newlo == Lowest(c, newtop)
             kept == a - lo + 1
             pruned == IF kept + n > PRUNING_FACTOR
                       THEN kept + n - PRUNING_FACTOR ELSE 0
         IN  /\ kept \in 1..(b - lo + 1)
             /\ a = b => kept = b - lo + 1
             /\ pruned \in 0..kept
             /\ newlo = lo + pruned
             /\ a + n - newlo + 1 = kept + n - pruned
             /\ newlo > newtop - PRUNING_FACTOR
             /\ newlo >= c.blockheight
             /\ newtop >= a + n
             /\ lo \in Int /\ newlo \in Int /\ newtop \in Int
<1> DEFINE first == c.blockheight
           P == PRUNING_FACTOR
           lo == Lowest(c, top)
           newtop == TurnEnd(top, a + n)
           newlo == Lowest(c, newtop)
           kept == a - lo + 1
           pruned == IF kept + n > P THEN kept + n - P ELSE 0
<1>1. first \in Nat /\ P \in Nat \ {0}
  BY RingAssumption DEF CommittedBlockHeader
<1>2. /\ lo = IF first > top - P THEN first ELSE top - P + 1
      /\ newtop = IF a + n > top THEN a + n ELSE top
      /\ newlo = IF first > newtop - P THEN first ELSE newtop - P + 1
  BY DEF Lowest, TurnEnd
<1>3. first <= a /\ a > top - P /\ n <= P
  OBVIOUS
<1> HIDE DEF first, P, lo, newtop, newlo
<1>4. lo \in Int /\ newtop \in Int
  BY <1>1, <1>2
<1>5. newlo \in Int /\ kept \in Int
  BY <1>1, <1>2, <1>4
<1>6. kept \in 1..(b - lo + 1) /\ (a = b => kept = b - lo + 1)
  BY <1>1, <1>2, <1>3, <1>4
<1>7. pruned \in 0..kept
  BY <1>1, <1>3, <1>5, <1>6
<1>8. newlo = lo + pruned
  BY <1>1, <1>2, <1>3, <1>4, <1>5
<1>9. a + n - newlo + 1 = kept + n - pruned
  BY <1>1, <1>4, <1>5, <1>7, <1>8
<1>10. newlo > newtop - P /\ newlo >= first /\ newtop >= a + n
  BY <1>1, <1>2, <1>4
<1>11. QED
  BY <1>4, <1>5, <1>6, <1>7, <1>8, <1>9, <1>10 DEF first, P, lo, newtop, newlo

\* Storing a chain above block x of the main chain is a rewrite of the bounded
\* chain above that block: it keeps the blocks up to x, adds the new ones, and
\* prunes what a turn has no room for.
LEMMA RewritesChain ==
  ASSUME NEW m \in MainState, NEW t \in MainState,
         NEW c \in CommittedBlockHeader, NEW top \in Int,
         HoldsTurn(m, c, top), m.block_height >= PRUNING_FACTOR,
         NEW x \in CommittedBlockHeader, NEW n, NEW commits, n <= PRUNING_FACTOR,
         x.blockheight \in c.blockheight..top,
         x.blockheight <= m.block_height,
         x.blockheight > top - PRUNING_FACTOR,
         SlotOf(m, x.blockheight) = x,
         IsChild(x, commits[1]),
         Rewrites(m, t, x.blockheight, n, commits),
         MaxForks = 0, RingHolds(t, c, TurnEnd(top, x.blockheight + n)),
         t.block_height >= PRUNING_FACTOR,
         Window = WindowOf(m), Window' = WindowOf(t)
  PROVE  LET kept == x.blockheight - Lowest(c, top) + 1
         IN  /\ kept \in 1..Len(Window)
             /\ x.blockheight = m.block_height => kept = Len(Window)
             /\ n \in 1..PRUNING_FACTOR
             /\ Chain!Rewrite(kept, n)
<1> DEFINE a == x.blockheight
           lo == Lowest(c, top)
           newtop == TurnEnd(top, a + n)
           newlo == Lowest(c, newtop)
           kept == a - lo + 1
           pruned == IF kept + n > PRUNING_FACTOR THEN kept + n - PRUNING_FACTOR ELSE 0
           b == m.block_height
<1>1. /\ n \in Nat \ {0} /\ a \in Nat
      /\ t.block_height = a + n
  BY DEF Rewrites, LinkedAbove
<1>2. /\ lo \in Nat /\ lo <= b /\ b \in Nat
      /\ Len(Window) = b - lo + 1
      /\ \A i \in 1..(b - lo + 1) : Window[i] = SlotOf(m, lo + i - 1)
  <2>1. b \in Nat
    BY DEF MainState
  <2>2. /\ lo \in Nat /\ lo <= b
        /\ Len(WindowOf(m)) = b - lo + 1
        /\ \A i \in 1..(b - lo + 1) : WindowOf(m)[i] = SlotOf(m, lo + i - 1)
    BY WindowIsTurn
  <2>3. QED
    BY <2>1, <2>2
<1>3. newtop \in Int /\ HoldsTurn(t, c, newtop)
  BY <1>1 DEF TurnEnd, RingHolds
<1>4. PRUNING_FACTOR \in Nat \ {0} /\ c.blockheight \in Nat
  BY RingAssumption DEF CommittedBlockHeader
<1>5. \A h \in (newtop - PRUNING_FACTOR + 1)..newtop :
        IF h \in (a + 1)..(a + n)
        THEN SlotOf(t, h) = commits[h - a]
        ELSE SlotOf(t, h) = SlotOf(m, h)
  <2> HIDE DEF a, newtop
  <2>1. a \in c.blockheight..top /\ a > top - PRUNING_FACTOR
        /\ Rewrites(m, t, a, n, commits)
    BY DEF a
  <2>2. QED
    BY <1>1, <2>1, RewriteKeepsTurn DEF newtop
<1>6. \A h \in (newtop - PRUNING_FACTOR + 1)..(a + n - 1) :
        h >= c.blockheight => IsChild(SlotOf(t, h), SlotOf(t, h + 1))
  BY <1>1 DEF RingHolds
<1>7. /\ a >= c.blockheight /\ a <= b /\ a > top - PRUNING_FACTOR
      /\ b <= top /\ n <= PRUNING_FACTOR
      /\ IsChild(x, commits[1]) /\ SlotOf(m, a) = x
  BY <1>4 DEF HoldsTurn
<1> HIDE DEF a, b
<1>8. /\ kept \in 1..(b - lo + 1)
      /\ a = b => kept = b - lo + 1
      /\ pruned \in 0..kept
      /\ newlo = lo + pruned
      /\ a + n - newlo + 1 = kept + n - pruned
      /\ newlo > newtop - PRUNING_FACTOR
      /\ newlo >= c.blockheight
      /\ newtop >= a + n
      /\ lo \in Int /\ newlo \in Int /\ newtop \in Int
  BY <1>1, <1>2, <1>4, <1>7, RewriteArithmetic
<1>9. kept = a - lo + 1 /\ kept \in Int /\ pruned \in Int
  BY <1>1, <1>8
<1>10. pruned = IF kept + n > PRUNING_FACTOR THEN kept + n - PRUNING_FACTOR ELSE 0
  OBVIOUS
<1> HIDE DEF lo, newtop, newlo, kept, pruned
<1>11. /\ Len(Window') = a + n - newlo + 1
       /\ \A i \in 1..(a + n - newlo + 1) : Window'[i] = SlotOf(t, newlo + i - 1)
  BY <1>1, <1>3, WindowIsTurn, SMTT(30) DEF newlo
<1>12. Len(Window') = kept + n - pruned
  BY <1>8, <1>11
<1>13. Chain!IsChain(Window')
  <2>1. SUFFICES ASSUME NEW i \in 1..(Len(Window') - 1)
                 PROVE  IsChild(Window'[i], Window'[i + 1])
    BY DEF Chain!IsChain
  <2>2. /\ i \in 1..(a + n - newlo + 1) /\ i + 1 \in 1..(a + n - newlo + 1)
        /\ newlo + (i + 1) - 1 = (newlo + i - 1) + 1
        /\ newlo + i - 1 \in (newtop - PRUNING_FACTOR + 1)..(a + n - 1)
        /\ newlo + i - 1 >= c.blockheight
    BY <1>1, <1>4, <1>8, <1>11, <2>1
  <2>3. QED
    BY <1>6, <1>11, <2>2
<1>14. ASSUME NEW i \in 1..(kept - pruned)
       PROVE  Window'[i] = Window[i + pruned]
  <2>1. /\ i \in 1..(a + n - newlo + 1)
        /\ i + pruned \in 1..(b - lo + 1)
        /\ lo + (i + pruned) - 1 = newlo + i - 1
        /\ newlo + i - 1 <= a
        /\ newlo + i - 1 \in (newtop - PRUNING_FACTOR + 1)..newtop
    BY <1>1, <1>2, <1>4, <1>7, <1>8, <1>9, <1>14
  <2>2. newlo + i - 1 \notin (a + 1)..(a + n)
    BY <1>1, <1>8, <2>1
  <2>3. QED
    BY <1>2, <1>5, <1>11, <2>1, <2>2
<1>15. ASSUME pruned = kept PROVE IsChild(Window[kept], Window'[1])
  <2>0. newlo = a + 1
    BY <1>1, <1>8, <1>9, <1>15
  <2>1. /\ kept \in 1..(b - lo + 1) /\ lo + kept - 1 = a
        /\ 1 \in 1..(a + n - newlo + 1) /\ newlo + 1 - 1 = a + 1
        /\ a + 1 \in (newtop - PRUNING_FACTOR + 1)..newtop
        /\ a + 1 \in (a + 1)..(a + n) /\ (a + 1) - a = 1
    <3>1. /\ a \in Nat /\ n \in Nat \ {0} /\ lo \in Int /\ newtop \in Int
          /\ PRUNING_FACTOR \in Nat /\ newlo = a + 1
      BY <1>1, <1>4, <1>8, <2>0
    <3>2. kept \in 1..(b - lo + 1) /\ lo + kept - 1 = a
      BY <1>8, <1>9, <3>1
    <3>3. a + 1 > newtop - PRUNING_FACTOR /\ newtop >= a + n
      BY <1>8, <2>0
    <3>4. a + 1 \in (newtop - PRUNING_FACTOR + 1)..newtop
      BY <3>1, <3>3
    <3>5. /\ 1 \in 1..(a + n - newlo + 1) /\ newlo + 1 - 1 = a + 1
          /\ a + 1 \in (a + 1)..(a + n) /\ (a + 1) - a = 1
      BY <3>1
    <3>6. QED
      BY <3>2, <3>4, <3>5
  <2>2. Window[kept] = SlotOf(m, a)
    BY <1>2, <2>1
  <2>3. Window'[1] = SlotOf(t, a + 1)
    BY <1>11, <2>1
  <2>4. SlotOf(t, a + 1) = commits[1]
    BY <1>5, <2>1
  <2>5. QED
    BY <1>7, <2>2, <2>3, <2>4
<1>16. Chain!Rewrite(kept, n)
  BY <1>10, <1>12, <1>13, <1>14, <1>15 DEF Chain!Rewrite
<1>17. n \in 1..PRUNING_FACTOR /\ kept \in 1..Len(Window)
       /\ (a = b => kept = Len(Window))
  BY <1>1, <1>2, <1>4, <1>7, <1>8, SMTT(30)
<1>18. QED
  BY <1>16, <1>17 DEF a, lo, b, kept

\* The last block of the window is the tip.
LEMMA WindowEndsInTip ==
  ASSUME NEW m, GoodMain(m), NEW c \in CommittedBlockHeader, NEW top \in Int,
         HoldsTurn(m, c, top), m.block_height >= PRUNING_FACTOR
  PROVE  /\ Len(WindowOf(m)) \in Nat \ {0}
         /\ WindowOf(m)[Len(WindowOf(m))].chain_work = m.chain_work
<1> DEFINE lo == Lowest(c, top)
           n == m.block_height - lo + 1
<1>1. m \in MainState /\ TipFields(m)
  BY DEF GoodMain
<1>2. /\ lo \in Nat /\ n \in Nat \ {0}
      /\ Len(WindowOf(m)) = n
      /\ \A i \in 1..n : WindowOf(m)[i] = SlotOf(m, lo + i - 1)
  BY <1>1, WindowIsTurn
<1>3. m.block_height \in Nat
  BY <1>1 DEF MainState
<1>4. lo + n - 1 = m.block_height /\ n \in 1..n
  BY <1>2, <1>3
<1> HIDE DEF lo, n
<1>5. WindowOf(m)[n] = SlotOf(m, m.block_height)
  BY <1>2, <1>4
<1>6. QED
  BY <1>1, <1>2, <1>5, TipInSlot DEF TipFields

\* Every step of the relay is a step of the bounded chain, or leaves it.
LEMMA ChainStep ==
  ASSUME MaxForks = 0, ShortBatches,
         RelayInvariant, RingInvariant, EarlyInvariant, [Next]_vars
  PROVE  Chain!ChainNext \/ Window' = Window
<1>1. Starts \/ Extends \/ Reorganises \/ Adopts \/ KeepsChain
  BY StepKinds
<1>2. CASE Starts
  BY <1>2, StartsChain DEF Chain!ChainNext
<1>3. ~Adopts
  BY DEF Adopts, LiveForks, ForkIds
<1>4. CASE KeepsChain
  <2>1. CASE main_state' = main_state
    BY <2>1, WindowIsWindowOf
  <2>2. CASE Initialized /\ main_state' \in MainState /\ SameChain(main_state, main_state')
    <3>1. main_state # NoMainState /\ main_state' # NoMainState
      BY <2>2, RelayAssumption DEF Initialized
    <3>2. WindowOf(main_state') = WindowOf(main_state)
      <4>1. /\ main_state'.block_height = main_state.block_height
            /\ \A h : /\ LookupPanics(main_state', h) <=> LookupPanics(main_state, h)
                     /\ get_commitment(main_state', h) = get_commitment(main_state, h)
        BY <2>2 DEF SameChain, LookupPanics, get_commitment, get_position
      <4>2. RetainedHeights(main_state') = RetainedHeights(main_state)
        BY <4>1 DEF RetainedHeights, Retained
      <4>3. QED
        BY <4>1, <4>2 DEF WindowOf
    <3>3. QED
      BY <3>1, <3>2, WindowIsWindowOf
  <2>3. QED
    BY <1>4, <2>1, <2>2 DEF KeepsChain
<1>5. CASE Extends \/ Reorganises
  <2> DEFINE m == main_state
             t == main_state'
  <2>1. Initialized
    BY <1>5 DEF Extends, Reorganises
  <2>2. GoodMain(m) /\ m \in MainState
    BY <2>1, RingParts
  <2>3. PICK c \in Checkpoints, top \in m.start_height..(m.start_height + PRUNING_FACTOR - 1) :
          /\ c \in CommittedBlockHeader /\ c.blockheight \in Nat /\ top \in Int
          /\ RingHolds(m, c, top)
    BY <2>1, RingParts
  <2>4. PICK x, data, commits :
          LET newtop == TurnEnd(top, x.blockheight + Len(data))
          IN  /\ x \in CommittedBlockHeader /\ data \in Batches
              /\ x.blockheight \in c.blockheight..top
              /\ x.blockheight <= m.block_height
              /\ x.blockheight > top - PRUNING_FACTOR
              /\ SlotOf(m, x.blockheight) = x
              /\ IsChild(x, commits[1])
              /\ Rewrites(m, t, x.blockheight, Len(data), commits)
              /\ \/ Extends /\ x.blockheight = m.block_height
                 \/ t.chain_work > m.chain_work
              /\ newtop \in t.start_height..(t.start_height + PRUNING_FACTOR - 1)
              /\ newtop >= top
              /\ RingHolds(t, c, newtop)
    BY <1>5, <2>1, <2>3, BuildsOnBase
  <2> DEFINE n == Len(data)
             newtop == TurnEnd(top, x.blockheight + n)
             kept == x.blockheight - Lowest(c, top) + 1
  <2>5. n <= PRUNING_FACTOR
    BY <2>4 DEF ShortBatches
  <2>6. t \in MainState /\ GoodMain(t)
    <3>1. (now \in Nat /\ GoodAccounts(main_state, forks))'
      <4>1. RelayInvariant'
        BY StepInvariant
      <4>2. RelayInvariant' <=> (now \in Nat /\ GoodAccounts(main_state, forks))'
        BY InvariantParts, PTL
      <4>3. QED
        BY <4>1, <4>2
    <3>2. t \in MainState
      BY <2>4 DEF Rewrites
    <3>3. QED
      BY <3>1, <3>2, RelayAssumption DEF GoodAccounts
  <2>7. Window = WindowOf(m) /\ Window' = WindowOf(t)
    BY <2>1, <2>6, WindowIsWindowOf, RelayAssumption DEF Initialized
  <2> HIDE DEF n, newtop, kept
  <2>8. newtop \in Int /\ HoldsTurn(m, c, top) /\ HoldsTurn(t, c, newtop)
    <3>1. HoldsTurn(m, c, top) /\ HoldsTurn(t, c, newtop)
      BY <2>3, <2>4 DEF RingHolds, newtop, n
    <3>2. t.start_height \in Nat /\ PRUNING_FACTOR \in Nat
      BY <2>6, RingAssumption DEF MainState
    <3>3. QED
      BY <3>1, <3>2 DEF HoldsTurn
  <2>9. m.block_height >= PRUNING_FACTOR /\ t.block_height >= PRUNING_FACTOR
    <3>1. ~(m.block_height < PRUNING_FACTOR)
      <4>1. PICK y \in PublishedCommitments : IsMainChainBlock(y)
        BY <1>5 DEF Extends, Reorganises
      <4>2. y \in CommittedBlockHeader
        BY InvariantParts, PublishedType
      <4>3. QED
        BY <2>2, <4>1, <4>2, FoundIsHigh DEF IsMainChainBlock
    <3>2. t.block_height >= PRUNING_FACTOR
      BY <2>1, <3>1, EarlyStep
    <3>3. QED
      BY <2>2, <3>1, <3>2, RingAssumption DEF MainState
  <2>10. /\ kept \in 1..Len(Window)
         /\ x.blockheight = m.block_height => kept = Len(Window)
         /\ n \in 1..PRUNING_FACTOR
         /\ Chain!Rewrite(kept, n)
    <3>1. /\ Rewrites(m, t, x.blockheight, n, commits)
          /\ RingHolds(t, c, TurnEnd(top, x.blockheight + n))
      BY <2>4 DEF n
    <3> HIDE DEF m, t
    <3>2. QED
      BY <2>2, <2>3, <2>4, <2>5, <2>6, <2>7, <2>8, <2>9, <3>1, RewritesChain DEF kept
  <2>11. /\ Len(Window) \in Nat \ {0}
         /\ Window[Len(Window)].chain_work = m.chain_work
         /\ Window'[Len(Window')].chain_work = t.chain_work
    <3> HIDE DEF m, t
    <3>1. QED
      BY <2>2, <2>3, <2>6, <2>7, <2>8, <2>9, WindowEndsInTip
  <2>12. CASE x.blockheight = m.block_height
    <3>1. Window # <<>>
      BY <2>11
    <3>2. Chain!Extend
      BY <2>10, <2>12, <3>1 DEF Chain!Extend
    <3>3. QED
      BY <3>2 DEF Chain!ChainNext
  <2>13. CASE t.chain_work > m.chain_work
    <3>1. WorkOf(Chain!Tip(Window')) > WorkOf(Chain!Tip(Window))
      BY <2>11, <2>13 DEF WorkOf, Chain!Tip
    <3>2. Chain!Reorganize
      BY <2>10, <3>1 DEF Chain!Reorganize
    <3>3. QED
      BY <3>2 DEF Chain!ChainNext
  <2>14. QED
    BY <2>4, <2>12, <2>13
<1>6. QED
  BY <1>1, <1>2, <1>3, <1>4, <1>5

\* Without fork accounts the program's blocks that can be verified are a bounded
\* chain: each instruction, with all the stores, wraps and prunings of the ring
\* it makes, is one step of BoundedChain or none.
THEOREM RelayImplementsBoundedChain ==
  ASSUME MaxForks = 0, ShortBatches
  PROVE  Spec => ImplementsBoundedChain
<1>1. Init => Chain!ChainInit
  BY WindowIsWindowOf DEF Init, Chain!ChainInit
<1>2. RelayInvariant /\ RingInvariant /\ EarlyInvariant /\ [Next]_vars =>
        [Chain!ChainNext]_Window
  BY ChainStep
<1>3. Spec => [](RelayInvariant /\ RingInvariant)
  BY RingInvariantHolds
<1>4. Spec => []EarlyInvariant
  BY EarlyInvariantHolds
<1>5. QED
  BY <1>1, <1>2, <1>3, <1>4, PTL DEF Spec, ImplementsBoundedChain, Chain!ChainSpec

=============================================================================

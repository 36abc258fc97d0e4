------------------------ MODULE ConsensusRules_proofs ------------------------
(***************************************************************************)
(* Proofs that the program, which knows of a chain what a committed header *)
(* carries along, accepts what Bitcoin's rules say of the whole chain.     *)
(***************************************************************************)
EXTENDS ConsensusRules, BtcRelay_proofs, FiniteSetTheorems

-----------------------------------------------------------------------------
(* What is true of the checkpoint, and of every child of a committed header *)
(* it is true of, is true of everything the program holds. The predicate is *)
(* given as a set T.                                                        *)

\* Whatever verify_header accepts on top of a member of T is a member.
Inherited(T, time) ==
  \A c \in T, h \in Headers :
    /\ h.reversed_prev_blockhash = c.header.hash
    /\ HeaderVerifies(c, h, time)
    => CommittedChild(c, h) \in T

RingIn(m, T) == \A s \in Slots : m.block_commitments[s] \in T \cup {NoCommitment}

BufferIn(buffer, T) == \A i \in 1..Len(buffer) : buffer[i] \in T

HeldIn(m, fs, T) ==
  /\ RingIn(m, T)
  /\ \A f \in ForkIds \X Signers : fs[f] # NoFork => BufferIn(fs[f].block_commitments, T)

\* The committed headers held, by the values of the accounts.
HeldCommitmentsAre ==
  \A T : HeldCommitments \subseteq T <=> (Initialized => HeldIn(main_state, forks, T))

\* Buffers are sequences, of which HeldCommitments takes the domain.
LEMMA HeldByAccounts == RelayInvariant => HeldCommitmentsAre
<1> SUFFICES ASSUME RelayInvariant, NEW T
             PROVE  HeldCommitments \subseteq T
                      <=> (Initialized => HeldIn(main_state, forks, T))
  BY DEF HeldCommitmentsAre
<1>1. CASE ~Initialized
  BY <1>1 DEF HeldCommitments
<1>2. CASE Initialized
  <2>1. GoodForks(forks, main_state)
    BY <1>2, InvariantParts DEF GoodAccounts, Initialized
  <2>2. \A f \in LiveForks : DOMAIN forks[f].block_commitments
                               = 1..Len(forks[f].block_commitments)
    <3> TAKE f \in LiveForks
    <3>1. forks[f].block_commitments \in Seq(CommittedBlockHeader)
      BY <2>1 DEF GoodForks, GoodFork, ForkState, LiveForks
    <3>2. QED
      BY <3>1
  <2>3. HeldCommitments =
          ({main_state.block_commitments[s] : s \in Slots} \ {NoCommitment})
            \cup UNION {{forks[f].block_commitments[i] :
                           i \in 1..Len(forks[f].block_commitments)} : f \in LiveForks}
    BY <1>2, <2>2 DEF HeldCommitments
  <2>4. HeldCommitments \subseteq T => HeldIn(main_state, forks, T)
    BY <2>3 DEF HeldIn, RingIn, BufferIn, LiveForks
  <2>5. HeldIn(main_state, forks, T) => HeldCommitments \subseteq T
    BY <2>3 DEF HeldIn, RingIn, BufferIn, LiveForks
  <2>6. QED
    BY <1>2, <2>4, <2>5
<1>3. QED
  BY <1>1, <1>2

\* The headers of a call that verifies.
LEMMA VerifiedStayIn ==
  ASSUME NEW T, T \subseteq CommittedBlockHeader, Inherited(T, now),
         NEW c \in T, NEW data \in Seq(Headers), HeadersVerify(c, data, now)
  PROVE  \A i \in 0..Len(data) : CommittedHeaders(c, data)[i] \in T
<1> DEFINE commits == CommittedHeaders(c, data)
           n == Len(data)
           S == {k \in Nat : k <= n => commits[k] \in T}
<1>1. /\ commits[0] = c
      /\ \A i \in 1..n : commits[i] = CommittedChild(commits[i - 1], data[i])
  BY CommittedHeadersType
<1>2. \A i \in 1..n : /\ data[i] \in Headers
                       /\ data[i].reversed_prev_blockhash = commits[i - 1].header.hash
                       /\ HeaderVerifies(commits[i - 1], data[i], now)
  BY DEF HeadersVerify
<1>3. n \in Nat
  OBVIOUS
<1> HIDE DEF commits, n
<1>4. 0 \in S
  BY <1>1
<1>5. ASSUME NEW k \in Nat, k \in S PROVE k + 1 \in S
  <2>1. SUFFICES ASSUME k + 1 <= n PROVE commits[k + 1] \in T
    OBVIOUS
  <2>2. k <= n /\ k + 1 \in 1..n /\ (k + 1) - 1 = k
    BY <1>3, <2>1
  <2>3. commits[k] \in T
    BY <1>5, <2>2
  <2>4. CommittedChild(commits[k], data[k + 1]) \in T
    BY <1>2, <2>2, <2>3 DEF Inherited
  <2>5. QED
    BY <1>1, <2>2, <2>4
<1> HIDE DEF S
<1>6. Nat \subseteq S
  BY <1>4, <1>5, SetInductionOnNat
<1>7. QED
  BY <1>3, <1>6 DEF S, commits, n

\* The loop of stores puts nothing else into the ring.
LEMMA StoresStayIn ==
  ASSUME NEW T, T \subseteq CommittedBlockHeader, NEW m \in MainState, RingIn(m, T),
         NEW height \in Nat, NEW n \in Nat \ {0}, NEW commits,
         \A i \in 1..n : commits[i] \in T,
         NEW tip, NEW tip_height
  PROVE  RingIn(WithTip(StoreAbove(m, height, n, commits), tip, tip_height), T)
<1> DEFINE s == StoreAbove(m, height, n, commits)
<1>1. \A p \in Slots : \/ s.block_commitments[p] = m.block_commitments[p]
                       \/ \E i \in 1..n : s.block_commitments[p] = commits[i]
  BY StoreAboveType
<1>2. s \in MainState
  BY StoreAboveType
<1> HIDE DEF s
<1>3. WithTip(s, tip, tip_height).block_commitments = s.block_commitments
  BY <1>2 DEF WithTip, MainState
<1>4. QED
  BY <1>1, <1>3 DEF RingIn, s

\* The common part of submit_fork_headers puts nothing else into the buffer.
LEMMA GrowForkStaysIn ==
  ASSUME NEW T, T \subseteq CommittedBlockHeader, Inherited(T, now),
         NEW m \in MainState, HeldIn(m, forks, T),
         forks \in [ForkIds \X Signers -> ForkState \cup {NoFork}],
         NEW f \in ForkIds \X Signers,
         NEW fork, NEW c \in T, EndsIn(fork, c), BufferIn(fork.block_commitments, T),
         NEW data \in Seq(Headers), data # <<>>, HeadersVerify(c, data, now),
         GrowFork(m, f, fork, c, data)
  PROVE  HeldIn(main_state', forks', T)
<1> DEFINE commits == CommittedHeaders(c, data)
           n == Len(data)
           tip == commits[n]
           new == NewCommitments(c, data)
           grown == GrownFork(fork, tip, new)
           old == fork.block_commitments
           buffer == grown.block_commitments
<1>1. /\ n \in Nat \ {0}
      /\ \A i \in 0..n : commits[i] \in T
  <2>1. n \in Nat \ {0}
    BY EmptySeq
  <2>2. QED
    BY <2>1, VerifiedStayIn
<1>2. \A i \in 1..n : commits[i] \in T /\ commits[i] \in CommittedBlockHeader
  BY <1>1
<1>3. /\ Len(buffer) <= PRUNING_FACTOR
      /\ IF tip.chain_work > m.chain_work
         THEN /\ main_state' = WithTip(StoreFork(m, grown), tip, c.blockheight + n)
              /\ forks' = [forks EXCEPT ![f] = NoFork]
         ELSE /\ main_state' = m
              /\ forks' = [forks EXCEPT ![f] = grown]
  BY DEF GrowFork, Outweighs
<1>4. old \in Seq(CommittedBlockHeader) /\ Len(old) \in Nat
  BY DEF EndsIn
<1>5. Len(buffer) = Len(old) + n
  <2>1. new \in Seq(CommittedBlockHeader) /\ Len(new) = n
    BY <1>1, <1>2 DEF NewCommitments
  <2> HIDE DEF commits, new
  <2>2. Len(old \o new) = Len(old) + Len(new)
    BY <1>4, <2>1, ConcatProperties, Zenon
  <2>3. QED
    BY <2>1, <2>2 DEF GrownFork
<1>6. /\ GoodFork(grown)
      /\ \A i \in 1..(Len(old) + n) :
           \/ i \in 1..Len(old) /\ buffer[i] = old[i]
           \/ \E j \in 1..n : buffer[i] = commits[j]
  <2>1. Len(old) + n <= PRUNING_FACTOR
    BY <1>3, <1>5
  <2>2. ForkGrowth(fork, c, data)
    BY <2>1, ForkGrows
  <2>3. QED
    BY <2>2 DEF ForkGrowth
<1> HIDE DEF commits, n, new, grown
<1>7. BufferIn(buffer, T)
  BY <1>2, <1>5, <1>6 DEF BufferIn
<1>8. CASE tip.chain_work > m.chain_work
  <2>1. /\ grown.start_height \in Nat /\ Len(buffer) \in Nat \ {0}
        /\ \A i \in 1..Len(buffer) : buffer[i] \in T
    BY <1>1, <1>4, <1>5, <1>6, <1>7 DEF GoodFork, ForkState, BufferIn
  <2>2. RingIn(main_state', T)
    <3> DEFINE a == grown.start_height
               l == Len(buffer)
    <3>1. main_state' = WithTip(StoreAbove(m, a, l, buffer), tip, c.blockheight + n)
      BY <1>3, <1>8 DEF StoreFork
    <3>2. RingIn(m, T)
      BY DEF HeldIn
    <3> HIDE DEF a, l, buffer, tip
    <3>3. QED
      BY <2>1, <3>1, <3>2, StoresStayIn DEF a, l
  <2>3. \A g \in ForkIds \X Signers :
          forks'[g] # NoFork => forks'[g] = forks[g]
    BY <1>3, <1>8
  <2>4. QED
    BY <2>2, <2>3 DEF HeldIn
<1>9. CASE ~(tip.chain_work > m.chain_work)
  <2>1. \A g \in ForkIds \X Signers : forks'[g] = IF g = f THEN grown ELSE forks[g]
    BY <1>3, <1>9
  <2>2. QED
    BY <1>3, <1>7, <1>9, <2>1 DEF HeldIn
<1>10. QED
  BY <1>8, <1>9

\* Every step.
LEMMA HeldStayIn ==
  ASSUME RelayInvariant, RelayInvariant', [Next]_vars,
         NEW T, T \subseteq CommittedBlockHeader, Checkpoints \subseteq T,
         Inherited(T, now), HeldCommitments \subseteq T
  PROVE  HeldCommitments' \subseteq T
<1>1. Initialized => HeldIn(main_state, forks, T)
  BY HeldByAccounts DEF HeldCommitmentsAre
<1>2. SUFFICES Initialized' => HeldIn(main_state', forks', T)
  <2>1. (RelayInvariant => HeldCommitmentsAre)'
    BY HeldByAccounts, PTL
  <2>2. HeldCommitments' \subseteq T <=> (Initialized' => HeldIn(main_state', forks', T))
    BY <2>1 DEF HeldCommitmentsAre
  <2>3. QED
    BY <1>2, <2>2
<1>3. ASSUME Initialized
      PROVE  /\ GoodMain(main_state) /\ main_state \in MainState
             /\ GoodForks(forks, main_state)
             /\ forks \in [ForkIds \X Signers -> ForkState \cup {NoFork}]
  BY <1>3, InvariantParts DEF GoodAccounts, GoodMain, GoodForks, Initialized
<1>4. ASSUME NEW c \in PublishedCommitments PROVE Initialized /\ c \in T
  <2>1. Initialized
    BY <1>4 DEF PublishedCommitments
  <2>2. CASE c \in {main_state.block_commitments[s] : s \in Slots} \ {NoCommitment}
    BY <1>1, <2>1, <2>2 DEF HeldIn, RingIn
  <2>3. ASSUME NEW f \in LiveForks, c = forks[f].tip_commit_hash PROVE c \in T
    <3>1. GoodFork(forks[f])
      BY <1>3, <2>1 DEF GoodForks, LiveForks
    <3>2. /\ Len(forks[f].block_commitments) \in 1..Len(forks[f].block_commitments)
          /\ forks[f].block_commitments[Len(forks[f].block_commitments)] = c
      BY <2>3, <3>1 DEF GoodFork
    <3>3. QED
      BY <1>1, <2>1, <3>2 DEF HeldIn, BufferIn, LiveForks
  <2>4. QED
    BY <1>4, <2>1, <2>2, <2>3 DEF PublishedCommitments
<1>5. ASSUME NEW c \in T, NEW data \in Batches, data # <<>>, HeadersVerify(c, data, now),
             Initialized, NEW height \in Nat,
             NEW tip, NEW tip_height
      PROVE  RingIn(WithTip(StoreAbove(main_state, height, Len(data),
                                       CommittedHeaders(c, data)), tip, tip_height), T)
  <2>1. data \in Seq(Headers)
    BY RelayAssumption
  <2>2. Len(data) \in Nat \ {0}
    BY <1>5, <2>1, EmptySeq
  <2>3. \A i \in 1..Len(data) : CommittedHeaders(c, data)[i] \in T
    BY <1>5, <2>1, <2>2, VerifiedStayIn
  <2>4. QED
    BY <1>1, <1>3, <1>5, <2>2, <2>3, StoresStayIn DEF HeldIn
<1>6. ASSUME NEW c \in Checkpoints, Initialize(c)
      PROVE  HeldIn(main_state', forks', T)
  <2>1. \A s \in Slots : main_state'.block_commitments[s] \in {c, NoCommitment}
    BY <1>6 DEF Initialize
  <2>2. \A f \in ForkIds \X Signers : forks'[f] = NoFork
    BY <1>6 DEF Initialize, RelayInvariant, ForksHaveMainState, LiveForks
  <2>3. QED
    BY <2>1, <2>2 DEF HeldIn, RingIn
<1>7. ASSUME NEW c \in PublishedCommitments, NEW data \in Batches,
             SubmitBlockHeaders(c, data)
      PROVE  HeldIn(main_state', forks', T)
  <2>1. /\ Initialized /\ data # <<>> /\ HeadersVerify(c, data, now) /\ c \in T
        /\ main_state.block_height \in Nat
    BY <1>3, <1>4, <1>7 DEF SubmitBlockHeaders, MainState
  <2>2. main_state' = WithTip(StoreAbove(main_state, main_state.block_height, Len(data),
                                         CommittedHeaders(c, data)),
                              CommittedHeaders(c, data)[Len(data)],
                              main_state.block_height + Len(data))
    BY <1>7 DEF SubmitBlockHeaders
  <2>3. RingIn(main_state', T)
    BY <1>5, <2>1, <2>2
  <2>4. QED
    BY <1>1, <1>7, <2>1, <2>3 DEF HeldIn, SubmitBlockHeaders
<1>8. ASSUME NEW c \in PublishedCommitments, NEW data \in Batches,
             SubmitShortForkHeaders(c, data)
      PROVE  HeldIn(main_state', forks', T)
  <2> DEFINE t == WithTip(StoreAbove(main_state, c.blockheight, Len(data),
                                     CommittedHeaders(c, data)),
                          CommittedHeaders(c, data)[Len(data)],
                          c.blockheight + Len(data))
  <2>1. /\ Initialized /\ data # <<>> /\ HeadersVerify(c, data, now) /\ c \in T
        /\ c.blockheight \in Nat
    BY <1>4, <1>8 DEF SubmitShortForkHeaders, CommittedBlockHeader
  <2>2. main_state' = [t EXCEPT !.fork_counter = @ + 1] /\ forks' = forks
    BY <1>8 DEF SubmitShortForkHeaders
  <2>3. RingIn(t, T)
    BY <1>5, <2>1
  <2>4. t.block_commitments = main_state'.block_commitments
    <3>1. StoreAbove(main_state, c.blockheight, Len(data), CommittedHeaders(c, data))
            \in MainState
      <4>1. data \in Seq(Headers) /\ c \in CommittedBlockHeader
        BY <2>1, RelayAssumption
      <4>2. /\ Len(data) \in Nat
            /\ \A i \in 1..Len(data) : CommittedHeaders(c, data)[i] \in CommittedBlockHeader
        BY <4>1, CommittedHeadersType
      <4>3. QED
        BY <1>3, <2>1, <4>2, StoreAboveType
    <3>2. QED
      BY <2>2, <3>1 DEF WithTip, MainState
  <2> HIDE DEF t
  <2>5. QED
    BY <1>1, <2>1, <2>2, <2>3, <2>4 DEF HeldIn, RingIn
<1>9. ASSUME NEW signer \in Signers, NEW fork_id \in ForkIds,
             NEW c \in PublishedCommitments, NEW data \in Batches,
             OpenFork(signer, fork_id, c, data)
      PROVE  HeldIn(main_state', forks', T)
  <2> DEFINE m == [main_state EXCEPT !.fork_counter = fork_id + 1]
             fork == [start_height |-> c.blockheight, block_commitments |-> <<>>]
  <2>1. /\ Initialized /\ data # <<>> /\ HeadersVerify(c, data, now) /\ c \in T
        /\ GrowFork(m, <<fork_id, signer>>, fork, c, data)
        /\ <<fork_id, signer>> \in ForkIds \X Signers
        /\ data \in Seq(Headers) /\ c \in CommittedBlockHeader
    BY <1>4, <1>9, RelayAssumption DEF OpenFork
  <2>2. fork_id + 1 \in Nat
    BY RelayAssumption DEF ForkIds
  <2>3. m \in MainState /\ m.block_commitments = main_state.block_commitments
    BY <1>3, <2>1, <2>2 DEF MainState
  <2>4. HeldIn(m, forks, T)
    <3> HIDE DEF m
    <3>1. QED
      BY <1>1, <2>1, <2>3 DEF HeldIn, RingIn
  <2>5. EndsIn(fork, c) /\ BufferIn(fork.block_commitments, T)
    BY <2>1 DEF EndsIn, BufferIn, CommittedBlockHeader
  <2> HIDE DEF m, fork
  <2>6. QED
    BY <1>3, <2>1, <2>3, <2>4, <2>5, GrowForkStaysIn
<1>10. ASSUME NEW signer \in Signers, NEW fork_id \in ForkIds,
              NEW c \in PublishedCommitments, NEW data \in Batches,
              ExtendFork(signer, fork_id, c, data)
       PROVE  HeldIn(main_state', forks', T)
  <2> DEFINE f == <<fork_id, signer>>
  <2>1. /\ Initialized /\ data # <<>> /\ HeadersVerify(c, data, now) /\ c \in T
        /\ GrowFork(main_state, f, forks[f], c, data)
        /\ f \in ForkIds \X Signers /\ forks[f] # NoFork
        /\ c = forks[f].tip_commit_hash
        /\ data \in Seq(Headers)
    BY <1>4, <1>10, RelayAssumption DEF ExtendFork
  <2> HIDE DEF f
  <2>2. GoodFork(forks[f])
    BY <1>3, <2>1 DEF GoodForks
  <2>3. EndsIn(forks[f], c)
    BY <2>1, <2>2 DEF EndsIn, GoodFork, ForkState
  <2>4. BufferIn(forks[f].block_commitments, T)
    BY <1>1, <2>1 DEF HeldIn
  <2>5. QED
    BY <1>1, <1>3, <2>1, <2>3, <2>4, GrowForkStaysIn
<1>11. ASSUME NEW signer \in Signers, NEW fork_id \in ForkIds, Initialized,
              CloseForkAccount(signer, fork_id)
       PROVE  HeldIn(main_state', forks', T)
  <2>1. \A f \in ForkIds \X Signers : forks'[f] # NoFork => forks'[f] = forks[f]
    BY <1>3, <1>11 DEF CloseForkAccount
  <2>2. QED
    BY <1>1, <1>11, <2>1 DEF HeldIn, CloseForkAccount
<1>12. ASSUME Initialized, Tick \/ UNCHANGED vars
       PROVE  HeldIn(main_state', forks', T)
  BY <1>1, <1>12 DEF Tick, vars
<1>13. CASE Initialized'
  <2>1. Initialized \/ \E c \in Checkpoints : Initialize(c)
    BY <1>13 DEF Next, Initialized, SubmitBlockHeaders, SubmitShortForkHeaders, OpenFork,
                 ExtendFork, CloseForkAccount, Tick, vars
  <2>2. QED
    BY <1>6, <1>7, <1>8, <1>9, <1>10, <1>11, <1>12, <2>1 DEF Next
<1>14. QED
  BY <1>13

-----------------------------------------------------------------------------
(* The chain behind a header. *)

\* The recursion of Ancestor has a solution for every number of steps.
LEMMA AncestorsExist ==
  ASSUME NEW h, NEW k \in Nat
  PROVE  \E g : g = [i \in 0..k |-> IF i = 0 THEN h ELSE Parent(g[i - 1])]
<1> DEFINE Solves(g, n) == g = [i \in 0..n |-> IF i = 0 THEN h ELSE Parent(g[i - 1])]
           T == {n \in Nat : \E g : Solves(g, n)}
<1>1. 0 \in T
  <2>1. Solves([i \in 0..0 |-> h], 0)
    OBVIOUS
  <2>2. QED
    BY <2>1
<1>2. ASSUME NEW n \in Nat, n \in T PROVE n + 1 \in T
  <2>1. PICK g : Solves(g, n)
    BY <1>2
  <2> DEFINE f == [i \in 0..(n + 1) |-> IF i = n + 1 THEN Parent(g[n]) ELSE g[i]]
  <2>2. \A i \in 0..(n + 1) : f[i] = IF i = 0 THEN h ELSE Parent(f[i - 1])
    <3> TAKE i \in 0..(n + 1)
    <3>1. CASE i = 0
      BY <2>1, <3>1
    <3>2. CASE i = n + 1
      BY <3>2
    <3>3. CASE i \in 1..n
      <4>1. i \in 0..n /\ i - 1 \in 0..n /\ i # 0 /\ i # n + 1 /\ i - 1 # n + 1
        BY <3>3
      <4>2. g[i] = Parent(g[i - 1])
        BY <2>1, <4>1
      <4>3. f[i] = g[i] /\ f[i - 1] = g[i - 1]
        BY <4>1
      <4>4. QED
        BY <4>1, <4>2, <4>3
    <3>4. QED
      BY <3>1, <3>2, <3>3
  <2>3. Solves(f, n + 1)
    BY <2>2
  <2> HIDE DEF f
  <2>4. QED
    BY <2>3
<1>3. k \in T
  <2> HIDE DEF T
  <2>1. QED
    BY <1>1, <1>2, SetInductionOnNat
<1>4. QED
  BY <1>3

\* Ancestor steps from parent to parent.
LEMMA AncestorDef ==
  ASSUME NEW h, NEW k \in Nat
  PROVE  /\ Ancestor(h, 0) = h
         /\ Ancestor(h, k + 1) = Parent(Ancestor(h, k))
<1> DEFINE Solves(g, n) == g = [i \in 0..n |-> IF i = 0 THEN h ELSE Parent(g[i - 1])]
           Solution(n) == CHOOSE g : Solves(g, n)
<1>1. \A n \in Nat : Solves(Solution(n), n)
  <2> TAKE n \in Nat
  <2>1. \E g : Solves(g, n)
    BY AncestorsExist, ZenonT(30)
  <2>2. QED
    BY <2>1
<1>2. \A n \in Nat : Ancestor(h, n) = Solution(n)[n]
  BY DEF Ancestor
<1> HIDE DEF Solution
<1> DEFINE T == {i \in Nat : i <= k => Solution(k + 1)[i] = Solution(k)[i]}
<1>3. Solution(k)[0] = h /\ Solution(k + 1)[0] = h /\ Solution(0)[0] = h
  <2>1. \A n \in Nat : Solution(n)[0] = h
    <3> TAKE n \in Nat
    <3>1. 0 \in 0..n
      OBVIOUS
    <3>2. QED
      BY <1>1, <3>1
  <2>2. QED
    BY <2>1
<1>4. ASSUME NEW n \in Nat, NEW i \in 0..n, i + 1 <= n
      PROVE  Solution(n)[i + 1] = Parent(Solution(n)[i])
  <2>1. i + 1 \in 0..n /\ i + 1 # 0 /\ (i + 1) - 1 = i
    BY <1>4
  <2>2. QED
    BY <1>1, <2>1
<1>5. 0 \in T
  BY <1>3
<1>6. ASSUME NEW i \in Nat, i \in T PROVE i + 1 \in T
  <2>1. SUFFICES ASSUME i + 1 <= k PROVE Solution(k + 1)[i + 1] = Solution(k)[i + 1]
    OBVIOUS
  <2>2. i \in 0..k /\ i \in 0..(k + 1) /\ i + 1 <= k + 1 /\ i <= k
    BY <2>1
  <2>3. /\ Solution(k)[i + 1] = Parent(Solution(k)[i])
        /\ Solution(k + 1)[i + 1] = Parent(Solution(k + 1)[i])
    BY <1>4, <2>1, <2>2
  <2>4. QED
    BY <1>6, <2>2, <2>3
<1>7. Solution(k + 1)[k] = Solution(k)[k]
  <2> HIDE DEF T
  <2>1. Nat \subseteq T
    BY <1>5, <1>6, SetInductionOnNat
  <2>2. QED
    BY <2>1 DEF T
<1>8. Solution(k + 1)[k + 1] = Parent(Solution(k + 1)[k])
  <2>1. k \in 0..(k + 1) /\ k + 1 <= k + 1 /\ k + 1 \in Nat
    OBVIOUS
  <2>2. QED
    BY <1>4, <2>1
<1>9. QED
  BY <1>2, <1>3, <1>7, <1>8

\* A header's ancestors are its parent's, one step later.
LEMMA AncestorOfParent ==
  ASSUME NEW h, NEW k \in Nat
  PROVE  Ancestor(h, k + 1) = Ancestor(Parent(h), k)
<1> DEFINE T == {i \in Nat : Ancestor(h, i + 1) = Ancestor(Parent(h), i)}
<1>1. 0 \in T
  BY AncestorDef
<1>2. ASSUME NEW i \in Nat, i \in T PROVE i + 1 \in T
  <2>1. /\ Ancestor(h, (i + 1) + 1) = Parent(Ancestor(h, i + 1))
        /\ Ancestor(Parent(h), i + 1) = Parent(Ancestor(Parent(h), i))
    BY AncestorDef
  <2>2. QED
    BY <1>2, <2>1
<1> HIDE DEF T
<1>3. Nat \subseteq T
  BY <1>1, <1>2, SetInductionOnNat
<1>4. QED
  BY <1>3 DEF T

\* The parent of a header that is linked to another is that one: hashes
\* identify headers.
LEMMA ParentIsLinked ==
  ASSUME NEW h \in Headers, NEW g \in Headers, h.reversed_prev_blockhash = g.hash
  PROVE  Parent(h) = g
BY HeadersAssumption DEF Parent

\* The chain of a child is its parent's and the child.
LEMMA ChildChain ==
  ASSUME NEW c \in CommittedBlockHeader, NEW h \in Headers,
         h.reversed_prev_blockhash = c.header.hash
  PROVE  LET d == CommittedChild(c, h)
         IN  /\ HeaderAt(d, d.blockheight) = h
             /\ \A height \in Int : height <= c.blockheight =>
                  HeaderAt(d, height) = HeaderAt(c, height)
<1> DEFINE d == CommittedChild(c, h)
           n == c.blockheight
<1>1. d.header = h /\ d.blockheight = n + 1 /\ n \in Nat /\ c.header \in Headers
  BY CommittedChildType DEF CommittedBlockHeader
<1>2. Parent(h) = c.header
  BY <1>1, ParentIsLinked
<1> HIDE DEF d
<1>3. HeaderAt(d, d.blockheight) = h
  <2>1. d.blockheight - d.blockheight = 0
    BY <1>1
  <2>2. QED
    BY <1>1, <2>1, AncestorDef DEF HeaderAt
<1>4. ASSUME NEW height \in Int, height <= n
      PROVE  HeaderAt(d, height) = HeaderAt(c, height)
  <2> DEFINE k == n - height
  <2>1. k \in Nat /\ d.blockheight - height = k + 1
    BY <1>1, <1>4
  <2> HIDE DEF k
  <2>2. Ancestor(h, k + 1) = Ancestor(c.header, k)
    BY <1>2, <2>1, AncestorOfParent
  <2>3. QED
    BY <1>1, <2>1, <2>2 DEF HeaderAt, k
<1>5. QED
  BY <1>3, <1>4 DEF d

-----------------------------------------------------------------------------
(* The work of a chain. *)

\* The recursion of WorkUpTo has a solution for every number of blocks.
LEMMA WorksExist ==
  ASSUME NEW c, NEW k \in Nat, TheCheckpoint.blockheight \in Nat
  PROVE  LET b == TheCheckpoint.blockheight
         IN  \E g : g = [x \in b..(b + k) |->
                           IF x = b THEN TheCheckpoint.chain_work
                           ELSE g[x - 1] + Difficulty[HeaderAt(c, x).nbits]]
<1> DEFINE b == TheCheckpoint.blockheight
           Step(w, x) == w + Difficulty[HeaderAt(c, x).nbits]
           Solves(g, n) == g = [x \in b..(b + n) |-> IF x = b THEN TheCheckpoint.chain_work
                                                     ELSE Step(g[x - 1], x)]
           T == {n \in Nat : \E g : Solves(g, n)}
<1>1. b \in Nat
  OBVIOUS
<1> HIDE DEF b, Step
<1>2. 0 \in T
  <2>1. \A x \in b..(b + 0) : x = b
    BY <1>1
  <2>2. Solves([x \in b..(b + 0) |-> TheCheckpoint.chain_work], 0)
    BY <2>1
  <2>3. QED
    BY <2>2
<1>3. ASSUME NEW n \in Nat, n \in T PROVE n + 1 \in T
  <2>1. PICK g : Solves(g, n)
    BY <1>3
  <2> DEFINE top == b + (n + 1)
             f == [x \in b..top |-> IF x = top THEN Step(g[b + n], top) ELSE g[x]]
  <2>2. \A x \in b..top : f[x] = IF x = b THEN TheCheckpoint.chain_work
                                 ELSE Step(f[x - 1], x)
    <3> TAKE x \in b..top
    <3>1. CASE x = b
      <4>1. x # top /\ x \in b..(b + n)
        BY <1>1, <3>1
      <4>2. g[x] = TheCheckpoint.chain_work
        BY <2>1, <3>1, <4>1
      <4>3. QED
        BY <3>1, <4>1, <4>2
    <3>2. CASE x = top
      <4>1. x # b /\ x - 1 = b + n /\ x - 1 \in b..top /\ x - 1 # top
        BY <1>1, <3>2
      <4>2. f[x] = Step(g[b + n], top) /\ f[x - 1] = g[b + n]
        BY <3>2, <4>1
      <4>3. QED
        BY <3>2, <4>1, <4>2
    <3>3. CASE x # b /\ x # top
      <4>1. /\ x \in b..(b + n) /\ x - 1 \in b..(b + n)
            /\ x - 1 \in b..top /\ x - 1 # top
        BY <1>1, <3>3
      <4>2. g[x] = Step(g[x - 1], x)
        BY <2>1, <3>3, <4>1
      <4>3. f[x] = g[x] /\ f[x - 1] = g[x - 1]
        BY <3>3, <4>1
      <4>4. QED
        BY <3>3, <4>2, <4>3
    <3>4. QED
      BY <3>1, <3>2, <3>3
  <2>3. Solves(f, n + 1)
    BY <2>2
  <2> HIDE DEF f, Solves
  <2>4. QED
    BY <2>3
<1>4. k \in T
  <2> HIDE DEF T
  <2>1. QED
    BY <1>2, <1>3, SetInductionOnNat
<1>5. QED
  BY <1>4 DEF b, Step

\* The work up to a height depends on the blocks up to that height alone, and
\* grows by each block's difficulty.
LEMMA WorkOfBlocks ==
  ASSUME NEW c, NEW d, TheCheckpoint.blockheight \in Nat, NEW k \in Nat,
         \A x \in Int : x <= TheCheckpoint.blockheight + k => HeaderAt(d, x) = HeaderAt(c, x)
  PROVE  LET b == TheCheckpoint.blockheight
         IN  /\ WorkUpTo(c, b) = TheCheckpoint.chain_work
             /\ WorkUpTo(d, b + (k + 1))
                  = WorkUpTo(c, b + k) + Difficulty[HeaderAt(d, b + (k + 1)).nbits]
<1> DEFINE b == TheCheckpoint.blockheight
           Step(e, w, x) == w + Difficulty[HeaderAt(e, x).nbits]
           Solves(g, e, n) ==
             g = [x \in b..(b + n) |-> IF x = b THEN TheCheckpoint.chain_work
                                       ELSE Step(e, g[x - 1], x)]
           Solution(e, n) == CHOOSE g : Solves(g, e, n)
<1>1. b \in Nat
  OBVIOUS
<1>2. \A e : \A n \in Nat : Solves(Solution(e, n), e, n)
  <2> TAKE e
  <2> TAKE n \in Nat
  <2>1. \E g : Solves(g, e, n)
    BY WorksExist, ZenonT(30)
  <2>2. QED
    BY <2>1
<1>3. \A e : \A n \in Nat : WorkUpTo(e, b + n) = Solution(e, n)[b + n]
  BY DEF WorkUpTo
<1> HIDE DEF b, Step, Solution
<1>4. \A e : \A n \in Nat : Solution(e, n)[b] = TheCheckpoint.chain_work
  <2> TAKE e
  <2> TAKE n \in Nat
  <2>1. b \in b..(b + n)
    BY <1>1
  <2>2. QED
    BY <1>2, <2>1
<1>5. ASSUME NEW e, NEW n \in Nat, NEW i \in Nat, i + 1 <= n
      PROVE  Solution(e, n)[b + (i + 1)] = Step(e, Solution(e, n)[b + i], b + (i + 1))
  <2>1. /\ b + (i + 1) \in b..(b + n) /\ b + (i + 1) # b
        /\ (b + (i + 1)) - 1 = b + i
    BY <1>1, <1>5
  <2>2. Solves(Solution(e, n), e, n)
    BY <1>2
  <2>3. QED
    BY <2>1, <2>2
<1> DEFINE T == {i \in Nat : i <= k => Solution(d, k + 1)[b + i] = Solution(c, k)[b + i]}
<1>6. 0 \in T
  <2>1. b + 0 = b /\ k + 1 \in Nat
    BY <1>1
  <2>2. QED
    BY <1>4, <2>1
<1>7. ASSUME NEW i \in Nat, i \in T PROVE i + 1 \in T
  <2>1. SUFFICES ASSUME i + 1 <= k
                 PROVE  Solution(d, k + 1)[b + (i + 1)] = Solution(c, k)[b + (i + 1)]
    OBVIOUS
  <2>2. i <= k /\ i + 1 <= k + 1 /\ k + 1 \in Nat
    BY <2>1
  <2>3. HeaderAt(d, b + (i + 1)) = HeaderAt(c, b + (i + 1))
    BY <1>1, <2>1 DEF b
  <2>4. Solution(d, k + 1)[b + i] = Solution(c, k)[b + i]
    BY <1>7, <2>2
  <2>5. /\ Solution(d, k + 1)[b + (i + 1)] = Step(d, Solution(d, k + 1)[b + i], b + (i + 1))
        /\ Solution(c, k)[b + (i + 1)] = Step(c, Solution(c, k)[b + i], b + (i + 1))
    BY <1>5, <2>1, <2>2
  <2>6. QED
    BY <2>3, <2>4, <2>5 DEF Step
<1>8. Solution(d, k + 1)[b + k] = Solution(c, k)[b + k]
  <2> HIDE DEF T
  <2>1. Nat \subseteq T
    BY <1>6, <1>7, SetInductionOnNat
  <2>2. QED
    BY <2>1 DEF T
<1>9. WorkUpTo(d, b + (k + 1))
        = WorkUpTo(c, b + k) + Difficulty[HeaderAt(d, b + (k + 1)).nbits]
  <2>1. k + 1 \in Nat /\ k + 1 <= k + 1
    OBVIOUS
  <2>2. /\ WorkUpTo(d, b + (k + 1)) = Solution(d, k + 1)[b + (k + 1)]
        /\ WorkUpTo(c, b + k) = Solution(c, k)[b + k]
    BY <1>3, <2>1
  <2>3. Solution(d, k + 1)[b + (k + 1)] = Step(d, Solution(d, k + 1)[b + k], b + (k + 1))
    BY <1>5, <2>1
  <2>4. QED
    BY <1>8, <2>2, <2>3 DEF Step
<1>10. WorkUpTo(c, b) = TheCheckpoint.chain_work
  <2>1. b + 0 = b
    BY <1>1
  <2>2. QED
    BY <1>3, <1>4, <2>1
<1>11. QED
  BY <1>9, <1>10 DEF b

-----------------------------------------------------------------------------
(* What a committed header carries along. *)

\* initialize succeeds once, so that one checkpoint is all there is.
SingleCheckpoint == \A c, d \in Checkpoints : c = d

\* The remainder of the next number is the next remainder, or zero.
LEMMA NextRemainder ==
  ASSUME NEW m \in Nat, NEW k \in Nat \ {0}
  PROVE  /\ m % k \in Nat
         /\ (m + 1) % k = 0 \/ (m + 1) % k = (m % k) + 1
<1> DEFINE q == m \div k
           r == m % k
           p == (m + 1) \div k
           s == (m + 1) % k
<1>1. /\ q \in Int /\ r \in 0..(k - 1) /\ m = k * q + r
      /\ p \in Int /\ s \in 0..(k - 1) /\ m + 1 = k * p + s
  <2>1. ASSUME NEW a \in Nat
        PROVE  /\ a \div k \in Int
               /\ a % k \in 0..(k - 1)
               /\ a = k * (a \div k) + (a % k)
    <3>1. a \div k \in Int
      OBVIOUS
    <3>2. a % k \in 0..(k - 1)
      OBVIOUS
    <3>3. a = k * (a \div k) + (a % k)
      OBVIOUS
    <3>4. QED
      BY <3>1, <3>2, <3>3
  <2>2. m + 1 \in Nat
    OBVIOUS
  <2>3. QED
    BY <2>1, <2>2
<1> HIDE DEF q, r, p, s
<1>2. k * (p - q) = (r + 1) - s
  BY <1>1
<1>3. p - q = 0 \/ p - q = 1
  <2>1. CASE p - q >= 2
    <3>1. k * (p - q) >= 2 * k
      BY <1>1, <2>1
    <3>2. QED
      BY <1>1, <1>2, <3>1
  <2>2. CASE p - q <= -1
    <3>1. k * (p - q) <= -k
      BY <1>1, <2>2
    <3>2. QED
      BY <1>1, <1>2, <3>1
  <2>3. QED
    BY <1>1, <2>1, <2>2
<1>4. CASE p - q = 0
  BY <1>1, <1>2, <1>4 DEF r, s
<1>5. CASE p - q = 1
  <2>1. k = (r + 1) - s
    BY <1>1, <1>2, <1>5
  <2>2. s = 0
    BY <1>1, <2>1
  <2>3. QED
    BY <1>1, <2>2 DEF r, s
<1>6. QED
  BY <1>3, <1>4, <1>5

\* A difficulty period begins every DIFF_ADJUSTMENT_INTERVAL blocks.
LEMMA PeriodStarts ==
  ASSUME NEW n \in Nat
  PROVE  /\ PeriodStart(n) \in Int /\ PeriodStart(n) <= n
         /\ PeriodStart(n + 1) = IF should_diff_adjust(n + 1) THEN n + 1 ELSE PeriodStart(n)
<1>1. DIFF_ADJUSTMENT_INTERVAL \in Nat \ {0}
  BY ParameterAssumption
<1>2. /\ n % DIFF_ADJUSTMENT_INTERVAL \in Nat
      /\ \/ (n + 1) % DIFF_ADJUSTMENT_INTERVAL = 0
         \/ (n + 1) % DIFF_ADJUSTMENT_INTERVAL = (n % DIFF_ADJUSTMENT_INTERVAL) + 1
  BY <1>1, NextRemainder
<1>3. QED
  BY <1>2 DEF PeriodStart, should_diff_adjust

\* What the chain of c says of the heights up to c's, the chain of a child of c
\* says too.
LEMMA ChildTimes ==
  ASSUME NEW c \in CommittedBlockHeader, NEW h \in Headers,
         h.reversed_prev_blockhash = c.header.hash,
         TheCheckpoint.blockheight \in Nat
  PROVE  LET d == CommittedChild(c, h)
         IN  /\ \A height \in Int : height <= c.blockheight =>
                  TimestampAt(d, height) = TimestampAt(c, height)
             /\ \A height \in Nat : height <= c.blockheight =>
                  PeriodStartTime(d, height) = PeriodStartTime(c, height)
<1> DEFINE d == CommittedChild(c, h)
<1>1. \A height \in Int : height <= c.blockheight => HeaderAt(d, height) = HeaderAt(c, height)
  BY ChildChain
<1> HIDE DEF d
<1>2. \A height \in Int : height <= c.blockheight =>
        TimestampAt(d, height) = TimestampAt(c, height)
  BY <1>1 DEF TimestampAt
<1>3. ASSUME NEW height \in Nat, height <= c.blockheight
      PROVE  PeriodStartTime(d, height) = PeriodStartTime(c, height)
  <2>1. PeriodStart(height) \in Int /\ PeriodStart(height) <= c.blockheight
    BY <1>3, PeriodStarts DEF CommittedBlockHeader
  <2>2. QED
    BY <1>2, <2>1 DEF PeriodStartTime
<1>4. QED
  BY <1>2, <1>3 DEF d

\* The checkpoint's own history is what it was given.
LEMMA CheckpointHistory ==
  ASSUME TheCheckpoint \in CommittedBlockHeader
  PROVE  HistoryIsTrue(TheCheckpoint)
<1> DEFINE c == TheCheckpoint
           b == c.blockheight
<1>1. b \in Nat /\ PREV_TIMESTAMPS \in Nat \ {0}
  BY ParameterAssumption DEF CommittedBlockHeader
<1>2. HeaderAt(c, b) = c.header
  <2>1. b - b = 0
    BY <1>1
  <2>2. QED
    BY <2>1, AncestorDef DEF HeaderAt
<1>3. c.chain_work = WorkUpTo(c, b)
  <2>1. 0 \in Nat /\ \A x \in Int : x <= b + 0 => HeaderAt(c, x) = HeaderAt(c, x)
    OBVIOUS
  <2>2. QED
    BY <1>1, <2>1, WorkOfBlocks
<1>4. ASSUME NEW i \in 1..PREV_TIMESTAMPS
      PROVE  c.prev_block_timestamps[i] = TimestampAt(c, b - (PREV_TIMESTAMPS + 1 - i))
  <2> DEFINE height == b - (PREV_TIMESTAMPS + 1 - i)
             below == b - height
  <2>1. below > 0 /\ PREV_TIMESTAMPS + 1 - below = i
    BY <1>1
  <2> HIDE DEF height
  <2>2. TimestampAt(c, height) = c.prev_block_timestamps[PREV_TIMESTAMPS + 1 - below]
    BY <2>1 DEF TimestampAt
  <2>3. QED
    BY <2>1, <2>2 DEF height
<1>5. c.last_diff_adjustment = PeriodStartTime(c, b)
  BY <1>1, PeriodStarts DEF PeriodStartTime
<1>6. b >= b
  BY <1>1
<1>7. QED
  BY <1>2, <1>3, <1>4, <1>5, <1>6 DEF HistoryIsTrue

\* What verify_header carries over from the parent, and what it adds, is what
\* the child's chain says.
LEMMA ChildHistory ==
  ASSUME NEW c \in CommittedBlockHeader, NEW h \in Headers,
         h.reversed_prev_blockhash = c.header.hash,
         TheCheckpoint.blockheight \in Nat, HistoryIsTrue(c)
  PROVE  HistoryIsTrue(CommittedChild(c, h))
<1> DEFINE d == CommittedChild(c, h)
           b == TheCheckpoint.blockheight
           n == c.blockheight
           P == PREV_TIMESTAMPS
<1>1. /\ d.header = h /\ d.blockheight = n + 1 /\ n \in Nat
      /\ d.chain_work = c.chain_work + Difficulty[h.nbits]
      /\ d.last_diff_adjustment =
           IF should_diff_adjust(n + 1) THEN h.timestamp ELSE c.last_diff_adjustment
      /\ \A i \in 1..P : d.prev_block_timestamps[i] =
           IF i = P THEN c.header.timestamp ELSE c.prev_block_timestamps[i + 1]
  BY DEF CommittedChild, CommittedBlockHeader
<1>2. /\ HeaderAt(d, n + 1) = h
      /\ \A height \in Int : height <= n => HeaderAt(d, height) = HeaderAt(c, height)
  BY <1>1, ChildChain
<1>3. /\ \A height \in Int : height <= n => TimestampAt(d, height) = TimestampAt(c, height)
      /\ \A height \in Nat : height <= n => PeriodStartTime(d, height) = PeriodStartTime(c, height)
  BY ChildTimes
<1>4. P \in Nat \ {0}
  BY ParameterAssumption
<1>5. b \in Nat /\ n >= b
  BY DEF HistoryIsTrue
<1> HIDE DEF d, b, n, P
<1>6. HeaderAt(d, b) = TheCheckpoint.header
  BY <1>1, <1>2, <1>5 DEF HistoryIsTrue, b
<1>7. d.chain_work = WorkUpTo(d, n + 1)
  <2> DEFINE k == n - b
  <2>1. k \in Nat /\ b + k = n /\ b + (k + 1) = n + 1
    BY <1>1, <1>5
  <2> HIDE DEF k
  <2>2. WorkUpTo(d, b + (k + 1)) = WorkUpTo(c, b + k) + Difficulty[HeaderAt(d, b + (k + 1)).nbits]
    BY <1>2, <1>5, <2>1, WorkOfBlocks DEF b
  <2>3. c.chain_work = WorkUpTo(c, n)
    BY DEF HistoryIsTrue, n
  <2>4. QED
    BY <1>1, <1>2, <2>1, <2>2, <2>3
<1>8. ASSUME NEW i \in 1..P
      PROVE  d.prev_block_timestamps[i] = TimestampAt(d, (n + 1) - (P + 1 - i))
  <2>1. CASE i = P
    <3>1. (n + 1) - (P + 1 - i) = n /\ ~(b - n > 0) /\ n <= n /\ n \in Int /\ n - n = 0
      BY <1>1, <1>4, <1>5, <2>1
    <3>2. HeaderAt(c, n) = c.header
      BY <3>1, AncestorDef DEF HeaderAt, n
    <3>3. TimestampAt(c, n) = c.header.timestamp
      BY <3>1, <3>2 DEF TimestampAt, b
    <3>4. QED
      BY <1>1, <1>3, <2>1, <3>1, <3>3
  <2>2. CASE i # P
    <3> DEFINE height == n - (P + 1 - (i + 1))
    <3>1. /\ i + 1 \in 1..P /\ height \in Int /\ height <= n
          /\ (n + 1) - (P + 1 - i) = height
      BY <1>1, <1>4, <2>2
    <3>2. c.prev_block_timestamps[i + 1] = TimestampAt(c, height)
      BY <3>1 DEF HistoryIsTrue, n, P
    <3> HIDE DEF height
    <3>3. QED
      BY <1>1, <1>3, <2>2, <3>1, <3>2
  <2>3. QED
    BY <2>1, <2>2
<1>9. d.last_diff_adjustment = PeriodStartTime(d, n + 1)
  <2>1. CASE should_diff_adjust(n + 1)
    <3>1. PeriodStart(n + 1) = n + 1 /\ ~(n + 1 <= b) /\ ~(b - (n + 1) > 0)
      BY <1>1, <1>5, <2>1, PeriodStarts
    <3>2. TimestampAt(d, n + 1) = h.timestamp
      BY <1>2, <3>1 DEF TimestampAt, b
    <3>3. QED
      BY <1>1, <2>1, <3>1, <3>2 DEF PeriodStartTime, b
  <2>2. CASE ~should_diff_adjust(n + 1)
    <3>1. PeriodStart(n + 1) = PeriodStart(n)
      BY <1>1, <2>2, PeriodStarts
    <3>2. PeriodStartTime(d, n + 1) = PeriodStartTime(d, n)
      <4>1. PeriodStart(n) \in Int /\ PeriodStart(n) <= n
        BY <1>1, PeriodStarts
      <4>2. QED
        BY <3>1 DEF PeriodStartTime
    <3>3. PeriodStartTime(d, n) = c.last_diff_adjustment
      <4>1. n <= n
        BY <1>1
      <4>2. c.last_diff_adjustment = PeriodStartTime(c, n)
        BY DEF HistoryIsTrue, n
      <4>3. QED
        BY <1>1, <1>3, <4>1, <4>2
    <3>4. QED
      BY <1>1, <2>2, <3>2, <3>3
  <2>3. QED
    BY <2>1, <2>2
<1>10. d.blockheight >= b
  BY <1>1, <1>5
<1>11. QED
  BY <1>1, <1>6, <1>7, <1>8, <1>9, <1>10 DEF HistoryIsTrue, b, P, d

\* The committed headers whose history is true.
TrueCommitments ==
  {c \in CommittedBlockHeader : TheCheckpoint \in Checkpoints /\ HistoryIsTrue(c)}

HoldsTrueCommitments == HeldCommitments \subseteq TrueCommitments

LEMMA CheckpointIsTrue ==
  ASSUME SingleCheckpoint, NEW c \in Checkpoints
  PROVE  c = TheCheckpoint /\ c \in TrueCommitments
<1>1. TheCheckpoint \in Checkpoints
  BY DEF TheCheckpoint
<1>2. c = TheCheckpoint
  BY <1>1 DEF SingleCheckpoint
<1>3. TheCheckpoint \in CommittedBlockHeader
  BY <1>1, RelayAssumption
<1>4. QED
  BY <1>1, <1>2, <1>3, CheckpointHistory DEF TrueCommitments

LEMMA ChildIsTrue ==
  ASSUME NEW c \in TrueCommitments, NEW h \in Headers,
         h.reversed_prev_blockhash = c.header.hash
  PROVE  CommittedChild(c, h) \in TrueCommitments
<1>1. c \in CommittedBlockHeader /\ TheCheckpoint \in Checkpoints /\ HistoryIsTrue(c)
  BY DEF TrueCommitments
<1>2. TheCheckpoint.blockheight \in Nat
  BY <1>1, RelayAssumption DEF CommittedBlockHeader
<1>3. CommittedChild(c, h) \in CommittedBlockHeader
  BY <1>1, CommittedChildType
<1>4. HistoryIsTrue(CommittedChild(c, h))
  BY <1>1, <1>2, ChildHistory
<1>5. QED
  BY <1>1, <1>3, <1>4 DEF TrueCommitments

\* However forks interleave and whichever branch wins, the work, the timestamps
\* and the start of the period carried along in a committed header are those of
\* the chain that leads from the checkpoint to it: verify_header needs no more
\* than the parent's committed header.
THEOREM HistoryAlwaysTrue ==
  ASSUME SingleCheckpoint
  PROVE  Spec => []CarriedHistoryIsTrue
<1>1. Init => HoldsTrueCommitments
  BY DEF Init, HoldsTrueCommitments, HeldCommitments, Initialized
<1>2. ASSUME RelayInvariant, RelayInvariant', [Next]_vars,
             HoldsTrueCommitments
      PROVE  HoldsTrueCommitments'
  <2>1. TrueCommitments \subseteq CommittedBlockHeader
    BY DEF TrueCommitments
  <2>2. Checkpoints \subseteq TrueCommitments
    BY CheckpointIsTrue
  <2>3. Inherited(TrueCommitments, now)
    BY ChildIsTrue DEF Inherited
  <2>4. QED
    BY <1>2, <2>1, <2>2, <2>3, HeldStayIn DEF HoldsTrueCommitments
<1>3. HoldsTrueCommitments => CarriedHistoryIsTrue
  BY DEF HoldsTrueCommitments, TrueCommitments, CarriedHistoryIsTrue
<1>4. QED
  BY <1>1, <1>2, <1>3, InvariantHolds, PTL DEF Spec

-----------------------------------------------------------------------------
(* Difficulty targets. *)

\* What has_correct_difficulty_target asks of a header is what its chain calls
\* for.
LEMMA ChildFollowsRetargeting ==
  ASSUME NEW c \in TrueCommitments, NEW h \in Headers,
         h.reversed_prev_blockhash = c.header.hash,
         has_correct_difficulty_target(c, h.nbits)
  PROVE  FollowsRetargeting(CommittedChild(c, h))
<1> DEFINE d == CommittedChild(c, h)
           n == c.blockheight
<1>1. /\ c \in CommittedBlockHeader /\ HistoryIsTrue(c)
      /\ TheCheckpoint.blockheight \in Nat
  BY RelayAssumption DEF TrueCommitments, CommittedBlockHeader
<1>2. d.header = h /\ d.blockheight = n + 1 /\ n \in Nat /\ (n + 1) - 1 = n
  BY <1>1 DEF CommittedChild, CommittedBlockHeader
<1>3. HeaderAt(d, n) = c.header
  <2>1. n - n = 0 /\ n <= n /\ n \in Int
    BY <1>2
  <2>2. HeaderAt(c, n) = c.header
    BY <2>1, AncestorDef DEF HeaderAt
  <2>3. HeaderAt(d, n) = HeaderAt(c, n)
    BY <1>1, <2>1, ChildChain
  <2>4. QED
    BY <2>2, <2>3
<1>4. PeriodStartTime(d, n) = c.last_diff_adjustment
  <2>1. n <= n
    BY <1>2
  <2>2. PeriodStartTime(d, n) = PeriodStartTime(c, n)
    BY <1>1, <1>2, <2>1, ChildTimes
  <2>3. QED
    BY <1>1, <2>2 DEF HistoryIsTrue
<1>5. should_diff_adjust(n + 1) <=> PeriodStart(n + 1) = n + 1
  BY <1>2, PeriodStarts
<1> HIDE DEF d, n
<1>6. FollowsRetargeting(d)
        <=> h.nbits = IF PeriodStart(n + 1) = n + 1
                      THEN RescaledNBits[c.header.nbits,
                             ClampedTimespan(c.header.timestamp - c.last_diff_adjustment)]
                      ELSE c.header.nbits
  BY <1>2, <1>3, <1>4 DEF FollowsRetargeting
<1>7. QED
  BY <1>5, <1>6 DEF has_correct_difficulty_target, compute_new_nbits, d, n

\* Those, of the committed headers whose history is true, whose target is right.
RetargetedCommitments ==
  {c \in TrueCommitments : c = TheCheckpoint \/ FollowsRetargeting(c)}

HoldsRetargeted == HeldCommitments \subseteq RetargetedCommitments

\* Every block the relay accepts on any branch has the target that the chain
\* behind it calls for, a period's first block the one rescaled by the time of
\* the period before.
THEOREM TargetsAlwaysFollow ==
  ASSUME SingleCheckpoint, BITCOIN_TESTNET = FALSE
  PROVE  Spec => []TargetsFollowRetargeting
<1>1. Init => HoldsRetargeted
  BY DEF Init, HoldsRetargeted, HeldCommitments, Initialized
<1>2. ASSUME RelayInvariant, RelayInvariant', [Next]_vars,
             HoldsRetargeted
      PROVE  HoldsRetargeted'
  <2>1. RetargetedCommitments \subseteq CommittedBlockHeader
    BY DEF RetargetedCommitments, TrueCommitments
  <2>2. Checkpoints \subseteq RetargetedCommitments
    BY CheckpointIsTrue DEF RetargetedCommitments
  <2>3. Inherited(RetargetedCommitments, now)
    BY ChildIsTrue, ChildFollowsRetargeting DEF Inherited, HeaderVerifies, RetargetedCommitments
  <2>4. QED
    BY <1>2, <2>1, <2>2, <2>3, HeldStayIn DEF HoldsRetargeted
<1>3. HoldsRetargeted => TargetsFollowRetargeting
  <2>1. SUFFICES ASSUME HoldsRetargeted,
                        NEW c \in HeldCommitments \ Checkpoints
                 PROVE  FollowsRetargeting(c)
    BY DEF TargetsFollowRetargeting
  <2>2. c # TheCheckpoint
    BY <2>1 DEF HoldsRetargeted, RetargetedCommitments, TrueCommitments
  <2>3. QED
    BY <2>1, <2>2 DEF HoldsRetargeted, RetargetedCommitments
<1>4. QED
  BY <1>1, <1>2, <1>3, InvariantHolds, PTL DEF Spec

-----------------------------------------------------------------------------
(* Timestamps. *)

\* An odd number of values has a middle one. The value v, above more than half
\* of them, is a bound to start from.
LEMMA MedianExists ==
  ASSUME NEW H, IsFiniteSet(H), Cardinality(H) % 2 = 1, NEW f \in [H -> Nat],
         NEW v \in Nat, 2 * Cardinality({x \in H : f[x] < v}) > Cardinality(H)
  PROVE  \E t \in {f[x] : x \in H} :
           /\ 2 * Cardinality({x \in H : f[x] < t}) < Cardinality(H)
           /\ 2 * Cardinality({x \in H : f[x] > t}) < Cardinality(H)
<1> DEFINE Below(w) == {x \in H : f[x] < w}
           N == Cardinality(H)
           K == {w \in Nat : 2 * Cardinality(Below(w)) > N}
           T == {k \in Nat : \A w \in K : k <= w}
<1>1. N \in Nat /\ \A S \in SUBSET H : IsFiniteSet(S) /\ Cardinality(S) \in Nat
  BY FS_CardinalityType, FS_Subset
<1>2. \A w : Below(w) \in SUBSET H
  OBVIOUS
<1>3. PICK w \in K : \A u \in K : w <= u
  <2>1. v \in K /\ \A w \in K : w \in Nat
    OBVIOUS
  <2> HIDE DEF K
  <2>2. SUFFICES ASSUME \A w \in K : \E u \in K : u < w PROVE FALSE
    BY <2>1
  <2>3. 0 \in T
    BY <2>1
  <2>4. ASSUME NEW k \in Nat, k \in T PROVE k + 1 \in T
    <3>1. k \notin K
      <4>1. SUFFICES ASSUME k \in K PROVE FALSE
        OBVIOUS
      <4>2. PICK u \in K : u < k
        BY <2>2, <4>1
      <4>3. k <= u
        BY <2>4
      <4>4. QED
        BY <2>1, <4>2, <4>3
    <3>2. \A w \in K : k <= w /\ w # k /\ w \in Nat
      BY <2>1, <2>4, <3>1
    <3>3. QED
      BY <3>2
  <2> HIDE DEF T
  <2>5. Nat \subseteq T
    BY <2>3, <2>4, SetInductionOnNat
  <2>6. v + 1 \in T
    BY <2>5
  <2>7. QED
    BY <2>1, <2>6 DEF T
<1>4. w \in Nat /\ 2 * Cardinality(Below(w)) > N
  OBVIOUS
<1> DEFINE t == w - 1
<1>5. t \in Nat
  <2>1. CASE w = 0
    <3>1. Below(w) = {}
      BY <2>1
    <3>2. Cardinality(Below(w)) = 0
      BY <3>1, FS_EmptySet
    <3>3. QED
      BY <1>1, <1>4, <3>2
  <2>2. QED
    BY <1>4, <2>1
<1>6. 2 * Cardinality(Below(t)) < N
  <2>1. ~(w <= t)
    BY <1>4
  <2>2. t \notin K
    BY <1>3, <2>1
  <2>3. ~(2 * Cardinality(Below(t)) > N) /\ Cardinality(Below(t)) \in Nat
    BY <1>1, <1>2, <1>5, <2>2
  <2> HIDE DEF Below, N, t
  <2>4. 2 * Cardinality(Below(t)) # N
    BY <1>1, <2>3 DEF N
  <2>5. QED
    BY <1>1, <2>3, <2>4
<1>7. Below(w) = {x \in H : f[x] <= t}
  BY <1>4
<1>8. t \in {f[x] : x \in H}
  <2>1. SUFFICES ASSUME \A x \in H : f[x] # t PROVE FALSE
    OBVIOUS
  <2>2. Below(w) = Below(t)
    BY <1>5, <1>7, <2>1
  <2> HIDE DEF Below, N, t
  <2>3. QED
    BY <1>1, <1>2, <1>4, <1>6, <2>2
<1>9. 2 * Cardinality({x \in H : f[x] > t}) < N
  <2> DEFINE Above == {x \in H : f[x] > t}
  <2>1. Above = H \ Below(w)
    BY <1>5, <1>7
  <2>2. Cardinality(H \ Below(w)) = Cardinality(H) - Cardinality(H \cap Below(w))
    BY FS_Difference
  <2>3. H \cap Below(w) = Below(w)
    OBVIOUS
  <2>4. Cardinality(Above) = N - Cardinality(Below(w)) /\ Cardinality(Below(w)) \in Nat
    BY <1>1, <1>2, <2>1, <2>2, <2>3
  <2> HIDE DEF Below, N, Above
  <2>5. 2 * Cardinality(Above) < N
    BY <1>1, <1>4, <2>4
  <2>6. QED
    BY <2>5 DEF Above, N
<1>10. QED
  BY <1>6, <1>8, <1>9

\* The program compares with an odd number of timestamps, eleven.
OddWindow == PREV_TIMESTAMPS % 2 = 0

\* The timestamps that is_larger_than_median counts are those of the preceding
\* blocks, each once.
LEMMA CountOfTimestamps ==
  ASSUME NEW c \in TrueCommitments, NEW h \in Headers,
         h.reversed_prev_blockhash = c.header.hash, NEW time
  PROVE  LET d == CommittedChild(c, h)
             n == c.blockheight
             H == (n - PREV_TIMESTAMPS)..n
         IN  /\ \A x \in H : TimestampAt(d, x) \in Nat
             /\ Cardinality({x \in H : TimestampAt(d, x) < time})
                  = Cardinality({i \in 0..PREV_TIMESTAMPS :
                                   time > IF i = 0 THEN c.header.timestamp
                                          ELSE c.prev_block_timestamps[i]})
<1> DEFINE d == CommittedChild(c, h)
           n == c.blockheight
           P == PREV_TIMESTAMPS
           H == (n - P)..n
           ts(i) == IF i = 0 THEN c.header.timestamp ELSE c.prev_block_timestamps[i]
           at(i) == IF i = 0 THEN n ELSE n - (P + 1 - i)
           Counted == {i \in 0..P : time > ts(i)}
           Preceding == {x \in H : TimestampAt(d, x) < time}
           f == [i \in Counted |-> at(i)]
<1>1. /\ c \in CommittedBlockHeader /\ n \in Nat /\ HistoryIsTrue(c)
      /\ TheCheckpoint.blockheight \in Nat
      /\ P \in Nat \ {0}
  BY RelayAssumption, ParameterAssumption DEF TrueCommitments, CommittedBlockHeader
<1>2. \A x \in Int : x <= n => TimestampAt(d, x) = TimestampAt(c, x)
  BY <1>1, ChildTimes
<1>3. TimestampAt(c, n) = c.header.timestamp
  <2>1. n - n = 0 /\ ~(TheCheckpoint.blockheight - n > 0)
    BY <1>1 DEF HistoryIsTrue
  <2>2. HeaderAt(c, n) = c.header
    BY <2>1, AncestorDef DEF HeaderAt
  <2>3. QED
    BY <2>1, <2>2 DEF TimestampAt
<1>4. \A i \in 1..P : c.prev_block_timestamps[i] = TimestampAt(c, n - (P + 1 - i))
  BY <1>1 DEF HistoryIsTrue
<1>5. \A i \in 0..P : at(i) \in H /\ at(i) \in Int /\ at(i) <= n
  BY <1>1
<1>6. \A i \in 0..P : ts(i) = TimestampAt(c, at(i)) /\ ts(i) \in Nat
  <2> TAKE i \in 0..P
  <2>1. CASE i = 0
    BY <1>1, <1>3, <2>1, HeadersAssumption DEF CommittedBlockHeader, BlockHeader
  <2>2. CASE i # 0
    <3>1. i \in 1..P
      BY <1>1, <2>2
    <3>2. c.prev_block_timestamps[i] \in Nat
      BY <1>1, <3>1 DEF CommittedBlockHeader
    <3>3. QED
      BY <1>4, <2>2, <3>1, <3>2
  <2>3. QED
    BY <2>1, <2>2
<1>7. \A i, j \in 0..P : at(i) = at(j) => i = j
  BY <1>1
<1>8. \A x \in H : \E i \in 0..P : at(i) = x
  <2> TAKE x \in H
  <2>1. CASE x = n
    <3>1. 0 \in 0..P /\ at(0) = x
      BY <1>1, <2>1
    <3>2. QED
      BY <3>1
  <2>2. CASE x # n
    <3> DEFINE i == x - n + P + 1
    <3>1. i \in 0..P /\ at(i) = x
      BY <1>1, <2>2
    <3>2. QED
      BY <3>1
  <2>3. QED
    BY <2>1, <2>2
<1> HIDE DEF at, ts, H, P, d, n
<1>9. \A i \in 0..P : TimestampAt(d, at(i)) = ts(i)
  BY <1>2, <1>5, <1>6
<1>10. \A x \in H : TimestampAt(d, x) \in Nat
  BY <1>6, <1>8, <1>9
<1>11. f \in Bijection(Counted, Preceding)
  <2>1. \A i \in Counted : i \in 0..P /\ f[i] = at(i) /\ time > ts(i)
    OBVIOUS
  <2>2. \A i \in Counted : f[i] \in Preceding
    BY <1>5, <1>6, <1>9, <2>1
  <2>3. \A i, j \in Counted : f[i] = f[j] => i = j
    BY <1>7, <2>1
  <2>4. \A x \in Preceding : \E i \in Counted : f[i] = x
    <3> TAKE x \in Preceding
    <3>1. PICK i \in 0..P : at(i) = x
      BY <1>8
    <3>2. i \in Counted
      BY <1>6, <1>9, <3>1
    <3>3. QED
      BY <2>1, <3>1, <3>2
  <2>5. f \in [Counted -> Preceding]
    BY <2>2
  <2> HIDE DEF f, Counted, Preceding
  <2>6. QED
    BY <2>3, <2>4, <2>5 DEF Bijection, Injection, Surjection, IsInjective
<1>12. IsFiniteSet(Counted)
  <2>1. IsFiniteSet(0..P)
    <3>1. 0 \in Int /\ P \in Int
      BY <1>1
    <3>2. QED
      BY <3>1, FS_Interval
  <2>2. Counted \in SUBSET (0..P)
    OBVIOUS
  <2>3. QED
    BY <2>1, <2>2, FS_Subset
<1>13. Cardinality(Preceding) = Cardinality(Counted)
  <2>1. ExistsBijection(Counted, Preceding)
    BY <1>11 DEF ExistsBijection
  <2> HIDE DEF Counted, Preceding
  <2>2. QED
    BY <1>12, <2>1, FS_Bijection
<1>14. QED
  BY <1>10, <1>13 DEF d, n, P, H, ts

\* What is_larger_than_median accepts is younger than the median.
LEMMA ChildIsAboveMedian ==
  ASSUME OddWindow, NEW c \in TrueCommitments, NEW h \in Headers,
         h.reversed_prev_blockhash = c.header.hash,
         is_larger_than_median(c.prev_block_timestamps, c.header.timestamp, h.timestamp)
  PROVE  IsAboveMedian(CommittedChild(c, h))
<1> DEFINE d == CommittedChild(c, h)
           n == c.blockheight
           P == PREV_TIMESTAMPS
           H == (n - P)..n
           time == h.timestamp
           f == [x \in H |-> TimestampAt(d, x)]
           Below(t) == {x \in H : f[x] < t}
           Above(t) == {x \in H : f[x] > t}
           IsMedian(t) == 2 * Cardinality(Below(t)) < Cardinality(H)
                          /\ 2 * Cardinality(Above(t)) < Cardinality(H)
           m == CHOOSE t \in {f[x] : x \in H} : IsMedian(t)
<1>1. /\ c \in CommittedBlockHeader /\ n \in Nat /\ P \in Nat \ {0} /\ P % 2 = 0
      /\ time \in Nat
  BY ParameterAssumption, HeadersAssumption
     DEF TrueCommitments, CommittedBlockHeader, BlockHeader, OddWindow
<1>2. d.header = h /\ d.blockheight = n + 1
      /\ (d.blockheight - P - 1)..(d.blockheight - 1) = H
  <2>1. d.header = h /\ d.blockheight = n + 1
    BY <1>1 DEF CommittedChild, CommittedBlockHeader
  <2>2. (n + 1) - P - 1 = n - P /\ (n + 1) - 1 = n
    BY <1>1
  <2>3. QED
    BY <2>1, <2>2
<1>3. IsFiniteSet(H) /\ Cardinality(H) = P + 1
  <2>1. n - P \in Int /\ n \in Int /\ ~(n - P > n) /\ n - (n - P) + 1 = P + 1
    BY <1>1
  <2>2. /\ IsFiniteSet(H)
        /\ Cardinality(H) = IF n - P > n THEN 0 ELSE n - (n - P) + 1
    BY <2>1, FS_Interval
  <2>3. QED
    BY <2>1, <2>2
<1>4. /\ \A x \in H : TimestampAt(d, x) \in Nat
      /\ Cardinality({x \in H : TimestampAt(d, x) < time})
           = Cardinality({i \in 0..P : time > IF i = 0 THEN c.header.timestamp
                                              ELSE c.prev_block_timestamps[i]})
  BY CountOfTimestamps
<1>5. f \in [H -> Nat] /\ \A x \in H : f[x] = TimestampAt(d, x)
  BY <1>4
<1>6. MedianTimestamp(d, H) = m
  BY <1>5 DEF MedianTimestamp
<1> HIDE DEF d, f, H, time
<1>7. 2 * Cardinality(Below(time)) > Cardinality(H) /\ Cardinality(Below(time)) \in Nat
  <2>1. Below(time) = {x \in H : TimestampAt(d, x) < time}
    BY <1>5
  <2>2. Cardinality(Below(time)) > (P + 1) \div 2
    BY <1>4, <2>1 DEF is_larger_than_median, time
  <2>3. Cardinality(Below(time)) \in Nat
    <3>1. Below(time) \in SUBSET H
      OBVIOUS
    <3>2. QED
      BY <1>3, <3>1, FS_Subset, FS_CardinalityType
  <2> HIDE DEF Below
  <2>4. QED
    BY <1>1, <1>3, <2>2, <2>3
<1>8. m \in {f[x] : x \in H} /\ IsMedian(m)
  <2>1. Cardinality(H) % 2 = 1
    BY <1>1, <1>3
  <2>2. \E t \in {f[x] : x \in H} : IsMedian(t)
    BY <1>1, <1>3, <1>5, <1>7, <2>1, MedianExists
  <2> HIDE DEF IsMedian
  <2>3. QED
    BY <2>2
<1>9. m \in Nat
  BY <1>5, <1>8
<1> HIDE DEF m
<1>10. time > m
  <2>1. SUFFICES ASSUME time <= m PROVE FALSE
    BY <1>1, <1>9
  <2>2. Below(time) \in SUBSET Below(m) /\ Below(m) \in SUBSET H
    BY <1>1, <1>5, <1>9, <2>1
  <2>3. IsFiniteSet(Below(m)) /\ Cardinality(Below(m)) \in Nat
    BY <1>3, <2>2, FS_Subset, FS_CardinalityType
  <2>4. Cardinality(Below(time)) <= Cardinality(Below(m))
    BY <2>2, <2>3, FS_Subset
  <2> HIDE DEF Below, Above
  <2>5. QED
    BY <1>1, <1>3, <1>7, <1>8, <2>3, <2>4
<1>11. QED
  BY <1>2, <1>6, <1>10 DEF IsAboveMedian, d, time, P

\* Those, of the committed headers whose history is true, that are timely.
TimelyCommitments(time) ==
  {c \in TrueCommitments :
     \/ c = TheCheckpoint
     \/ /\ c.header.meets_target
        /\ c.header.timestamp < time + MAX_FUTURE_BLOCKTIME
        /\ IsAboveMedian(c)}

HoldsTimely == HeldCommitments \subseteq TimelyCommitments(now)

\* Every block the relay accepts on any branch meets its target, is younger
\* than the median of the eleven blocks before it on its own chain, and never
\* further in the future than the clock allowed.
THEOREM BlocksAlwaysTimely ==
  ASSUME SingleCheckpoint, OddWindow
  PROVE  Spec => []BlocksAreTimely
<1>1. Init => HoldsTimely
  BY DEF Init, HoldsTimely, HeldCommitments, Initialized
<1>2. ASSUME RelayInvariant, RelayInvariant', [Next]_vars, HoldsTimely
      PROVE  HoldsTimely'
  <2> DEFINE T == TimelyCommitments(now)
  <2>1. T \subseteq CommittedBlockHeader
    BY DEF TimelyCommitments, TrueCommitments
  <2>2. Checkpoints \subseteq T
    BY CheckpointIsTrue DEF TimelyCommitments
  <2>3. Inherited(T, now)
    <3>1. SUFFICES ASSUME NEW c \in T, NEW h \in Headers,
                          h.reversed_prev_blockhash = c.header.hash,
                          HeaderVerifies(c, h, now)
                   PROVE  CommittedChild(c, h) \in T
      BY DEF Inherited
    <3>2. c \in TrueCommitments
      BY DEF TimelyCommitments
    <3>3. CommittedChild(c, h) \in TrueCommitments /\ IsAboveMedian(CommittedChild(c, h))
      BY <3>1, <3>2, ChildIsTrue, ChildIsAboveMedian DEF HeaderVerifies
    <3>4. CommittedChild(c, h).header = h
      BY DEF CommittedChild
    <3>5. QED
      BY <3>1, <3>3, <3>4 DEF TimelyCommitments, HeaderVerifies
  <2>4. HeldCommitments' \subseteq T
    <3>1. HeldCommitments \subseteq T
      BY <1>2 DEF HoldsTimely
    <3> HIDE DEF T
    <3>2. QED
      BY <1>2, <2>1, <2>2, <2>3, <3>1, HeldStayIn
  <2>5. now \in Nat /\ now' \in Nat /\ now <= now'
    <3>1. now \in Nat
      BY <1>2 DEF RelayInvariant, TypeOK
    <3>2. now' = now \/ now' = now + 1
      BY <1>2 DEF Next, Initialize, SubmitBlockHeaders, SubmitShortForkHeaders, OpenFork,
                  ExtendFork, CloseForkAccount, Tick, vars
    <3>3. QED
      BY <3>1, <3>2
  <2>6. T \subseteq TimelyCommitments(now')
    <3>1. SUFFICES ASSUME NEW c \in TrueCommitments,
                          c.header.timestamp < now + MAX_FUTURE_BLOCKTIME
                   PROVE  c.header.timestamp < now' + MAX_FUTURE_BLOCKTIME
      BY DEF TimelyCommitments
    <3>2. c.header.timestamp \in Nat /\ MAX_FUTURE_BLOCKTIME \in Nat
      BY HeadersAssumption, ParameterAssumption
         DEF TrueCommitments, CommittedBlockHeader, BlockHeader
    <3>3. QED
      BY <2>5, <3>1, <3>2
  <2>7. QED
    BY <2>4, <2>6 DEF HoldsTimely
<1>3. HoldsTimely => BlocksAreTimely
  <2>1. SUFFICES ASSUME HoldsTimely, NEW c \in HeldCommitments \ Checkpoints
                 PROVE  /\ c.header.meets_target
                        /\ c.header.timestamp < now + MAX_FUTURE_BLOCKTIME
                        /\ IsAboveMedian(c)
    BY DEF BlocksAreTimely
  <2>2. c # TheCheckpoint
    BY <2>1 DEF HoldsTimely, TimelyCommitments, TrueCommitments
  <2>3. QED
    BY <2>1, <2>2 DEF HoldsTimely, TimelyCommitments
<1>4. QED
  BY <1>1, <1>2, <1>3, InvariantHolds, PTL DEF Spec

=============================================================================

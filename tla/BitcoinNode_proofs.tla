-------------------------- MODULE BitcoinNode_proofs --------------------------
(***************************************************************************)
(* Facts about bitcoind's tree of headers that the proofs about the two    *)
(* relayers share: heights, chains, and the timestamps read from them.     *)
(***************************************************************************)
EXTENDS BitcoinNode, BtcRelay_proofs

-----------------------------------------------------------------------------
(* The tree of headers. *)

LEMMA ParentType ==
  ASSUME NEW depth, DepthsAre(depth), NEW h \in Headers \ {Base}
  PROVE  /\ Parent(h) \in Headers
         /\ Parent(h).hash = h.reversed_prev_blockhash
         /\ depth[h] = depth[Parent(h)] + 1
<1>1. /\ Parent(h) \in Headers
      /\ Parent(h).hash = h.reversed_prev_blockhash
  <2>1. \E g \in Headers : g.hash = h.reversed_prev_blockhash
    BY DEF DepthsAre
  <2>2. QED
    BY <2>1 DEF Parent
<1>2. QED
  BY <1>1 DEF DepthsAre

\* The heights that the recursive definition gives.
LEMMA HeightIsDepth ==
  ASSUME NEW depth, DepthsAre(depth)
  PROVE  \A h \in Headers : Height[h] = BaseHeight + depth[h]
<1> DEFINE Solves(f) ==
             f = [h \in Headers |-> IF h = Base THEN BaseHeight ELSE f[Parent(h)] + 1]
           deep == [h \in Headers |-> BaseHeight + depth[h]]
           T == {k \in Nat : \A h \in Headers : depth[h] = k => Height[h] = BaseHeight + k}
<1>1. Base \in Headers /\ BaseHeight \in Nat /\ depth[Base] = 0
  BY NodeAssumption DEF DepthsAre
<1>2. \A h \in Headers : depth[h] \in Nat
  BY DEF DepthsAre
<1>3. Solves(deep)
  <2>1. \A h \in Headers : deep[h] = IF h = Base THEN BaseHeight ELSE deep[Parent(h)] + 1
    <3> TAKE h \in Headers
    <3>1. CASE h = Base
      BY <1>1, <3>1
    <3>2. CASE h # Base
      <4>1. Parent(h) \in Headers /\ depth[h] = depth[Parent(h)] + 1
        BY <3>2, ParentType
      <4>2. QED
        BY <1>1, <1>2, <3>2, <4>1
    <3>3. QED
      BY <3>1, <3>2
  <2> HIDE DEF deep
  <2>2. deep = [h \in Headers |-> deep[h]]
    BY DEF deep
  <2>3. QED
    BY <2>1, <2>2
<1>4. Solves(Height)
  <2> HIDE DEF deep
  <2>1. QED
    BY <1>3 DEF Height
<1>5. 0 \in T
  <2>1. ASSUME NEW h \in Headers, depth[h] = 0 PROVE Height[h] = BaseHeight + 0
    <3>1. h = Base
      <4>1. SUFFICES ASSUME h # Base PROVE FALSE
        OBVIOUS
      <4>2. Parent(h) \in Headers /\ depth[h] = depth[Parent(h)] + 1
        BY <4>1, ParentType
      <4>3. QED
        BY <1>2, <2>1, <4>2
    <3>2. Height[h] = BaseHeight
      BY <1>4, <3>1
    <3>3. QED
      BY <1>1, <3>2
  <2>2. QED
    BY <2>1
<1>6. ASSUME NEW k \in Nat, k \in T PROVE k + 1 \in T
  <2>1. ASSUME NEW h \in Headers, depth[h] = k + 1 PROVE Height[h] = BaseHeight + (k + 1)
    <3>1. h # Base
      BY <1>1, <2>1
    <3>2. Parent(h) \in Headers /\ depth[h] = depth[Parent(h)] + 1
      BY <3>1, ParentType
    <3>3. depth[Parent(h)] = k
      BY <1>2, <2>1, <3>2
    <3>4. Height[Parent(h)] = BaseHeight + k
      BY <1>6, <3>2, <3>3
    <3>5. Height[h] = Height[Parent(h)] + 1
      BY <1>4, <3>1
    <3>6. QED
      BY <1>1, <3>4, <3>5
  <2>2. QED
    BY <2>1
<1>7. Nat \subseteq T
  <2> HIDE DEF T
  <2>1. QED
    BY <1>5, <1>6, SetInductionOnNat
<1>8. QED
  BY <1>2, <1>7

\* In particular, what the model relies on.
LEMMA HeightType ==
  ASSUME HeadersAreTree
  PROVE  /\ BaseHeight \in Nat /\ Base \in Headers /\ Height[Base] = BaseHeight
         /\ \A h \in Headers : Height[h] \in Nat /\ Height[h] >= BaseHeight
         /\ \A h \in Headers \ {Base} :
              /\ Parent(h) \in Headers
              /\ Parent(h).hash = h.reversed_prev_blockhash
              /\ Height[h] = Height[Parent(h)] + 1
         /\ \A h \in Headers : Height[h] = BaseHeight => h = Base
<1>1. PICK depth : DepthsAre(depth)
  BY DEF HeadersAreTree
<1>2. /\ Base \in Headers /\ BaseHeight \in Nat /\ depth[Base] = 0
      /\ \A h \in Headers : depth[h] \in Nat /\ Height[h] = BaseHeight + depth[h]
  BY <1>1, NodeAssumption, HeightIsDepth DEF DepthsAre
<1>3. \A h \in Headers : Height[h] \in Nat /\ Height[h] >= BaseHeight
  BY <1>2
<1>4. ASSUME NEW h \in Headers \ {Base}
      PROVE  /\ Parent(h) \in Headers
             /\ Parent(h).hash = h.reversed_prev_blockhash
             /\ Height[h] = Height[Parent(h)] + 1
             /\ Height[h] # BaseHeight
  <2>1. /\ Parent(h) \in Headers
        /\ Parent(h).hash = h.reversed_prev_blockhash
        /\ depth[h] = depth[Parent(h)] + 1
    BY <1>1, ParentType
  <2>2. QED
    BY <1>2, <2>1
<1>5. QED
  BY <1>2, <1>3, <1>4

\* Two headers of which one follows the other are one height apart.
LEMMA ChildIsHigher ==
  ASSUME HeadersAreTree, NEW g \in Headers, NEW h \in Headers,
         h.reversed_prev_blockhash = g.hash
  PROVE  Height[h] = Height[g] + 1
<1>1. PICK depth : DepthsAre(depth)
  BY DEF HeadersAreTree
<1>2. /\ BaseHeight \in Nat /\ depth[h] = depth[g] + 1
      /\ depth[g] \in Nat
      /\ Height[h] = BaseHeight + depth[h] /\ Height[g] = BaseHeight + depth[g]
  BY <1>1, NodeAssumption, HeightIsDepth DEF DepthsAre
<1>3. QED
  BY <1>2

-----------------------------------------------------------------------------
(* The chain of a header. *)

LEMMA ChainOfDef ==
  ASSUME HeadersAreTree, NEW h \in Headers
  PROVE  ChainOf(h) =
           [k \in BaseHeight..Height[h] |->
              IF k = Height[h] THEN h ELSE Parent(ChainOf(h)[k + 1])]
<1> DEFINE top == Height[h]
           Solves(f, n) ==
             f = [k \in (top - n)..top |-> IF k = top THEN h ELSE Parent(f[k + 1])]
           T == {n \in Nat : \E f : Solves(f, n)}
<1>1. BaseHeight \in Nat /\ top \in Nat /\ top >= BaseHeight
  BY HeightType
<1> HIDE DEF top
<1>2. 0 \in T
  <2>1. Solves([k \in (top - 0)..top |-> h], 0)
    BY <1>1
  <2>2. QED
    BY <2>1
<1>3. ASSUME NEW n \in Nat, n \in T PROVE n + 1 \in T
  <2>1. PICK f : Solves(f, n)
    BY <1>3
  <2> DEFINE g == [k \in (top - (n + 1))..top |->
                     IF k = top - (n + 1) THEN Parent(f[top - n]) ELSE f[k]]
  <2>2. \A k \in (top - (n + 1))..top : g[k] = IF k = top THEN h ELSE Parent(g[k + 1])
    <3> TAKE k \in (top - (n + 1))..top
    <3>1. CASE k = top - (n + 1)
      <4>1. /\ k # top /\ k + 1 = top - n /\ k + 1 # top - (n + 1)
            /\ k + 1 \in (top - (n + 1))..top
        BY <1>1, <3>1
      <4>2. QED
        BY <3>1, <4>1
    <3>2. CASE k # top - (n + 1)
      <4>1. k \in (top - n)..top
        BY <1>1, <3>2
      <4>2. f[k] = IF k = top THEN h ELSE Parent(f[k + 1])
        BY <2>1, <4>1
      <4>3. k # top => /\ k + 1 # top - (n + 1)
                       /\ k + 1 \in (top - (n + 1))..top
        BY <1>1, <4>1
      <4>4. QED
        BY <3>2, <4>2, <4>3
    <3>3. QED
      BY <3>1, <3>2
  <2>3. Solves(g, n + 1)
    BY <2>2
  <2> HIDE DEF g, Solves
  <2>4. \E e : Solves(e, n + 1)
    BY <2>3
  <2>5. QED
    BY <2>4
<1>4. top - BaseHeight \in T
  <2> HIDE DEF T
  <2>1. top - BaseHeight \in Nat
    BY <1>1
  <2>2. QED
    BY <1>2, <1>3, <2>1, SetInductionOnNat
<1>5. PICK f : Solves(f, top - BaseHeight)
  BY <1>4
<1>6. top - (top - BaseHeight) = BaseHeight
  BY <1>1
<1>7. f = [k \in BaseHeight..top |-> IF k = top THEN h ELSE Parent(f[k + 1])]
  BY <1>5, <1>6
<1>8. QED
  BY <1>7 DEF ChainOf, top

\* It goes down from h, linked, one height at a time.
LEMMA ChainOfType ==
  ASSUME HeadersAreTree, NEW h \in Headers
  PROVE  /\ ChainOf(h)[Height[h]] = h
         /\ \A k \in BaseHeight..Height[h] :
              ChainOf(h)[k] \in Headers /\ Height[ChainOf(h)[k]] = k
         /\ \A k \in BaseHeight..(Height[h] - 1) :
              ChainOf(h)[k + 1].reversed_prev_blockhash = ChainOf(h)[k].hash
<1> DEFINE top == Height[h]
           chain == ChainOf(h)
           Good(k) == chain[k] \in Headers /\ Height[chain[k]] = k
           T == {n \in Nat : n <= top - BaseHeight => Good(top - n)}
<1>1. /\ BaseHeight \in Nat /\ top \in Nat /\ top >= BaseHeight
      /\ Height[Base] = BaseHeight
  BY HeightType
<1>2. chain = [k \in BaseHeight..top |-> IF k = top THEN h ELSE Parent(chain[k + 1])]
  BY ChainOfDef
<1>3. Height[h] = top
  OBVIOUS
<1> HIDE DEF chain, top
<1>4. chain[top] = h
  BY <1>1, <1>2
<1>5. ASSUME NEW k \in BaseHeight..(top - 1), Good(k + 1)
      PROVE  Good(k) /\ chain[k + 1].reversed_prev_blockhash = chain[k].hash
  <2>1. k + 1 # BaseHeight /\ k \in BaseHeight..top /\ k # top
    BY <1>1
  <2>2. chain[k + 1] \in Headers \ {Base}
    BY <1>1, <1>5, <2>1
  <2>3. chain[k] = Parent(chain[k + 1])
    BY <1>2, <2>1
  <2>4. /\ chain[k] \in Headers
        /\ chain[k].hash = chain[k + 1].reversed_prev_blockhash
        /\ Height[chain[k + 1]] = Height[chain[k]] + 1
        /\ Height[chain[k]] \in Nat
    BY <2>2, <2>3, HeightType
  <2>5. QED
    BY <1>1, <1>5, <2>4
<1>6. 0 \in T
  BY <1>1, <1>3, <1>4
<1>7. ASSUME NEW n \in Nat, n \in T PROVE n + 1 \in T
  <2>1. SUFFICES ASSUME n + 1 <= top - BaseHeight PROVE Good(top - (n + 1))
    OBVIOUS
  <2> DEFINE k == top - (n + 1)
  <2>2. k \in BaseHeight..(top - 1) /\ k + 1 = top - n /\ n <= top - BaseHeight
    BY <1>1, <2>1
  <2>3. Good(k + 1)
    BY <1>7, <2>2
  <2> HIDE DEF k
  <2>4. Good(k)
    BY <1>5, <2>2, <2>3
  <2>5. QED
    BY <2>4 DEF k
<1>8. Nat \subseteq T
  <2> HIDE DEF T
  <2>1. QED
    BY <1>6, <1>7, SetInductionOnNat
<1>9. ASSUME NEW k \in BaseHeight..top PROVE Good(k)
  <2>1. top - k \in Nat /\ top - k <= top - BaseHeight /\ top - (top - k) = k
    BY <1>1
  <2>2. Good(top - (top - k))
    BY <1>8, <2>1
  <2>3. QED
    BY <2>1, <2>2
<1>10. ASSUME NEW k \in BaseHeight..(top - 1)
       PROVE  chain[k + 1].reversed_prev_blockhash = chain[k].hash
  <2>1. k + 1 \in BaseHeight..top
    BY <1>1
  <2>2. QED
    BY <1>5, <1>9, <2>1
<1>11. QED
  BY <1>4, <1>9, <1>10 DEF chain, top

\* A chain that contains h continues h's own.
LEMMA ChainBelow ==
  ASSUME HeadersAreTree, NEW g \in Headers, NEW h \in Headers,
         Height[h] <= Height[g], ChainOf(g)[Height[h]] = h
  PROVE  \A k \in BaseHeight..Height[h] : ChainOf(g)[k] = ChainOf(h)[k]
<1> DEFINE top == Height[h]
           T == {n \in Nat : n <= top - BaseHeight =>
                   ChainOf(g)[top - n] = ChainOf(h)[top - n]}
<1>1. /\ BaseHeight \in Nat /\ top \in Nat /\ top >= BaseHeight
      /\ Height[g] \in Nat
  BY HeightType
<1>2. ChainOf(g)[top] = ChainOf(h)[top]
  BY ChainOfType
<1> HIDE DEF top
<1>3. 0 \in T
  BY <1>1, <1>2
<1>4. ASSUME NEW n \in Nat, n \in T PROVE n + 1 \in T
  <2>1. SUFFICES ASSUME n + 1 <= top - BaseHeight
                 PROVE  ChainOf(g)[top - (n + 1)] = ChainOf(h)[top - (n + 1)]
    OBVIOUS
  <2> DEFINE k == top - (n + 1)
  <2>2. /\ k \in BaseHeight..(top - 1) /\ k \in BaseHeight..top
        /\ k + 1 = top - n /\ n <= top - BaseHeight
        /\ k \in BaseHeight..Height[g] /\ k # Height[g] /\ k # top
    BY <1>1, <2>1 DEF top
  <2>3. ChainOf(g)[k + 1] = ChainOf(h)[k + 1]
    BY <1>4, <2>2
  <2> HIDE DEF k
  <2>4. ChainOf(g)[k] = Parent(ChainOf(g)[k + 1])
    <3>1. ChainOf(g) = [j \in BaseHeight..Height[g] |->
                          IF j = Height[g] THEN g ELSE Parent(ChainOf(g)[j + 1])]
      BY ChainOfDef
    <3>2. QED
      BY <2>2, <3>1
  <2>5. ChainOf(h)[k] = Parent(ChainOf(h)[k + 1])
    <3>1. ChainOf(h) = [j \in BaseHeight..top |->
                          IF j = top THEN h ELSE Parent(ChainOf(h)[j + 1])]
      BY ChainOfDef DEF top
    <3>2. QED
      BY <2>2, <3>1
  <2>6. QED
    BY <2>3, <2>4, <2>5 DEF k
<1>5. Nat \subseteq T
  <2> HIDE DEF T
  <2>1. QED
    BY <1>3, <1>4, SetInductionOnNat
<1>6. ASSUME NEW k \in BaseHeight..top PROVE ChainOf(g)[k] = ChainOf(h)[k]
  <2>1. top - k \in Nat /\ top - k <= top - BaseHeight /\ top - (top - k) = k
    BY <1>1
  <2>2. ChainOf(g)[top - (top - k)] = ChainOf(h)[top - (top - k)]
    BY <1>5, <2>1
  <2>3. QED
    BY <2>1, <2>2
<1>7. QED
  BY <1>6 DEF top

\* The timestamps that bitcoind answers are those of blocks of its tree, or below it.
LEMMA TimestampType ==
  ASSUME HeadersAreTree, NEW tip \in Headers, NEW k \in Int,
         k >= BaseHeight - PREV_TIMESTAMPS, k <= Height[tip]
  PROVE  TimestampAt(tip, k) \in Nat
<1>1. /\ BaseHeight \in Nat /\ PREV_TIMESTAMPS \in Nat \ {0} /\ Height[tip] \in Nat
      /\ BaseTimestamps \in [1..PREV_TIMESTAMPS -> Nat]
  BY HeightType, NodeAssumption, ParameterAssumption
<1>2. CASE k < BaseHeight
  <2>1. PREV_TIMESTAMPS + 1 + k - BaseHeight \in 1..PREV_TIMESTAMPS
    BY <1>1, <1>2
  <2>2. QED
    BY <1>1, <1>2, <2>1 DEF TimestampAt
<1>3. CASE k >= BaseHeight
  <2>1. k \in BaseHeight..Height[tip]
    BY <1>1, <1>3
  <2>2. ChainOf(tip)[k] \in Headers
    BY <2>1, ChainOfType
  <2>3. ChainOf(tip)[k].timestamp \in Nat
    BY <2>2, HeadersAssumption DEF BlockHeader
  <2>4. QED
    BY <1>1, <1>3, <2>3 DEF TimestampAt
<1>4. QED
  BY <1>1, <1>2, <1>3

-----------------------------------------------------------------------------
(* bitcoind. *)

NodeInvariant == best \in blocks /\ blocks \subseteq Headers

LEMMA NodeInitInvariant == NodeInit => NodeInvariant
  BY NodeAssumption DEF NodeInit, NodeInvariant

LEMMA AdoptChainInvariant ==
  ASSUME HeadersAreTree, NodeInvariant, NEW h \in Headers, AdoptChain(h)
  PROVE  NodeInvariant'
<1>1. \A k \in BaseHeight..Height[h] : ChainOf(h)[k] \in Headers
  BY ChainOfType
<1>2. /\ best' = h
      /\ blocks' = blocks \cup {ChainOf(h)[k] : k \in BaseHeight..Height[h]}
  BY DEF AdoptChain
<1>3. blocks' \subseteq Headers
  BY <1>1, <1>2 DEF NodeInvariant
<1>4. h \in blocks'
  <2>1. Height[h] \in BaseHeight..Height[h]
    BY HeightType
  <2>2. ChainOf(h)[Height[h]] = h
    BY ChainOfType
  <2>3. QED
    BY <1>2, <2>1, <2>2
<1>5. QED
  BY <1>2, <1>3, <1>4 DEF NodeInvariant

\* A turn of the loop that reads the timestamps below a height of the tree.
LEMMA ReadTimestamp ==
  ASSUME HeadersAreTree, NodeInvariant,
         NEW height \in Nat, height >= BaseHeight,
         NEW before \in Seq(Nat), NEW i, i = Len(before), i < PREV_TIMESTAMPS,
         CanReadTimestamp(height, i)
  PROVE  /\ WithTimestamp(before, height, i) \in Seq(Nat)
         /\ Len(WithTimestamp(before, height, i)) = i + 1
<1> DEFINE k == height - i - 1
           read == <<TimestampAt(best, k)>>
<1>1. /\ PREV_TIMESTAMPS \in Nat \ {0} /\ BaseHeight \in Nat /\ i \in Nat
      /\ best \in Headers
  BY ParameterAssumption, NodeAssumption DEF NodeInvariant
<1>2. k \in Int /\ k >= BaseHeight - PREV_TIMESTAMPS
  BY <1>1
<1>3. k <= Height[best] /\ WithTimestamp(before, height, i) = read \o before
  BY DEF CanReadTimestamp, WithTimestamp
<1>4. TimestampAt(best, k) \in Nat
  BY <1>1, <1>2, <1>3, TimestampType
<1>5. read \in Seq(Nat) /\ Len(read) = 1
  BY <1>4
<1> HIDE DEF read, k
<1>6. read \o before \in Seq(Nat) /\ Len(read \o before) = Len(read) + Len(before)
  BY <1>5, ConcatProperties
<1>7. QED
  BY <1>1, <1>3, <1>5, <1>6

=============================================================================

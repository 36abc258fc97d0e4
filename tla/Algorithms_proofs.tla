-------------------------- MODULE Algorithms_proofs --------------------------
(***************************************************************************)
(* The two pure algorithms, for every size of their inputs. The loops are  *)
(* recursive functions: that they exist is proved by induction, and what   *)
(* they compute by another one.                                            *)
(*                                                                         *)
(* Merkle proofs: compute_merkle accepts what Proof::create makes, for a   *)
(* block of any size, every position in it and any hash function, and the  *)
(* root is Bitcoin's. Where hashes do not collide, what is accepted is a   *)
(* node of the block's tree, whatever the length of the proof, and a proof *)
(* that was made for a transaction proves no other one.                    *)
(*                                                                         *)
(* Arithmetic on arrays of bytes: sums, products, quotients, comparisons   *)
(* and compact targets are those of whole numbers, and so are the works    *)
(* and the targets of a chain.                                             *)
(***************************************************************************)
EXTENDS MCAlgorithms, SetInduction, SequenceTheorems, TLAPS

-----------------------------------------------------------------------------
(* The loops as functions. *)

\* The levels of the tree.
LEMMA LevelsDef ==
  ASSUME NEW txids, Len(txids) \in Nat
  PROVE  Levels(txids) =
           [i \in 0..Len(txids) |-> IF i = 0 THEN txids ELSE NextLevel(Levels(txids)[i - 1])]
<1> DEFINE Solves(g, k) ==
             g = [i \in 0..k |-> IF i = 0 THEN txids ELSE NextLevel(g[i - 1])]
           T == {k \in Nat : \E g : Solves(g, k)}
<1>1. 0 \in T
  <2>1. Solves([i \in 0..0 |-> txids], 0)
    OBVIOUS
  <2>2. QED
    BY <2>1
<1>2. ASSUME NEW k \in Nat, k \in T PROVE k + 1 \in T
  <2>1. PICK g : Solves(g, k)
    BY <1>2
  <2> DEFINE h == [i \in 0..(k + 1) |-> IF i = k + 1 THEN NextLevel(g[k]) ELSE g[i]]
  <2>2. \A i \in 0..(k + 1) : h[i] = IF i = 0 THEN txids ELSE NextLevel(h[i - 1])
    <3> TAKE i \in 0..(k + 1)
    <3>1. CASE i = 0
      BY <2>1, <3>1
    <3>2. CASE i = k + 1
      BY <3>2
    <3>3. CASE i \in 1..k
      <4>1. i \in 0..k /\ i - 1 \in 0..k /\ i # 0 /\ i # k + 1 /\ i - 1 # k + 1
        BY <3>3
      <4>2. g[i] = NextLevel(g[i - 1])
        BY <2>1, <4>1
      <4>3. h[i] = g[i] /\ h[i - 1] = g[i - 1]
        BY <4>1
      <4>4. QED
        BY <4>1, <4>2, <4>3
    <3>4. QED
      BY <3>1, <3>2, <3>3
  <2>3. Solves(h, k + 1)
    BY <2>2
  <2> HIDE DEF h
  <2>4. QED
    BY <2>3
<1>3. Len(txids) \in T
  <2> HIDE DEF T
  <2>1. QED
    BY <1>1, <1>2, SetInductionOnNat
<1>4. PICK g : Solves(g, Len(txids))
  BY <1>3
<1>5. QED
  BY <1>4 DEF Levels

\* The offset at each level.
LEMMA OffsetsDef ==
  ASSUME NEW place, NEW n \in Nat
  PROVE  Offsets(place, n) =
           [i \in 0..n |-> IF i = 0 THEN place ELSE Offsets(place, n)[i - 1] \div 2]
<1> DEFINE Solves(g, k) ==
             g = [i \in 0..k |-> IF i = 0 THEN place ELSE g[i - 1] \div 2]
           T == {k \in Nat : \E g : Solves(g, k)}
<1>1. 0 \in T
  <2>1. Solves([i \in 0..0 |-> place], 0)
    OBVIOUS
  <2>2. QED
    BY <2>1
<1>2. ASSUME NEW k \in Nat, k \in T PROVE k + 1 \in T
  <2>1. PICK g : Solves(g, k)
    BY <1>2
  <2> DEFINE h == [i \in 0..(k + 1) |-> IF i = k + 1 THEN g[k] \div 2 ELSE g[i]]
  <2>2. \A i \in 0..(k + 1) : h[i] = IF i = 0 THEN place ELSE h[i - 1] \div 2
    <3> TAKE i \in 0..(k + 1)
    <3>1. CASE i = 0
      BY <2>1, <3>1
    <3>2. CASE i = k + 1
      BY <3>2
    <3>3. CASE i \in 1..k
      <4>1. i \in 0..k /\ i - 1 \in 0..k /\ i # 0 /\ i # k + 1 /\ i - 1 # k + 1
        BY <3>3
      <4>2. g[i] = g[i - 1] \div 2
        BY <2>1, <4>1
      <4>3. h[i] = g[i] /\ h[i - 1] = g[i - 1]
        BY <4>1
      <4>4. QED
        BY <4>1, <4>2, <4>3
    <3>4. QED
      BY <3>1, <3>2, <3>3
  <2>3. Solves(h, k + 1)
    BY <2>2
  <2> HIDE DEF h
  <2>4. QED
    BY <2>3
<1>3. n \in T
  <2> HIDE DEF T
  <2>1. QED
    BY <1>1, <1>2, SetInductionOnNat
<1>4. PICK g : Solves(g, n)
  BY <1>3
<1>5. QED
  BY <1>4 DEF Offsets

\* One round of compute_merkle: piece i joins the hash on the side that the
\* index says.
Fold(hash, i, index, proof) ==
  IF Offsets(index, Len(proof))[i - 1] % 2 = 0 THEN sha256d(hash, proof[i])
  ELSE sha256d(proof[i], hash)

\* The hash after each piece of the proof.
LEMMA CurrentHashesDef ==
  ASSUME NEW txid, NEW index, NEW proof, Len(proof) \in Nat
  PROVE  CurrentHashes(txid, index, proof) =
           [i \in 0..Len(proof) |-> IF i = 0 THEN txid ELSE Fold(CurrentHashes(txid, index, proof)[i - 1], i, index, proof)]
<1> DEFINE Solves(g, k) ==
             g = [i \in 0..k |-> IF i = 0 THEN txid ELSE Fold(g[i - 1], i, index, proof)]
           T == {k \in Nat : \E g : Solves(g, k)}
<1>1. 0 \in T
  <2>1. Solves([i \in 0..0 |-> txid], 0)
    OBVIOUS
  <2>2. QED
    BY <2>1
<1>2. ASSUME NEW k \in Nat, k \in T PROVE k + 1 \in T
  <2>1. PICK g : Solves(g, k)
    BY <1>2
  <2> DEFINE h == [i \in 0..(k + 1) |-> IF i = k + 1 THEN Fold(g[k], (k + 1), index, proof) ELSE g[i]]
  <2>2. \A i \in 0..(k + 1) : h[i] = IF i = 0 THEN txid ELSE Fold(h[i - 1], i, index, proof)
    <3> TAKE i \in 0..(k + 1)
    <3>1. CASE i = 0
      BY <2>1, <3>1
    <3>2. CASE i = k + 1
      BY <3>2
    <3>3. CASE i \in 1..k
      <4>1. i \in 0..k /\ i - 1 \in 0..k /\ i # 0 /\ i # k + 1 /\ i - 1 # k + 1
        BY <3>3
      <4>2. g[i] = Fold(g[i - 1], i, index, proof)
        BY <2>1, <4>1
      <4>3. h[i] = g[i] /\ h[i - 1] = g[i - 1]
        BY <4>1
      <4>4. QED
        BY <4>1, <4>2, <4>3
    <3>4. QED
      BY <3>1, <3>2, <3>3
  <2>3. Solves(h, k + 1)
    BY <2>2
  <2> HIDE DEF h
  <2>4. QED
    BY <2>3
<1>3. Len(proof) \in T
  <2> HIDE DEF T
  <2>1. QED
    BY <1>1, <1>2, SetInductionOnNat
<1>4. PICK g : Solves(g, Len(proof))
  BY <1>3
<1>5. QED
  BY <1>4 DEF CurrentHashes, Fold

-----------------------------------------------------------------------------
(* One level. *)

\* Padding keeps the hashes of a level and makes their number even.
LEMMA PaddedShape ==
  ASSUME NEW S, NEW hashes \in Seq(S), Len(hashes) > 1
  PROVE  /\ Len(Padded(hashes)) \div 2 = (Len(hashes) + 1) \div 2
         /\ \A i \in 1..Len(hashes) : Padded(hashes)[i] = hashes[i]
<1>1. CASE Len(hashes) % 2 # 0
  <2>1. Padded(hashes) = Append(hashes, hashes[Len(hashes)])
    BY <1>1 DEF Padded
  <2>2. hashes[Len(hashes)] \in S
    OBVIOUS
  <2>3. Len(Padded(hashes)) = Len(hashes) + 1
    BY <2>1
  <2>4. \A i \in 1..Len(hashes) : Padded(hashes)[i] = hashes[i]
    BY <2>1, <2>2
  <2>5. QED
    BY <2>3, <2>4
<1>2. CASE Len(hashes) % 2 = 0
  <2>1. Padded(hashes) = hashes
    BY <1>2 DEF Padded
  <2>2. Len(hashes) \div 2 = (Len(hashes) + 1) \div 2
    BY <1>2
  <2>3. QED
    BY <2>1, <2>2
<1>3. QED
  BY <1>1, <1>2

\* A level has half as many hashes as the one below, rounded up, each the hash
\* of two neighbours.
LEMMA NextLevelShape ==
  ASSUME NEW S, NEW hashes \in Seq(S), Len(hashes) > 1
  PROVE  /\ \E R : NextLevel(hashes) \in Seq(R)
         /\ Len(NextLevel(hashes)) = (Len(hashes) + 1) \div 2
         /\ \A i \in 1..((Len(hashes) + 1) \div 2) :
              NextLevel(hashes)[i] = sha256d(Padded(hashes)[2 * i - 1],
                                             Padded(hashes)[2 * i])
<1> DEFINE n == (Len(hashes) + 1) \div 2
           R == {NextLevel(hashes)[i] : i \in 1..n}
<1>1. n \in Nat
  OBVIOUS
<1>2. Len(Padded(hashes)) \div 2 = n
  BY PaddedShape
<1> HIDE DEF n
<1>3. NextLevel(hashes) = [i \in 1..n |-> sha256d(Padded(hashes)[2 * i - 1],
                                                  Padded(hashes)[2 * i])]
  BY <1>2 DEF NextLevel
<1>4. NextLevel(hashes) \in [1..n -> R]
  BY <1>3
<1>5. NextLevel(hashes) \in Seq(R) /\ Len(NextLevel(hashes)) = n
  <2> HIDE DEF R
  <2>1. QED
    BY <1>1, <1>4
<1>6. QED
  BY <1>3, <1>5 DEF n

\* The hash at an offset and its sibling in the proof make the hash at half the
\* offset, one level up.
LEMMA SiblingsMakeParent ==
  ASSUME NEW S, NEW hashes \in Seq(S), Len(hashes) > 1,
         NEW offset \in 0..(Len(hashes) - 1)
  PROVE  LET own == hashes[offset + 1]
             sibling == Padded(hashes)[Sibling(offset) + 1]
         IN  /\ offset \div 2 \in 0..(Len(NextLevel(hashes)) - 1)
             /\ NextLevel(hashes)[(offset \div 2) + 1] =
                  IF offset % 2 = 0 THEN sha256d(own, sibling)
                  ELSE sha256d(sibling, own)
<1> DEFINE q == offset \div 2
           n == Len(hashes)
           m == (n + 1) \div 2
           padded == Padded(hashes)
<1>1. n \in Nat /\ offset \in 0..(n - 1)
  OBVIOUS
<1>2. /\ Len(NextLevel(hashes)) = m
      /\ \A i \in 1..m :
           NextLevel(hashes)[i] = sha256d(padded[2 * i - 1], padded[2 * i])
  BY NextLevelShape
<1>3. padded[offset + 1] = hashes[offset + 1]
  BY PaddedShape
<1>4. q \in 0..(m - 1) /\ q + 1 \in 1..m
  <2> HIDE DEF padded
  <2>1. QED
    BY <1>1
<1>5. CASE offset % 2 = 0
  <2>1. 2 * (q + 1) - 1 = offset + 1 /\ 2 * (q + 1) = Sibling(offset) + 1
    BY <1>1, <1>5 DEF Sibling
  <2> HIDE DEF q, padded, m
  <2>2. NextLevel(hashes)[q + 1] = sha256d(padded[2 * (q + 1) - 1], padded[2 * (q + 1)])
    BY <1>2, <1>4
  <2>3. NextLevel(hashes)[q + 1] = sha256d(hashes[offset + 1], padded[Sibling(offset) + 1])
    BY <2>1, <2>2, <1>3
  <2>4. QED
    BY <2>3, <1>2, <1>4, <1>5 DEF q, padded
<1>6. CASE offset % 2 # 0
  <2>1. 2 * (q + 1) - 1 = Sibling(offset) + 1 /\ 2 * (q + 1) = offset + 1
    BY <1>1, <1>6 DEF Sibling
  <2> HIDE DEF q, padded, m
  <2>2. NextLevel(hashes)[q + 1] = sha256d(padded[2 * (q + 1) - 1], padded[2 * (q + 1)])
    BY <1>2, <1>4
  <2>3. NextLevel(hashes)[q + 1] = sha256d(padded[Sibling(offset) + 1], hashes[offset + 1])
    BY <2>1, <2>2, <1>3
  <2>4. QED
    BY <2>3, <1>2, <1>4, <1>6 DEF q, padded
<1>7. QED
  BY <1>5, <1>6

-----------------------------------------------------------------------------
(* The whole tree. *)

\* All levels below number k have more than one hash.
Unfinished(txids, k) == \A j \in 0..(k - 1) : Len(Levels(txids)[j]) > 1

\* Halving, rounded up, takes off at least one.
LEMMA HalfIsLess ==
  ASSUME NEW n \in Nat, NEW i \in Nat, NEW length \in 1..(n - i), length > 1
  PROVE  (length + 1) \div 2 \in 1..(n - (i + 1))
OBVIOUS

\* Up to the first level of one hash, levels are lists that shrink by one hash
\* at least.
LEMMA LevelsShrink ==
  ASSUME NEW S, NEW txids \in Seq(S), txids # <<>>, NEW k \in 0..Len(txids),
         Unfinished(txids, k)
  PROVE  /\ \E R : Levels(txids)[k] \in Seq(R)
         /\ Len(Levels(txids)[k]) \in 1..(Len(txids) - k)
<1> DEFINE n == Len(txids)
           levels == Levels(txids)
           T == {i \in Nat : i <= k => /\ \E R : levels[i] \in Seq(R)
                                       /\ Len(levels[i]) \in 1..(n - i)}
<1>1. n \in Nat /\ n > 0 /\ k \in 0..n
  OBVIOUS
<1>2. levels = [i \in 0..n |-> IF i = 0 THEN txids ELSE NextLevel(levels[i - 1])]
  BY <1>1, LevelsDef
<1> HIDE DEF levels
<1>3. 0 \in T
  <2>1. levels[0] = txids
    BY <1>1, <1>2
  <2>2. QED
    BY <1>1, <2>1
<1>4. ASSUME NEW i \in Nat, i \in T PROVE i + 1 \in T
  <2>1. SUFFICES ASSUME i + 1 <= k
                 PROVE  /\ \E R : levels[i + 1] \in Seq(R)
                        /\ Len(levels[i + 1]) \in 1..(n - (i + 1))
    OBVIOUS
  <2>2. PICK R : levels[i] \in Seq(R)
    BY <1>4, <2>1
  <2>3. Len(levels[i]) \in 1..(n - i) /\ Len(levels[i]) > 1
    BY <1>1, <1>4, <2>1 DEF Unfinished, levels
  <2>4. levels[i + 1] = NextLevel(levels[i])
    <3>1. i + 1 \in 0..n /\ i + 1 # 0 /\ (i + 1) - 1 = i
      BY <1>1, <2>1
    <3>2. QED
      BY <1>2, <3>1
  <2>5. /\ \E Q : levels[i + 1] \in Seq(Q)
        /\ Len(levels[i + 1]) = (Len(levels[i]) + 1) \div 2
    BY <2>2, <2>3, <2>4, NextLevelShape
  <2>6. (Len(levels[i]) + 1) \div 2 \in 1..(n - (i + 1))
    BY <1>1, <2>3, HalfIsLess
  <2>7. QED
    BY <2>5, <2>6
<1>5. k \in T
  <2> HIDE DEF T
  <2>1. QED
    BY <1>1, <1>3, <1>4, SetInductionOnNat
<1>6. QED
  BY <1>1, <1>5 DEF levels

\* The loop of Proof::create ends, with one hash.
LEMMA RoundsEnd ==
  ASSUME NEW S, NEW txids \in Seq(S), txids # <<>>
  PROVE  /\ Rounds(txids) \in 0..Len(txids)
         /\ Len(Levels(txids)[Rounds(txids)]) = 1
         /\ Unfinished(txids, Rounds(txids))
<1> DEFINE n == Len(txids)
           T == {k \in Nat : k <= n => Unfinished(txids, k)}
<1>1. n \in Nat
  OBVIOUS
<1>2. ASSUME \A k \in 0..n : Unfinished(txids, k) => Len(Levels(txids)[k]) # 1
      PROVE  FALSE
  <2>1. 0 \in T
    BY DEF Unfinished
  <2>2. ASSUME NEW k \in Nat, k \in T PROVE k + 1 \in T
    <3>1. SUFFICES ASSUME k + 1 <= n PROVE Unfinished(txids, k + 1)
      OBVIOUS
    <3>2. k \in 0..n /\ Unfinished(txids, k)
      BY <1>1, <2>2, <3>1
    <3>3. Len(Levels(txids)[k]) \in 1..(n - k)
      BY <3>2, LevelsShrink
    <3>4. Len(Levels(txids)[k]) > 1
      <4>1. Len(Levels(txids)[k]) # 1
        BY <1>2, <3>2
      <4>2. \A length \in 1..(n - k) : length # 1 => length > 1
        BY <1>1
      <4> HIDE DEF n
      <4>3. QED
        BY <3>3, <4>1, <4>2
    <3>5. QED
      BY <3>2, <3>4 DEF Unfinished
  <2>3. n \in T
    <3> HIDE DEF T
    <3>1. QED
      BY <1>1, <2>1, <2>2, SetInductionOnNat
  <2>4. Len(Levels(txids)[n]) \in 1..(n - n)
    BY <1>1, <2>3, LevelsShrink
  <2>5. QED
    BY <1>1, <2>4
<1>3. PICK k \in 0..n : Unfinished(txids, k) /\ Len(Levels(txids)[k]) = 1
  BY <1>2
<1>4. QED
  BY <1>3 DEF Rounds, Unfinished

\* What verify_small_tx and init_big_tx_verify compute from a proof that
\* relay_tx made is the block's merkle root: for every block, however many
\* transactions it has, and every position in it.
THEOREM CreatedProofVerifies ==
  ASSUME NEW S, NEW txids \in Seq(S), NEW place \in 0..(Len(txids) - 1)
  PROVE  ProofVerifies(txids, place)
<1> DEFINE r == Rounds(txids)
           levels == Levels(txids)
           offset == Offsets(place, r)
           proof == create(txids, place)
           txid == txids[place + 1]
           current == CurrentHashes(txid, place, proof)
           T == {k \in Nat : k <= r =>
                   /\ offset[k] \in 0..(Len(levels[k]) - 1)
                   /\ current[k] = levels[k][offset[k] + 1]}
<1>1. Len(txids) \in Nat /\ txids # <<>> /\ place \in Nat
  OBVIOUS
<1>2. /\ r \in 0..Len(txids)
      /\ Len(levels[r]) = 1
      /\ Unfinished(txids, r)
  BY <1>1, RoundsEnd
<1>3. r \in Nat
  BY <1>1, <1>2
<1>4. levels = [k \in 0..Len(txids) |->
                  IF k = 0 THEN txids ELSE NextLevel(levels[k - 1])]
  BY <1>1, LevelsDef
<1>5. offset = [k \in 0..r |-> IF k = 0 THEN place ELSE offset[k - 1] \div 2]
  BY <1>3, OffsetsDef
<1>6. proof = [k \in 1..r |-> Padded(levels[k - 1])[Sibling(offset[k - 1]) + 1]]
  BY DEF create
<1>7. Len(proof) = r
  <2> HIDE DEF r, levels, offset
  <2>1. QED
    BY <1>3, <1>6
<1>8. current = [k \in 0..r |-> IF k = 0 THEN txid
                                ELSE Fold(current[k - 1], k, place, proof)]
  BY <1>3, <1>7, CurrentHashesDef
<1>9. \A hash, k : Fold(hash, k, place, proof) =
                     IF offset[k - 1] % 2 = 0 THEN sha256d(hash, proof[k])
                     ELSE sha256d(proof[k], hash)
  BY <1>7 DEF Fold
<1> HIDE DEF r, levels, offset, proof, current
<1>10. 0 \in T
  <2>1. levels[0] = txids /\ offset[0] = place /\ current[0] = txid
    BY <1>1, <1>3, <1>4, <1>5, <1>8
  <2>2. QED
    BY <2>1
<1>11. ASSUME NEW k \in Nat, k \in T PROVE k + 1 \in T
  <2>1. SUFFICES ASSUME k + 1 <= r
                 PROVE  /\ offset[k + 1] \in 0..(Len(levels[k + 1]) - 1)
                        /\ current[k + 1] = levels[k + 1][offset[k + 1] + 1]
    OBVIOUS
  <2>2. /\ offset[k] \in 0..(Len(levels[k]) - 1)
        /\ current[k] = levels[k][offset[k] + 1]
    BY <1>3, <1>11, <2>1
  <2>3. /\ k + 1 \in 0..r /\ k + 1 \in 1..r /\ k + 1 \in 0..Len(txids)
        /\ k \in 0..Len(txids) /\ k + 1 # 0 /\ (k + 1) - 1 = k
        /\ k \in 0..(r - 1)
    BY <1>1, <1>2, <1>3, <2>1
  <2>4. Len(levels[k]) > 1 /\ Unfinished(txids, k)
    BY <1>2, <1>3, <2>3 DEF Unfinished, levels
  <2>5. PICK R : levels[k] \in Seq(R)
    BY <1>1, <2>3, <2>4, LevelsShrink DEF levels
  <2>6. levels[k + 1] = NextLevel(levels[k])
    BY <1>4, <2>3
  <2>7. offset[k + 1] = offset[k] \div 2
    BY <1>5, <2>3
  <2>8. proof[k + 1] = Padded(levels[k])[Sibling(offset[k]) + 1]
    BY <1>6, <2>3
  <2>9. current[k + 1] = IF offset[k] % 2 = 0 THEN sha256d(current[k], proof[k + 1])
                         ELSE sha256d(proof[k + 1], current[k])
    BY <1>8, <1>9, <2>3
  <2>10. /\ offset[k] \div 2 \in 0..(Len(NextLevel(levels[k])) - 1)
         /\ NextLevel(levels[k])[(offset[k] \div 2) + 1] =
               IF offset[k] % 2 = 0
               THEN sha256d(levels[k][offset[k] + 1], proof[k + 1])
               ELSE sha256d(proof[k + 1], levels[k][offset[k] + 1])
    BY <2>2, <2>4, <2>5, <2>8, SiblingsMakeParent, ZenonT(30)
  <2>11. QED
    BY <2>2, <2>6, <2>7, <2>9, <2>10
<1>12. r \in T
  <2> HIDE DEF T
  <2>1. QED
    BY <1>3, <1>10, <1>11, SetInductionOnNat
<1>13. current[r] = levels[r][1]
  <2>1. offset[r] \in 0..(Len(levels[r]) - 1) /\ current[r] = levels[r][offset[r] + 1]
    BY <1>3, <1>12
  <2>2. offset[r] = 0
    BY <1>2, <2>1
  <2>3. QED
    BY <2>1, <2>2
<1>14. QED
  BY <1>7, <1>13 DEF ProofVerifies, compute_merkle, Root, r, levels, proof, current

-----------------------------------------------------------------------------
(* What a proof proves, for a hash without collisions. *)

CollisionFree ==
  \A a, b, c, d : sha256d(a, b) = sha256d(c, d) => a = c /\ b = d

\* A level consists of hashes of members of the level below.
LEMMA ParentHasChildren ==
  ASSUME NEW S, NEW hashes \in Seq(S), Len(hashes) > 1,
         NEW i \in 1..Len(NextLevel(hashes))
  PROVE  \E a, b \in {hashes[j] : j \in 1..Len(hashes)} :
           NextLevel(hashes)[i] = sha256d(a, b)
<1> DEFINE n == Len(hashes)
           members == {hashes[j] : j \in 1..n}
<1>1. n \in Nat /\ n > 1
  OBVIOUS
<1>2. /\ Len(NextLevel(hashes)) = (n + 1) \div 2
      /\ NextLevel(hashes)[i] = sha256d(Padded(hashes)[2 * i - 1], Padded(hashes)[2 * i])
  <2>1. Len(NextLevel(hashes)) = (n + 1) \div 2
    BY NextLevelShape
  <2>2. i \in 1..((n + 1) \div 2)
    BY <2>1
  <2>3. QED
    BY <2>1, <2>2, NextLevelShape
<1>3. i \in Nat /\ i >= 1 /\ 2 * i <= n + 1
  <2> HIDE DEF n
  <2>1. i \in 1..((n + 1) \div 2)
    BY <1>2
  <2>2. QED
    BY <1>1, <2>1
<1>4. \A j \in 1..(n + 1) : j <= 2 * ((n + 1) \div 2) => Padded(hashes)[j] \in members
  <2> TAKE j \in 1..(n + 1)
  <2>1. CASE j \in 1..n
    BY <2>1, PaddedShape
  <2>2. CASE j = n + 1 /\ n % 2 # 0
    <3>1. Padded(hashes) = Append(hashes, hashes[n])
      BY <2>2 DEF Padded
    <3>2. hashes[n] \in S
      BY <1>1
    <3>3. Padded(hashes)[n + 1] = hashes[n]
      BY <3>1, <3>2
    <3>4. QED
      BY <1>1, <2>2, <3>3
  <2>3. CASE j = n + 1 /\ n % 2 = 0
    <3> HIDE DEF n
    <3>1. ~(j <= 2 * ((n + 1) \div 2))
      BY <1>1, <2>3
    <3>2. QED
      BY <3>1
  <2>4. QED
    BY <1>1, <2>1, <2>2, <2>3
<1>5. /\ Padded(hashes)[2 * i - 1] \in members
      /\ Padded(hashes)[2 * i] \in members
  <2> HIDE DEF n, members
  <2>1. /\ 2 * i - 1 \in 1..(n + 1) /\ 2 * i \in 1..(n + 1)
        /\ 2 * i <= 2 * ((n + 1) \div 2)
        /\ 2 * i - 1 <= 2 * ((n + 1) \div 2)
    BY <1>1, <1>2, <1>3
  <2>2. QED
    BY <1>4, <2>1
<1>6. QED
  BY <1>2, <1>5

\* The pieces of a proof, the claimed hash and what is computed of them, one
\* level up at a time.
LEMMA CurrentHashStep ==
  ASSUME NEW txid, NEW index, NEW proof, Len(proof) \in Nat,
         NEW k \in 0..(Len(proof) - 1)
  PROVE  LET current == CurrentHashes(txid, index, proof)
         IN  \/ current[k + 1] = sha256d(current[k], proof[k + 1])
             \/ current[k + 1] = sha256d(proof[k + 1], current[k])
<1> DEFINE current == CurrentHashes(txid, index, proof)
<1>1. current = [i \in 0..Len(proof) |-> IF i = 0 THEN txid
                   ELSE Fold(current[i - 1], i, index, proof)]
  BY CurrentHashesDef
<1>2. k + 1 \in 0..Len(proof) /\ k + 1 # 0 /\ (k + 1) - 1 = k
  OBVIOUS
<1> HIDE DEF current
<1>3. current[k + 1] = Fold(current[k], k + 1, index, proof)
  BY <1>1, <1>2
<1>4. QED
  BY <1>3 DEF Fold, current

\* Whatever proof a caller of verify_small_tx or init_big_tx_verify makes up, of
\* any length and with any index: what it proves is a node of the block's tree.
\* compute_merkle does not compare the length with anything. A proof as long as
\* the tree is high proves a transaction; a shorter one, the empty one included,
\* proves an inner hash; a longer one needs an id in the block that is itself a
\* hash computed from what it proves.
THEOREM VerifiedHashesAreNodes ==
  ASSUME CollisionFree,
         NEW S, NEW txids \in Seq(S), txids # <<>>,
         NEW txid, NEW index, NEW proof, Len(proof) \in Nat,
         compute_merkle(txid, index, proof) = Root(txids)
  PROVE  LET up == Rounds(txids) - Len(proof)
         IN  /\ up >= 0 => \E i \in 1..Len(Levels(txids)[up]) :
                             txid = Levels(txids)[up][i]
             /\ up <= 0 => \E i \in 1..Len(txids) :
                             CurrentHashes(txid, index, proof)[-up] = txids[i]
<1> DEFINE r == Rounds(txids)
           n == Len(proof)
           levels == Levels(txids)
           current == CurrentHashes(txid, index, proof)
           Members(k) == {levels[k][j] : j \in 1..Len(levels[k])}
           T == {m \in Nat : m <= r /\ m <= n => current[n - m] \in Members(r - m)}
<1>1. /\ r \in 0..Len(txids)
      /\ Len(levels[r]) = 1
      /\ Unfinished(txids, r)
      /\ Len(txids) \in Nat
  BY RoundsEnd
<1>2. r \in Nat /\ n \in Nat
  BY <1>1
<1>3. levels = [k \in 0..Len(txids) |->
                  IF k = 0 THEN txids ELSE NextLevel(levels[k - 1])]
  BY <1>1, LevelsDef
<1>4. current[0] = txid
  <2>1. Len(proof) \in Nat /\ 0 \in 0..Len(proof)
    BY <1>2
  <2>2. QED
    BY <2>1, CurrentHashesDef
<1>5. current[n] = levels[r][1]
  BY DEF compute_merkle, Root
<1>6. \A k \in 0..(n - 1) :
        \/ current[k + 1] = sha256d(current[k], proof[k + 1])
        \/ current[k + 1] = sha256d(proof[k + 1], current[k])
  BY <1>2, CurrentHashStep
<1>7. 0 \in T
  <2> HIDE DEF r, n, levels, current
  <2>1. current[n] \in Members(r) /\ r - 0 = r /\ n - 0 = n
    BY <1>1, <1>2, <1>5
  <2>2. QED
    BY <2>1
<1>8. ASSUME NEW m \in Nat, m \in T PROVE m + 1 \in T
  <2> DEFINE k == r - (m + 1)
             q == n - (m + 1)
  <2>1. SUFFICES ASSUME m + 1 <= r, m + 1 <= n PROVE current[q] \in Members(k)
    OBVIOUS
  <2>2. /\ k \in 0..(r - 1) /\ k + 1 = r - m /\ k \in 0..Len(txids)
        /\ k + 1 \in 0..Len(txids) /\ k + 1 # 0 /\ (k + 1) - 1 = k
        /\ q \in 0..(n - 1) /\ q + 1 = n - m
    <3> HIDE DEF r, n
    <3>1. QED
      BY <1>1, <1>2, <2>1
  <2>3. current[q + 1] \in Members(k + 1)
    <3> HIDE DEF r, n, levels, current
    <3>1. m <= r /\ m <= n
      BY <1>2, <2>1
    <3>2. current[n - m] \in Members(r - m)
      BY <1>8, <3>1
    <3>3. QED
      BY <2>2, <3>2
  <2>4. Len(levels[k]) > 1 /\ Unfinished(txids, k)
    <3> HIDE DEF r
    <3>1. QED
      BY <1>1, <1>2, <2>2 DEF Unfinished
  <2>5. PICK R : levels[k] \in Seq(R)
    BY <2>2, <2>4, LevelsShrink
  <2>6. levels[k + 1] = NextLevel(levels[k])
    <3> HIDE DEF levels, r
    <3>1. QED
      BY <1>3, <2>2
  <2>7. PICK j \in 1..Len(levels[k + 1]) : current[q + 1] = levels[k + 1][j]
    BY <2>3
  <2>8. PICK a \in Members(k), b \in Members(k) : current[q + 1] = sha256d(a, b)
    <3> HIDE DEF levels, current, r, k, n, q
    <3>1. j \in 1..Len(NextLevel(levels[k]))
      BY <2>6, <2>7, Zenon
    <3>2. \E a, b \in Members(k) : NextLevel(levels[k])[j] = sha256d(a, b)
      BY <2>4, <2>5, <3>1, ParentHasChildren, Zenon
    <3>3. QED
      BY <2>6, <2>7, <3>2, Zenon
  <2>9. \/ current[q + 1] = sha256d(current[q], proof[q + 1])
        \/ current[q + 1] = sha256d(proof[q + 1], current[q])
    <3> HIDE DEF levels, current, r, k, n, q
    <3>1. QED
      BY <1>6, <2>2
  <2>10. current[q] = a \/ current[q] = b
    <3> HIDE DEF levels, current, r, k, n, q
    <3>1. QED
      BY <2>8, <2>9 DEF CollisionFree
  <2>11. QED
    <3> HIDE DEF k, q, Members
    <3>1. QED
      BY <2>8, <2>10
<1>9. ASSUME NEW m \in Nat, m <= r, m <= n PROVE current[n - m] \in Members(r - m)
  <2> HIDE DEF T
  <2>1. m \in T
    BY <1>7, <1>8, SetInductionOnNat
  <2>2. QED
    BY <1>9, <2>1 DEF T
<1>10. levels[0] = txids
  <2> HIDE DEF levels
  <2>1. QED
    BY <1>1, <1>3
<1>11. ASSUME r - n >= 0 PROVE txid \in Members(r - n)
  <2> HIDE DEF r, n, levels, current, Members
  <2>1. n <= r /\ n <= n /\ n - n = 0
    BY <1>2, <1>11
  <2>2. current[n - n] \in Members(r - n)
    BY <1>2, <1>9, <2>1
  <2>3. QED
    BY <1>4, <2>1, <2>2
<1>12. ASSUME r - n <= 0 PROVE current[-(r - n)] \in Members(0)
  <2> HIDE DEF r, n, levels, current, Members
  <2>1. r <= r /\ r <= n /\ r - r = 0 /\ n - r = -(r - n)
    BY <1>2, <1>12
  <2>2. current[n - r] \in Members(r - r)
    BY <1>2, <1>9, <2>1
  <2>3. QED
    BY <2>1, <2>2
<1>13. QED
  BY <1>10, <1>11, <1>12

\* h is what compute_merkle would hash a pair of nodes to: the double SHA-256
\* of 64 bytes.
IsPairHash(h) == \E a, b : h = sha256d(a, b)

\* Where neither the claimed id nor an id of the block is the hash of 64 bytes,
\* no proof of any length and no index proves anything but a transaction of the
\* block. The program asks for no such thing: it takes the id of whatever
\* deserializes.
THEOREM OnlyMembersVerify ==
  ASSUME CollisionFree,
         NEW S, NEW txids \in Seq(S), txids # <<>>,
         NEW txid, NEW index, NEW proof, Len(proof) \in Nat,
         compute_merkle(txid, index, proof) = Root(txids),
         ~IsPairHash(txid), \A i \in 1..Len(txids) : ~IsPairHash(txids[i])
  PROVE  \E i \in 1..Len(txids) : txid = txids[i]
<1> DEFINE r == Rounds(txids)
           n == Len(proof)
           levels == Levels(txids)
           current == CurrentHashes(txid, index, proof)
<1>1. /\ r \in Nat /\ n \in Nat /\ r <= Len(txids) /\ Len(txids) \in Nat
      /\ Unfinished(txids, r)
  BY RoundsEnd
<1>2. levels = [k \in 0..Len(txids) |->
                  IF k = 0 THEN txids ELSE NextLevel(levels[k - 1])]
  BY <1>1, LevelsDef
<1>3. /\ r - n >= 0 => \E i \in 1..Len(levels[r - n]) : txid = levels[r - n][i]
      /\ r - n <= 0 => \E i \in 1..Len(txids) : current[-(r - n)] = txids[i]
  BY VerifiedHashesAreNodes
<1>4. CASE n = r
  <2>1. r - n = 0 /\ levels[0] = txids
    <3> HIDE DEF r, n, levels
    <3>1. QED
      BY <1>1, <1>2, <1>4
  <2>2. QED
    BY <1>3, <2>1
<1>5. CASE n < r
  <2> DEFINE k == r - n - 1
  <2>1. /\ k \in 0..(r - 1) /\ k \in 0..Len(txids) /\ k + 1 \in 0..Len(txids)
        /\ k + 1 # 0 /\ (k + 1) - 1 = k /\ k + 1 = r - n /\ r - n >= 0
    <3> HIDE DEF r, n
    <3>1. QED
      BY <1>1, <1>5
  <2>2. Len(levels[k]) > 1 /\ Unfinished(txids, k)
    <3> HIDE DEF r, n
    <3>1. QED
      BY <1>1, <2>1 DEF Unfinished
  <2>3. PICK R : levels[k] \in Seq(R)
    BY <2>1, <2>2, LevelsShrink
  <2>4. levels[k + 1] = NextLevel(levels[k])
    <3> HIDE DEF levels, r, n, k
    <3>1. QED
      BY <1>2, <2>1
  <2> HIDE DEF levels, current, r, n, k
  <2>5. PICK i \in 1..Len(levels[k + 1]) : txid = levels[k + 1][i]
    BY <1>3, <2>1
  <2>6. i \in 1..Len(NextLevel(levels[k])) /\ txid = NextLevel(levels[k])[i]
    BY <2>4, <2>5, Zenon
  <2>7. \E a, b \in {levels[k][j] : j \in 1..Len(levels[k])} :
          NextLevel(levels[k])[i] = sha256d(a, b)
    BY <2>2, <2>3, <2>6, ParentHasChildren, Zenon
  <2>8. QED
    BY <2>6, <2>7 DEF IsPairHash
<1>6. CASE n > r
  <2> DEFINE k == n - r - 1
  <2>1. k \in 0..(n - 1) /\ k + 1 = -(r - n) /\ r - n <= 0
    <3> HIDE DEF r, n
    <3>1. QED
      BY <1>1, <1>6
  <2>2. \/ current[k + 1] = sha256d(current[k], proof[k + 1])
        \/ current[k + 1] = sha256d(proof[k + 1], current[k])
    <3>1. k \in 0..(Len(proof) - 1)
      BY <2>1
    <3> HIDE DEF k
    <3>2. QED
      BY <3>1, CurrentHashStep
  <2> HIDE DEF levels, current, r, n, k
  <2>3. PICK i \in 1..Len(txids) : current[k + 1] = txids[i]
    BY <1>3, <2>1
  <2>4. QED
    BY <2>2, <2>3 DEF IsPairHash
<1>7. QED
  <2> HIDE DEF r, n, levels, current
  <2>1. QED
    BY <1>1, <1>4, <1>5, <1>6

\* One proof proves at most one transaction, whatever indices are claimed.
LEMMA ProofFixesTxid ==
  ASSUME CollisionFree,
         NEW txid, NEW index, NEW other_txid, NEW other_index,
         NEW proof, Len(proof) \in Nat,
         compute_merkle(txid, index, proof) =
           compute_merkle(other_txid, other_index, proof)
  PROVE  txid = other_txid
<1> DEFINE n == Len(proof)
           mine == CurrentHashes(txid, index, proof)
           other == CurrentHashes(other_txid, other_index, proof)
           T == {m \in Nat : m <= n => mine[n - m] = other[n - m]}
<1>1. mine[0] = txid /\ other[0] = other_txid
  BY CurrentHashesDef
<1>2. 0 \in T
  <2>1. mine[n] = other[n]
    BY DEF compute_merkle
  <2> HIDE DEF mine, other, n
  <2>2. n \in Nat => n - 0 = n
    OBVIOUS
  <2>3. n \in Nat
    BY DEF n
  <2>4. QED
    BY <2>1, <2>2, <2>3
<1>3. ASSUME NEW m \in Nat, m \in T PROVE m + 1 \in T
  <2> DEFINE k == n - (m + 1)
  <2>1. SUFFICES ASSUME m + 1 <= n PROVE mine[k] = other[k]
    OBVIOUS
  <2>2. k \in 0..(Len(proof) - 1) /\ k + 1 = n - m /\ m <= n
    BY <2>1
  <2>3. mine[k + 1] = other[k + 1]
    <3> HIDE DEF mine, other, k, n
    <3>1. mine[n - m] = other[n - m]
      BY <1>3, <2>2
    <3>2. QED
      BY <2>2, <3>1
  <2> HIDE DEF k
  <2>4. \/ mine[k + 1] = sha256d(mine[k], proof[k + 1])
        \/ mine[k + 1] = sha256d(proof[k + 1], mine[k])
    BY <2>2, CurrentHashStep
  <2>5. \/ other[k + 1] = sha256d(other[k], proof[k + 1])
        \/ other[k + 1] = sha256d(proof[k + 1], other[k])
    BY <2>2, CurrentHashStep
  <2>6. QED
    <3> HIDE DEF mine, other
    <3>1. QED
      BY <2>3, <2>4, <2>5 DEF CollisionFree
<1>4. n \in T
  <2> HIDE DEF T
  <2>1. QED
    BY <1>2, <1>3, SetInductionOnNat
<1>5. mine[0] = other[0]
  <2> HIDE DEF mine, other, n
  <2>1. n \in Nat
    BY DEF n
  <2>2. n - n = 0 /\ mine[n - n] = other[n - n]
    BY <1>4, <2>1
  <2>3. QED
    BY <2>2
<1>6. QED
  BY <1>1, <1>5

\* A proof that relay_tx made for one transaction of a block proves no other
\* one of it (verify_small_tx takes any tx_index): for every block whose
\* transactions differ, every position in it and every index.
THEOREM CreatedProofProvesNoOther ==
  ASSUME CollisionFree,
         NEW S, NEW txids \in Seq(S), NEW place \in 0..(Len(txids) - 1),
         NEW index,
         \A i, j \in 1..Len(txids) : txids[i] = txids[j] => i = j
  PROVE  ProvesNoOther(txids, place, index)
<1> DEFINE proof == create(txids, place)
<1>1. compute_merkle(txids[place + 1], place, proof) = Root(txids)
  BY CreatedProofVerifies DEF ProofVerifies
<1>2. Len(proof) \in Nat
  <2>1. Rounds(txids) \in Nat
    BY RoundsEnd
  <2> HIDE DEF proof
  <2>2. proof = [k \in 1..Rounds(txids) |->
                   LET offset == Offsets(place, Rounds(txids))[k - 1]
                   IN  Padded(Levels(txids)[k - 1])[Sibling(offset) + 1]]
    BY DEF create, proof
  <2>3. QED
    BY <2>1, <2>2
<1> HIDE DEF proof
<1>3. ASSUME NEW i \in 1..Len(txids),
             compute_merkle(txids[i], index, proof) = Root(txids)
      PROVE  i = place + 1
  <2>1. txids[i] = txids[place + 1]
    BY <1>1, <1>2, <1>3, ProofFixesTxid
  <2>2. place + 1 \in 1..Len(txids)
    OBVIOUS
  <2>3. QED
    BY <2>1, <2>2
<1>4. QED
  BY <1>3 DEF ProvesNoOther, proof

-----------------------------------------------------------------------------
(* Powers. *)

\* The recursive definition, one exponent after the other.
LEMMA PowerDef ==
  ASSUME NEW base \in Nat \ {0}
  PROVE  /\ Power(base, 0) = 1
         /\ \A n \in Nat : /\ Power(base, n) \in Nat \ {0}
                           /\ Power(base, n + 1) = base * Power(base, n)
<1> DEFINE Solves(g, n) ==
             g = [k \in 0..n |-> IF k = 0 THEN 1 ELSE base * g[k - 1]]
           T == {n \in Nat : \E g : Solves(g, n)}
           F(n) == CHOOSE g : Solves(g, n)
<1>1. 0 \in T
  <2>1. Solves([k \in 0..0 |-> 1], 0)
    OBVIOUS
  <2>2. QED
    BY <2>1
<1>2. ASSUME NEW n \in Nat, n \in T PROVE n + 1 \in T
  <2>1. PICK g : Solves(g, n)
    BY <1>2
  <2> DEFINE h == [k \in 0..(n + 1) |-> IF k = n + 1 THEN base * g[n] ELSE g[k]]
  <2>2. \A k \in 0..(n + 1) : h[k] = IF k = 0 THEN 1 ELSE base * h[k - 1]
    <3> TAKE k \in 0..(n + 1)
    <3>1. CASE k = 0
      BY <2>1, <3>1
    <3>2. CASE k = n + 1
      BY <3>2
    <3>3. CASE k \in 1..n
      <4>1. k \in 0..n /\ k - 1 \in 0..n /\ k # 0 /\ k # n + 1 /\ k - 1 # n + 1
        BY <3>3
      <4>2. g[k] = base * g[k - 1]
        BY <2>1, <4>1
      <4>3. h[k] = g[k] /\ h[k - 1] = g[k - 1]
        BY <4>1
      <4>4. QED
        BY <4>1, <4>2, <4>3
    <3>4. QED
      BY <3>1, <3>2, <3>3
  <2>3. Solves(h, n + 1)
    BY <2>2
  <2> HIDE DEF h
  <2>4. QED
    BY <2>3
<1>3. \A n \in Nat : Solves(F(n), n)
  <2>1. \A n \in Nat : \E g : Solves(g, n)
    <3> HIDE DEF Solves
    <3>1. QED
      BY <1>1, <1>2, SetInductionOnNat
  <2> HIDE DEF Solves
  <2>2. QED
    BY <2>1
<1>4. \A n \in Nat : Power(base, n) = F(n)[n]
  BY DEF Power
<1> HIDE DEF F
<1>5. ASSUME NEW n \in Nat
      PROVE  /\ F(n)[0] = 1
             /\ \A k \in 1..n : F(n)[k] = base * F(n)[k - 1]
  <2>1. F(n) = [k \in 0..n |-> IF k = 0 THEN 1 ELSE base * F(n)[k - 1]]
    BY <1>3
  <2>2. QED
    BY <2>1
<1>6. ASSUME NEW n \in Nat PROVE F(n + 1)[n] = F(n)[n]
  <2> DEFINE A == {k \in Nat : k <= n => F(n + 1)[k] = F(n)[k]}
  <2>1. 0 \in A
    BY <1>5
  <2>2. ASSUME NEW k \in Nat, k \in A PROVE k + 1 \in A
    <3>1. SUFFICES ASSUME k + 1 <= n PROVE F(n + 1)[k + 1] = F(n)[k + 1]
      OBVIOUS
    <3>2. /\ k + 1 \in 1..n /\ k + 1 \in 1..(n + 1) /\ (k + 1) - 1 = k /\ k <= n
          /\ n + 1 \in Nat
      BY <3>1
    <3>3. F(n + 1)[k + 1] = base * F(n + 1)[(k + 1) - 1]
      BY <1>5, <3>2
    <3>4. F(n)[k + 1] = base * F(n)[(k + 1) - 1]
      BY <1>5, <3>2
    <3>5. QED
      BY <2>2, <3>2, <3>3, <3>4
  <2> HIDE DEF A
  <2>3. n \in A
    BY <2>1, <2>2, SetInductionOnNat
  <2>4. QED
    BY <2>3 DEF A
<1>7. Power(base, 0) = 1
  BY <1>4, <1>5
<1>8. ASSUME NEW n \in Nat PROVE Power(base, n + 1) = base * Power(base, n)
  <2>1. n + 1 \in Nat /\ n + 1 \in 1..(n + 1) /\ (n + 1) - 1 = n
    OBVIOUS
  <2>2. F(n + 1)[n + 1] = base * F(n + 1)[(n + 1) - 1]
    BY <1>5, <2>1
  <2>3. Power(base, n + 1) = F(n + 1)[n + 1] /\ Power(base, n) = F(n)[n]
    BY <1>4, <2>1
  <2>4. QED
    BY <1>6, <2>1, <2>2, <2>3
<1> DEFINE P == {n \in Nat : Power(base, n) \in Nat \ {0}}
<1>9. 0 \in P
  BY <1>7
<1>10. ASSUME NEW n \in Nat, n \in P PROVE n + 1 \in P
  <2>1. base * Power(base, n) \in Nat \ {0}
    BY <1>10
  <2>2. QED
    BY <1>8, <2>1
<1>11. Nat \subseteq P
  <2> HIDE DEF P
  <2>1. QED
    BY <1>9, <1>10, SetInductionOnNat
<1>12. QED
  BY <1>7, <1>8, <1>11

-----------------------------------------------------------------------------
(* Bitcoin's merkle root. *)

\* The rows of Bitcoin's tree.
LEMMA BitcoinRowDef ==
  ASSUME NEW txids, Len(txids) \in Nat
  PROVE  BitcoinRow(txids) =
           [k \in 0..Len(txids) |->
              IF k = 0 THEN [i \in Nat |-> txids[i + 1]]
              ELSE [i \in Nat |->
                      sha256d(BitcoinRow(txids)[k - 1][2 * i],
                              BitcoinRow(txids)[k - 1]
                                [IF (2 * i + 1) * Power(2, k - 1) < Len(txids)
                                 THEN 2 * i + 1 ELSE 2 * i])]]
<1> DEFINE Above(r, k) ==
             [i \in Nat |-> sha256d(r[2 * i],
                                    r[IF (2 * i + 1) * Power(2, k - 1) < Len(txids)
                                      THEN 2 * i + 1 ELSE 2 * i])]
           Lowest == [i \in Nat |-> txids[i + 1]]
           Solves(g, n) ==
             g = [k \in 0..n |-> IF k = 0 THEN Lowest ELSE Above(g[k - 1], k)]
           T == {n \in Nat : \E g : Solves(g, n)}
<1> HIDE DEF Above, Lowest
<1>1. 0 \in T
  <2>1. Solves([k \in 0..0 |-> Lowest], 0)
    OBVIOUS
  <2>2. QED
    BY <2>1
<1>2. ASSUME NEW n \in Nat, n \in T PROVE n + 1 \in T
  <2>1. PICK g : Solves(g, n)
    BY <1>2
  <2> DEFINE h == [k \in 0..(n + 1) |-> IF k = n + 1 THEN Above(g[n], n + 1) ELSE g[k]]
  <2>2. \A k \in 0..(n + 1) : h[k] = IF k = 0 THEN Lowest ELSE Above(h[k - 1], k)
    <3> TAKE k \in 0..(n + 1)
    <3>1. CASE k = 0
      BY <2>1, <3>1
    <3>2. CASE k = n + 1
      <4>1. k # 0 /\ k - 1 = n /\ n # n + 1 /\ n \in 0..(n + 1)
        BY <3>2
      <4>2. QED
        BY <3>2, <4>1
    <3>3. CASE k \in 1..n
      <4>1. k \in 0..n /\ k - 1 \in 0..n /\ k # 0 /\ k # n + 1 /\ k - 1 # n + 1
        BY <3>3
      <4>2. g[k] = Above(g[k - 1], k)
        BY <2>1, <4>1
      <4>3. h[k] = g[k] /\ h[k - 1] = g[k - 1]
        BY <4>1
      <4>4. QED
        BY <4>1, <4>2, <4>3
    <3>4. QED
      BY <3>1, <3>2, <3>3
  <2>3. Solves(h, n + 1)
    BY <2>2
  <2> HIDE DEF h
  <2>4. QED
    BY <2>3
<1>3. PICK g : Solves(g, Len(txids))
  <2> HIDE DEF Solves
  <2>1. QED
    BY <1>1, <1>2, SetInductionOnNat
<1>4. QED
  BY <1>3 DEF BitcoinRow, Above, Lowest

LEMMA BitcoinRows ==
  ASSUME NEW txids, Len(txids) \in Nat
  PROVE  LET row == BitcoinRow(txids)
         IN  /\ \A i \in Nat : row[0][i] = txids[i + 1]
             /\ \A k \in 0..(Len(txids) - 1) : \A i \in Nat :
                  row[k + 1][i] =
                    sha256d(row[k][2 * i],
                            row[k][IF (2 * i + 1) * Power(2, k) < Len(txids)
                                   THEN 2 * i + 1 ELSE 2 * i])
<1> DEFINE row == BitcoinRow(txids)
           Above(k) == [i \in Nat |->
                          sha256d(row[k - 1][2 * i],
                                  row[k - 1][IF (2 * i + 1) * Power(2, k - 1) < Len(txids)
                                             THEN 2 * i + 1 ELSE 2 * i])]
           Lowest == [i \in Nat |-> txids[i + 1]]
<1>1. row = [k \in 0..Len(txids) |-> IF k = 0 THEN Lowest ELSE Above(k)]
  BY BitcoinRowDef
<1> HIDE DEF row, Above, Lowest
<1>2. row[0] = Lowest
  BY <1>1
<1>3. ASSUME NEW k \in 0..(Len(txids) - 1) PROVE row[k + 1] = Above(k + 1)
  <2>1. k + 1 \in 0..Len(txids) /\ k + 1 # 0
    OBVIOUS
  <2>2. QED
    BY <1>1, <2>1
<1>4. ASSUME NEW k \in 0..(Len(txids) - 1) PROVE (k + 1) - 1 = k
  OBVIOUS
<1>5. \A i \in Nat : row[0][i] = txids[i + 1]
  BY <1>2 DEF Lowest
<1>6. ASSUME NEW k \in 0..(Len(txids) - 1), NEW i \in Nat
      PROVE  row[k + 1][i] =
               sha256d(row[k][2 * i],
                       row[k][IF (2 * i + 1) * Power(2, k) < Len(txids)
                              THEN 2 * i + 1 ELSE 2 * i])
  <2>1. row[k + 1] = Above(k + 1) /\ (k + 1) - 1 = k
    BY <1>3, <1>4
  <2>2. Above(k + 1)[i] =
          sha256d(row[(k + 1) - 1][2 * i],
                  row[(k + 1) - 1][IF (2 * i + 1) * Power(2, (k + 1) - 1) < Len(txids)
                                   THEN 2 * i + 1 ELSE 2 * i])
    BY DEF Above
  <2>3. QED
    BY <2>1, <2>2
<1>7. QED
  BY <1>5, <1>6 DEF row

\* One hash of the row above.
LEMMA BitcoinRowAbove ==
  ASSUME NEW txids, Len(txids) \in Nat, NEW k \in 0..(Len(txids) - 1), NEW i \in Nat
  PROVE  BitcoinRow(txids)[k + 1][i] =
           sha256d(BitcoinRow(txids)[k][2 * i],
                   BitcoinRow(txids)[k][IF (2 * i + 1) * Power(2, k) < Len(txids)
                                        THEN 2 * i + 1 ELSE 2 * i])
<1> DEFINE row == BitcoinRow(txids)
           n == Len(txids)
<1>1. \A j \in 0..(n - 1) : \A h \in Nat :
        row[j + 1][h] = sha256d(row[j][2 * h],
                                row[j][IF (2 * h + 1) * Power(2, j) < n
                                       THEN 2 * h + 1 ELSE 2 * h])
  BY BitcoinRows
<1>2. k \in 0..(n - 1)
  OBVIOUS
<1> HIDE DEF row, n
<1>3. row[k + 1][i] = sha256d(row[k][2 * i],
                              row[k][IF (2 * i + 1) * Power(2, k) < n
                                     THEN 2 * i + 1 ELSE 2 * i])
  BY <1>1, <1>2
<1>4. QED
  BY <1>3 DEF row, n

\* A row of L hashes, of which each stands for p transactions, spans n
\* transactions when it reaches n, and not without its last hash.
Spans(L, p, n) == L * p >= n /\ (L - 1) * p < n

LEMMA SpannedIndex ==
  ASSUME NEW L \in Nat \ {0}, NEW p \in Nat \ {0}, NEW n \in Nat, Spans(L, p, n),
         NEW j \in Nat
  PROVE  j < L <=> j * p < n
<1>1. CASE j < L
  <2>1. j <= L - 1 /\ L - 1 \in Nat
    BY <1>1
  <2>2. j * p <= (L - 1) * p
    BY <2>1
  <2>3. j * p \in Nat /\ (L - 1) * p \in Nat
    BY <2>1
  <2>4. QED
    BY <1>1, <2>2, <2>3 DEF Spans
<1>2. CASE ~(j < L)
  <2>1. L * p <= j * p
    BY <1>2
  <2>2. j * p \in Nat /\ L * p \in Nat
    OBVIOUS
  <2>3. QED
    BY <1>2, <2>1, <2>2 DEF Spans
<1>3. QED
  BY <1>1, <1>2

\* Half as many hashes, of twice the transactions.
LEMMA SpansHalf ==
  ASSUME NEW L \in Nat \ {0}, NEW p \in Nat \ {0}, NEW n \in Nat, Spans(L, p, n)
  PROVE  Spans((L + 1) \div 2, 2 * p, n)
<1> DEFINE H == (L + 1) \div 2
<1>1. H \in Nat \ {0} /\ 2 * H >= L /\ 2 * H - 2 <= L - 1 /\ 2 * H - 2 \in Nat
  OBVIOUS
<1> HIDE DEF H
<1>2. H * (2 * p) = (2 * H) * p /\ (H - 1) * (2 * p) = (2 * H - 2) * p
  BY <1>1
<1>3. L * p <= (2 * H) * p /\ (2 * H - 2) * p <= (L - 1) * p
  <2>1. ASSUME NEW a \in Nat, NEW b \in Nat, a <= b PROVE a * p <= b * p
    BY <2>1
  <2>2. L \in Nat /\ 2 * H \in Nat /\ L - 1 \in Nat /\ L <= 2 * H
    BY <1>1
  <2>3. QED
    BY <1>1, <2>1, <2>2
<1>4. /\ L * p \in Nat /\ (2 * H) * p \in Nat /\ (L - 1) * p \in Nat
      /\ (2 * H - 2) * p \in Nat
  BY <1>1
<1>5. H * (2 * p) >= n /\ (H - 1) * (2 * p) < n
  BY <1>2, <1>3, <1>4 DEF Spans
<1>6. QED
  BY <1>5 DEF Spans, H

\* Level k of the relayer's tree is row k of Bitcoin's.
LevelIsRow(txids, k) ==
  LET level == Levels(txids)[k]
  IN  /\ \E R : level \in Seq(R)
      /\ Len(level) \in Nat \ {0}
      /\ Spans(Len(level), Power(2, k), Len(txids))
      /\ \A i \in 0..(Len(level) - 1) : level[i + 1] = BitcoinRow(txids)[k][i]

LEMMA NextLevelIsRow ==
  ASSUME NEW S, NEW txids \in Seq(S), NEW k \in 0..(Len(txids) - 1),
         LevelIsRow(txids, k), Len(Levels(txids)[k]) > 1
  PROVE  LevelIsRow(txids, k + 1)
<1> DEFINE n == Len(txids)
           level == Levels(txids)[k]
           next == Levels(txids)[k + 1]
           row == BitcoinRow(txids)
           L == Len(level)
           p == Power(2, k)
<1>1. /\ n \in Nat /\ k \in Nat /\ k \in 0..n /\ k + 1 \in 0..n
      /\ k + 1 # 0 /\ (k + 1) - 1 = k
  OBVIOUS
<1>2. p \in Nat \ {0} /\ Power(2, k + 1) = 2 * p
  BY <1>1, PowerDef
<1>3. next = NextLevel(level)
  BY <1>1, LevelsDef
<1>4. PICK R : level \in Seq(R)
  BY DEF LevelIsRow
<1>5. /\ L \in Nat \ {0} /\ L > 1 /\ Spans(L, p, n)
      /\ \A i \in 0..(L - 1) : level[i + 1] = row[k][i]
  BY DEF LevelIsRow
<1> HIDE DEF level, next
<1>6. /\ \E Q : next \in Seq(Q)
      /\ Len(next) = (L + 1) \div 2
      /\ \A i \in 1..((L + 1) \div 2) :
           next[i] = sha256d(Padded(level)[2 * i - 1], Padded(level)[2 * i])
  BY <1>3, <1>4, <1>5, NextLevelShape
<1>7. Spans(Len(next), Power(2, k + 1), n)
  <2> HIDE DEF L, p, n
  <2>1. QED
    BY <1>1, <1>2, <1>5, <1>6, SpansHalf
<1>8. ASSUME NEW i \in 0..(Len(next) - 1) PROVE next[i + 1] = row[k + 1][i]
  <2> HIDE DEF L, p, n
  <2>1. /\ i \in Nat /\ i + 1 \in 1..((L + 1) \div 2)
        /\ 2 * i \in 0..(L - 1) /\ 2 * i + 1 \in Nat
        /\ 2 * (i + 1) - 1 = 2 * i + 1 /\ 2 * (i + 1) = (2 * i + 1) + 1
    BY <1>5, <1>6
  <2>2. next[i + 1] = sha256d(Padded(level)[2 * i + 1], Padded(level)[(2 * i + 1) + 1])
    BY <1>6, <2>1
  <2>3. row[k + 1][i] =
          sha256d(row[k][2 * i],
                  row[k][IF (2 * i + 1) * p < n THEN 2 * i + 1 ELSE 2 * i])
    <3>1. k \in 0..(Len(txids) - 1) /\ i \in Nat
      BY <2>1
    <3>2. Len(txids) \in Nat
      OBVIOUS
    <3>3. BitcoinRow(txids)[k + 1][i] =
            sha256d(BitcoinRow(txids)[k][2 * i],
                    BitcoinRow(txids)[k][IF (2 * i + 1) * Power(2, k) < Len(txids)
                                         THEN 2 * i + 1 ELSE 2 * i])
      BY <3>1, <3>2, BitcoinRowAbove
    <3>4. QED
      BY <3>3 DEF n, p
  <2>4. 2 * i + 1 < L <=> (2 * i + 1) * p < n
    <3> DEFINE j == 2 * i + 1
    <3>1. j \in Nat
      BY <2>1
    <3> HIDE DEF j
    <3>2. j < L <=> j * p < n
      BY <1>1, <1>2, <1>5, <3>1, SpannedIndex
    <3>3. QED
      BY <3>2 DEF j
  <2>5. Padded(level)[2 * i + 1] = row[k][2 * i]
    <3>1. 2 * i + 1 \in 1..L
      BY <1>5, <2>1
    <3>2. Padded(level)[2 * i + 1] = level[2 * i + 1]
      BY <1>4, <1>5, <3>1, PaddedShape DEF L
    <3>3. QED
      BY <1>5, <2>1, <3>2
  <2>6. Padded(level)[(2 * i + 1) + 1]
          = row[k][IF (2 * i + 1) * p < n THEN 2 * i + 1 ELSE 2 * i]
    <3>1. CASE 2 * i + 1 < L
      <4>1. (2 * i + 1) + 1 \in 1..L /\ 2 * i + 1 \in 0..(L - 1)
        BY <1>5, <2>1, <3>1
      <4>2. Padded(level)[(2 * i + 1) + 1] = level[(2 * i + 1) + 1]
        BY <1>4, <1>5, <4>1, PaddedShape DEF L
      <4>3. level[(2 * i + 1) + 1] = row[k][2 * i + 1]
        BY <1>5, <4>1
      <4>4. QED
        BY <2>4, <3>1, <4>2, <4>3
    <3>2. CASE ~(2 * i + 1 < L)
      <4>1. 2 * i + 1 = L /\ L % 2 # 0 /\ (2 * i + 1) + 1 = L + 1
        <5>1. 2 * i + 1 = L
          BY <1>5, <2>1, <3>2
        <5>2. ASSUME NEW j \in Nat PROVE (2 * j + 1) % 2 # 0
          OBVIOUS
        <5>3. QED
          BY <2>1, <5>1, <5>2
      <4>2. Padded(level) = Append(level, level[L])
        BY <4>1 DEF Padded, L
      <4>3. level[L] \in R
        BY <1>4, <1>5 DEF L
      <4>4. Padded(level)[L + 1] = level[L]
        BY <1>4, <4>2, <4>3 DEF L
      <4>5. level[L] = row[k][2 * i]
        BY <1>5, <2>1, <4>1
      <4>6. QED
        BY <2>4, <3>2, <4>1, <4>4, <4>5
    <3>3. QED
      BY <3>1, <3>2
  <2>7. QED
    BY <2>2, <2>3, <2>5, <2>6
<1>9. Len(next) \in Nat \ {0}
  BY <1>5, <1>6
<1> HIDE DEF row, n
<1>10. QED
  BY <1>6, <1>7, <1>8, <1>9 DEF LevelIsRow, next, n, row

\* The relayer's levels end in Bitcoin's merkle root: for a block of any size,
\* duplicating the last hash of every odd level is Bitcoin's rule.
THEOREM RelayerRootIsBitcoins ==
  ASSUME NEW S, NEW txids \in Seq(S), txids # <<>>
  PROVE  Root(txids) = BitcoinRoot(txids)
<1> DEFINE n == Len(txids)
           r == Rounds(txids)
           levels == Levels(txids)
           T == {k \in Nat : k <= r => LevelIsRow(txids, k)}
<1>1. /\ n \in Nat \ {0} /\ r \in 0..n /\ Len(levels[r]) = 1
      /\ \A j \in 0..(r - 1) : Len(levels[j]) > 1
  <2>1. n \in Nat \ {0}
    OBVIOUS
  <2>2. r \in 0..n /\ Len(levels[r]) = 1 /\ Unfinished(txids, r)
    BY RoundsEnd
  <2>3. QED
    BY <2>1, <2>2 DEF Unfinished
<1>2. 0 \in T
  <2>1. levels[0] = txids
    BY LevelsDef
  <2>2. \A i \in Nat : BitcoinRow(txids)[0][i] = txids[i + 1]
    BY <1>1, BitcoinRows
  <2>3. Spans(n, Power(2, 0), n)
    <3>1. Power(2, 0) = 1
      BY PowerDef
    <3>2. n * 1 >= n /\ (n - 1) * 1 < n
      BY <1>1
    <3>3. QED
      BY <3>1, <3>2 DEF Spans
  <2>4. \A i \in 0..(n - 1) : txids[i + 1] = BitcoinRow(txids)[0][i]
    <3> HIDE DEF n
    <3> TAKE i \in 0..(n - 1)
    <3>1. i \in Nat
      BY <1>1
    <3>2. QED
      BY <2>2, <3>1
  <2>5. LevelIsRow(txids, 0)
    BY <1>1, <2>1, <2>3, <2>4 DEF LevelIsRow
  <2>6. QED
    BY <2>5
<1>3. ASSUME NEW k \in Nat, k \in T PROVE k + 1 \in T
  <2>1. SUFFICES ASSUME k + 1 <= r PROVE LevelIsRow(txids, k + 1)
    OBVIOUS
  <2>2. k \in 0..(n - 1) /\ k \in 0..(r - 1) /\ k <= r
    BY <1>1, <2>1
  <2>3. LevelIsRow(txids, k) /\ Len(levels[k]) > 1
    BY <1>1, <1>3, <2>2
  <2>4. QED
    BY <2>2, <2>3, NextLevelIsRow
<1>4. \A k \in 0..r : LevelIsRow(txids, k)
  <2>1. Nat \subseteq T
    <3> HIDE DEF T
    <3>1. QED
      BY <1>2, <1>3, SetInductionOnNat
  <2>2. QED
    BY <1>1, <2>1
<1>5. ASSUME NEW k \in 0..r PROVE Power(2, k) \in Nat /\ (k < r <=> Power(2, k) < n)
  <2> DEFINE L == Len(levels[k])
  <2>1. /\ L \in Nat \ {0} /\ Spans(L, Power(2, k), n)
        /\ Power(2, k) \in Nat \ {0} /\ (L > 1 <=> k < r)
    <3>1. k \in Nat
      BY <1>1
    <3>2. L \in Nat \ {0} /\ Spans(L, Power(2, k), n)
      BY <1>4 DEF LevelIsRow
    <3>3. Power(2, k) \in Nat \ {0}
      BY <3>1, PowerDef
    <3>4. L > 1 <=> k < r
      <4>1. CASE k < r
        <5>1. k \in 0..(r - 1)
          BY <1>1, <4>1
        <5>2. QED
          BY <1>1, <4>1, <5>1
      <4>2. CASE ~(k < r)
        <5>1. k = r
          BY <1>1, <4>2
        <5>2. L = 1
          BY <1>1, <5>1
        <5>3. QED
          BY <4>2, <5>2
      <4>3. QED
        BY <4>1, <4>2
    <3>5. QED
      BY <3>2, <3>3, <3>4
  <2> HIDE DEF L, n
  <2>2. 1 < L <=> 1 * Power(2, k) < n
    <3>1. 1 \in Nat /\ n \in Nat
      BY <1>1
    <3> DEFINE power == Power(2, k)
    <3> HIDE DEF power
    <3>2. L \in Nat \ {0} /\ power \in Nat \ {0} /\ Spans(L, power, n)
      BY <2>1 DEF power
    <3>3. 1 < L <=> 1 * power < n
      BY <3>1, <3>2, SpannedIndex
    <3>4. QED
      BY <3>3 DEF power
  <2> DEFINE power == Power(2, k)
  <2> HIDE DEF power
  <2>3. power \in Nat /\ (L > 1 <=> k < r) /\ (1 < L <=> 1 * power < n) /\ L \in Nat
    BY <2>1, <2>2 DEF power
  <2>4. power \in Nat /\ (k < r <=> power < n)
    BY <2>3
  <2>5. QED
    BY <2>4 DEF power
<1> DEFINE First(k) == Power(2, k) >= n /\ \A j \in 0..(k - 1) : Power(2, j) < n
           height == CHOOSE k \in 0..n : First(k)
<1> HIDE DEF n, levels, T
<1>6. First(r)
  <2>1. r \in 0..r /\ n \in Nat
    BY <1>1
  <2>2. Power(2, r) \in Nat /\ ~(Power(2, r) < n)
    BY <1>5, <2>1
  <2>3. Power(2, r) >= n
    <3> DEFINE power == Power(2, r)
    <3>1. power \in Nat /\ ~(power < n)
      BY <2>2
    <3> HIDE DEF power
    <3>2. power >= n
      BY <2>1, <3>1
    <3>3. QED
      BY <3>2 DEF power
  <2>4. ASSUME NEW j \in 0..(r - 1) PROVE Power(2, j) < n
    <3>1. j \in 0..r /\ j < r
      BY <1>1
    <3>2. QED
      BY <1>5, <3>1
  <2>5. QED
    BY <2>3, <2>4
<1>7. ASSUME NEW k \in 0..n, First(k) PROVE k = r
  <2>1. CASE k < r
    <3>1. k \in 0..r
      BY <1>1, <2>1
    <3>2. QED
      BY <1>1, <1>5, <1>7, <2>1, <3>1
  <2>2. CASE k > r
    <3>1. r \in 0..(k - 1) /\ r \in 0..r
      BY <1>1, <2>2
    <3>2. QED
      BY <1>1, <1>5, <1>7, <3>1
  <2>3. QED
    BY <1>1, <2>1, <2>2
<1> HIDE DEF First
<1>8. height = r
  BY <1>1, <1>6, <1>7
<1>9. BitcoinRoot(txids) = BitcoinRow(txids)[height][0]
  BY DEF BitcoinRoot, height, First, n
<1>10. levels[r][1] = BitcoinRow(txids)[r][0]
  <2>1. LevelIsRow(txids, r) /\ 0 \in 0..(Len(levels[r]) - 1)
    BY <1>1, <1>4
  <2>2. levels[r][0 + 1] = BitcoinRow(txids)[r][0]
    BY <2>1 DEF LevelIsRow, levels
  <2>3. QED
    BY <2>2
<1>11. QED
  BY <1>8, <1>9, <1>10 DEF Root, levels

-----------------------------------------------------------------------------
(* Division. *)

LEMMA DivMod ==
  ASSUME NEW n \in Nat, NEW m \in Nat \ {0}
  PROVE  /\ n \div m \in Nat /\ n % m \in 0..(m - 1)
         /\ n = (n \div m) * m + (n % m)
OBVIOUS

LEMMA DivModUnique ==
  ASSUME NEW m \in Nat \ {0}, NEW q \in Nat, NEW r \in 0..(m - 1)
  PROVE  (q * m + r) \div m = q /\ (q * m + r) % m = r
OBVIOUS

LEMMA DivDiv ==
  ASSUME NEW n \in Nat, NEW a \in Nat \ {0}, NEW b \in Nat \ {0}
  PROVE  n \div (a * b) = (n \div a) \div b
OBVIOUS

LEMMA DivReaches ==
  ASSUME NEW n \in Nat, NEW m \in Nat \ {0}, NEW h \in Nat
  PROVE  n >= h * m <=> n \div m >= h
OBVIOUS

LEMMA ModSum ==
  ASSUME NEW n \in Nat, NEW k \in Nat, NEW m \in Nat \ {0}
  PROVE  ((n % m) + k) % m = (n + k) % m
<1> DEFINE q == n \div m
           s == (n % m) + k
           a == s \div m
           r == s % m
<1>1. q \in Nat /\ n % m \in 0..(m - 1) /\ n = q * m + (n % m)
  BY DivMod
<1>2. s \in Nat
  BY <1>1
<1> HIDE DEF s, q
<1>3. a \in Nat /\ r \in 0..(m - 1) /\ s = a * m + r
  BY <1>2, DivMod
<1> HIDE DEF a
<1>4. n + k = q * m + s
  BY <1>1 DEF s
<1> HIDE DEF r
<1>5. q * m + (a * m + r) = (q + a) * m + r
  BY <1>1, <1>3
<1> DEFINE w == q + a
<1>6. n + k = w * m + r /\ w \in Nat
  BY <1>1, <1>3, <1>4, <1>5
<1> HIDE DEF w
<1>7. (n + k) % m = r
  BY <1>3, <1>6, DivModUnique
<1>8. QED
  BY <1>7 DEF r, s

\* The remainder by a product, one factor after the other.
LEMMA ModProduct ==
  ASSUME NEW n \in Nat, NEW a \in Nat \ {0}, NEW b \in Nat \ {0}
  PROVE  ((n \div b) % a) * b + (n % b) = n % (b * a)
<1> DEFINE q == n \div b
           r == n % b
           u == q \div a
           v == q % a
<1>1. q \in Nat /\ r \in 0..(b - 1) /\ n = q * b + r
  BY DivMod
<1> HIDE DEF q, r
<1>2. u \in Nat /\ v \in 0..(a - 1) /\ q = u * a + v
  BY <1>1, DivMod
<1> HIDE DEF u, v
<1>3. n = u * (b * a) + (v * b + r)
  <2>1. (u * a + v) * b = u * (b * a) + v * b
    BY <1>2
  <2>2. v * b \in Nat /\ u * (b * a) \in Nat
    BY <1>2
  <2>3. QED
    BY <1>1, <1>2, <2>1, <2>2
<1>4. v * b + r \in 0..(b * a - 1) /\ b * a \in Nat \ {0}
  <2>1. v \in Nat /\ v <= a - 1 /\ a - 1 \in Nat
    BY <1>2
  <2>2. v * b <= (a - 1) * b
    BY <2>1
  <2>3. (a - 1) * b = b * a - b /\ v * b \in Nat /\ b * a \in Nat \ {0}
    BY <2>1
  <2>4. QED
    BY <1>1, <2>2, <2>3
<1>5. n % (b * a) = v * b + r
  BY <1>2, <1>3, <1>4, DivModUnique
<1>6. QED
  BY <1>5 DEF q, r, u, v

\* Two numbers compare as their leading parts, and then as their last digits.
LEMMA CompareDigit ==
  ASSUME NEW b \in Nat \ {0}, NEW p \in Nat, NEW q \in Nat,
         NEW x \in 0..(b - 1), NEW y \in 0..(b - 1)
  PROVE  p * b + x > q * b + y <=> p > q \/ (p = q /\ x > y)
OBVIOUS

-----------------------------------------------------------------------------
(* Numbers as arrays. *)

Digits == [Positions -> Nat]

LEMMA PrefixesDef ==
  ASSUME NEW arr
  PROVE  /\ Prefixes(arr)[-1] = 0
         /\ \A pos \in Positions :
              Prefixes(arr)[pos] = Prefixes(arr)[pos - 1] * BASE + arr[pos]
<1> DEFINE Solves(g, n) ==
             g = [pos \in -1..(n - 1) |->
                    IF pos = -1 THEN 0 ELSE g[pos - 1] * BASE + arr[pos]]
           T == {n \in Nat : \E g : Solves(g, n)}
<1>1. 0 \in T
  <2>1. Solves([pos \in -1..(0 - 1) |-> 0], 0)
    OBVIOUS
  <2>2. QED
    BY <2>1
<1>2. ASSUME NEW n \in Nat, n \in T PROVE n + 1 \in T
  <2>1. PICK g : Solves(g, n)
    BY <1>2
  <2> DEFINE h == [pos \in -1..((n + 1) - 1) |->
                     IF pos = n THEN g[n - 1] * BASE + arr[n] ELSE g[pos]]
  <2>2. \A pos \in -1..((n + 1) - 1) :
          h[pos] = IF pos = -1 THEN 0 ELSE h[pos - 1] * BASE + arr[pos]
    <3> TAKE pos \in -1..((n + 1) - 1)
    <3>1. CASE pos = -1
      BY <2>1, <3>1
    <3>2. CASE pos = n
      <4>1. pos # -1 /\ pos - 1 = n - 1 /\ n - 1 # n /\ n - 1 \in -1..((n + 1) - 1)
        BY <3>2
      <4>2. QED
        BY <3>2, <4>1
    <3>3. CASE pos \in 0..(n - 1)
      <4>1. /\ pos \in -1..(n - 1) /\ pos - 1 \in -1..((n + 1) - 1)
            /\ pos # -1 /\ pos # n /\ pos - 1 # n
        BY <3>3
      <4>2. g[pos] = g[pos - 1] * BASE + arr[pos]
        BY <2>1, <4>1
      <4>3. h[pos] = g[pos] /\ h[pos - 1] = g[pos - 1]
        BY <4>1
      <4>4. QED
        BY <4>1, <4>2, <4>3
    <3>4. pos = -1 \/ pos = n \/ pos \in 0..(n - 1)
      OBVIOUS
    <3>5. QED
      BY <3>1, <3>2, <3>3, <3>4
  <2>3. Solves(h, n + 1)
    BY <2>2
  <2> HIDE DEF h
  <2>4. QED
    BY <2>3
<1>3. SIZE \in Nat
  BY ArrayAssumption
<1>4. PICK g : Solves(g, SIZE)
  <2> HIDE DEF Solves
  <2>1. QED
    BY <1>1, <1>2, <1>3, SetInductionOnNat
<1>5. Prefixes(arr) = [pos \in -1..(SIZE - 1) |->
                         IF pos = -1 THEN 0
                         ELSE Prefixes(arr)[pos - 1] * BASE + arr[pos]]
  BY <1>4 DEF Prefixes
<1>6. -1 \in -1..(SIZE - 1)
  BY <1>3
<1>7. ASSUME NEW pos \in Positions PROVE pos \in -1..(SIZE - 1) /\ pos # -1
  BY <1>3 DEF Positions
<1>8. QED
  BY <1>5, <1>6, <1>7

\* A prefix is a number, and the quotient of the whole by the places left out.
LEMMA PrefixType ==
  ASSUME NEW arr \in Digits
  PROVE  \A pos \in -1..(SIZE - 1) : Prefixes(arr)[pos] \in Nat
<1> DEFINE T == {n \in Nat : n <= SIZE => Prefixes(arr)[n - 1] \in Nat}
<1>1. SIZE \in Nat /\ BASE \in Nat
  BY ArrayAssumption
<1>2. 0 \in T
  BY PrefixesDef
<1>3. ASSUME NEW n \in Nat, n \in T PROVE n + 1 \in T
  <2>1. SUFFICES ASSUME n + 1 <= SIZE PROVE Prefixes(arr)[(n + 1) - 1] \in Nat
    OBVIOUS
  <2>2. n \in Positions /\ (n + 1) - 1 = n /\ n <= SIZE
    BY <1>1, <2>1 DEF Positions
  <2>3. Prefixes(arr)[n] = Prefixes(arr)[n - 1] * BASE + arr[n]
    BY <2>2, PrefixesDef
  <2>4. Prefixes(arr)[n - 1] \in Nat /\ arr[n] \in Nat
    BY <1>3, <2>2 DEF Digits
  <2> HIDE DEF Digits
  <2>5. Prefixes(arr)[n - 1] * BASE + arr[n] \in Nat
    BY <1>1, <2>4
  <2>6. QED
    BY <2>2, <2>3, <2>5
<1>4. Nat \subseteq T
  <2> HIDE DEF T
  <2>1. QED
    BY <1>2, <1>3, SetInductionOnNat
<1>5. ASSUME NEW pos \in -1..(SIZE - 1) PROVE Prefixes(arr)[pos] \in Nat
  <2>1. pos + 1 \in Nat /\ pos + 1 <= SIZE /\ (pos + 1) - 1 = pos
    BY <1>1
  <2>2. QED
    BY <1>4, <2>1
<1>6. QED
  BY <1>5

LEMMA ArrayIsDigits == Array \subseteq Digits /\ \A arr \in Array : \A pos \in Positions :
                         arr[pos] \in 0..(BASE - 1)
BY ArrayAssumption DEF Array, Digits, Bytes

LEMMA PrefixIsQuotient ==
  ASSUME NEW arr \in Array, NEW k \in 0..SIZE
  PROVE  Prefixes(arr)[SIZE - 1 - k] = Value(arr) \div Power(BASE, k)
<1> DEFINE P(n) == Prefixes(arr)[SIZE - 1 - n]
           T == {n \in Nat : n <= SIZE => P(n) = Value(arr) \div Power(BASE, n)}
<1>1. SIZE \in Nat /\ BASE \in Nat \ {0}
  BY ArrayAssumption
<1>2. /\ Power(BASE, 0) = 1
      /\ \A n \in Nat : Power(BASE, n) \in Nat \ {0} /\ Power(BASE, n + 1) = BASE * Power(BASE, n)
  BY <1>1, PowerDef
<1>3. \A pos \in -1..(SIZE - 1) : Prefixes(arr)[pos] \in Nat
  BY ArrayIsDigits, PrefixType
<1>4. Value(arr) \in Nat
  BY <1>1, <1>3 DEF Value
<1>5. 0 \in T
  <2>1. Value(arr) \div 1 = Value(arr) /\ SIZE - 1 - 0 = SIZE - 1
    BY <1>1, <1>4
  <2>2. QED
    BY <1>2, <2>1 DEF Value
<1>6. ASSUME NEW n \in Nat, n \in T PROVE n + 1 \in T
  <2>1. SUFFICES ASSUME n + 1 <= SIZE
                 PROVE  P(n + 1) = Value(arr) \div Power(BASE, n + 1)
    OBVIOUS
  <2> DEFINE pos == SIZE - 1 - n
  <2>2. pos \in Positions /\ pos - 1 = SIZE - 1 - (n + 1) /\ n <= SIZE
        /\ pos - 1 \in -1..(SIZE - 1) /\ pos \in -1..(SIZE - 1)
    BY <1>1, <2>1 DEF Positions
  <2>3. Prefixes(arr)[pos] = Value(arr) \div Power(BASE, n)
    BY <1>6, <2>2
  <2> HIDE DEF pos
  <2>4. /\ Prefixes(arr)[pos] = Prefixes(arr)[pos - 1] * BASE + arr[pos]
        /\ arr[pos] \in 0..(BASE - 1) /\ Prefixes(arr)[pos - 1] \in Nat
    BY <1>3, <2>2, PrefixesDef, ArrayIsDigits
  <2>5. Prefixes(arr)[pos] \div BASE = Prefixes(arr)[pos - 1]
    <3> DEFINE q == Prefixes(arr)[pos - 1]
               r == arr[pos]
    <3>1. q \in Nat /\ r \in 0..(BASE - 1) /\ Prefixes(arr)[pos] = q * BASE + r
      BY <2>4
    <3> HIDE DEF q, r
    <3>2. QED
      BY <1>1, <3>1, DivModUnique DEF q
  <2>6. Value(arr) \div (Power(BASE, n) * BASE) = (Value(arr) \div Power(BASE, n)) \div BASE
    <3> DEFINE v == Value(arr)
               power == Power(BASE, n)
    <3>1. v \in Nat /\ power \in Nat \ {0} /\ BASE \in Nat \ {0}
      BY <1>1, <1>2, <1>4
    <3> HIDE DEF v, power
    <3>2. v \div (power * BASE) = (v \div power) \div BASE
      BY <3>1, DivDiv
    <3>3. QED
      BY <3>2 DEF v, power
  <2>7. Power(BASE, n + 1) = Power(BASE, n) * BASE
    <3>1. Power(BASE, n + 1) = BASE * Power(BASE, n) /\ Power(BASE, n) \in Nat
      BY <1>2
    <3> DEFINE w == Power(BASE, n)
    <3> HIDE DEF w
    <3>2. w \in Nat => BASE * w = w * BASE
      BY <1>1
    <3>3. QED
      BY <3>1, <3>2 DEF w
  <2>8. QED
    BY <2>2, <2>3, <2>5, <2>6, <2>7
<1>7. k \in T
  <2> HIDE DEF T
  <2>1. k \in Nat
    BY <1>1
  <2>2. QED
    BY <1>5, <1>6, <2>1, SetInductionOnNat
<1>8. QED
  BY <1>1, <1>7

\* Bytes that are 0 from a position on.
LEMMA TrailingZeros ==
  ASSUME NEW arr \in Array, NEW k \in 0..SIZE,
         \A pos \in Positions : pos >= SIZE - k => arr[pos] = 0
  PROVE  Value(arr) = Prefixes(arr)[SIZE - 1 - k] * Power(BASE, k)
<1> DEFINE v == Value(arr)
           P == Prefixes(arr)
           T == {n \in Nat : n <= k => v = P[SIZE - 1 - n] * Power(BASE, n)}
<1>1. SIZE \in Nat /\ BASE \in Nat \ {0} /\ k \in Nat /\ k <= SIZE
  BY ArrayAssumption
<1>2. /\ Power(BASE, 0) = 1
      /\ \A n \in Nat : Power(BASE, n) \in Nat \ {0} /\ Power(BASE, n + 1) = BASE * Power(BASE, n)
  BY <1>1, PowerDef
<1>3. \A pos \in -1..(SIZE - 1) : P[pos] \in Nat
  BY ArrayIsDigits, PrefixType
<1>4. v = P[SIZE - 1]
  BY DEF Value
<1> HIDE DEF P, v
<1>5. 0 \in T
  <2>1. SIZE - 1 - 0 = SIZE - 1 /\ P[SIZE - 1] * 1 = P[SIZE - 1]
    BY <1>1, <1>3
  <2>2. QED
    BY <1>2, <1>4, <2>1
<1>6. ASSUME NEW n \in Nat, n \in T PROVE n + 1 \in T
  <2>1. SUFFICES ASSUME n + 1 <= k
                 PROVE  v = P[SIZE - 1 - (n + 1)] * Power(BASE, n + 1)
    OBVIOUS
  <2> DEFINE pos == SIZE - 1 - n
  <2>2. /\ pos \in Positions /\ pos >= SIZE - k /\ n <= k
        /\ pos - 1 = SIZE - 1 - (n + 1) /\ pos - 1 \in -1..(SIZE - 1)
    BY <1>1, <2>1 DEF Positions
  <2>3. v = P[pos] * Power(BASE, n)
    BY <1>6, <2>2
  <2> HIDE DEF pos
  <2>4. P[pos] = P[pos - 1] * BASE + arr[pos] /\ arr[pos] = 0
    BY <2>2, PrefixesDef DEF P
  <2> DEFINE a == P[pos - 1]
             w == Power(BASE, n)
  <2>5. a \in Nat /\ w \in Nat /\ v = (a * BASE + 0) * w /\ Power(BASE, n + 1) = BASE * w
    BY <1>2, <1>3, <2>2, <2>3, <2>4
  <2> HIDE DEF a, w
  <2>6. v = a * (BASE * w)
    BY <1>1, <2>5
  <2>7. QED
    BY <2>2, <2>5, <2>6 DEF a
<1>7. k \in T
  <2> HIDE DEF T
  <2>1. QED
    BY <1>1, <1>5, <1>6, SetInductionOnNat
<1>8. QED
  BY <1>1, <1>7 DEF P, v

\* Two arrays whose first bytes agree.
LEMMA PrefixesAgree ==
  ASSUME NEW a, NEW b, NEW n \in 0..SIZE,
         \A pos \in Positions : pos < n => a[pos] = b[pos]
  PROVE  Prefixes(a)[n - 1] = Prefixes(b)[n - 1]
<1> DEFINE T == {m \in Nat : m <= n => Prefixes(a)[m - 1] = Prefixes(b)[m - 1]}
<1>1. SIZE \in Nat /\ n \in Nat /\ n <= SIZE
  BY ArrayAssumption
<1>2. 0 \in T
  BY PrefixesDef
<1>3. ASSUME NEW m \in Nat, m \in T PROVE m + 1 \in T
  <2>1. SUFFICES ASSUME m + 1 <= n
                 PROVE  Prefixes(a)[(m + 1) - 1] = Prefixes(b)[(m + 1) - 1]
    OBVIOUS
  <2>2. m \in Positions /\ m < n /\ m <= n /\ (m + 1) - 1 = m
    BY <1>1, <2>1 DEF Positions
  <2>3. /\ Prefixes(a)[m] = Prefixes(a)[m - 1] * BASE + a[m]
        /\ Prefixes(b)[m] = Prefixes(b)[m - 1] * BASE + b[m]
    BY <2>2, PrefixesDef
  <2>4. a[m] = b[m] /\ Prefixes(a)[m - 1] = Prefixes(b)[m - 1]
    BY <1>3, <2>2
  <2>5. QED
    BY <2>2, <2>3, <2>4
<1>4. n \in T
  <2> HIDE DEF T
  <2>1. QED
    BY <1>1, <1>2, <1>3, SetInductionOnNat
<1>5. QED
  BY <1>1, <1>4

\* Bytes that are 0 up to a position.
LEMMA LeadingZeros ==
  ASSUME NEW arr, NEW n \in 0..SIZE, \A pos \in Positions : pos < n => arr[pos] = 0
  PROVE  Prefixes(arr)[n - 1] = 0
<1> DEFINE T == {m \in Nat : m <= n => Prefixes(arr)[m - 1] = 0}
<1>1. SIZE \in Nat /\ BASE \in Nat /\ n \in Nat /\ n <= SIZE
  BY ArrayAssumption
<1>2. 0 \in T
  BY PrefixesDef
<1>3. ASSUME NEW m \in Nat, m \in T PROVE m + 1 \in T
  <2>1. SUFFICES ASSUME m + 1 <= n PROVE Prefixes(arr)[(m + 1) - 1] = 0
    OBVIOUS
  <2>2. m \in Positions /\ m < n /\ m <= n /\ (m + 1) - 1 = m
    BY <1>1, <2>1 DEF Positions
  <2>3. Prefixes(arr)[m] = Prefixes(arr)[m - 1] * BASE + arr[m]
    BY <2>2, PrefixesDef
  <2>4. arr[m] = 0 /\ Prefixes(arr)[m - 1] = 0
    BY <1>3, <2>2
  <2>5. 0 * BASE + 0 = 0
    BY <1>1
  <2>6. QED
    BY <2>2, <2>3, <2>4, <2>5
<1>4. n \in T
  <2> HIDE DEF T
  <2>1. QED
    BY <1>1, <1>2, <1>3, SetInductionOnNat
<1>5. QED
  BY <1>1, <1>4

\* A shift of the bytes to the end divides.
LEMMA ShiftValue ==
  ASSUME NEW x \in Array, NEW shift \in 0..SIZE, NEW y,
         y = [pos \in Positions |-> IF pos < shift THEN 0 ELSE x[pos - shift]]
  PROVE  y \in Array /\ Value(y) = Value(x) \div Power(BASE, shift)
<1> DEFINE T == {m \in Nat : shift + m <= SIZE =>
                   Prefixes(y)[shift + m - 1] = Prefixes(x)[m - 1]}
<1>1. SIZE \in Nat /\ BASE \in Nat \ {0} /\ shift \in Nat /\ shift <= SIZE
  BY ArrayAssumption
<1>2. /\ \A pos \in Positions : pos < shift => y[pos] = 0
      /\ \A pos \in Positions : pos >= shift => y[pos] = x[pos - shift]
  BY <1>1 DEF Positions
<1>3. y \in Array
  <2>1. ASSUME NEW pos \in Positions, pos >= shift PROVE pos - shift \in Positions
    BY <1>1, <2>1 DEF Positions
  <2>2. \A pos \in Positions : x[pos] \in 0..(BASE - 1)
    BY ArrayIsDigits
  <2>3. 0 \in 0..(BASE - 1)
    BY <1>1
  <2>4. ASSUME NEW pos \in Positions
        PROVE  (IF pos < shift THEN 0 ELSE x[pos - shift]) \in 0..(BASE - 1)
    <3>1. CASE pos < shift
      BY <2>3, <3>1
    <3>2. CASE ~(pos < shift)
      <4>1. pos >= shift
        BY <1>1, <3>2 DEF Positions
      <4>2. QED
        BY <2>1, <2>2, <3>2, <4>1
    <3>3. QED
      BY <3>1, <3>2
  <2>5. QED
    BY <2>4 DEF Array, Bytes
<1>4. 0 \in T
  <2>1. Prefixes(y)[shift - 1] = 0
    BY <1>2, LeadingZeros
  <2>2. shift + 0 - 1 = shift - 1 /\ 0 - 1 = -1
    BY <1>1
  <2>3. QED
    BY <2>1, <2>2, PrefixesDef
<1>5. ASSUME NEW m \in Nat, m \in T PROVE m + 1 \in T
  <2>1. SUFFICES ASSUME shift + (m + 1) <= SIZE
                 PROVE  Prefixes(y)[shift + (m + 1) - 1] = Prefixes(x)[(m + 1) - 1]
    OBVIOUS
  <2> DEFINE pos == shift + m
  <2>2. /\ pos \in Positions /\ pos >= shift /\ pos - shift = m /\ m \in Positions
        /\ shift + (m + 1) - 1 = pos /\ (m + 1) - 1 = m /\ shift + m <= SIZE
        /\ pos - 1 = shift + m - 1
    BY <1>1, <2>1 DEF Positions
  <2>3. Prefixes(y)[pos - 1] = Prefixes(x)[m - 1]
    BY <1>5, <2>2
  <2> HIDE DEF pos
  <2>4. Prefixes(y)[pos] = Prefixes(y)[pos - 1] * BASE + y[pos]
    BY <2>2, PrefixesDef
  <2>5. Prefixes(x)[m] = Prefixes(x)[m - 1] * BASE + x[m]
    BY <2>2, PrefixesDef
  <2>6. y[pos] = x[m]
    BY <1>2, <2>2
  <2>7. QED
    BY <2>2, <2>3, <2>4, <2>5, <2>6
<1>6. SIZE - shift \in T
  <2> HIDE DEF T
  <2>1. SIZE - shift \in Nat
    BY <1>1
  <2>2. QED
    BY <1>4, <1>5, <2>1, SetInductionOnNat
<1>7. Prefixes(y)[SIZE - 1] = Prefixes(x)[SIZE - 1 - shift]
  <2>1. /\ shift + (SIZE - shift) <= SIZE /\ shift + (SIZE - shift) - 1 = SIZE - 1
        /\ (SIZE - shift) - 1 = SIZE - 1 - shift
    BY <1>1
  <2>2. QED
    BY <1>6, <2>1
<1>8. QED
  BY <1>3, <1>7, PrefixIsQuotient DEF Value

\* The array of a number has its value, as far as it fits.
LEMMA ArrayOfValue ==
  ASSUME NEW n \in Nat
  PROVE  ArrayOf(n) \in Array /\ Value(ArrayOf(n)) = n % Modulus
<1> DEFINE arr == ArrayOf(n)
           Quotient(k) == n \div Power(BASE, k)
           T == {m \in Nat : m <= SIZE =>
                   Prefixes(arr)[m - 1] = Quotient(SIZE - m) % Power(BASE, m)}
<1>1. SIZE \in Nat /\ BASE \in Nat \ {0}
  BY ArrayAssumption
<1>2. /\ Power(BASE, 0) = 1
      /\ \A k \in Nat : Power(BASE, k) \in Nat \ {0} /\ Power(BASE, k + 1) = BASE * Power(BASE, k)
  BY <1>1, PowerDef
<1>3. \A k \in Nat : Quotient(k) \in Nat /\ Quotient(k + 1) = Quotient(k) \div BASE
  <2> TAKE k \in Nat
  <2> DEFINE w == Power(BASE, k)
  <2>1. w \in Nat \ {0} /\ Power(BASE, k + 1) = BASE * w
    BY <1>2
  <2> HIDE DEF w
  <2>2. n \div w \in Nat /\ BASE * w = w * BASE
    BY <1>1, <2>1
  <2>3. n \div (w * BASE) = (n \div w) \div BASE
    BY <1>1, <2>1, DivDiv
  <2>4. QED
    BY <2>1, <2>2, <2>3 DEF w
<1>4. \A pos \in Positions : arr[pos] = Quotient(SIZE - 1 - pos) % BASE
  BY DEF ArrayOf
<1>5. arr \in Array
  <2>1. ASSUME NEW pos \in Positions PROVE Quotient(SIZE - 1 - pos) % BASE \in 0..(BASE - 1)
    <3>1. SIZE - 1 - pos \in Nat
      BY <1>1 DEF Positions
    <3>2. Quotient(SIZE - 1 - pos) \in Nat
      BY <1>3, <3>1
    <3> HIDE DEF Quotient
    <3>3. QED
      BY <1>1, <3>2
  <2>2. QED
    BY <2>1 DEF ArrayOf, Array, Bytes
<1> HIDE DEF arr, Quotient
<1>6. 0 \in T
  <2>1. Quotient(SIZE - 0) % 1 = 0
    BY <1>1, <1>3
  <2>2. QED
    BY <1>2, <2>1, PrefixesDef
<1>7. ASSUME NEW m \in Nat, m \in T PROVE m + 1 \in T
  <2>1. SUFFICES ASSUME m + 1 <= SIZE
                 PROVE  Prefixes(arr)[(m + 1) - 1] = Quotient(SIZE - (m + 1)) % Power(BASE, m + 1)
    OBVIOUS
  <2> DEFINE k == SIZE - (m + 1)
  <2>2. /\ m \in Positions /\ m <= SIZE /\ (m + 1) - 1 = m /\ k \in Nat
        /\ k + 1 = SIZE - m /\ SIZE - 1 - m = k
    BY <1>1, <2>1 DEF Positions
  <2>3. Prefixes(arr)[m - 1] = Quotient(k + 1) % Power(BASE, m)
    BY <1>7, <2>2
  <2> HIDE DEF k
  <2>4. Prefixes(arr)[m] = Prefixes(arr)[m - 1] * BASE + arr[m]
    BY <2>2, PrefixesDef
  <2>5. arr[m] = Quotient(k) % BASE
    BY <1>4, <2>2
  <2> DEFINE q == Quotient(k)
             w == Power(BASE, m)
  <2>6. q \in Nat /\ w \in Nat \ {0} /\ Quotient(k + 1) = q \div BASE
        /\ Power(BASE, m + 1) = BASE * w
    BY <1>2, <1>3, <2>2
  <2> HIDE DEF q, w
  <2>7. ((q \div BASE) % w) * BASE + (q % BASE) = q % (BASE * w)
    BY <1>1, <2>6, ModProduct
  <2>8. Prefixes(arr)[m] = q % (BASE * w)
    BY <2>3, <2>4, <2>5, <2>6, <2>7 DEF q, w
  <2>9. QED
    BY <2>2, <2>6, <2>8 DEF q, k
<1>8. SIZE \in T
  <2> HIDE DEF T
  <2>1. QED
    BY <1>1, <1>6, <1>7, SetInductionOnNat
<1>9. Prefixes(arr)[SIZE - 1] = n % Power(BASE, SIZE)
  <2>1. Quotient(0) = n
    BY <1>2 DEF Quotient
  <2>2. SIZE - SIZE = 0
    BY <1>1
  <2>3. QED
    BY <1>1, <1>8, <2>1, <2>2
<1>10. QED
  BY <1>5, <1>9 DEF arr, Value, Modulus

\* gt_arr compares the numbers.
LEMMA Comparison ==
  ASSUME NEW a \in Array, NEW b \in Array
  PROVE  /\ gt_arr(a, b) <=> Value(a) > Value(b)
         /\ a = b <=> Value(a) = Value(b)
<1> DEFINE P(m) == Prefixes(a)[m - 1]
           Q(m) == Prefixes(b)[m - 1]
           Agree(m) == \A j \in Positions : j < m => a[j] = b[j]
           Above(m) == \E i \in Positions : i < m /\ a[i] > b[i] /\ Agree(i)
           T == {m \in Nat : m <= SIZE =>
                   (Above(m) <=> P(m) > Q(m)) /\ (Agree(m) <=> P(m) = Q(m))}
<1>1. SIZE \in Nat /\ BASE \in Nat \ {0}
  BY ArrayAssumption
<1>2. \A pos \in -1..(SIZE - 1) : Prefixes(a)[pos] \in Nat /\ Prefixes(b)[pos] \in Nat
  BY ArrayIsDigits, PrefixType
<1>3. \A pos \in Positions : a[pos] \in 0..(BASE - 1) /\ b[pos] \in 0..(BASE - 1)
  BY ArrayIsDigits
<1>4. 0 \in T
  <2>1. P(0) = 0 /\ Q(0) = 0
    BY PrefixesDef
  <2>2. Agree(0) /\ ~Above(0)
    BY <1>1 DEF Positions
  <2> HIDE DEF P, Q, Agree, Above
  <2>3. QED
    BY <2>1, <2>2
<1>5. ASSUME NEW m \in Nat, m \in T PROVE m + 1 \in T
  <2> HIDE DEF P, Q, Agree, Above
  <2>1. SUFFICES ASSUME m + 1 <= SIZE
                 PROVE  /\ Above(m + 1) <=> P(m + 1) > Q(m + 1)
                        /\ Agree(m + 1) <=> P(m + 1) = Q(m + 1)
    OBVIOUS
  <2> USE DEF P, Q, Agree, Above
  <2>2. m \in Positions /\ m <= SIZE /\ (m + 1) - 1 = m /\ m - 1 \in -1..(SIZE - 1)
    BY <1>1, <2>1 DEF Positions
  <2>3. \A j \in Positions : j < m + 1 <=> j < m \/ j = m
    BY <1>1 DEF Positions
  <2>4. /\ Agree(m + 1) <=> Agree(m) /\ a[m] = b[m]
        /\ Above(m + 1) <=> Above(m) \/ (a[m] > b[m] /\ Agree(m))
    <3>1. Agree(m + 1) <=> Agree(m) /\ a[m] = b[m]
      BY <2>2, <2>3
    <3> HIDE DEF Agree
    <3>2. Above(m + 1) <=> Above(m) \/ (a[m] > b[m] /\ Agree(m))
      BY <2>2, <2>3
    <3>3. QED
      BY <3>1, <3>2
  <2>5. /\ P(m + 1) = P(m) * BASE + a[m] /\ Q(m + 1) = Q(m) * BASE + b[m]
    BY <2>2, PrefixesDef
  <2>6. P(m) \in Nat /\ Q(m) \in Nat /\ a[m] \in 0..(BASE - 1) /\ b[m] \in 0..(BASE - 1)
    BY <1>2, <1>3, <2>2
  <2>7. (Above(m) <=> P(m) > Q(m)) /\ (Agree(m) <=> P(m) = Q(m))
    BY <1>5, <2>2
  <2> HIDE DEF P, Q, Agree, Above
  <2> DEFINE p == P(m)
             q == Q(m)
             x == a[m]
             y == b[m]
  <2>8. /\ p \in Nat /\ q \in Nat /\ x \in 0..(BASE - 1) /\ y \in 0..(BASE - 1)
    BY <2>6
  <2>9. /\ P(m + 1) = p * BASE + x /\ Q(m + 1) = q * BASE + y
        /\ Above(m + 1) <=> p > q \/ (x > y /\ p = q)
        /\ Agree(m + 1) <=> p = q /\ x = y
    BY <2>4, <2>5, <2>7
  <2> HIDE DEF p, q, x, y
  <2>10. /\ p * BASE + x > q * BASE + y <=> p > q \/ (p = q /\ x > y)
         /\ q * BASE + y > p * BASE + x <=> q > p \/ (q = p /\ y > x)
    BY <1>1, <2>8, CompareDigit
  <2>11. p * BASE + x \in Nat /\ q * BASE + y \in Nat
    BY <1>1, <2>8
  <2>12. p * BASE + x = q * BASE + y <=> p = q /\ x = y
    <3> DEFINE u == p * BASE + x
               v == q * BASE + y
    <3>1. (u > v <=> p > q \/ (p = q /\ x > y)) /\ (v > u <=> q > p \/ (q = p /\ y > x))
      BY <2>10
    <3>2. u \in Nat /\ v \in Nat /\ (p = q /\ x = y => u = v)
      BY <2>11
    <3> HIDE DEF u, v
    <3>3. u = v <=> p = q /\ x = y
      BY <2>8, <3>1, <3>2
    <3>4. QED
      BY <3>3 DEF u, v
  <2>13. QED
    BY <2>9, <2>10, <2>12
<1>6. SIZE \in T
  <2> HIDE DEF T
  <2>1. QED
    BY <1>1, <1>4, <1>5, SetInductionOnNat
<1>7. (Above(SIZE) <=> P(SIZE) > Q(SIZE)) /\ (Agree(SIZE) <=> P(SIZE) = Q(SIZE))
  BY <1>1, <1>6
<1>8. P(SIZE) = Value(a) /\ Q(SIZE) = Value(b)
  BY DEF Value
<1>9. \A i \in Positions : i < SIZE
  BY <1>1 DEF Positions
<1>10. Agree(SIZE) <=> a = b
  <2>1. a = [pos \in Positions |-> a[pos]] /\ b = [pos \in Positions |-> b[pos]]
    BY DEF Array
  <2>2. QED
    BY <1>9, <2>1
<1>11. Above(SIZE) <=> gt_arr(a, b)
  BY <1>9 DEF gt_arr
<1> HIDE DEF P, Q, Agree, Above
<1>12. QED
  BY <1>7, <1>8, <1>10, <1>11

-----------------------------------------------------------------------------
(* Sums and products: the carry runs from the last byte to the first.      *)

\* A carry in and what is left of the digit.
LEMMA DivModShift ==
  ASSUME NEW m \in Nat \ {0}, NEW p \in Nat, NEW s \in Nat
  PROVE  (p * m + s) \div m = p + (s \div m) /\ (p * m + s) % m = s % m
<1> DEFINE q == s \div m
           r == s % m
           w == p + q
<1>1. q \in Nat /\ r \in 0..(m - 1) /\ s = q * m + r
  BY DivMod
<1> HIDE DEF q, r
<1>2. p * m + s = w * m + r /\ w \in Nat
  <2>1. (p + q) * m = p * m + q * m
    BY <1>1
  <2>2. p * m \in Nat /\ q * m \in Nat
    BY <1>1
  <2>3. QED
    BY <1>1, <2>1, <2>2
<1> HIDE DEF w
<1>3. (p * m + s) \div m = w /\ (p * m + s) % m = r
  BY <1>1, <1>2, DivModUnique
<1>4. QED
  BY <1>3 DEF w, q, r

\* The value of `remainder` when a loop over these digits comes to a position.
Carries(raw, remainder) ==
  remainder = [pos \in Positions |->
                 IF pos = SIZE - 1 THEN 0 ELSE (raw[pos + 1] + remainder[pos + 1]) \div BASE]

LEMMA CarriesExist ==
  ASSUME NEW raw \in Digits
  PROVE  \E remainder \in Digits : Carries(raw, remainder)
<1> DEFINE At(g, pos) == IF pos = SIZE - 1 THEN 0 ELSE (raw[pos + 1] + g[pos + 1]) \div BASE
           Solves(g, n) == \A pos \in Positions :
                             pos >= SIZE - n => g[pos] \in Nat /\ g[pos] = At(g, pos)
           T == {n \in Nat : n <= SIZE => \E g : Solves(g, n)}
<1>1. SIZE \in Nat /\ BASE \in Nat \ {0}
  BY ArrayAssumption
<1>2. \A pos \in Positions : raw[pos] \in Nat
  BY DEF Digits
<1>3. 0 \in T
  <2>1. \A pos \in Positions : ~(pos >= SIZE - 0)
    BY <1>1 DEF Positions
  <2>2. QED
    BY <2>1
<1>4. ASSUME NEW n \in Nat, n \in T PROVE n + 1 \in T
  <2>1. SUFFICES ASSUME n + 1 <= SIZE PROVE \E g : Solves(g, n + 1)
    OBVIOUS
  <2>2. n <= SIZE
    BY <1>1, <2>1
  <2>3. PICK g : Solves(g, n)
    BY <1>4, <2>2
  <2> DEFINE last == SIZE - 1 - n
             h == [pos \in Positions |-> IF pos = last THEN At(g, last) ELSE g[pos]]
  <2>4. last \in Positions
    BY <1>1, <2>1 DEF Positions
  <2>5. At(g, last) \in Nat
    <3>1. CASE last = SIZE - 1
      BY <3>1
    <3>2. CASE last # SIZE - 1
      <4>1. last + 1 \in Positions /\ last + 1 >= SIZE - n
        BY <1>1, <2>1, <3>2 DEF Positions
      <4>2. raw[last + 1] \in Nat /\ g[last + 1] \in Nat
        BY <1>2, <2>3, <4>1
      <4> DEFINE s == raw[last + 1] + g[last + 1]
      <4>3. s \in Nat
        BY <4>2
      <4> HIDE DEF s, last
      <4>4. s \div BASE \in Nat
        BY <1>1, <4>3, DivMod
      <4>5. QED
        BY <3>2, <4>4 DEF s
    <3>3. QED
      BY <3>1, <3>2
  <2>6. ASSUME NEW pos \in Positions, pos >= SIZE - (n + 1)
        PROVE  h[pos] \in Nat /\ h[pos] = At(h, pos)
    <3>1. pos = SIZE - 1 \/ (pos + 1 \in Positions /\ pos + 1 # last)
      BY <1>1, <2>6 DEF Positions
    <3>2. At(h, pos) = At(g, pos)
      <4>1. CASE pos = SIZE - 1
        BY <4>1
      <4>2. CASE pos + 1 \in Positions /\ pos + 1 # last
        <5>1. h[pos + 1] = g[pos + 1]
          BY <4>2
        <5>2. QED
          BY <5>1
      <4>3. QED
        BY <3>1, <4>1, <4>2
    <3>3. CASE pos = last
      <4>1. h[pos] = At(g, pos)
        BY <3>3
      <4>2. QED
        BY <2>5, <3>2, <3>3, <4>1
    <3>4. CASE pos # last
      <4>1. pos >= SIZE - n /\ h[pos] = g[pos]
        BY <1>1, <2>6, <3>4 DEF Positions
      <4>2. g[pos] \in Nat /\ g[pos] = At(g, pos)
        BY <2>3, <4>1
      <4>3. QED
        BY <3>2, <4>1, <4>2
    <3>5. QED
      BY <3>3, <3>4
  <2> HIDE DEF h, At
  <2>7. Solves(h, n + 1)
    BY <2>6
  <2>8. QED
    BY <2>7
<1>5. PICK g : Solves(g, SIZE)
  <2> HIDE DEF Solves
  <2>1. SIZE \in T
    <3> HIDE DEF T
    <3>1. QED
      BY <1>1, <1>3, <1>4, SetInductionOnNat
  <2>2. QED
    BY <1>1, <2>1
<1> DEFINE f == [pos \in Positions |-> g[pos]]
<1>6. \A pos \in Positions : g[pos] \in Nat /\ g[pos] = At(g, pos)
  <2>1. \A pos \in Positions : pos >= SIZE - SIZE
    BY <1>1 DEF Positions
  <2>2. QED
    BY <1>5, <2>1
<1>7. ASSUME NEW pos \in Positions PROVE f[pos] = At(f, pos)
  <2>1. pos = SIZE - 1 \/ pos + 1 \in Positions
    BY <1>1 DEF Positions
  <2>2. At(f, pos) = At(g, pos)
    BY <2>1
  <2>3. QED
    BY <1>6, <2>2
<1>8. f \in Digits
  BY <1>6 DEF Digits
<1>9. Carries(raw, f)
  <2>1. f = [pos \in Positions |-> At(f, pos)]
    <3>1. f = [pos \in Positions |-> f[pos]]
      OBVIOUS
    <3> HIDE DEF f, At
    <3>2. QED
      BY <1>7, <3>1
  <2> HIDE DEF f
  <2>2. QED
    BY <2>1 DEF Carries
<1>10. QED
  BY <1>8, <1>9

\* Carrying leaves the number as it is, but for what leaves the array.
LEMMA Carrying ==
  ASSUME NEW raw \in Digits, NEW remainder \in Digits, Carries(raw, remainder), NEW out,
         \A pos \in Positions : out[pos] = (raw[pos] + remainder[pos]) % BASE
  PROVE  Prefixes(out)[SIZE - 1] = Prefixes(raw)[SIZE - 1] % Modulus
<1> DEFINE C(m) == IF m = SIZE THEN 0 ELSE (raw[m] + remainder[m]) \div BASE
           T == {m \in Nat : m <= SIZE =>
                   Prefixes(out)[m - 1] = (Prefixes(raw)[m - 1] + C(m)) % Power(BASE, m)}
<1>1. SIZE \in Nat /\ BASE \in Nat \ {0}
  BY ArrayAssumption
<1>2. /\ Power(BASE, 0) = 1
      /\ \A n \in Nat : Power(BASE, n) \in Nat \ {0} /\ Power(BASE, n + 1) = BASE * Power(BASE, n)
  BY <1>1, PowerDef
<1>3. \A pos \in -1..(SIZE - 1) : Prefixes(raw)[pos] \in Nat
  BY PrefixType
<1>4. \A pos \in Positions : raw[pos] + remainder[pos] \in Nat
  BY DEF Digits
<1>5. \A m \in 0..SIZE : C(m) \in Nat
  <2> TAKE m \in 0..SIZE
  <2>1. CASE m = SIZE
    BY <2>1
  <2>2. CASE m # SIZE
    <3>1. m \in Positions
      BY <1>1, <2>2 DEF Positions
    <3> DEFINE s == raw[m] + remainder[m]
    <3>2. s \in Nat
      BY <1>4, <3>1
    <3> HIDE DEF s
    <3>3. s \div BASE \in Nat
      BY <1>1, <3>2, DivMod
    <3>4. QED
      BY <2>2, <3>3 DEF s
  <2>3. QED
    BY <2>1, <2>2
<1>6. \A pos \in Positions : remainder[pos] = C(pos + 1)
  <2> TAKE pos \in Positions
  <2>1. pos = SIZE - 1 <=> pos + 1 = SIZE
    BY <1>1 DEF Positions
  <2>2. QED
    BY <2>1 DEF Carries
<1>7. 0 \in T
  <2>1. Prefixes(out)[-1] = 0 /\ Prefixes(raw)[-1] = 0
    BY PrefixesDef
  <2>2. C(0) \in Nat
    BY <1>1, <1>5
  <2> HIDE DEF C
  <2>3. (0 + C(0)) % 1 = 0 /\ 0 - 1 = -1
    BY <2>2
  <2>4. QED
    BY <1>2, <2>1, <2>3
<1>8. ASSUME NEW m \in Nat, m \in T PROVE m + 1 \in T
  <2>1. SUFFICES ASSUME m + 1 <= SIZE
                 PROVE  Prefixes(out)[(m + 1) - 1] =
                          (Prefixes(raw)[(m + 1) - 1] + C(m + 1)) % Power(BASE, m + 1)
    OBVIOUS
  <2>2. m \in Positions /\ m <= SIZE /\ (m + 1) - 1 = m /\ m - 1 \in -1..(SIZE - 1) /\ m # SIZE
    BY <1>1, <2>1 DEF Positions
  <2> DEFINE s == raw[m] + remainder[m]
             p == Prefixes(raw)[m - 1]
             w == Power(BASE, m)
             n == p * BASE + s
  <2>3. Prefixes(out)[m - 1] = (p + (s \div BASE)) % w
    BY <1>8, <2>2
  <2>4. Prefixes(out)[m] = Prefixes(out)[m - 1] * BASE + (s % BASE)
    BY <2>2, PrefixesDef
  <2>5. s \in Nat /\ p \in Nat /\ w \in Nat \ {0} /\ Power(BASE, m + 1) = BASE * w
    BY <1>2, <1>3, <1>4, <2>2
  <2>6. Prefixes(raw)[m] + C(m + 1) = n
    <3>1. Prefixes(raw)[m] = p * BASE + raw[m] /\ C(m + 1) = remainder[m]
      BY <1>6, <2>2, PrefixesDef
    <3>2. raw[m] \in Nat /\ remainder[m] \in Nat /\ p * BASE \in Nat
      BY <1>1, <2>2, <2>5 DEF Digits
    <3>3. QED
      BY <3>1, <3>2
  <2> HIDE DEF s, p, w, C
  <2>7. n \div BASE = p + (s \div BASE) /\ n % BASE = s % BASE
    BY <1>1, <2>5, DivModShift
  <2>8. n \in Nat
    BY <1>1, <2>5
  <2> HIDE DEF n
  <2>9. ((n \div BASE) % w) * BASE + (n % BASE) = n % (BASE * w)
    BY <1>1, <2>5, <2>8, ModProduct
  <2>10. QED
    BY <2>2, <2>3, <2>4, <2>5, <2>6, <2>7, <2>9
<1>9. SIZE \in T
  <2> HIDE DEF T
  <2>1. QED
    BY <1>1, <1>7, <1>8, SetInductionOnNat
<1>10. Prefixes(out)[SIZE - 1] = (Prefixes(raw)[SIZE - 1] + 0) % Power(BASE, SIZE)
  BY <1>1, <1>9
<1>11. Prefixes(raw)[SIZE - 1] + 0 = Prefixes(raw)[SIZE - 1]
  BY <1>1, <1>3
<1>12. QED
  BY <1>10, <1>11 DEF Modulus

\* Bytes are what a remainder by BASE leaves.
LEMMA BytesMakeArray ==
  ASSUME NEW raw \in Digits, NEW out,
         out = [pos \in Positions |-> raw[pos] % BASE]
  PROVE  out \in Array
<1>1. BASE \in Nat \ {0}
  BY ArrayAssumption
<1>2. ASSUME NEW pos \in Positions PROVE raw[pos] % BASE \in 0..(BASE - 1)
  <2> DEFINE s == raw[pos]
  <2>1. s \in Nat
    BY DEF Digits
  <2> HIDE DEF s
  <2>2. s % BASE \in 0..(BASE - 1)
    BY <1>1, <2>1, DivMod
  <2>3. QED
    BY <2>2 DEF s
<1>3. QED
  BY <1>2 DEF Array, Bytes

LEMMA CarriesAreDigits ==
  ASSUME NEW raw \in Digits, NEW remainder, Carries(raw, remainder)
  PROVE  remainder \in Digits
<1> DEFINE T == {n \in Nat : \A pos \in Positions : pos = SIZE - 1 - n => remainder[pos] \in Nat}
<1>1. SIZE \in Nat /\ BASE \in Nat \ {0}
  BY ArrayAssumption
<1>2. ASSUME NEW pos \in Positions
      PROVE  remainder[pos] = IF pos = SIZE - 1 THEN 0
                              ELSE (raw[pos + 1] + remainder[pos + 1]) \div BASE
  BY DEF Carries
<1>3. 0 \in T
  <2>1. ASSUME NEW pos \in Positions, pos = SIZE - 1 - 0 PROVE remainder[pos] = 0
    <3>1. pos = SIZE - 1
      BY <1>1, <2>1
    <3>2. QED
      BY <1>2, <3>1
  <2>2. QED
    BY <2>1
<1>4. ASSUME NEW n \in Nat, n \in T PROVE n + 1 \in T
  <2>1. ASSUME NEW pos \in Positions, pos = SIZE - 1 - (n + 1) PROVE remainder[pos] \in Nat
    <3>1. pos # SIZE - 1 /\ pos + 1 \in Positions /\ pos + 1 = SIZE - 1 - n
      BY <1>1, <2>1 DEF Positions
    <3>2. remainder[pos] = (raw[pos + 1] + remainder[pos + 1]) \div BASE
      BY <1>2, <3>1
    <3>3. raw[pos + 1] \in Nat /\ remainder[pos + 1] \in Nat
      BY <1>4, <3>1 DEF Digits
    <3> DEFINE s == raw[pos + 1] + remainder[pos + 1]
    <3>4. s \in Nat
      BY <3>3
    <3> HIDE DEF s
    <3>5. s \div BASE \in Nat
      BY <1>1, <3>4, DivMod
    <3>6. QED
      BY <3>2, <3>5 DEF s
  <2>2. QED
    BY <2>1
<1>5. Nat \subseteq T
  <2> HIDE DEF T
  <2>1. QED
    BY <1>3, <1>4, SetInductionOnNat
<1>6. ASSUME NEW pos \in Positions PROVE remainder[pos] \in Nat
  <2>1. SIZE - 1 - pos \in Nat /\ pos = SIZE - 1 - (SIZE - 1 - pos)
    BY <1>1 DEF Positions
  <2>2. QED
    BY <1>5, <2>1
<1>7. remainder = [pos \in Positions |-> remainder[pos]]
  BY DEF Carries
<1>8. QED
  BY <1>6, <1>7 DEF Digits

\* Arrays add digit by digit.
LEMMA PrefixesAdd ==
  ASSUME NEW a \in Digits, NEW b \in Digits, NEW raw,
         \A pos \in Positions : raw[pos] = a[pos] + b[pos]
  PROVE  Prefixes(raw)[SIZE - 1] = Prefixes(a)[SIZE - 1] + Prefixes(b)[SIZE - 1]
<1> DEFINE T == {m \in Nat : m <= SIZE =>
                   Prefixes(raw)[m - 1] = Prefixes(a)[m - 1] + Prefixes(b)[m - 1]}
<1>1. SIZE \in Nat /\ BASE \in Nat \ {0}
  BY ArrayAssumption
<1>2. \A pos \in -1..(SIZE - 1) : Prefixes(a)[pos] \in Nat /\ Prefixes(b)[pos] \in Nat
  BY PrefixType
<1>3. 0 \in T
  <2>1. 0 = 0 + 0 /\ 0 - 1 = -1
    OBVIOUS
  <2>2. QED
    BY <2>1, PrefixesDef
<1>4. ASSUME NEW m \in Nat, m \in T PROVE m + 1 \in T
  <2>1. SUFFICES ASSUME m + 1 <= SIZE
                 PROVE  Prefixes(raw)[(m + 1) - 1] =
                          Prefixes(a)[(m + 1) - 1] + Prefixes(b)[(m + 1) - 1]
    OBVIOUS
  <2>2. m \in Positions /\ m <= SIZE /\ (m + 1) - 1 = m /\ m - 1 \in -1..(SIZE - 1)
    BY <1>1, <2>1 DEF Positions
  <2> DEFINE p == Prefixes(a)[m - 1]
             q == Prefixes(b)[m - 1]
             x == a[m]
             y == b[m]
  <2>3. /\ Prefixes(raw)[m] = (p + q) * BASE + (x + y)
        /\ Prefixes(a)[m] = p * BASE + x /\ Prefixes(b)[m] = q * BASE + y
    <3>1. Prefixes(raw)[m - 1] = p + q /\ raw[m] = x + y
      BY <1>4, <2>2
    <3>2. QED
      BY <2>2, <3>1, PrefixesDef
  <2>4. p \in Nat /\ q \in Nat /\ x \in Nat /\ y \in Nat
    BY <1>2, <2>2 DEF Digits
  <2> HIDE DEF p, q, x, y
  <2>5. (p + q) * BASE + (x + y) = (p * BASE + x) + (q * BASE + y)
    BY <1>1, <2>4
  <2>6. QED
    BY <2>2, <2>3, <2>5
<1>5. SIZE \in T
  <2> HIDE DEF T
  <2>1. QED
    BY <1>1, <1>3, <1>4, SetInductionOnNat
<1>6. QED
  BY <1>1, <1>5

\* They multiply digit by digit.
LEMMA PrefixesMultiply ==
  ASSUME NEW a \in Digits, NEW n \in Nat, NEW raw,
         \A pos \in Positions : raw[pos] = a[pos] * n
  PROVE  Prefixes(raw)[SIZE - 1] = Prefixes(a)[SIZE - 1] * n
<1> DEFINE T == {m \in Nat : m <= SIZE => Prefixes(raw)[m - 1] = Prefixes(a)[m - 1] * n}
<1>1. SIZE \in Nat /\ BASE \in Nat \ {0}
  BY ArrayAssumption
<1>2. \A pos \in -1..(SIZE - 1) : Prefixes(a)[pos] \in Nat
  BY PrefixType
<1>3. 0 \in T
  <2>1. 0 = 0 * n /\ 0 - 1 = -1
    OBVIOUS
  <2>2. QED
    BY <2>1, PrefixesDef
<1>4. ASSUME NEW m \in Nat, m \in T PROVE m + 1 \in T
  <2>1. SUFFICES ASSUME m + 1 <= SIZE
                 PROVE  Prefixes(raw)[(m + 1) - 1] = Prefixes(a)[(m + 1) - 1] * n
    OBVIOUS
  <2>2. m \in Positions /\ m <= SIZE /\ (m + 1) - 1 = m /\ m - 1 \in -1..(SIZE - 1)
    BY <1>1, <2>1 DEF Positions
  <2> DEFINE p == Prefixes(a)[m - 1]
             x == a[m]
  <2>3. /\ Prefixes(raw)[m] = (p * n) * BASE + (x * n)
        /\ Prefixes(a)[m] = p * BASE + x
    <3>1. Prefixes(raw)[m - 1] = p * n /\ raw[m] = x * n
      BY <1>4, <2>2
    <3>2. QED
      BY <2>2, <3>1, PrefixesDef
  <2>4. p \in Nat /\ x \in Nat
    BY <1>2, <2>2 DEF Digits
  <2> HIDE DEF p, x
  <2>5. (p * n) * BASE + (x * n) = (p * BASE + x) * n
    BY <1>1, <2>4
  <2>6. QED
    BY <2>2, <2>3, <2>5
<1>5. SIZE \in T
  <2> HIDE DEF T
  <2>1. QED
    BY <1>1, <1>3, <1>4, SetInductionOnNat
<1>6. QED
  BY <1>1, <1>5

\* add_in_place adds, up to what the array can hold.
LEMMA AddValue ==
  ASSUME NEW arr \in Array, NEW add \in Array
  PROVE  /\ add_in_place(arr, add) \in Array
         /\ Value(add_in_place(arr, add)) = (Value(arr) + Value(add)) % Modulus
<1> DEFINE raw == [pos \in Positions |-> arr[pos] + add[pos]]
           Solves(g) == g = [pos \in Positions |->
                               IF pos = SIZE - 1 THEN 0
                               ELSE (arr[pos + 1] + add[pos + 1] + g[pos + 1]) \div BASE]
           remainder == CHOOSE g : Solves(g)
           out == add_in_place(arr, add)
<1>1. SIZE \in Nat /\ BASE \in Nat \ {0}
  BY ArrayAssumption
<1>2. arr \in Digits /\ add \in Digits
  BY ArrayIsDigits
<1>3. raw \in Digits
  BY <1>2 DEF Digits
<1>4. out = [pos \in Positions |-> (arr[pos] + add[pos] + remainder[pos]) % BASE]
  BY DEF add_in_place
<1>5. \A g : Solves(g) <=> Carries(raw, g)
  <2> TAKE g
  <2>1. ASSUME NEW pos \in Positions
        PROVE  (IF pos = SIZE - 1 THEN 0
                ELSE (arr[pos + 1] + add[pos + 1] + g[pos + 1]) \div BASE)
               = (IF pos = SIZE - 1 THEN 0 ELSE (raw[pos + 1] + g[pos + 1]) \div BASE)
    <3>1. pos = SIZE - 1 \/ pos + 1 \in Positions
      BY <1>1 DEF Positions
    <3>2. pos + 1 \in Positions => raw[pos + 1] = arr[pos + 1] + add[pos + 1]
      OBVIOUS
    <3> HIDE DEF raw
    <3>3. QED
      BY <3>1, <3>2
  <2>2. QED
    BY <2>1 DEF Carries
<1> HIDE DEF Solves
<1>6. Carries(raw, remainder) /\ remainder \in Digits
  <2>1. \E g : Solves(g)
    BY <1>3, <1>5, CarriesExist
  <2>2. Solves(remainder)
    BY <2>1
  <2>3. Carries(raw, remainder)
    BY <1>5, <2>2
  <2>4. QED
    BY <1>3, <2>3, CarriesAreDigits
<1> HIDE DEF remainder, out
<1> DEFINE sum == [pos \in Positions |-> raw[pos] + remainder[pos]]
<1>7. sum \in Digits /\ out = [pos \in Positions |-> sum[pos] % BASE]
  BY <1>3, <1>4, <1>6 DEF Digits
<1>8. out \in Array
  <2> HIDE DEF sum
  <2>1. QED
    BY <1>7, BytesMakeArray
<1>9. \A pos \in Positions : out[pos] = (raw[pos] + remainder[pos]) % BASE
  BY <1>4
<1>10. \A pos \in Positions : raw[pos] = arr[pos] + add[pos]
  OBVIOUS
<1> HIDE DEF raw
<1>11. Prefixes(out)[SIZE - 1] = Prefixes(raw)[SIZE - 1] % Modulus
  BY <1>3, <1>6, <1>9, Carrying
<1>12. Prefixes(raw)[SIZE - 1] = Prefixes(arr)[SIZE - 1] + Prefixes(add)[SIZE - 1]
  BY <1>2, <1>10, PrefixesAdd
<1>13. QED
  BY <1>8, <1>11, <1>12 DEF Value, out

\* mul_in_place multiplies, up to what the array can hold.
LEMMA MulValue ==
  ASSUME NEW arr \in Array, NEW n \in Nat
  PROVE  /\ mul_in_place(arr, n) \in Array
         /\ Value(mul_in_place(arr, n)) = (Value(arr) * n) % Modulus
<1> DEFINE raw == [pos \in Positions |-> arr[pos] * n]
           Solves(g) == g = [pos \in Positions |->
                               IF pos = SIZE - 1 THEN 0
                               ELSE (arr[pos + 1] * n + g[pos + 1]) \div BASE]
           remainder == CHOOSE g : Solves(g)
           out == mul_in_place(arr, n)
<1>1. SIZE \in Nat /\ BASE \in Nat \ {0}
  BY ArrayAssumption
<1>2. arr \in Digits
  BY ArrayIsDigits
<1>3. raw \in Digits
  <2>1. \A pos \in Positions : arr[pos] \in Nat
    BY <1>2 DEF Digits
  <2>2. \A x \in Nat : x * n \in Nat
    OBVIOUS
  <2>3. QED
    BY <2>1, <2>2 DEF Digits
<1>4. out = [pos \in Positions |-> (arr[pos] * n + remainder[pos]) % BASE]
  BY DEF mul_in_place
<1>5. \A g : Solves(g) <=> Carries(raw, g)
  <2> TAKE g
  <2>1. ASSUME NEW pos \in Positions
        PROVE  (IF pos = SIZE - 1 THEN 0 ELSE (arr[pos + 1] * n + g[pos + 1]) \div BASE)
               = (IF pos = SIZE - 1 THEN 0 ELSE (raw[pos + 1] + g[pos + 1]) \div BASE)
    <3>1. pos = SIZE - 1 \/ pos + 1 \in Positions
      BY <1>1 DEF Positions
    <3>2. pos + 1 \in Positions => raw[pos + 1] = arr[pos + 1] * n
      OBVIOUS
    <3> HIDE DEF raw
    <3>3. QED
      BY <3>1, <3>2
  <2>2. QED
    BY <2>1 DEF Carries
<1> HIDE DEF Solves
<1>6. Carries(raw, remainder) /\ remainder \in Digits
  <2>1. \E g : Solves(g)
    BY <1>3, <1>5, CarriesExist
  <2>2. Solves(remainder)
    BY <2>1
  <2>3. Carries(raw, remainder)
    BY <1>5, <2>2
  <2>4. QED
    BY <1>3, <2>3, CarriesAreDigits
<1> HIDE DEF remainder, out
<1> DEFINE sum == [pos \in Positions |-> raw[pos] + remainder[pos]]
<1>7. sum \in Digits /\ out = [pos \in Positions |-> sum[pos] % BASE]
  <2>1. \A pos \in Positions : raw[pos] = arr[pos] * n /\ raw[pos] \in Nat /\ remainder[pos] \in Nat
    BY <1>3, <1>6 DEF Digits
  <2> HIDE DEF raw
  <2>2. sum \in Digits
    BY <2>1 DEF Digits
  <2>3. \A pos \in Positions : (arr[pos] * n + remainder[pos]) % BASE = sum[pos] % BASE
    BY <2>1
  <2> HIDE DEF sum
  <2>4. QED
    BY <1>4, <2>2, <2>3
<1>8. out \in Array
  <2> HIDE DEF sum
  <2>1. QED
    BY <1>7, BytesMakeArray
<1>9. \A pos \in Positions : out[pos] = (raw[pos] + remainder[pos]) % BASE
  BY <1>4
<1>10. \A pos \in Positions : raw[pos] = arr[pos] * n
  OBVIOUS
<1> HIDE DEF raw
<1>11. Prefixes(out)[SIZE - 1] = Prefixes(raw)[SIZE - 1] % Modulus
  BY <1>3, <1>6, <1>9, Carrying
<1>12. Prefixes(raw)[SIZE - 1] = Prefixes(arr)[SIZE - 1] * n
  BY <1>2, <1>10, PrefixesMultiply
<1>13. QED
  BY <1>8, <1>11, <1>12 DEF Value, out

-----------------------------------------------------------------------------
(* Quotients: the remainder runs from the first byte to the last.          *)

\* The value of `remainder` when the loop of div_in_place comes to a position.
Remainders(arr, divisor, remainder) ==
  remainder = [pos \in Positions |->
                 IF pos = 0 THEN 0
                 ELSE ((arr[pos - 1] + remainder[pos - 1]) % divisor) * BASE]

LEMMA RemaindersExist ==
  ASSUME NEW arr, NEW divisor
  PROVE  \E remainder : Remainders(arr, divisor, remainder)
<1> DEFINE At(g, pos) == IF pos = 0 THEN 0
                         ELSE ((arr[pos - 1] + g[pos - 1]) % divisor) * BASE
           Solves(g, n) == \A pos \in Positions : pos < n => g[pos] = At(g, pos)
           T == {n \in Nat : n <= SIZE => \E g : Solves(g, n)}
<1>1. SIZE \in Nat
  BY ArrayAssumption
<1>2. 0 \in T
  <2>1. \A pos \in Positions : ~(pos < 0)
    BY <1>1 DEF Positions
  <2>2. QED
    BY <2>1
<1>3. ASSUME NEW n \in Nat, n \in T PROVE n + 1 \in T
  <2>1. SUFFICES ASSUME n + 1 <= SIZE PROVE \E g : Solves(g, n + 1)
    OBVIOUS
  <2>2. n <= SIZE /\ n \in Positions
    BY <1>1, <2>1 DEF Positions
  <2>3. PICK g : Solves(g, n)
    BY <1>3, <2>2
  <2> DEFINE h == [pos \in Positions |-> IF pos = n THEN At(g, n) ELSE g[pos]]
  <2>4. ASSUME NEW pos \in Positions, pos < n + 1 PROVE h[pos] = At(h, pos)
    <3>1. pos = 0 \/ (pos - 1 \in Positions /\ pos - 1 # n)
      BY <1>1, <2>4 DEF Positions
    <3>2. At(h, pos) = At(g, pos)
      <4>1. CASE pos = 0
        BY <4>1
      <4>2. CASE pos - 1 \in Positions /\ pos - 1 # n
        <5>1. h[pos - 1] = g[pos - 1]
          BY <4>2
        <5> HIDE DEF h
        <5>2. QED
          BY <5>1
      <4>3. QED
        BY <3>1, <4>1, <4>2
    <3>3. CASE pos = n
      <4>1. h[pos] = At(g, pos)
        BY <3>3
      <4>2. QED
        BY <3>2, <4>1
    <3>4. CASE pos # n
      <4>1. pos < n /\ h[pos] = g[pos]
        BY <1>1, <2>4, <3>4 DEF Positions
      <4>2. g[pos] = At(g, pos)
        BY <2>3, <4>1
      <4>3. QED
        BY <3>2, <4>1, <4>2
    <3>5. QED
      BY <3>3, <3>4
  <2> HIDE DEF h, At
  <2>5. Solves(h, n + 1)
    BY <2>4
  <2>6. QED
    BY <2>5
<1>4. PICK g : Solves(g, SIZE)
  <2> HIDE DEF Solves
  <2>1. SIZE \in T
    <3> HIDE DEF T
    <3>1. QED
      BY <1>1, <1>2, <1>3, SetInductionOnNat
  <2>2. QED
    BY <1>1, <2>1
<1> DEFINE f == [pos \in Positions |-> g[pos]]
<1>5. ASSUME NEW pos \in Positions PROVE f[pos] = At(f, pos)
  <2>1. pos < SIZE /\ (pos = 0 \/ pos - 1 \in Positions)
    BY <1>1 DEF Positions
  <2>2. g[pos] = At(g, pos)
    BY <1>4, <2>1
  <2>3. At(f, pos) = At(g, pos)
    <3>1. pos = 0 \/ f[pos - 1] = g[pos - 1]
      BY <2>1
    <3> HIDE DEF f
    <3>2. QED
      BY <3>1
  <2>4. QED
    BY <2>2, <2>3
<1>6. Remainders(arr, divisor, f)
  <2>1. f = [pos \in Positions |-> f[pos]]
    OBVIOUS
  <2> HIDE DEF f, At
  <2>2. f = [pos \in Positions |-> At(f, pos)]
    BY <1>5, <2>1
  <2>3. QED
    BY <2>2 DEF Remainders, At
<1>7. QED
  BY <1>6

\* One digit of a long division.
LEMMA DivideDigit ==
  ASSUME NEW b \in Nat \ {0}, NEW d \in Nat \ {0},
         NEW c \in 0..(d - 1), NEW x \in 0..(b - 1)
  PROVE  /\ x + c * b \in Nat
         /\ (x + c * b) \div d \in 0..(b - 1)
         /\ (x + c * b) % d \in 0..(d - 1)
         /\ x + c * b = ((x + c * b) \div d) * d + ((x + c * b) % d)
<1> DEFINE s == x + c * b
           q == s \div d
           r == s % d
<1>1. c * b \in Nat /\ c * b <= (d - 1) * b /\ (d - 1) * b = d * b - b
  <2>1. c \in Nat /\ c <= d - 1 /\ d - 1 \in Nat
    OBVIOUS
  <2>2. c * b <= (d - 1) * b
    BY <2>1
  <2>3. QED
    BY <2>1, <2>2
<1>2. s \in Nat /\ d * b \in Nat
  BY <1>1
<1>3. s < d * b
  BY <1>1, <1>2
<1> HIDE DEF s
<1>4. q \in Nat /\ r \in 0..(d - 1) /\ s = q * d + r
  BY <1>2, DivMod
<1> HIDE DEF q, r
<1>5. q < b
  <2>1. SUFFICES ASSUME q >= b PROVE FALSE
    BY <1>4
  <2>2. q * d >= b * d
    BY <1>4, <2>1
  <2>3. q * d \in Nat /\ b * d = d * b
    BY <1>4
  <2>4. QED
    BY <1>2, <1>3, <1>4, <2>2, <2>3
<1>6. q \in 0..(b - 1)
  BY <1>4, <1>5
<1>7. QED
  BY <1>2, <1>4, <1>6 DEF q, r, s

\* div_in_place is the quotient of whole numbers.
LEMMA DivValue ==
  ASSUME NEW arr \in Array, NEW d \in Nat \ {0}
  PROVE  /\ div_in_place(arr, d) \in Array
         /\ Value(div_in_place(arr, d)) = Value(arr) \div d
<1> DEFINE remainder == CHOOSE g : Remainders(arr, d, g)
           out == div_in_place(arr, d)
           Left(m) == IF m = 0 THEN 0 ELSE (arr[m - 1] + remainder[m - 1]) % d
           Digit(m) == (arr[m] + remainder[m]) \div d
           T == {m \in Nat : m <= SIZE =>
                   /\ Left(m) \in 0..(d - 1)
                   /\ Prefixes(arr)[m - 1] = Prefixes(out)[m - 1] * d + Left(m)
                   /\ Prefixes(out)[m - 1] \in Nat
                   /\ \A pos \in Positions : pos < m => Digit(pos) \in 0..(BASE - 1)}
<1>1. SIZE \in Nat /\ BASE \in Nat \ {0}
  BY ArrayAssumption
<1>2. Remainders(arr, d, remainder)
  BY RemaindersExist
<1>3. \A pos \in Positions : out[pos] = Digit(pos) % BASE
  BY DEF div_in_place, Remainders
<1>4. out = [pos \in Positions |-> out[pos]]
  BY DEF div_in_place
<1> HIDE DEF remainder, out
<1>5. \A pos \in Positions : arr[pos] \in 0..(BASE - 1)
  BY ArrayIsDigits
<1>6. \A pos \in Positions : remainder[pos] = Left(pos) * BASE
  <2> TAKE pos \in Positions
  <2>1. CASE pos = 0
    <3>1. remainder[pos] = 0
      BY <1>2, <2>1 DEF Remainders
    <3>2. 0 * BASE = 0
      BY <1>1
    <3>3. QED
      BY <2>1, <3>1, <3>2
  <2>2. CASE pos # 0
    BY <1>2, <2>2 DEF Remainders
  <2>3. QED
    BY <2>1, <2>2
<1>7. 0 \in T
  <2>1. Prefixes(arr)[-1] = 0 /\ Prefixes(out)[-1] = 0
    BY PrefixesDef
  <2>2. 0 = 0 * d + 0 /\ 0 - 1 = -1 /\ 0 \in 0..(d - 1)
    OBVIOUS
  <2>3. \A pos \in Positions : ~(pos < 0)
    BY <1>1 DEF Positions
  <2> HIDE DEF Digit
  <2>4. QED
    BY <2>1, <2>2, <2>3
<1>8. ASSUME NEW m \in Nat, m \in T PROVE m + 1 \in T
  <2> DEFINE Goal ==
               /\ Left(m + 1) \in 0..(d - 1)
               /\ Prefixes(arr)[(m + 1) - 1] = Prefixes(out)[(m + 1) - 1] * d + Left(m + 1)
               /\ Prefixes(out)[(m + 1) - 1] \in Nat
               /\ \A pos \in Positions : pos < m + 1 => Digit(pos) \in 0..(BASE - 1)
  <2>1. SUFFICES ASSUME m + 1 <= SIZE PROVE Goal
    <3> HIDE DEF Left, Digit
    <3>1. QED
      OBVIOUS
  <2>2. m \in Positions /\ m <= SIZE /\ (m + 1) - 1 = m /\ m + 1 # 0
    BY <1>1, <2>1 DEF Positions
  <2>3. /\ Left(m) \in 0..(d - 1)
        /\ Prefixes(arr)[m - 1] = Prefixes(out)[m - 1] * d + Left(m)
        /\ Prefixes(out)[m - 1] \in Nat
        /\ \A pos \in Positions : pos < m => Digit(pos) \in 0..(BASE - 1)
    <3> HIDE DEF Left, Digit
    <3>1. QED
      BY <1>8, <2>2
  <2>4. Left(m + 1) = (arr[m] + remainder[m]) % d
    BY <2>2
  <2> DEFINE c == Left(m)
             x == arr[m]
             s == x + c * BASE
             q == s \div d
             r == s % d
             p == Prefixes(out)[m - 1]
  <2>5. c \in 0..(d - 1) /\ x \in 0..(BASE - 1) /\ p \in Nat
    BY <1>5, <2>2, <2>3
  <2>6. arr[m] + remainder[m] = s
    BY <1>6, <2>2
  <2>7. Left(m + 1) = r /\ Digit(m) = q
    BY <2>4, <2>6
  <2>8. Prefixes(arr)[m] = (p * d + c) * BASE + x
    BY <2>2, <2>3, PrefixesDef
  <2>9. Prefixes(out)[m] = p * BASE + (q % BASE)
    BY <1>3, <2>2, <2>7, PrefixesDef
  <2> HIDE DEF Left, Digit, c, x, p
  <2>10. s \in Nat /\ q \in 0..(BASE - 1) /\ r \in 0..(d - 1) /\ s = q * d + r
    BY <1>1, <2>5, DivideDigit
  <2>11. q % BASE = q
    <3> HIDE DEF q
    <3>1. QED
      BY <1>1, <2>10
  <2>12. (p * d + c) * BASE + x = (p * BASE + q) * d + r
    <3>1. (p * d + c) * BASE + x = p * BASE * d + s
      BY <1>1, <2>5
    <3> HIDE DEF s, q, r
    <3>2. p * BASE * d + (q * d + r) = (p * BASE + q) * d + r
      BY <1>1, <2>5, <2>10
    <3>3. QED
      BY <2>10, <3>1, <3>2
  <2> HIDE DEF q, r, s
  <2>13. p * BASE + q \in Nat
    BY <1>1, <2>5, <2>10
  <2>14. \A pos \in Positions : pos < m + 1 => Digit(pos) \in 0..(BASE - 1)
    <3> TAKE pos \in Positions
    <3>1. pos < m + 1 => pos < m \/ pos = m
      BY <1>1 DEF Positions
    <3>2. QED
      BY <2>3, <2>7, <2>10, <3>1
  <2>15. QED
    BY <2>2, <2>7, <2>8, <2>9, <2>10, <2>11, <2>12, <2>13, <2>14
<1>9. SIZE \in T
  <2> HIDE DEF T
  <2>1. QED
    BY <1>1, <1>7, <1>8, SetInductionOnNat
<1>10. /\ Left(SIZE) \in 0..(d - 1)
       /\ Prefixes(arr)[SIZE - 1] = Prefixes(out)[SIZE - 1] * d + Left(SIZE)
       /\ Prefixes(out)[SIZE - 1] \in Nat
       /\ \A pos \in Positions : pos < SIZE => Digit(pos) \in 0..(BASE - 1)
  <2> HIDE DEF Left, Digit
  <2>1. QED
    BY <1>1, <1>9
<1> HIDE DEF Left, Digit
<1>11. Value(out) = Value(arr) \div d
  <2> DEFINE q == Prefixes(out)[SIZE - 1]
             r == Left(SIZE)
  <2>1. q \in Nat /\ r \in 0..(d - 1) /\ Value(arr) = q * d + r /\ Value(out) = q
    BY <1>10 DEF Value
  <2> HIDE DEF q, r
  <2>2. QED
    BY <2>1, DivModUnique
<1>12. out \in Array
  <2>1. ASSUME NEW pos \in Positions PROVE out[pos] \in 0..(BASE - 1)
    <3>1. pos < SIZE
      BY <1>1 DEF Positions
    <3>2. Digit(pos) \in 0..(BASE - 1) /\ out[pos] = Digit(pos) % BASE
      BY <1>3, <1>10, <3>1
    <3>3. QED
      BY <1>1, <3>2
  <2>2. QED
    BY <1>4, <2>1 DEF Array, Bytes
<1>13. QED
  BY <1>11, <1>12 DEF out

-----------------------------------------------------------------------------
(* Compact targets.                                                        *)

\* Either no byte is set, or there is a first one that is.
LEMMA FirstByteFound ==
  ASSUME NEW x \in Array, NEW none
  PROVE  \/ /\ \A pos \in Positions : x[pos] = 0
            /\ FirstByte(x, none) = none
         \/ /\ FirstByte(x, none) \in Positions
            /\ x[FirstByte(x, none)] > 0
            /\ \A j \in Positions : j < FirstByte(x, none) => x[j] = 0
<1> DEFINE First(s) == x[s] > 0 /\ \A j \in Positions : j < s => x[j] = 0
           Zeros(n) == \A pos \in Positions : pos < n => x[pos] = 0
           T == {n \in Nat : n <= SIZE => Zeros(n) \/ \E s \in Positions : First(s)}
<1>1. SIZE \in Nat /\ \A pos \in Positions : x[pos] \in Nat
  BY ArrayAssumption, ArrayIsDigits
<1>2. 0 \in T
  <2>1. \A pos \in Positions : ~(pos < 0)
    BY <1>1 DEF Positions
  <2>2. QED
    BY <2>1
<1>3. ASSUME NEW n \in Nat, n \in T PROVE n + 1 \in T
  <2>1. SUFFICES ASSUME n + 1 <= SIZE, Zeros(n)
                 PROVE  Zeros(n + 1) \/ \E s \in Positions : First(s)
    <3>1. n + 1 <= SIZE => n <= SIZE
      BY <1>1
    <3> HIDE DEF Zeros, First
    <3>2. QED
      BY <1>3, <3>1
  <2>2. n \in Positions
    BY <1>1, <2>1 DEF Positions
  <2>3. CASE x[n] = 0
    <3>1. \A pos \in Positions : pos < n + 1 => pos < n \/ pos = n
      BY <1>1 DEF Positions
    <3>2. Zeros(n + 1)
      BY <2>1, <2>3, <3>1
    <3>3. QED
      BY <3>2
  <2>4. CASE x[n] # 0
    <3>1. x[n] > 0
      BY <1>1, <2>2, <2>4
    <3>2. First(n)
      BY <2>1, <3>1
    <3>3. QED
      BY <2>2, <3>2
  <2>5. QED
    BY <2>3, <2>4
<1>4. Zeros(SIZE) \/ \E s \in Positions : First(s)
  <2>1. SIZE \in T
    <3> HIDE DEF T
    <3>1. QED
      BY <1>1, <1>2, <1>3, SetInductionOnNat
  <2> HIDE DEF Zeros, First
  <2>2. QED
    BY <1>1, <2>1
<1>5. CASE Zeros(SIZE)
  <2>1. \A pos \in Positions : x[pos] = 0
    BY <1>1, <1>5 DEF Positions
  <2>2. ~ \E i \in Positions : x[i] > 0
    BY <2>1
  <2>3. QED
    BY <2>1, <2>2 DEF FirstByte
<1>6. CASE \E s \in Positions : First(s)
  <2>1. FirstByte(x, none) = CHOOSE s \in Positions : First(s)
    BY <1>6 DEF FirstByte
  <2>2. FirstByte(x, none) \in Positions /\ First(FirstByte(x, none))
    <3> HIDE DEF First
    <3>1. QED
      BY <1>6, <2>1
  <2>3. QED
    BY <2>2
<1>7. QED
  BY <1>4, <1>5, <1>6

LEMMA FirstByteIs ==
  ASSUME NEW x \in Array, NEW none, NEW s \in Positions,
         x[s] > 0, \A j \in Positions : j < s => x[j] = 0
  PROVE  FirstByte(x, none) = s
<1> DEFINE f == FirstByte(x, none)
<1>1. f \in Positions /\ x[f] > 0 /\ \A j \in Positions : j < f => x[j] = 0
  <2>1. ~ \A pos \in Positions : x[pos] = 0
    BY ArrayIsDigits
  <2>2. QED
    BY <2>1, FirstByteFound
<1> HIDE DEF f
<1>2. ~(f < s) /\ ~(s < f)
  <2>1. \A n \in Positions : n \in Nat /\ x[n] \in Nat
    BY ArrayAssumption, ArrayIsDigits DEF Positions
  <2>2. QED
    BY <1>1, <2>1
<1>3. f = s
  BY <1>1, <1>2, ArrayAssumption DEF Positions
<1>4. QED
  BY <1>3 DEF f

\* The three digits of a word.
HasDigits(w, b, x, y, z) ==
  /\ w \in Nat
  /\ w \div b = x * b + y /\ w % b = z
  /\ (w \div b) % b = y /\ (w \div b) \div b = x
  /\ w \div (b * b) = x
  /\ (w \div b) \div (b * b) = 0
  /\ \A h \in Nat : w >= h * b * b <=> x >= h

LEMMA WordDigits ==
  ASSUME NEW b \in Nat \ {0}, NEW x \in 0..(b - 1), NEW y \in 0..(b - 1), NEW z \in 0..(b - 1),
         NEW w, w = x * b * b + y * b + z
  PROVE  HasDigits(w, b, x, y, z)
<1> DEFINE v == x * b + y
<1>1. v \in Nat /\ w = v * b + z /\ b * b \in Nat \ {0}
  <2>1. (x * b + y) * b = x * b * b + y * b
    OBVIOUS
  <2>2. QED
    BY <2>1
<1>2. v \div b = x /\ v % b = y
  BY DivModUnique
<1> HIDE DEF v
<1>3. w \in Nat /\ w \div b = v /\ w % b = z
  BY <1>1, DivModUnique
<1>4. w \div (b * b) = x
  <2>1. w \div (b * b) = (w \div b) \div b
    <3> HIDE DEF v
    <3>1. w \in Nat
      BY <1>3
    <3>2. \A n \in Nat : n \div (b * b) = (n \div b) \div b
      BY DivDiv
    <3>3. QED
      BY <3>1, <3>2
  <2>2. QED
    BY <1>2, <1>3, <2>1
<1>5. v \div (b * b) = 0
  <2>1. v \div (b * b) = (v \div b) \div b
    BY <1>1, DivDiv
  <2>2. x \div b = 0
    OBVIOUS
  <2>3. QED
    BY <1>2, <2>1, <2>2
<1>6. \A h \in Nat : w >= h * b * b <=> x >= h
  <2> TAKE h \in Nat
  <2>1. w >= h * (b * b) <=> w \div (b * b) >= h
    <3> DEFINE u == b * b
    <3>1. u \in Nat \ {0}
      BY <1>1
    <3> HIDE DEF u
    <3>2. w >= h * u <=> w \div u >= h
      BY <1>3, <3>1, DivReaches
    <3>3. QED
      BY <3>2 DEF u
  <2>2. h * (b * b) = h * b * b
    OBVIOUS
  <2>3. QED
    BY <1>4, <2>1, <2>2
<1>7. QED
  BY <1>2, <1>3, <1>4, <1>5, <1>6 DEF v, HasDigits

\* How many bytes from its first one a target keeps.
Kept(x) ==
  IF FirstByte(x, SIZE) < SIZE /\ x[FirstByte(x, SIZE)] >= BASE \div 2 THEN 2 ELSE 3

LEMMA HalfBase == BASE \div 2 \in Nat \ {0} /\ BASE = 2 * (BASE \div 2)
BY ArrayAssumption

\* Encoding a target and decoding it keeps the first bytes and no other.
LEMMA CompactDigits ==
  ASSUME NEW x \in Array
  PROVE  /\ nbits_to_target(target_to_nbits(x)) \in Array
         /\ \A pos \in Positions :
              nbits_to_target(target_to_nbits(x))[pos] =
                IF pos < FirstByte(x, SIZE) + Kept(x) THEN x[pos] ELSE 0
<1> DEFINE s == FirstByte(x, SIZE)
           byte(pos) == IF pos < SIZE THEN x[pos] ELSE 0
           a == byte(s)
           b == byte(s + 1)
           c == byte(s + 2)
           w == Word(x, s)
           nbits == target_to_nbits(x)
           y == nbits_to_target(nbits)
           half == BASE \div 2
           start == SIZE - nbits.size
<1>1. SIZE \in Nat /\ BASE \in Nat \ {0} /\ half \in Nat \ {0} /\ BASE = 2 * half
  BY ArrayAssumption, HalfBase
<1>2. \A pos \in Positions : x[pos] \in 0..(BASE - 1)
  BY ArrayIsDigits
<1>3. s \in 0..SIZE /\ (s = SIZE => \A pos \in Positions : x[pos] = 0)
      /\ \A j \in Positions : j < s => x[j] = 0
  <2>1. SIZE \notin Positions /\ SIZE \in 0..SIZE /\ \A pos \in Positions : pos \in 0..SIZE
    BY <1>1 DEF Positions
  <2>2. QED
    BY <2>1, FirstByteFound
<1>4. w = a * BASE * BASE + b * BASE + c
  BY DEF Word
<1>5. nbits = IF w >= half * BASE * BASE
              THEN [size |-> SIZE - s + 1, word |-> w \div BASE]
              ELSE [size |-> SIZE - s, word |-> w]
  BY DEF target_to_nbits
<1>6. y = [pos \in Positions |->
             CASE pos = start -> (nbits.word \div (BASE * BASE)) % half
               [] pos = start + 1 -> (nbits.word \div BASE) % BASE
               [] pos = start + 2 -> nbits.word % BASE
               [] OTHER -> 0]
  BY DEF nbits_to_target
<1> HIDE DEF s, w, nbits, y, half
<1>7. \A pos \in Nat : byte(pos) \in 0..(BASE - 1)
  <2> TAKE pos \in Nat
  <2>1. CASE pos < SIZE
    BY <1>1, <1>2, <2>1 DEF Positions
  <2>2. CASE ~(pos < SIZE)
    BY <1>1, <2>2
  <2>3. QED
    BY <2>1, <2>2
<1>8. a \in 0..(BASE - 1) /\ b \in 0..(BASE - 1) /\ c \in 0..(BASE - 1)
  <2>1. s \in Nat /\ s + 1 \in Nat /\ s + 2 \in Nat
    BY <1>1, <1>3
  <2> HIDE DEF byte
  <2>2. QED
    BY <1>7, <2>1
<1>9. s + 1 < SIZE => b = x[s + 1]
  OBVIOUS
<1>10. s + 2 < SIZE => c = x[s + 2]
  OBVIOUS
<1>11. s < SIZE => a = x[s]
  OBVIOUS
<1>12. s = SIZE => a = 0
  BY <1>1
<1> HIDE DEF a, b, c
<1>13. /\ w \div BASE = a * BASE + b /\ w % BASE = c
       /\ (w \div BASE) % BASE = b /\ (w \div BASE) \div BASE = a
       /\ w \div (BASE * BASE) = a
       /\ (w \div BASE) \div (BASE * BASE) = 0
       /\ (w >= half * BASE * BASE <=> a >= half)
  <2>1. HasDigits(w, BASE, a, b, c)
    BY <1>1, <1>4, <1>8, WordDigits
  <2>2. QED
    BY <1>1, <2>1, Zenon DEF HasDigits
<1>14. Kept(x) = IF a >= half THEN 2 ELSE 3
  <2>1. CASE s < SIZE
    BY <1>11, <2>1 DEF Kept, s, half
  <2>2. CASE s = SIZE
    <3>1. ~(SIZE < SIZE) /\ ~(a >= half)
      BY <1>1, <1>12, <2>2
    <3>2. QED
      BY <2>2, <3>1 DEF Kept, s, half
  <2>3. QED
    BY <1>1, <1>3, <2>1, <2>2
<1>15. ASSUME NEW pos \in Positions
       PROVE  y[pos] = IF pos < s + Kept(x) THEN x[pos] ELSE 0
  <2>1. pos \in Nat /\ pos < SIZE
    BY <1>1 DEF Positions
  <2>2. CASE a >= half
    <3>1. nbits.size = SIZE - s + 1 /\ nbits.word = w \div BASE
      BY <1>5, <1>13, <2>2
    <3>2. start = s - 1 /\ start + 1 = s /\ start + 2 = s + 1
      BY <1>1, <1>3, <3>1
    <3>3. 0 % half = 0 /\ a % BASE = a
      BY <1>1, <1>8
    <3>4. /\ (nbits.word \div (BASE * BASE)) % half = 0
          /\ (nbits.word \div BASE) % BASE = a /\ nbits.word % BASE = b
      BY <1>13, <3>1, <3>3
    <3> HIDE DEF start
    <3>5. y[pos] = CASE pos = s - 1 -> 0
                     [] pos = s -> a
                     [] pos = s + 1 -> b
                     [] OTHER -> 0
      BY <1>6, <3>2, <3>4
    <3>6. Kept(x) = 2
      BY <1>14, <2>2
    <3>7. CASE pos = s - 1
      <4>1. pos < s /\ pos < s + 2
        BY <1>3, <3>7
      <4>2. x[pos] = 0
        BY <1>3, <4>1
      <4>3. y[pos] = 0
        <5>1. pos = s - 1 /\ pos # s /\ pos # s + 1
          BY <1>3, <3>7
        <5>2. QED
          BY <3>5, <5>1
      <4>4. QED
        BY <3>6, <4>1, <4>2, <4>3
    <3>8. CASE pos = s
      <4>1. y[pos] = a
        <5>1. pos # s - 1 /\ pos = s /\ pos # s + 1
          BY <1>3, <3>8
        <5>2. QED
          BY <3>5, <5>1
      <4>2. pos < s + 2
        BY <1>3, <3>8
      <4>3. QED
        BY <1>11, <2>1, <3>6, <3>8, <4>1, <4>2
    <3>9. CASE pos = s + 1
      <4>1. y[pos] = b
        <5>1. pos # s - 1 /\ pos # s /\ pos = s + 1
          BY <1>3, <3>9
        <5>2. QED
          BY <3>5, <5>1
      <4>2. pos < s + 2
        BY <1>3, <3>9
      <4>3. QED
        BY <1>9, <2>1, <3>6, <3>9, <4>1, <4>2
    <3>10. CASE pos # s - 1 /\ pos # s /\ pos # s + 1
      <4>1. y[pos] = 0
        BY <3>5, <3>10
      <4>2. pos < s + 2 => pos < s
        BY <1>3, <2>1, <3>10
      <4>3. QED
        BY <1>3, <3>6, <4>1, <4>2
    <3>11. QED
      BY <3>7, <3>8, <3>9, <3>10
  <2>3. CASE ~(a >= half)
    <3>1. nbits.size = SIZE - s /\ nbits.word = w
      BY <1>5, <1>13, <2>3
    <3>2. start = s /\ start + 1 = s + 1 /\ start + 2 = s + 2
      BY <1>1, <1>3, <3>1
    <3>3. a % half = a
      BY <1>1, <1>8, <2>3
    <3>4. /\ (nbits.word \div (BASE * BASE)) % half = a
          /\ (nbits.word \div BASE) % BASE = b /\ nbits.word % BASE = c
      BY <1>13, <3>1, <3>3
    <3> HIDE DEF start
    <3>5. y[pos] = CASE pos = s -> a
                     [] pos = s + 1 -> b
                     [] pos = s + 2 -> c
                     [] OTHER -> 0
      BY <1>6, <3>2, <3>4
    <3>6. Kept(x) = 3
      BY <1>14, <2>3
    <3>7. CASE pos = s
      <4>1. y[pos] = a
        <5>1. pos = s /\ pos # s + 1 /\ pos # s + 2
          BY <1>3, <3>7
        <5>2. QED
          BY <3>5, <5>1
      <4>2. pos < s + 3
        BY <1>3, <3>7
      <4>3. QED
        BY <1>11, <2>1, <3>6, <3>7, <4>1, <4>2
    <3>8. CASE pos = s + 1
      <4>1. y[pos] = b
        <5>1. pos # s /\ pos = s + 1 /\ pos # s + 2
          BY <1>3, <3>8
        <5>2. QED
          BY <3>5, <5>1
      <4>2. pos < s + 3
        BY <1>3, <3>8
      <4>3. QED
        BY <1>9, <2>1, <3>6, <3>8, <4>1, <4>2
    <3>9. CASE pos = s + 2
      <4>1. y[pos] = c
        <5>1. pos # s /\ pos # s + 1 /\ pos = s + 2
          BY <1>3, <3>9
        <5>2. QED
          BY <3>5, <5>1
      <4>2. pos < s + 3
        BY <1>3, <3>9
      <4>3. QED
        BY <1>10, <2>1, <3>6, <3>9, <4>1, <4>2
    <3>10. CASE pos # s /\ pos # s + 1 /\ pos # s + 2
      <4>1. y[pos] = 0
        BY <3>5, <3>10
      <4>2. pos < s + 3 => pos < s
        BY <1>3, <2>1, <3>10
      <4>3. QED
        BY <1>3, <3>6, <4>1, <4>2
    <3>11. QED
      BY <3>7, <3>8, <3>9, <3>10
  <2>4. QED
    BY <2>2, <2>3
<1>16. y \in Array
  <2>1. ASSUME NEW pos \in Positions PROVE y[pos] \in 0..(BASE - 1)
    <3>1. 0 \in 0..(BASE - 1)
      BY <1>1
    <3>2. QED
      BY <1>2, <1>15, <3>1
  <2>2. y = [pos \in Positions |-> y[pos]]
    BY <1>6
  <2>3. QED
    BY <2>1, <2>2 DEF Array, Bytes
<1>17. QED
  BY <1>15, <1>16 DEF y, nbits, s

\* What has been encoded and decoded once stays as it is.
LEMMA CompactTwice ==
  ASSUME NEW x \in Array, NEW y, y = nbits_to_target(target_to_nbits(x))
  PROVE  nbits_to_target(target_to_nbits(y)) = y
<1> DEFINE s == FirstByte(x, SIZE)
           z == nbits_to_target(target_to_nbits(y))
<1>1. SIZE \in Nat /\ BASE \in Nat
  BY ArrayAssumption
<1>2. y \in Array /\ \A pos \in Positions : y[pos] = IF pos < s + Kept(x) THEN x[pos] ELSE 0
  BY CompactDigits
<1>3. /\ z \in Array
      /\ \A pos \in Positions :
           z[pos] = IF pos < FirstByte(y, SIZE) + Kept(y) THEN y[pos] ELSE 0
  BY <1>2, CompactDigits
<1>4. ASSUME NEW pos \in Positions PROVE z[pos] = y[pos]
  <2>1. CASE \A j \in Positions : x[j] = 0
    BY <1>2, <1>3, <2>1
  <2>2. CASE s \in Positions /\ x[s] > 0 /\ \A j \in Positions : j < s => x[j] = 0
    <3> HIDE DEF z, s
    <3>1. s \in Nat /\ s < SIZE /\ Kept(x) \in Nat \ {0}
      BY <1>1, <2>2 DEF Positions, Kept
    <3>2. y[s] = x[s]
      <4>1. s < s + Kept(x)
        BY <3>1
      <4>2. QED
        BY <1>2, <2>2, <4>1
    <3>3. \A j \in Positions : j < s => y[j] = 0
      BY <1>2, <2>2
    <3>4. FirstByte(y, SIZE) = s
      BY <1>2, <2>2, <3>2, <3>3, FirstByteIs
    <3>5. Kept(y) = Kept(x)
      BY <3>2, <3>4 DEF Kept, s
    <3>6. QED
      BY <1>2, <1>3, <3>4, <3>5
  <2>3. QED
    BY <2>1, <2>2, FirstByteFound
<1>5. z = [pos \in Positions |-> z[pos]] /\ y = [pos \in Positions |-> y[pos]]
  BY <1>2, <1>3 DEF Array
<1> HIDE DEF z
<1>6. z = y
  BY <1>4, <1>5
<1>7. QED
  BY <1>6 DEF z

LEMMA PowersGrow ==
  ASSUME NEW base \in Nat \ {0}, NEW i \in Nat, NEW j \in Nat, i <= j
  PROVE  Power(base, i) <= Power(base, j)
<1> DEFINE T == {n \in Nat : Power(base, i) <= Power(base, i + n)}
<1>1. \A n \in Nat : Power(base, n) \in Nat /\ Power(base, n + 1) = base * Power(base, n)
  BY PowerDef
<1>2. 0 \in T
  <2>1. i + 0 = i /\ Power(base, i) <= Power(base, i)
    BY <1>1
  <2>2. QED
    BY <2>1
<1>3. ASSUME NEW n \in Nat, n \in T PROVE n + 1 \in T
  <2> DEFINE v == Power(base, i)
             w == Power(base, i + n)
  <2>1. i + n \in Nat /\ i + (n + 1) = (i + n) + 1
    OBVIOUS
  <2>2. v \in Nat /\ w \in Nat /\ v <= w /\ Power(base, i + (n + 1)) = base * w
    BY <1>1, <1>3, <2>1
  <2> HIDE DEF v, w
  <2>3. w <= base * w /\ base * w \in Nat
    BY <2>2
  <2>4. v <= base * w
    BY <2>2, <2>3
  <2>5. QED
    BY <2>2, <2>4 DEF v
<1>4. j - i \in T
  <2> HIDE DEF T
  <2>1. j - i \in Nat
    OBVIOUS
  <2>2. QED
    BY <1>2, <1>3, <2>1, SetInductionOnNat
<1>5. i + (j - i) = j
  OBVIOUS
<1>6. QED
  BY <1>4, <1>5

\* The bytes of a number from its first one on, as Rounded sees them.
Fits(n, k) == n < Power(BASE, k) /\ (k > 0 => n >= Power(BASE, k - 1))

LEMMA FirstByteIsSize ==
  ASSUME NEW x \in Array
  PROVE  /\ FirstByte(x, SIZE) \in 0..SIZE
         /\ Fits(Value(x), SIZE - FirstByte(x, SIZE))
         /\ \A k \in 0..SIZE : Fits(Value(x), k) => k = SIZE - FirstByte(x, SIZE)
         /\ \A h \in Nat \ {0} :
              FirstByte(x, SIZE) < SIZE =>
                (Value(x) >= h * Power(BASE, SIZE - FirstByte(x, SIZE) - 1)
                   <=> x[FirstByte(x, SIZE)] >= h)
<1> DEFINE s == FirstByte(x, SIZE)
           n == Value(x)
<1>1. SIZE \in Nat /\ BASE \in Nat \ {0}
  BY ArrayAssumption
<1>2. \A k \in Nat : Power(BASE, k) \in Nat \ {0}
  BY <1>1, PowerDef
<1>3. /\ s \in 0..SIZE /\ (s < SIZE => s \in Positions /\ x[s] > 0)
      /\ \A j \in Positions : j < s => x[j] = 0
  <2>1. SIZE \in 0..SIZE /\ ~(SIZE < SIZE) /\ \A pos \in Positions : pos \in 0..SIZE
    BY <1>1 DEF Positions
  <2>2. QED
    BY <2>1, FirstByteFound
<1>4. n \in Nat
  <2>1. SIZE - 1 \in -1..(SIZE - 1)
    BY <1>1
  <2>2. QED
    BY <2>1, ArrayIsDigits, PrefixType DEF Value
<1>5. Prefixes(x)[s - 1] = 0
  BY <1>3, LeadingZeros
<1> HIDE DEF s, n
<1>6. n < Power(BASE, SIZE - s)
  <2> DEFINE w == Power(BASE, SIZE - s)
  <2>1. SIZE - s \in 0..SIZE /\ SIZE - 1 - (SIZE - s) = s - 1 /\ SIZE - s \in Nat
    BY <1>1, <1>3
  <2>2. w \in Nat \ {0}
    BY <1>2, <2>1
  <2>3. n \div w = 0
    BY <1>5, <2>1, PrefixIsQuotient DEF n
  <2> HIDE DEF w
  <2>4. n >= 1 * w <=> n \div w >= 1
    BY <1>4, <2>2, DivReaches
  <2>5. QED
    BY <1>4, <2>2, <2>3, <2>4 DEF w
<1>7. ASSUME s < SIZE
      PROVE  n \div Power(BASE, SIZE - s - 1) = x[s]
  <2>1. SIZE - s - 1 \in 0..SIZE /\ SIZE - 1 - (SIZE - s - 1) = s
    BY <1>1, <1>3, <1>7
  <2>2. Prefixes(x)[s] = n \div Power(BASE, SIZE - s - 1)
    BY <2>1, PrefixIsQuotient DEF n
  <2>3. Prefixes(x)[s] = 0 * BASE + x[s]
    BY <1>3, <1>5, <1>7, PrefixesDef
  <2>4. x[s] \in Nat
    BY <1>3, <1>7, ArrayIsDigits
  <2>5. 0 * BASE + x[s] = x[s]
    BY <1>1, <2>4
  <2>6. QED
    BY <2>2, <2>3, <2>5
<1>8. ASSUME NEW h \in Nat, s < SIZE
      PROVE  n >= h * Power(BASE, SIZE - s - 1) <=> x[s] >= h
  <2> DEFINE w == Power(BASE, SIZE - s - 1)
  <2>1. SIZE - s - 1 \in Nat
    BY <1>1, <1>3, <1>8
  <2>2. w \in Nat \ {0} /\ n \div w = x[s]
    BY <1>2, <1>7, <1>8, <2>1
  <2> HIDE DEF w
  <2>3. n >= h * w <=> n \div w >= h
    BY <1>4, <2>2, DivReaches
  <2>4. QED
    BY <2>2, <2>3 DEF w
<1>9. Fits(n, SIZE - s)
  <2>1. SIZE - s > 0 => n >= Power(BASE, (SIZE - s) - 1)
    <3>1. SUFFICES ASSUME SIZE - s > 0 PROVE n >= Power(BASE, (SIZE - s) - 1)
      OBVIOUS
    <3>2. s < SIZE /\ (SIZE - s) - 1 \in Nat
      BY <1>1, <1>3, <3>1
    <3> DEFINE w == Power(BASE, SIZE - s - 1)
    <3>3. w \in Nat /\ (n >= 1 * w <=> x[s] >= 1)
      BY <1>2, <1>8, <3>2
    <3>4. x[s] \in Nat /\ x[s] > 0
      BY <1>3, <3>2, ArrayIsDigits
    <3> HIDE DEF w
    <3>5. n >= w
      BY <1>4, <3>3, <3>4
    <3>6. QED
      BY <3>5 DEF w
  <2>2. QED
    BY <1>6, <2>1 DEF Fits
<1>10. ASSUME NEW k \in 0..SIZE, Fits(n, k) PROVE k = SIZE - s
  <2> DEFINE l == SIZE - s
  <2>1. l \in Nat /\ k \in Nat /\ Fits(n, l)
    BY <1>1, <1>3, <1>9
  <2> HIDE DEF l
  <2>2. \A i, j \in Nat : Fits(n, i) /\ Fits(n, j) => ~(i < j)
    <3> SUFFICES ASSUME NEW i \in Nat, NEW j \in Nat, Fits(n, i), Fits(n, j), i < j PROVE FALSE
      OBVIOUS
    <3>1. j > 0 /\ j - 1 \in Nat /\ i <= j - 1
      OBVIOUS
    <3>2. Power(BASE, i) <= Power(BASE, j - 1)
      BY <1>1, <3>1, PowersGrow
    <3> DEFINE v == Power(BASE, i)
               w == Power(BASE, j - 1)
    <3>3. n < v /\ n >= w /\ v <= w /\ v \in Nat /\ w \in Nat
      BY <1>2, <3>1, <3>2 DEF Fits
    <3> HIDE DEF v, w
    <3>4. QED
      BY <1>4, <3>3
  <2>3. ~(k < l) /\ ~(l < k)
    BY <1>10, <2>1, <2>2
  <2>4. k = l
    BY <2>1, <2>3
  <2>5. QED
    BY <2>4 DEF l
<1>11. QED
  BY <1>3, <1>8, <1>9, <1>10 DEF s, n

\* Encoding and decoding rounds down to a compact target.
LEMMA CompactValue ==
  ASSUME NEW x \in Array, NEW y, y = nbits_to_target(target_to_nbits(x))
  PROVE  /\ y \in Array
         /\ Value(y) = Rounded(Value(x))
         /\ Value(y) <= Value(x)
<1> DEFINE s == FirstByte(x, SIZE)
           n == Value(x)
           size == CHOOSE k \in 0..SIZE : Fits(n, k)
           half == BASE \div 2
           kept == IF size > 0 /\ n >= half * Power(BASE, size - 1) THEN 2 ELSE 3
           unit == IF size > kept THEN Power(BASE, size - kept) ELSE 1
<1>1. SIZE \in Nat /\ BASE \in Nat \ {0} /\ half \in Nat \ {0}
  BY ArrayAssumption, HalfBase
<1>2. \A k \in Nat : Power(BASE, k) \in Nat \ {0}
  BY <1>1, PowerDef
<1>3. /\ s \in 0..SIZE /\ Fits(n, SIZE - s)
      /\ \A k \in 0..SIZE : Fits(n, k) => k = SIZE - s
      /\ \A h \in Nat \ {0} : s < SIZE => (n >= h * Power(BASE, SIZE - s - 1) <=> x[s] >= h)
  BY FirstByteIsSize
<1>4. Kept(x) = IF s < SIZE /\ x[s] >= half THEN 2 ELSE 3
  BY DEF Kept
<1>5. /\ y \in Array
      /\ \A pos \in Positions : y[pos] = IF pos < s + Kept(x) THEN x[pos] ELSE 0
  BY CompactDigits
<1>6. n \in Nat /\ Value(y) \in Nat
  <2>1. SIZE - 1 \in -1..(SIZE - 1)
    BY <1>1
  <2>2. QED
    BY <1>5, <2>1, ArrayIsDigits, PrefixType DEF Value
<1>7. Rounded(n) = (n \div unit) * unit
  BY DEF Rounded, Fits
<1> HIDE DEF s, n, half
<1>8. size = SIZE - s
  <2>1. SIZE - s \in 0..SIZE
    BY <1>1, <1>3
  <2>2. QED
    BY <1>3, <2>1
<1> HIDE DEF size
<1>9. kept = Kept(x)
  <2>1. size > 0 <=> s < SIZE
    BY <1>1, <1>3, <1>8
  <2>2. s < SIZE => (n >= half * Power(BASE, size - 1) <=> x[s] >= half)
    BY <1>1, <1>3, <1>8
  <2>3. QED
    BY <1>4, <2>1, <2>2
<1> HIDE DEF kept
<1>10. kept \in {2, 3}
  BY <1>4, <1>9
<1>11. CASE size > kept
  <2> DEFINE k == size - kept
             w == Power(BASE, k)
             p == Prefixes(y)[SIZE - 1 - k]
  <2>1. k \in 0..SIZE /\ SIZE - k = s + kept /\ s + kept \in 0..SIZE /\ k \in Nat
        /\ SIZE - 1 - k = (s + kept) - 1 /\ SIZE - 1 - k \in -1..(SIZE - 1)
    BY <1>1, <1>3, <1>8, <1>10, <1>11
  <2>2. unit = w /\ w \in Nat \ {0}
    BY <1>2, <1>11, <2>1
  <2>3. Value(y) = p * w
    <3>1. \A pos \in Positions : pos >= SIZE - k => y[pos] = 0
      <4>1. \A pos \in Positions : pos \in Nat
        BY <1>1 DEF Positions
      <4>2. QED
        BY <1>1, <1>3, <1>5, <1>9, <2>1, <4>1
    <3> HIDE DEF k
    <3>2. QED
      BY <1>5, <2>1, <3>1, TrailingZeros
  <2>4. p = Prefixes(x)[SIZE - 1 - k]
    <3>1. \A pos \in Positions : pos < s + kept => y[pos] = x[pos]
      BY <1>5, <1>9
    <3>2. Prefixes(y)[(s + kept) - 1] = Prefixes(x)[(s + kept) - 1]
      BY <2>1, <3>1, PrefixesAgree
    <3> HIDE DEF k
    <3>3. QED
      BY <2>1, <3>2
  <2>5. Prefixes(x)[SIZE - 1 - k] = n \div w
    BY <2>1, PrefixIsQuotient DEF n
  <2>6. Value(y) = (n \div unit) * unit
    BY <2>2, <2>3, <2>4, <2>5
  <2>7. (n \div w) * w <= n
    <3> HIDE DEF w
    <3> DEFINE q == n \div w
               r == n % w
    <3>1. q \in Nat /\ r \in 0..(w - 1) /\ n = q * w + r
      BY <1>6, <2>2, DivMod
    <3> HIDE DEF q, r
    <3>2. q * w \in Nat
      BY <2>2, <3>1
    <3>3. q * w <= n
      BY <2>2, <3>1, <3>2
    <3>4. QED
      BY <3>3 DEF q
  <2>8. QED
    BY <1>5, <1>7, <2>2, <2>6, <2>7 DEF n
<1>12. CASE ~(size > kept)
  <2>1. unit = 1
    BY <1>12
  <2>2. \A pos \in Positions : pos < s + kept
    BY <1>1, <1>3, <1>8, <1>10, <1>12 DEF Positions
  <2>3. y = x
    <3>1. \A pos \in Positions : y[pos] = x[pos]
      BY <1>5, <1>9, <2>2
    <3>2. y = [pos \in Positions |-> y[pos]] /\ x = [pos \in Positions |-> x[pos]]
      BY <1>5 DEF Array
    <3>3. QED
      BY <3>1, <3>2
  <2>4. (n \div 1) * 1 = n /\ n <= n
    BY <1>6
  <2>5. QED
    BY <1>5, <1>7, <2>1, <2>3, <2>4 DEF n
<1>13. QED
  BY <1>11, <1>12

\* The bytes that get_difficulty leaves out are 0.
LEMMA CompactTail ==
  ASSUME NEW x \in Array, NEW y, y = nbits_to_target(target_to_nbits(x)),
         ~ \A pos \in Positions : y[pos] = 0
  PROVE  \A pos \in Positions : pos >= FirstByte(y, 0) + 3 => y[pos] = 0
<1> DEFINE s == FirstByte(x, SIZE)
<1>1. SIZE \in Nat /\ BASE \in Nat
  BY ArrayAssumption
<1>2. y \in Array /\ \A pos \in Positions : y[pos] = IF pos < s + Kept(x) THEN x[pos] ELSE 0
  BY CompactDigits
<1>3. s \in Positions /\ x[s] > 0 /\ \A j \in Positions : j < s => x[j] = 0
  <2>1. ~ \A pos \in Positions : x[pos] = 0
    BY <1>2
  <2>2. QED
    BY <2>1, FirstByteFound
<1> HIDE DEF s
<1>4. s \in Nat /\ Kept(x) \in {2, 3}
  BY <1>1, <1>3 DEF Positions, Kept
<1>5. s < s + Kept(x)
  BY <1>4
<1>6. FirstByte(y, 0) = s
  <2>1. y[s] > 0 /\ \A j \in Positions : j < s => y[j] = 0
    BY <1>2, <1>3, <1>5
  <2>2. QED
    BY <1>2, <1>3, <2>1, FirstByteIs
<1>7. \A pos \in Positions : pos >= s + 3 => ~(pos < s + Kept(x))
  BY <1>1, <1>4 DEF Positions
<1>8. QED
  BY <1>2, <1>6, <1>7

\* get_difficulty divides by three bytes and shifts: that is the quotient by the
\* whole target.
LEMMA DifficultyValue ==
  ASSUME NEW t \in Array, ~DifficultyPanics(t),
         \A pos \in Positions : pos >= FirstByte(t, 0) + 3 => t[pos] = 0
  PROVE  /\ get_difficulty(t) \in Array
         /\ Value(t) \in Nat \ {0}
         /\ Value(get_difficulty(t)) = Value(MAX_DIFFICULTY) \div Value(t)
<1> DEFINE s == FirstByte(t, 0)
           shift == SIZE - s - 3
           word == Word(t, s)
           w == Power(BASE, shift)
           arr == div_in_place(MAX_DIFFICULTY, word)
           work == get_difficulty(t)
<1>1. SIZE \in Nat /\ SIZE > 2 /\ BASE \in Nat \ {0} /\ MAX_DIFFICULTY \in Array
  BY ArrayAssumption
<1>2. /\ s \in Positions /\ t[s] > 0 /\ s <= SIZE - 3
      /\ \A j \in Positions : j < s => t[j] = 0
  <2>1. ~(s > SIZE - 3) /\ ~ \A pos \in Positions : t[pos] = 0
    BY DEF DifficultyPanics
  <2>2. s \in Positions /\ t[s] > 0 /\ \A j \in Positions : j < s => t[j] = 0
    BY <2>1, FirstByteFound
  <2>3. QED
    BY <1>1, <2>1, <2>2 DEF Positions
<1>3. work = [pos \in Positions |-> IF pos < shift THEN 0 ELSE arr[pos - shift]]
  BY DEF get_difficulty
<1>4. word = (IF s < SIZE THEN t[s] ELSE 0) * BASE * BASE
             + (IF s + 1 < SIZE THEN t[s + 1] ELSE 0) * BASE
             + (IF s + 2 < SIZE THEN t[s + 2] ELSE 0)
  BY DEF Word
<1>5. Prefixes(t)[s - 1] = 0
  <2>1. s \in 0..SIZE
    BY <1>1, <1>2 DEF Positions
  <2>2. QED
    BY <1>2, <2>1, LeadingZeros
<1>6. \A pos \in Positions : pos >= s + 3 => t[pos] = 0
  OBVIOUS
<1> HIDE DEF s, word, work
<1>7. /\ s \in Nat /\ s < SIZE /\ s + 1 < SIZE /\ s + 2 < SIZE
      /\ s \in Positions /\ s + 1 \in Positions /\ s + 2 \in Positions
      /\ (s + 1) - 1 = s /\ (s + 2) - 1 = s + 1
      /\ shift \in 0..SIZE /\ shift \in Nat /\ SIZE - 1 - shift = s + 2 /\ SIZE - shift = s + 3
  BY <1>1, <1>2 DEF Positions
<1> HIDE DEF shift
<1> DEFINE x == t[s]
           y == t[s + 1]
           z == t[s + 2]
<1>8. x \in Nat \ {0} /\ y \in Nat /\ z \in Nat
  BY <1>1, <1>2, <1>7, ArrayIsDigits
<1>9. word = x * BASE * BASE + y * BASE + z
  BY <1>4, <1>7
<1>10. Prefixes(t)[s + 2] = ((0 * BASE + x) * BASE + y) * BASE + z
  <2>1. Prefixes(t)[s] = 0 * BASE + x
    BY <1>5, <1>7, PrefixesDef
  <2>2. Prefixes(t)[s + 1] = Prefixes(t)[s] * BASE + y
    BY <1>7, PrefixesDef
  <2>3. Prefixes(t)[s + 2] = Prefixes(t)[s + 1] * BASE + z
    BY <1>7, PrefixesDef
  <2> HIDE DEF x, y, z
  <2>4. QED
    BY <2>1, <2>2, <2>3, Zenon
<1> HIDE DEF x, y, z
<1>11. ((0 * BASE + x) * BASE + y) * BASE + z = x * BASE * BASE + y * BASE + z
  BY <1>1, <1>8
<1>12. word \in Nat \ {0}
  <2>1. x * BASE * BASE \in Nat \ {0} /\ y * BASE \in Nat
    BY <1>1, <1>8
  <2>2. QED
    BY <1>8, <1>9, <2>1
<1>13. w \in Nat \ {0}
  BY <1>1, <1>7, PowerDef
<1>14. Value(t) = word * w
  <2>1. \A pos \in Positions : pos >= SIZE - shift => t[pos] = 0
    BY <1>6, <1>7
  <2>2. Value(t) = Prefixes(t)[SIZE - 1 - shift] * w
    BY <1>7, <2>1, TrailingZeros
  <2>3. Prefixes(t)[SIZE - 1 - shift] = word
    BY <1>7, <1>9, <1>10, <1>11
  <2>4. QED
    BY <2>2, <2>3
<1>15. arr \in Array /\ Value(arr) = Value(MAX_DIFFICULTY) \div word
  BY <1>1, <1>12, DivValue
<1> HIDE DEF w, arr
<1>16. work \in Array /\ Value(work) = Value(arr) \div w
  BY <1>3, <1>7, <1>15, ShiftValue DEF w
<1>17. Value(MAX_DIFFICULTY) \in Nat
  <2>1. SIZE - 1 \in -1..(SIZE - 1)
    BY <1>1
  <2>2. QED
    BY <1>1, <2>1, ArrayIsDigits, PrefixType DEF Value
<1>18. Value(MAX_DIFFICULTY) \div (word * w) = (Value(MAX_DIFFICULTY) \div word) \div w
  BY <1>12, <1>13, <1>17, DivDiv
<1>19. word * w \in Nat \ {0}
  BY <1>12, <1>13
<1>20. QED
  BY <1>14, <1>15, <1>16, <1>18, <1>19 DEF work

LEMMA ValueType ==
  ASSUME NEW arr \in Array
  PROVE  Value(arr) \in Nat
<1>1. SIZE - 1 \in -1..(SIZE - 1)
  BY ArrayAssumption
<1>2. QED
  BY <1>1, ArrayIsDigits, PrefixType DEF Value

LEMMA ModulusPositive == Modulus \in Nat \ {0}
<1>1. BASE \in Nat \ {0} /\ SIZE \in Nat
  BY ArrayAssumption
<1>2. QED
  BY <1>1, PowerDef DEF Modulus

\* A target times a duration over the period, capped.
Capped(n, time_span) ==
  LET exact == (n * time_span) \div TARGET_TIMESPAN
  IN  IF exact > Value(UNROUNDED_MAX_TARGET) THEN Value(UNROUNDED_MAX_TARGET) ELSE exact

\* compute_new_nbits loses nothing of the product and compares it as a number.
LEMMA RetargetValue ==
  ASSUME NEW t \in Array, Value(t) <= Value(UNROUNDED_MAX_TARGET),
         NEW time_span \in Timespans
  PROVE  \E x \in Array :
           /\ new_nbits(t, time_span) = target_to_nbits(x)
           /\ Value(x) = Capped(Value(t), time_span)
           /\ Value(x) <= Value(UNROUNDED_MAX_TARGET)
<1> DEFINE top == Value(UNROUNDED_MAX_TARGET)
           n == Value(t)
           product == mul_in_place(t, time_span)
           scaled == rescaled(t, time_span)
           exact == (n * time_span) \div TARGET_TIMESPAN
           x == IF gt_arr(scaled, UNROUNDED_MAX_TARGET) THEN UNROUNDED_MAX_TARGET ELSE scaled
<1>1. TARGET_TIMESPAN \in Nat \ {0} /\ UNROUNDED_MAX_TARGET \in Array /\ Modulus \in Nat \ {0}
  BY ArrayAssumption, ModulusPositive
<1>2. time_span \in Nat /\ top * time_span < Modulus
  BY ChainAssumption
<1>3. n \in Nat /\ top \in Nat /\ n <= top
  BY <1>1, ValueType
<1>4. product \in Array /\ Value(product) = (n * time_span) % Modulus
  BY <1>2, MulValue
<1>5. new_nbits(t, time_span) = target_to_nbits(x)
  BY DEF new_nbits
<1> HIDE DEF top, n, product
<1>6. (n * time_span) % Modulus = n * time_span
  <2>1. n * time_span <= top * time_span /\ n * time_span \in Nat /\ top * time_span \in Nat
    BY <1>2, <1>3
  <2> DEFINE p == n * time_span
             q == top * time_span
  <2>2. p \in Nat /\ q \in Nat /\ p <= q /\ q < Modulus
    BY <1>2, <2>1
  <2> HIDE DEF p, q
  <2>3. p % Modulus = p
    BY <1>1, <2>2
  <2>4. QED
    BY <2>3 DEF p
<1>7. scaled \in Array /\ Value(scaled) = exact
  <2>1. scaled = div_in_place(product, TARGET_TIMESPAN)
    BY DEF rescaled, product
  <2>2. QED
    BY <1>1, <1>4, <1>6, <2>1, DivValue
<1>8. gt_arr(scaled, UNROUNDED_MAX_TARGET) <=> exact > top
  BY <1>1, <1>7, Comparison DEF top
<1>9. Capped(n, time_span) = IF exact > top THEN top ELSE exact
  BY DEF Capped, top
<1>10. exact \in Nat
  BY <1>7, ValueType
<1> HIDE DEF scaled, exact
<1>11. CASE exact > top
  <2>1. x = UNROUNDED_MAX_TARGET
    BY <1>8, <1>11
  <2>2. x \in Array /\ Value(x) = Capped(n, time_span) /\ Value(x) <= top
    BY <1>1, <1>3, <1>9, <1>11, <2>1 DEF top
  <2>3. QED
    BY <1>5, <2>2 DEF n, top
<1>12. CASE ~(exact > top)
  <2>1. x = scaled
    BY <1>8, <1>12
  <2>2. x \in Array /\ Value(x) = Capped(n, time_span) /\ Value(x) <= top
    BY <1>3, <1>7, <1>9, <1>10, <1>12, <2>1
  <2>3. QED
    BY <1>5, <2>2 DEF n, top
<1>13. QED
  BY <1>11, <1>12

-----------------------------------------------------------------------------
(* The chain of targets and works.                                         *)

ChainInvariant ==
  /\ total \in Nat
  /\ chain_work \in Array
  /\ WorkIsSumOfQuotients
  /\ target \in Array
  /\ Value(target) <= Value(UNROUNDED_MAX_TARGET)
  /\ \E x \in Array : target = nbits_to_target(target_to_nbits(x))

LEMMA ChainInit == Init => ChainInvariant
<1> SUFFICES ASSUME Init PROVE ChainInvariant
  OBVIOUS
<1>1. total \in Nat
  BY ChainAssumption DEF Init
<1>2. chain_work \in Array /\ Value(chain_work) = total % Modulus
  BY <1>1, ArrayOfValue DEF Init
<1>3. UNROUNDED_MAX_TARGET \in Array
      /\ target = nbits_to_target(target_to_nbits(UNROUNDED_MAX_TARGET))
  BY ArrayAssumption DEF Init
<1>4. target \in Array /\ Value(target) <= Value(UNROUNDED_MAX_TARGET)
  BY <1>3, CompactValue
<1>5. QED
  BY <1>1, <1>2, <1>3, <1>4 DEF ChainInvariant, WorkIsSumOfQuotients

\* What a target decodes to is compact, whichever it was.
LEMMA ChainTargetIsCompact ==
  ASSUME ChainInvariant, ~DifficultyPanics(target)
  PROVE  \A pos \in Positions : pos >= FirstByte(target, 0) + 3 => target[pos] = 0
<1>1. PICK x \in Array : target = nbits_to_target(target_to_nbits(x))
  BY DEF ChainInvariant
<1>2. ~ \A pos \in Positions : target[pos] = 0
  BY DEF DifficultyPanics
<1>3. QED
  BY <1>1, <1>2, CompactTail

LEMMA ChainMine ==
  ASSUME ChainInvariant, Mine
  PROVE  ChainInvariant'
<1> DEFINE work == get_difficulty(target)
           q == Value(MAX_DIFFICULTY) \div Value(target)
<1>1. work \in Array /\ Value(work) = q /\ Value(target) \in Nat \ {0}
  <2>1. target \in Array /\ ~DifficultyPanics(target)
    BY DEF ChainInvariant, Mine
  <2>2. QED
    BY <2>1, ChainTargetIsCompact, DifficultyValue
<1>2. q \in Nat
  BY <1>1, ValueType
<1>3. chain_work' = add_in_place(chain_work, work) /\ total' = total + q /\ target' = target
  BY DEF Mine
<1> HIDE DEF work, q
<1>4. total \in Nat /\ chain_work \in Array /\ Value(chain_work) = total % Modulus
  BY DEF ChainInvariant, WorkIsSumOfQuotients
<1>5. chain_work' \in Array /\ Value(chain_work') = (Value(chain_work) + q) % Modulus
  BY <1>1, <1>3, <1>4, AddValue
<1>6. ((total % Modulus) + q) % Modulus = (total + q) % Modulus
  BY <1>2, <1>4, ModSum, ModulusPositive
<1>7. total' \in Nat /\ WorkIsSumOfQuotients'
  <2>1. Value(chain_work') = total' % Modulus
    BY <1>3, <1>4, <1>5, <1>6
  <2>2. total' \in Nat
    BY <1>2, <1>3, <1>4
  <2>3. QED
    BY <2>1, <2>2 DEF WorkIsSumOfQuotients, Value, Prefixes, Modulus
<1>8. QED
  BY <1>3, <1>5, <1>7 DEF ChainInvariant, Value, Prefixes

LEMMA ChainRetarget ==
  ASSUME ChainInvariant, NEW time_span \in Timespans, Retarget(time_span)
  PROVE  ChainInvariant'
<1>1. target \in Array /\ Value(target) <= Value(UNROUNDED_MAX_TARGET)
  BY DEF ChainInvariant
<1>2. PICK x \in Array : /\ new_nbits(target, time_span) = target_to_nbits(x)
                         /\ Value(x) <= Value(UNROUNDED_MAX_TARGET)
  BY <1>1, RetargetValue
<1>3. target' = nbits_to_target(target_to_nbits(x)) /\ UNCHANGED <<chain_work, total>>
  BY <1>2 DEF Retarget
<1>4. target' \in Array /\ Value(target') <= Value(x)
  BY <1>3, CompactValue
<1>5. Value(target') <= Value(UNROUNDED_MAX_TARGET)
  <2>1. Value(target') \in Nat /\ Value(x) \in Nat /\ Value(UNROUNDED_MAX_TARGET) \in Nat
    BY <1>4, ValueType, ArrayAssumption
  <2>2. QED
    BY <1>2, <1>4, <2>1
<1>6. QED
  BY <1>3, <1>4, <1>5 DEF ChainInvariant, WorkIsSumOfQuotients, Value, Prefixes, Modulus

AlgorithmsVars == <<block, position, tx_index, target, chain_work, total>>

LEMMA ChainInvariantHolds == AlgorithmsSpec => []ChainInvariant
<1>1. AlgorithmsInit => ChainInvariant
  BY ChainInit DEF AlgorithmsInit
<1>2. ChainInvariant /\ [FillBlock \/ ComputeChain]_AlgorithmsVars => ChainInvariant'
  <2> SUFFICES ASSUME ChainInvariant, [FillBlock \/ ComputeChain]_AlgorithmsVars
               PROVE  ChainInvariant'
    OBVIOUS
  <2>1. ASSUME UNCHANGED <<target, chain_work, total>> PROVE ChainInvariant'
    BY <2>1 DEF ChainInvariant, WorkIsSumOfQuotients, Value, Prefixes, Modulus
  <2>2. CASE FillBlock
    BY <2>1, <2>2 DEF FillBlock
  <2>3. CASE ComputeChain
    <3>1. CASE Mine
      BY <3>1, ChainMine
    <3>2. CASE \E time_span \in Timespans : Retarget(time_span)
      BY <3>2, ChainRetarget
    <3>3. QED
      BY <2>3, <3>1, <3>2 DEF ComputeChain, Next
  <2>4. CASE UNCHANGED AlgorithmsVars
    BY <2>1, <2>4 DEF AlgorithmsVars
  <2>5. QED
    BY <2>2, <2>3, <2>4
<1>3. QED
  BY <1>1, <1>2, PTL DEF AlgorithmsSpec, AlgorithmsVars

\* The work that verify_header accumulates in bytes is the sum of the quotients
\* MAX_DIFFICULTY div target of the blocks, up to the size of the array: for
\* every length of the chain, every retarget and every size of the numbers.
THEOREM WorkAccumulates == AlgorithmsSpec => []WorkIsSumOfQuotients
<1>1. ChainInvariant => WorkIsSumOfQuotients
  BY DEF ChainInvariant
<1>2. QED
  BY <1>1, ChainInvariantHolds, PTL

\* Every target that is reached encodes to the nBits it was decoded from:
\* has_correct_difficulty_target compares nBits.
THEOREM TargetsStayCompact == AlgorithmsSpec => []CompactFormIsUnique
<1>1. ChainInvariant => CompactFormIsUnique
  BY CompactTwice DEF ChainInvariant, CompactFormIsUnique
<1>2. QED
  BY <1>1, ChainInvariantHolds, PTL

\* compute_new_nbits scales by the duration, caps and rounds, without losing
\* anything of the product, as long as the highest target times the longest
\* duration fits the array.
THEOREM RetargetsScale == AlgorithmsSpec => []RetargetIsProportional
<1>1. ChainInvariant => RetargetIsProportional
  <2> SUFFICES ASSUME ChainInvariant, NEW time_span \in Timespans
               PROVE  Value(nbits_to_target(new_nbits(target, time_span)))
                        = Rounded(Capped(Value(target), time_span))
    BY DEF RetargetIsProportional, Capped
  <2>1. target \in Array /\ Value(target) <= Value(UNROUNDED_MAX_TARGET)
    BY DEF ChainInvariant
  <2>2. PICK x \in Array : /\ new_nbits(target, time_span) = target_to_nbits(x)
                           /\ Value(x) = Capped(Value(target), time_span)
    BY <2>1, RetargetValue
  <2>3. Value(nbits_to_target(target_to_nbits(x))) = Rounded(Value(x))
    BY CompactValue
  <2>4. QED
    BY <2>2, <2>3
<1>2. QED
  BY <1>1, ChainInvariantHolds, PTL

\* gt_arr, which decides between chains, and lte_arr, which holds a hash against
\* its target, order any two numbers as whole numbers are.
THEOREM WorksCompareAsNumbers == AlgorithmsSpec => []ComparisonsAreNumeric
<1>1. ChainInvariant => ComparisonsAreNumeric
  <2> SUFFICES ASSUME ChainInvariant, NEW n \in Nat
               PROVE  /\ gt_arr(chain_work, ArrayOf(n)) <=> Value(chain_work) > n % Modulus
                      /\ lte_arr(chain_work, ArrayOf(n)) <=> Value(chain_work) <= n % Modulus
    BY DEF ComparisonsAreNumeric
  <2> DEFINE a == ArrayOf(n)
  <2>1. chain_work \in Array /\ a \in Array /\ Value(a) = n % Modulus
    BY ArrayOfValue DEF ChainInvariant
  <2> HIDE DEF a
  <2>2. /\ gt_arr(chain_work, a) <=> Value(chain_work) > Value(a)
        /\ gt_arr(a, chain_work) <=> Value(a) > Value(chain_work)
        /\ a = chain_work <=> Value(a) = Value(chain_work)
    BY <2>1, Comparison
  <2>3. Value(chain_work) \in Nat /\ Value(a) \in Nat
    BY <2>1, ValueType
  <2>4. lte_arr(chain_work, a) <=> Value(chain_work) <= Value(a)
    BY <2>2, <2>3 DEF lte_arr, gte_arr
  <2>5. QED
    BY <2>1, <2>2, <2>4 DEF a
<1>2. QED
  BY <1>1, ChainInvariantHolds, PTL

-----------------------------------------------------------------------------
(* The blocks of transactions.                                             *)

BlockInvariant ==
  /\ block \in Seq({<<i>> : i \in Nat})
  /\ \A i \in 1..Len(block) : block[i] = <<i>>
  /\ position \in 0..(Len(block) - 1)
  /\ tx_index \in Nat

LEMMA BlockInvariantHolds == AlgorithmsSpec => []BlockInvariant
<1>1. AlgorithmsInit => BlockInvariant
  <2> SUFFICES ASSUME MCInit PROVE BlockInvariant
    BY DEF AlgorithmsInit
  <2>1. PICK n \in 1..MaxTransactions : block = [i \in 1..n |-> <<i>>]
    BY DEF MCInit
  <2>2. n \in Nat /\ MaxIndex \in Nat
    BY BlockAssumption
  <2>3. Len(block) = n /\ block \in Seq({<<i>> : i \in Nat})
    BY <2>1, <2>2
  <2>4. QED
    BY <2>1, <2>2, <2>3 DEF MCInit, BlockInvariant
<1>2. BlockInvariant /\ [FillBlock \/ ComputeChain]_AlgorithmsVars => BlockInvariant'
  <2> SUFFICES ASSUME BlockInvariant, [FillBlock \/ ComputeChain]_AlgorithmsVars
               PROVE  BlockInvariant'
    OBVIOUS
  <2>1. CASE FillBlock
    <3> DEFINE S == {<<i>> : i \in Nat}
               n == Len(block)
    <3>1. /\ block \in Seq(S) /\ n \in Nat
          /\ block' = Append(block, <<n + 1>>) /\ position' = position /\ tx_index' = tx_index
      BY <2>1 DEF BlockInvariant, FillBlock, AddTransaction
    <3>2. <<n + 1>> \in S
      BY <3>1
    <3> HIDE DEF S
    <3>3. /\ block' \in Seq(S) /\ Len(block') = n + 1
          /\ block'[n + 1] = <<n + 1>> /\ \A i \in 1..n : block'[i] = block[i]
      BY <3>1, <3>2
    <3>4. \A i \in 1..(n + 1) : i \in 1..n \/ i = n + 1
      BY <3>1
    <3> HIDE DEF n
    <3>5. \A i \in 1..Len(block') : block'[i] = <<i>>
      BY <3>3, <3>4 DEF BlockInvariant, n
    <3>6. position' \in 0..(Len(block') - 1)
      BY <3>1, <3>3 DEF BlockInvariant, n
    <3>7. QED
      BY <3>1, <3>3, <3>5, <3>6 DEF BlockInvariant, S
  <2>2. CASE ComputeChain
    BY <2>2 DEF BlockInvariant, ComputeChain
  <2>3. CASE UNCHANGED AlgorithmsVars
    BY <2>3 DEF BlockInvariant, AlgorithmsVars
  <2>4. QED
    BY <2>1, <2>2, <2>3
<1>3. QED
  BY <1>1, <1>2, PTL DEF AlgorithmsSpec, AlgorithmsVars

\* The relayer's merkle root of a block is Bitcoin's.
THEOREM RootsAreBitcoins == AlgorithmsSpec => []RootIsBitcoins
<1>1. BlockInvariant => RootIsBitcoins
  <2> SUFFICES ASSUME BlockInvariant PROVE Root(block) = BitcoinRoot(block)
    BY DEF RootIsBitcoins
  <2>1. block \in Seq({<<i>> : i \in Nat}) /\ block # <<>>
    BY DEF BlockInvariant
  <2>2. QED
    BY <2>1, RelayerRootIsBitcoins
<1>2. QED
  BY <1>1, BlockInvariantHolds, PTL

\* A transaction of a block verifies with the proof that the relayer makes.
THEOREM IncludedVerify == AlgorithmsSpec => []IncludedTxVerifies
<1>1. BlockInvariant => IncludedTxVerifies
  BY CreatedProofVerifies DEF BlockInvariant, IncludedTxVerifies
<1>2. QED
  BY <1>1, BlockInvariantHolds, PTL

\* Where hashes do not collide, that proof is one of no other transaction.
THEOREM ProofsBind ==
  ASSUME CollisionFree
  PROVE  AlgorithmsSpec => []ProofBindsTransaction
<1>1. BlockInvariant => ProofBindsTransaction
  <2> SUFFICES ASSUME BlockInvariant PROVE ProvesNoOther(block, position, tx_index)
    BY DEF ProofBindsTransaction
  <2>1. block \in Seq({<<i>> : i \in Nat}) /\ position \in 0..(Len(block) - 1)
    BY DEF BlockInvariant
  <2>2. \A i, j \in 1..Len(block) : block[i] = block[j] => i = j
    <3> TAKE i, j \in 1..Len(block)
    <3>1. block[i] = <<i>> /\ block[j] = <<j>>
      BY DEF BlockInvariant
    <3>2. <<i>> = <<j>> => i = j
      OBVIOUS
    <3>3. QED
      BY <3>1, <3>2
  <2>3. QED
    BY <2>1, <2>2, CreatedProofProvesNoOther
<1>2. QED
  BY <1>1, BlockInvariantHolds, PTL

=============================================================================

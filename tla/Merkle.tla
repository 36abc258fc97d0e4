-------------------------------- MODULE Merkle --------------------------------
(***************************************************************************)
(* Merkle inclusion proofs: Proof::create of the transaction relayer       *)
(* (block_relayer/src/merkle.rs) and compute_merkle of the on-chain        *)
(* program (programs/btc-relay/src/utils.rs). The loops are recursive      *)
(* functions of the number of rounds done.                                 *)
(***************************************************************************)
EXTENDS Integers, Sequences

CONSTANT sha256d(_, _)   \* the hash of two concatenated hashes

-----------------------------------------------------------------------------
(* Proof::create. *)

\* Faulty variant: the odd hash at the end goes up alone.
Unpadded(hashes) == hashes

\* An odd level repeats its last hash.
Padded(hashes) ==
  IF Len(hashes) % 2 # 0 THEN Append(hashes, hashes[Len(hashes)]) ELSE hashes

\* chunks(2), each hashed.
NextLevel(hashes) ==
  [i \in 1..(Len(Padded(hashes)) \div 2) |->
     sha256d(Padded(hashes)[2 * i - 1], Padded(hashes)[2 * i])]

\* `hashes` after k rounds, `offset` after k rounds; flipping the last bit of
\* the offset before it is halved makes no difference to the half.
Levels(txids) ==
  LET hashes[k \in 0..Len(txids)] ==
        IF k = 0 THEN txids ELSE NextLevel(hashes[k - 1])
  IN  hashes

Offsets(position, n) ==
  LET offset[k \in 0..n] == IF k = 0 THEN position ELSE offset[k - 1] \div 2
  IN  offset

Sibling(offset) == IF offset % 2 = 0 THEN offset + 1 ELSE offset - 1

\* while hashes.len() > 1
Rounds(txids) ==
  CHOOSE n \in 0..Len(txids) :
    /\ Len(Levels(txids)[n]) = 1
    /\ \A k \in 0..(n - 1) : Len(Levels(txids)[k]) > 1

\* Faulty variant: the proof of the transaction behind.
create_for_next(txids, position) ==
  [k \in 1..Rounds(txids) |->
     LET offset == Offsets((position + 1) % Len(txids), Rounds(txids))[k - 1]
     IN  Padded(Levels(txids)[k - 1])[Sibling(offset) + 1]]

create(txids, position) ==
  [k \in 1..Rounds(txids) |->
     LET offset == Offsets(position, Rounds(txids))[k - 1]
     IN  Padded(Levels(txids)[k - 1])[Sibling(offset) + 1]]

\* The one hash left, which is the merkle root in the block's header.
Root(txids) == Levels(txids)[Rounds(txids)][1]

-----------------------------------------------------------------------------
(* compute_merkle. *)

\* `current_hash` after k pieces of the proof.
CurrentHashes(reversed_txid, tx_index, proof) ==
  LET current_hash[k \in 0..Len(proof)] ==
        IF k = 0 THEN reversed_txid
        ELSE IF Offsets(tx_index, Len(proof))[k - 1] % 2 = 0
             THEN sha256d(current_hash[k - 1], proof[k])
             ELSE sha256d(proof[k], current_hash[k - 1])
  IN  current_hash

\* Faulty variant: the last piece is left out.
compute_merkle_short(reversed_txid, tx_index, proof) ==
  CurrentHashes(reversed_txid, tx_index, proof)
    [IF Len(proof) = 0 THEN 0 ELSE Len(proof) - 1]

compute_merkle(reversed_txid, tx_index, proof) ==
  CurrentHashes(reversed_txid, tx_index, proof)[Len(proof)]

-----------------------------------------------------------------------------

\* The program accepts the proof that the relayer makes of the transaction at a
\* position: two loops in two crates, over lists and over the bits of an index.
ProofVerifies(txids, position) ==
  compute_merkle(txids[position + 1], position, create(txids, position))
    = Root(txids)

\* That proof is one of no other transaction of the block, whatever index is
\* claimed with it.
ProvesNoOther(txids, position, tx_index) ==
  \A i \in 1..Len(txids) :
    compute_merkle(txids[i], tx_index, create(txids, position)) = Root(txids)
      => i = position + 1

=============================================================================

------------------------------- MODULE MCMerkle -------------------------------
(***************************************************************************)
(* Blocks of a few transactions that grow one by one, and for each of them *)
(* every position, asked for and claimed. Transactions and hashes are      *)
(* tuples: a hash is the pair of what was hashed, which no two inputs      *)
(* share.                                                                  *)
(***************************************************************************)
EXTENDS Merkle, Powers

CONSTANTS MaxTransactions, MaxIndex

ASSUME BlockAssumption == MaxTransactions \in Nat /\ MaxIndex \in Nat

VARIABLES
  block,      \* the ids of a block's transactions
  position,   \* where the relayer makes a proof for
  tx_index    \* the index that is claimed with it

Pair(left, right) == <<left, right>>

MCInit ==
  /\ block \in {[i \in 1..n |-> <<i>>] : n \in 1..MaxTransactions}
  /\ position \in 0..(Len(block) - 1)
  /\ tx_index \in 0..MaxIndex

AddTransaction ==
  /\ Len(block) < MaxTransactions
  /\ block' = Append(block, <<Len(block) + 1>>)
  /\ UNCHANGED <<position, tx_index>>

MCSpec == MCInit /\ [][AddTransaction]_<<block, position, tx_index>>

-----------------------------------------------------------------------------

\* Bitcoin's tree by index instead of by level: hash i of row k stands for the
\* transactions from i * 2^k on, and a missing right half for its left one. The
\* root is the first hash of the first row that it spans alone.
BitcoinRow(txids) ==
  LET row[k \in 0..Len(txids)] ==
        IF k = 0 THEN [i \in Nat |-> txids[i + 1]]
        ELSE [i \in Nat |->
                sha256d(row[k - 1][2 * i],
                        row[k - 1][IF (2 * i + 1) * Power(2, k - 1) < Len(txids)
                                   THEN 2 * i + 1 ELSE 2 * i])]
  IN  row

BitcoinRoot(txids) ==
  LET height == CHOOSE k \in 0..Len(txids) :
                  /\ Power(2, k) >= Len(txids)
                  /\ \A j \in 0..(k - 1) : Power(2, j) < Len(txids)
  IN  BitcoinRow(txids)[height][0]

\* The relayer's levels end in Bitcoin's merkle root: merkle.rs duplicates the
\* last hash of every odd level, not only of the first.
RootIsBitcoins == Root(block) = BitcoinRoot(block)

\* A transaction of the block verifies against its header, wherever it is.
IncludedTxVerifies == ProofVerifies(block, position)

\* A proof made for one transaction proves no other one of the block, whatever
\* index is claimed with it (verify_small_tx takes any tx_index).
ProofBindsTransaction == ProvesNoOther(block, position, tx_index)

=============================================================================

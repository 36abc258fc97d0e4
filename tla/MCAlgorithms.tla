----------------------------- MODULE MCAlgorithms -----------------------------
(***************************************************************************)
(* One instance of the two pure algorithms, which share nothing: either    *)
(* the blocks of transactions grow, or, next to the smallest of them, a    *)
(* chain of targets and works is computed.                                 *)
(***************************************************************************)
EXTENDS MCMerkle, MCByteArithmetic

AlgorithmsInit == MCInit /\ Init

\* No target or work has been computed yet.
FillBlock ==
  /\ Init
  /\ AddTransaction
  /\ UNCHANGED <<target, chain_work, total>>

ComputeChain ==
  /\ Len(block) = 1 /\ tx_index = 0
  /\ Next
  /\ UNCHANGED <<block, position, tx_index>>

AlgorithmsSpec ==
  AlgorithmsInit /\ [][FillBlock \/ ComputeChain]_<<block, position, tx_index,
                                                    target, chain_work, total>>

=============================================================================

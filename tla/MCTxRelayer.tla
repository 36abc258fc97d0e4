----------------------------- MODULE MCTxRelayer -----------------------------
(***************************************************************************)
(* Small instances of TxRelayer, on blocks without work.                   *)
(***************************************************************************)
EXTENDS TxRelayer

Block(hash, prev, timestamp) ==
  [hash |-> hash, reversed_prev_blockhash |-> prev, timestamp |-> timestamp,
   nbits |-> "regtest", meets_target |-> TRUE]

MCNBits == {"regtest"}
MCDifficulty == [n \in MCNBits |-> 0]
MCRescaledNBits == [ns \in MCNBits \X (0..4) |-> "regtest"]

MCBase == Block("g", "none", 5)
MCHeaders ==
  {MCBase, Block("m1", "g", 6), Block("m2", "m1", 7), Block("m3", "m2", 8)}
ForkedHeaders ==
  (MCHeaders \ {Block("m3", "m2", 8)})
     \cup {Block("a1", "g", 7), Block("a2", "a1", 8), Block("a3", "a2", 9)}
MCHash ==
  {h.hash : h \in Headers} \cup {h.reversed_prev_blockhash : h \in Headers}

OlderTimestamps == <<3, 4>>
MCCheckpoints ==
  {[chain_work |-> 0, header |-> Base, last_diff_adjustment |-> 0,
    blockheight |-> BaseHeight, prev_block_timestamps |-> OlderTimestamps]}
SingleHeaders == {<<h>> : h \in Headers}

\* One deposit, in m2, and in a3 once a longer branch has taken over.
MCTxIds == {"deposit"}
MCReceivers == {"alice"}
MCIncluded ==
  [h \in Hash |-> IF h \in {"m2", "a3"} THEN {"deposit"} ELSE {}]
MCOutputs == [to \in MCTxIds \X MCReceivers |-> 1]
MCAsked == MCTxIds \X MCReceivers

\* What the theorem about TxRelayer supposes.
ASSUME InstanceAssumption ==
  MaxForks = 0 /\ DepthsAre([h \in Headers |-> Height[h] - BaseHeight])

\* Nothing but requests is verified.
NoChunks == {}
NoClaims == {}
MCTxBytes == [tx \in MCTxIds |-> <<>>]

=============================================================================

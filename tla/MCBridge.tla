------------------------------- MODULE MCBridge -------------------------------
(***************************************************************************)
(* Small instances of BridgeTransactions: two branches on the base, which  *)
(* contain a small and a large transaction at different heights, and one   *)
(* transaction that is in no block.                                        *)
(***************************************************************************)
EXTENDS BridgeTransactions

Block(hash, prev, timestamp) ==
  [hash |-> hash, reversed_prev_blockhash |-> prev, timestamp |-> timestamp,
   nbits |-> "easy", meets_target |-> TRUE]

MCNBits == {"easy"}
MCDifficulty == [n \in MCNBits |-> 1]
MCRescaledNBits == [ns \in MCNBits \X (0..4) |-> "easy"]

Genesis == Block("g", "none", 1)
MCHeaders ==
  {Genesis, Block("m1", "g", 2), Block("m2", "m1", 3), Block("m3", "m2", 4),
   Block("a2", "m1", 3), Block("a3", "a2", 4), Block("a4", "a3", 5)}
MCHash ==
  {h.hash : h \in MCHeaders} \cup {h.reversed_prev_blockhash : h \in MCHeaders}

MCCheckpoints ==
  {[chain_work |-> 1, header |-> Genesis, last_diff_adjustment |-> 0,
    blockheight |-> 4, prev_block_timestamps |-> [i \in 1..PREV_TIMESTAMPS |-> 0]]}

\* The true committed header of every block, whichever branch is the main chain.
MCClaims ==
  LET Parent(h) == CHOOSE g \in MCHeaders : g.hash = h.reversed_prev_blockhash
      committed[h \in MCHeaders] ==
        IF h = Genesis THEN CHOOSE c \in MCCheckpoints : TRUE
        ELSE CommittedChild(committed[Parent(h)], h)
  IN  {committed[h] : h \in MCHeaders}

MCBatches ==
  {batch \in UNION {[1..k -> MCHeaders] : k \in 1..2} :
     \A i \in 2..Len(batch) :
       batch[i].reversed_prev_blockhash = batch[i - 1].hash}

\* "small" is in m2 and, after a reorganisation, in a3; "big" in m2 only;
\* "unconfirmed" nowhere.
MCTxIds == {"small", "big", "unconfirmed"}
MCIncluded ==
  [h \in MCHash |-> CASE h = "m2" -> {"small", "big"}
                      [] h = "a3" -> {"small"}
                      [] OTHER -> {}]

MCReceivers == {"alice", "bob"}
MCOutputs ==
  [to \in MCTxIds \X MCReceivers |->
     CASE to = <<"small", "alice">> -> 1
       [] to = <<"big", "bob">> -> 3
       [] to = <<"unconfirmed", "bob">> -> 4
       [] OTHER -> 0]

MCChunks == {1, 2}
MCTxBytes == [tx \in MCTxIds |-> IF tx = "big" THEN <<1, 2>> ELSE <<2, 1>>]

=============================================================================

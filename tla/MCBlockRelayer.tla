--------------------------- MODULE MCBlockRelayer ---------------------------
(***************************************************************************)
(* Small instances of BlockRelayer.                                        *)
(***************************************************************************)
EXTENDS BlockRelayer

Block(hash, prev, timestamp, nbits) ==
  [hash |-> hash, reversed_prev_blockhash |-> prev, timestamp |-> timestamp,
   nbits |-> nbits, meets_target |-> TRUE]

MCNBits == {"regtest"}
MCDifficulty == [n \in MCNBits |-> 0]
MCRescaledNBits == [ns \in MCNBits \X (0..4) |-> ns[1]]

HashesOf(headers) ==
  {h.hash : h \in headers} \cup {h.reversed_prev_blockhash : h \in headers}

\* The instances are ones that the theorems are about.
ASSUME InstanceAssumption ==
  /\ DepthsAre([h \in Headers |-> Height[h] - BaseHeight])
  /\ NoWork

SingleHeaders == {<<h>> : h \in Headers}
\* No call of somebody else.
None == {}

\* A chain of three blocks on the base, as the regtest node mines it, without
\* work; a longer branch.
RegtestBase == Block("g", "none", 5, "regtest")
RegtestHeaders ==
  {RegtestBase, Block("m1", "g", 6, "regtest"), Block("m2", "m1", 7, "regtest"),
   Block("m3", "m2", 8, "regtest")}
RegtestHash == HashesOf(RegtestHeaders)

ForkedHeaders ==
  RegtestHeaders \cup
    {Block("a2", "m1", 7, "regtest"), Block("a3", "a2", 8, "regtest"),
     Block("a4", "a3", 9, "regtest")}
ForkedHash == HashesOf(ForkedHeaders)

\* The two blocks below the base.
OlderTimestamps == <<3, 4>>

\* The program initialized with the base and the timestamps it really has.
TrueCheckpoints ==
  {[chain_work |-> 0, header |-> Base, last_diff_adjustment |-> 0,
    blockheight |-> BaseHeight, prev_block_timestamps |-> OlderTimestamps]}

=============================================================================

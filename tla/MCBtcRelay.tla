----------------------------- MODULE MCBtcRelay -----------------------------
(***************************************************************************)
(* Small instances of BtcRelay: trees of headers, the checkpoints the      *)
(* relay starts from and the batches of headers callers submit. Heights    *)
(* start at CheckpointHeight, time is counted in blocks.                   *)
(***************************************************************************)
EXTENDS ConsensusRules

Block(hash, prev, timestamp, nbits) ==
  [hash |-> hash, reversed_prev_blockhash |-> prev, timestamp |-> timestamp,
   nbits |-> nbits, meets_target |-> TRUE]

Checkpoint(header, height) ==
  [chain_work |-> 1, header |-> header, last_diff_adjustment |-> 0,
   blockheight |-> height,
   prev_block_timestamps |-> [i \in 1..PREV_TIMESTAMPS |-> 0]]

\* The batches of one header, and those of up to n by appending a child.
ChildrenIn(h) == {g \in Headers : g.reversed_prev_blockhash = h.hash}

LinkedBatches(n) ==
  LET batches[k \in 1..n] ==
        IF k = 1 THEN {<<h>> : h \in Headers}
        ELSE batches[k - 1] \cup
               UNION {{Append(b, h) : h \in ChildrenIn(b[k - 1])} :
                        b \in {b \in batches[k - 1] : Len(b) = k - 1}}
  IN  batches[n]

HashesOf(headers) ==
  {h.hash : h \in headers} \cup {h.reversed_prev_blockhash : h \in headers}

-----------------------------------------------------------------------------
(* Targets whose blocks have no, one and three units of difficulty.        *)

MCNBits == {"regtest", "easy", "hard"}

MCDifficulty ==
  [n \in MCNBits |-> CASE n = "regtest" -> 0 [] n = "easy" -> 1 [] n = "hard" -> 3]

MCRescaledNBits == [ns \in MCNBits \X (0..4) |-> ns[1]]

-----------------------------------------------------------------------------
(* Three branches of equal difficulty, leaving the checkpoint and the      *)
(* block above it, long enough to wrap a ring of three or four slots.      *)

Genesis == Block("g", "none", 1, "easy")

ForkTree ==
  {Block("m1", "g", 2, "easy"), Block("m2", "m1", 3, "easy"),
   Block("m3", "m2", 4, "easy"), Block("m4", "m3", 5, "easy"),
   Block("a2", "m1", 3, "easy"), Block("a3", "a2", 4, "easy"),
   Block("a4", "a3", 5, "easy"), Block("a5", "a4", 6, "easy"),
   Block("b1", "g", 2, "easy"), Block("b2", "b1", 3, "easy"),
   Block("b3", "b2", 4, "easy")}

ForkHeaders == ForkTree \cup {Genesis}
ForkHash == HashesOf(ForkHeaders)
CheckpointsAt4 == {Checkpoint(Genesis, 4)}

\* Below any ring's size, and above it.
CheckpointsAt2 == {Checkpoint(Genesis, 2)}
CheckpointsAt2And4 == CheckpointsAt2 \cup CheckpointsAt4

BatchesOf2 == LinkedBatches(2)
BatchesOf3 == LinkedBatches(3)

-----------------------------------------------------------------------------
(* Every header that a few choices of timestamp, target and work allow on  *)
(* each of the five heights above the checkpoint, right or wrong. Periods  *)
(* have two blocks, so the second and the fourth of them are adjusted, and *)
(* branches of fast blocks are heavier than longer ones of slow blocks.    *)
(* Most children of headers that no target of theirs allows are left out.  *)

ChildOf(h, n, step, nbits, meets_target) ==
  [hash |-> Append(h.hash, n), reversed_prev_blockhash |-> h.hash,
   timestamp |-> h.timestamp + step, nbits |-> nbits,
   meets_target |-> meets_target]

ChildrenOf(headers, choices) ==
  {ChildOf(h, n, choices[n].step, choices[n].nbits, choices[n].meets_target) :
     h \in headers, n \in DOMAIN choices}

Choice(step, nbits, meets_target) ==
  [step |-> step, nbits |-> nbits, meets_target |-> meets_target]

RulesGenesis ==
  [hash |-> <<>>, reversed_prev_blockhash |-> <<0>>, timestamp |-> 10,
   nbits |-> "easy", meets_target |-> TRUE]

Level1 == ChildrenOf({RulesGenesis},
  <<Choice(1, "easy", TRUE), Choice(3, "easy", TRUE), Choice(1, "hard", TRUE)>>)
Level2 == ChildrenOf({h \in Level1 : h.nbits = "easy"},
  <<Choice(-1, "regtest", TRUE), Choice(0, "hard", TRUE),
    Choice(2, "regtest", TRUE), Choice(2, "hard", TRUE)>>)
Level3 == ChildrenOf(Level2,
  <<Choice(0, "regtest", TRUE), Choice(1, "regtest", TRUE),
    Choice(2, "hard", TRUE), Choice(2, "hard", FALSE)>>)
Level4 == ChildrenOf({h \in Level3 : h.meets_target},
  <<Choice(1, "easy", TRUE), Choice(1, "hard", TRUE)>>)
Level5 == ChildrenOf({h \in Level4 : h.nbits = "hard"}, <<Choice(1, "hard", TRUE)>>)

RulesHeaders == {RulesGenesis} \cup Level1 \cup Level2 \cup Level3 \cup Level4
                  \cup Level5
RulesHash == HashesOf(RulesHeaders)

\* The checkpoint is itself the first block of a period.
RulesCheckpoints ==
  {[chain_work |-> 1, header |-> RulesGenesis, last_diff_adjustment |-> 10,
    blockheight |-> 4, prev_block_timestamps |-> <<7, 9>>]}

\* The faster the blocks of a period came, the harder those of the next are.
RescaledByPace ==
  [ns \in MCNBits \X (1..16) |-> CASE ns[2] < 2 -> "hard"
                                     [] ns[2] = 2 -> "easy"
                                     [] OTHER -> "regtest"]

=============================================================================

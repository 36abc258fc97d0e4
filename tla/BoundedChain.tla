---------------------------- MODULE BoundedChain ----------------------------
(***************************************************************************)
(* What a caller of the relay may rely on: the last Capacity blocks, at    *)
(* most, of one chain. The chain starts at one block, grows at its end,    *)
(* and is rewritten above one of its own blocks only by strictly more      *)
(* work; a step adds at most Capacity blocks.                              *)
(*                                                                         *)
(* The program implements this with the ring buffer of its main state and  *)
(* the heights and works spread over several fields.                       *)
(***************************************************************************)
EXTENDS Integers, Sequences

CONSTANTS
  Capacity,          \* how many blocks are kept
  Follows(_, _),     \* Follows(c, d): block d is a child of block c
  WorkOf(_)          \* the work accumulated up to a block

VARIABLE chain

IsChain(s) == \A i \in 1..(Len(s) - 1) : Follows(s[i], s[i + 1])

Tip(s) == s[Len(s)]

ChainInit == chain = <<>>

\* The first block.
Start == chain = <<>> /\ Len(chain') = 1

\* The blocks 1..kept of the chain stay, those above are replaced by the last
\* `added` blocks of the new chain, and the oldest ones beyond Capacity go.
Rewrite(kept, added) ==
  LET pruned == IF kept + added > Capacity THEN kept + added - Capacity ELSE 0
  IN  /\ Len(chain') = kept + added - pruned
      /\ IsChain(chain')
      /\ \A i \in 1..(kept - pruned) : chain'[i] = chain[i + pruned]
      /\ pruned = kept => Follows(chain[kept], chain'[1])

Extend ==
  /\ chain # <<>>
  /\ \E added \in 1..Capacity : Rewrite(Len(chain), added)

Reorganize ==
  \E kept \in 1..Len(chain), added \in 1..Capacity :
    /\ Rewrite(kept, added)
    /\ WorkOf(Tip(chain')) > WorkOf(Tip(chain))

ChainNext == Start \/ Extend \/ Reorganize

ChainSpec == ChainInit /\ [][ChainNext]_chain

=============================================================================

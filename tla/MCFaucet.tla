------------------------------- MODULE MCFaucet -------------------------------
(***************************************************************************)
(* Small instances of Faucet: a day of a few seconds.                      *)
(***************************************************************************)
EXTENDS Faucet, TLC

Symmetry == Permutations(Workers) \cup Permutations(Addresses)

=============================================================================

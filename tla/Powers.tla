-------------------------------- MODULE Powers --------------------------------
(***************************************************************************)
(* Powers of natural numbers as a recursive function: the provers know     *)
(* nothing of the built-in ones.                                           *)
(***************************************************************************)
EXTENDS Integers

Power(base, exponent) ==
  LET power[k \in 0..exponent] == IF k = 0 THEN 1 ELSE base * power[k - 1]
  IN  power[exponent]

=============================================================================

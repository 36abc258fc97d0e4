--------------------------- MODULE MCByteArithmetic ---------------------------
(***************************************************************************)
(* A chain of blocks as far as its targets and its work are concerned,     *)
(* computed by the program's byte arithmetic, next to the same in whole    *)
(* numbers.                                                                *)
(***************************************************************************)
EXTENDS ByteArithmetic, Powers

CONSTANTS
  InitialWorks,   \* the works that `initialize` is called with
  Timespans,      \* clamped durations of a difficulty period
  MaxWork,        \* bound on the total work
  LowestTarget    \* bound: no target below

VARIABLES
  target,       \* nbits_to_target of the blocks of this period
  chain_work,   \* the field of the committed header
  total         \* its value, in whole numbers

\* The number that the bytes up to a position are; that of all of them.
Prefixes(arr) ==
  LET upto[pos \in -1..(SIZE - 1)] ==
        IF pos = -1 THEN 0 ELSE upto[pos - 1] * BASE + arr[pos]
  IN  upto

Value(arr) == Prefixes(arr)[SIZE - 1]

ArrayOf(n) == [pos \in Positions |-> (n \div Power(BASE, SIZE - 1 - pos)) % BASE]

\* Two leading zeros leave room for the product with a duration, as the four
\* of the code do.
HighestTarget == [pos \in Positions |-> IF pos < 2 THEN 0 ELSE BASE - 1]
Difficulty1 == [pos \in Positions |-> IF pos \in {2, 3} THEN BASE - 1 ELSE 0]

Modulus == Power(BASE, SIZE)

Init ==
  /\ target = nbits_to_target(target_to_nbits(UNROUNDED_MAX_TARGET))
  /\ total \in InitialWorks
  /\ chain_work = ArrayOf(total)

\* The end of verify_header.
Mine ==
  /\ total < MaxWork
  /\ ~DifficultyPanics(target)
  /\ chain_work' = add_in_place(chain_work, get_difficulty(target))
  /\ total' = total + Value(MAX_DIFFICULTY) \div Value(target)
  /\ UNCHANGED target

\* The first block of a period: its nBits have to be the computed ones.
Retarget(time_span) ==
  /\ target' = nbits_to_target(new_nbits(target, time_span))
  /\ Value(target') >= LowestTarget
  /\ UNCHANGED <<chain_work, total>>

Next == Mine \/ \E time_span \in Timespans : Retarget(time_span)

Spec == Init /\ [][Next]_<<target, chain_work, total>>

-----------------------------------------------------------------------------

\* The highest target times the longest duration has to fit the array, as
\* 2^224 * 4 * 1209600 does.
ASSUME ChainAssumption ==
  /\ InitialWorks \subseteq Nat
  /\ \A time_span \in Timespans :
       time_span \in Nat /\ Value(UNROUNDED_MAX_TARGET) * time_span < Modulus

\* The accumulated work is the sum of MAX_DIFFICULTY div target over the blocks,
\* as the comment above get_difficulty derives for its division by three bytes
\* and its shift.
WorkIsSumOfQuotients == Value(chain_work) = total % Modulus

\* Compact targets: two leading digits where the first has the sign bit set,
\* else three.
Rounded(n) ==
  LET size == CHOOSE k \in 0..SIZE : n < Power(BASE, k) /\ (k > 0 => n >= Power(BASE, k - 1))
      kept == IF size > 0 /\ n >= (BASE \div 2) * Power(BASE, size - 1) THEN 2 ELSE 3
      unit == IF size > kept THEN Power(BASE, size - kept) ELSE 1
  IN  (n \div unit) * unit

\* Every retarget the program can compute from here decodes to the target scaled
\* by the duration, capped and rounded down to a compact one.
RetargetIsProportional ==
  \A time_span \in Timespans :
    LET exact == (Value(target) * time_span) \div TARGET_TIMESPAN
        capped == IF exact > Value(UNROUNDED_MAX_TARGET)
                  THEN Value(UNROUNDED_MAX_TARGET) ELSE exact
    IN  Value(nbits_to_target(new_nbits(target, time_span))) = Rounded(capped)

\* A valid header's nBits are the ones of its target: whatever the retarget
\* computes survives decoding and encoding, as the comparison of nBits in
\* has_correct_difficulty_target needs.
CompactFormIsUnique ==
  nbits_to_target(target_to_nbits(target)) = target

\* Work is compared as numbers are: gt_arr decides between chains, lte_arr
\* whether a hash meets its target.
ComparisonsAreNumeric ==
  \A n \in {total - BASE, total - 1, total, total + 1, total + BASE + 1} \cap Nat :
    /\ gt_arr(chain_work, ArrayOf(n)) <=> Value(chain_work) > n % Modulus
    /\ lte_arr(chain_work, ArrayOf(n)) <=> Value(chain_work) <= n % Modulus

=============================================================================

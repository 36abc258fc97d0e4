---------------------------- MODULE ByteArithmetic ----------------------------
(***************************************************************************)
(* The 256-bit numbers of the program as big-endian arrays of bytes        *)
(* (programs/btc-relay/src/arrayutils.rs), and what is computed with them: *)
(* compact targets, difficulty and retargeting (utils.rs). The number of   *)
(* bytes and of values of a byte are parameters.                           *)
(***************************************************************************)
EXTENDS Integers

CONSTANTS
  BASE,                  \* 256
  SIZE,                  \* 32
  MAX_DIFFICULTY,        \* 00 00 00 00 FF FF 00 ... 00
  UNROUNDED_MAX_TARGET,  \* 00 00 00 00 FF FF FF ... FF
  TARGET_TIMESPAN

Positions == 0..(SIZE - 1)
Bytes == 0..(BASE - 1)
Array == [Positions -> Bytes]

ASSUME ArrayAssumption ==
  /\ SIZE \in Nat /\ SIZE > 2
  /\ BASE \in Nat /\ BASE > 1 /\ BASE % 2 = 0
  /\ TARGET_TIMESPAN \in Nat \ {0}
  /\ MAX_DIFFICULTY \in Array /\ UNROUNDED_MAX_TARGET \in Array

-----------------------------------------------------------------------------
(* arrayutils.rs. Each `remainder[pos]` is the variable of that name when  *)
(* the loop comes to pos.                                                  *)

\* Faulty variant: the carry stops after one byte.
add_with_short_carry(arr, add) ==
  [pos \in Positions |->
     (arr[pos] + add[pos]
        + IF pos = SIZE - 1 THEN 0 ELSE (arr[pos + 1] + add[pos + 1]) \div BASE)
     % BASE]

add_in_place(arr, add) ==
  LET remainder[pos \in Positions] ==
        IF pos = SIZE - 1 THEN 0
        ELSE (arr[pos + 1] + add[pos + 1] + remainder[pos + 1]) \div BASE
  IN  [pos \in Positions |-> (arr[pos] + add[pos] + remainder[pos]) % BASE]

mul_in_place(arr, multiplicator) ==
  LET remainder[pos \in Positions] ==
        IF pos = SIZE - 1 THEN 0
        ELSE (arr[pos + 1] * multiplicator + remainder[pos + 1]) \div BASE
  IN  [pos \in Positions |-> (arr[pos] * multiplicator + remainder[pos]) % BASE]

\* Panics for a divisor of 0.
div_in_place(arr, divisor) ==
  LET remainder[pos \in Positions] ==
        IF pos = 0 THEN 0
        ELSE ((arr[pos - 1] + remainder[pos - 1]) % divisor) * BASE
  IN  [pos \in Positions |-> ((arr[pos] + remainder[pos]) \div divisor) % BASE]

\* Faulty variant: the bytes are compared from the other end.
gt_little_endian(arr1, arr2) ==
  \E i \in Positions : /\ arr1[i] > arr2[i]
                       /\ \A j \in Positions : j > i => arr1[j] = arr2[j]

gt_arr(arr1, arr2) ==
  \E i \in Positions : /\ arr1[i] > arr2[i]
                       /\ \A j \in Positions : j < i => arr1[j] = arr2[j]

gte_arr(arr1, arr2) == arr1 = arr2 \/ gt_arr(arr1, arr2)

lte_arr(arr1, arr2) == gte_arr(arr2, arr1)

-----------------------------------------------------------------------------
(* utils.rs. A u32 of nBits is its highest byte, the size of the number,   *)
(* and the word of the three others.                                       *)

\* The first byte that is not 0; the given position if there is none.
FirstByte(target, none) ==
  IF \E i \in Positions : target[i] > 0
  THEN CHOOSE i \in Positions : /\ target[i] > 0
                                /\ \A j \in Positions : j < i => target[j] = 0
  ELSE none

\* The three bytes from a position on, as one number; none after the end.
Word(target, start) ==
  LET byte(pos) == IF pos < SIZE THEN target[pos] ELSE 0
  IN  byte(start) * BASE * BASE + byte(start + 1) * BASE + byte(start + 2)

\* Faulty variant: the highest bit of the word, a sign, is not kept clear.
target_to_signed_nbits(target) ==
  [size |-> SIZE - FirstByte(target, SIZE),
   word |-> Word(target, FirstByte(target, SIZE))]

target_to_nbits(target) ==
  LET start == FirstByte(target, SIZE)
      word == Word(target, start)
  IN  IF word >= (BASE \div 2) * BASE * BASE
      THEN [size |-> SIZE - start + 1, word |-> word \div BASE]
      ELSE [size |-> SIZE - start, word |-> word]

\* Panics when the size is above SIZE (`32 - n_size`).
nbits_to_target(nbits) ==
  LET start == SIZE - nbits.size
  IN  [pos \in Positions |->
         CASE pos = start -> (nbits.word \div (BASE * BASE)) % (BASE \div 2)
           [] pos = start + 1 -> (nbits.word \div BASE) % BASE
           [] pos = start + 2 -> nbits.word % BASE
           [] OTHER -> 0]

\* `32 - start - 3` underflows, or the divisor is 0.
DifficultyPanics(target) ==
  FirstByte(target, 0) > SIZE - 3 \/ \A i \in Positions : target[i] = 0

get_difficulty(target) ==
  LET start == FirstByte(target, 0)
      shift == SIZE - start - 3
      arr == div_in_place(MAX_DIFFICULTY, Word(target, start))
  IN  [pos \in Positions |-> IF pos < shift THEN 0 ELSE arr[pos - shift]]

\* Faulty variant: divides before it multiplies.
rescaled_too_early(prev_target, time_span) ==
  mul_in_place(div_in_place(prev_target, TARGET_TIMESPAN), time_span)

rescaled(prev_target, time_span) ==
  div_in_place(mul_in_place(prev_target, time_span), TARGET_TIMESPAN)

\* compute_new_nbits after time_span has been clamped.
new_nbits(prev_target, time_span) ==
  target_to_nbits(IF gt_arr(rescaled(prev_target, time_span), UNROUNDED_MAX_TARGET)
                  THEN UNROUNDED_MAX_TARGET
                  ELSE rescaled(prev_target, time_span))

=============================================================================

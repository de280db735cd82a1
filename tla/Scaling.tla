------------------------------ MODULE Scaling ------------------------------
(***************************************************************************)
(* The arithmetic behind one element of C: the accumulator of a PE         *)
(* (logic/pe_array_logic.cpp), the scaler (logic/scaler_logic.cpp), the    *)
(* check of a drain's scale factor (module/top_module.cpp), and the choice *)
(* of that factor from a real scale (testbench/helper/common.h).           *)
(*                                                                         *)
(* Words have their widths, given by the number of their digits as in      *)
(* std::numeric_limits: a type of d digits holds -2^d .. 2^d - 1.  A       *)
(* scale is a double, significand num/den in [1/2, 1) and exponent -exp:   *)
(* doubling it until it is not below 1/2 is exact.                         *)
(***************************************************************************)
EXTENDS Integers

CONSTANTS
  acc_digits,    \* of accType: 31
  input_digits,  \* of inputType: 7
  shift_bits,    \* of ScaleFactor::shift, unsigned: 8
  Scales,        \* the real scales that are tried
  Factors,       \* ScaleFactors that are tried without quantize_scale
  NoScale,
  Inputs,        \* elements of A and B that are tried
  MaxProducts    \* bound on the length of a sum

Signed(digits) == -(2 ^ digits) .. 2 ^ digits - 1

ASSUME DigitsAssumption ==
  /\ acc_digits \in Nat \ {0} /\ input_digits \in Nat /\ shift_bits \in Nat
  /\ 2 * input_digits <= acc_digits

ASSUME InputsAssumption == Inputs \subseteq Signed(input_digits) /\ MaxProducts \in Nat

ASSUME FactorsAssumption ==
  Factors \subseteq [mult : Signed(acc_digits), shift : 0 .. 2 ^ shift_bits - 1]

ASSUME ScalesAssumption ==
  /\ Scales \subseteq [num : Nat, den : Nat, exp : Nat] /\ NoScale \notin Scales
  /\ \A s \in Scales : s.num < s.den /\ s.den <= 2 * s.num

(* Laws of powers, for the exponents that occur *)
ASSUME PowersAssumption ==
  /\ 2 ^ 0 = 1 /\ 2 ^ 1 = 2 /\ 2 ^ input_digits \in Nat \ {0} /\ 2 ^ shift_bits \in Nat \ {0}
  /\ \A j, k \in 0 .. acc_digits + 1 : 2 ^ j \in Nat \ {0} /\ 2 ^ (j + k) = 2 ^ j * 2 ^ k

VARIABLES
  phase,   \* "quantize", "accumulate", "scaled"
  scale,   \* the scale that is wanted, or NoScale
  factor,  \* the ScaleFactor of the drain
  acc,     \* psum of the element
  count,   \* products added to it
  sum,     \* their sum in the integers
  out      \* the element as it is stored

vars == <<phase, scale, factor, acc, count, sum, out>>
-----------------------------------------------------------------------------
(* quantize_scale: the number of doublings is kept in a byte; the nearest  *)
(* multiplier, one less where that is too large.                           *)
multiplier(s) ==
  LET nearest == (2 * s.num * 2 ^ acc_digits + s.den) \div (2 * s.den)
  IN  IF nearest < 2 ^ acc_digits THEN nearest ELSE 2 ^ acc_digits - 1

(* Mutant: the doublings are counted before the test. *)
quantize_scale_CountsFirst(s) ==
  [mult |-> multiplier(s), shift |-> (s.exp + 1) % (2 ^ shift_bits)]

quantize_scale(s) == [mult |-> multiplier(s), shift |-> s.exp % (2 ^ shift_bits)]

(* Mutant: one doubling too many is let through. *)
ShiftFits_OffByOne(sf) == sf.shift <= acc_digits + 1

(* The assertion of quantize_scale *)
ShiftFits(sf) == sf.shift <= acc_digits

(* Mutant: the check of the shift is left out. *)
check_drain_MultOnly(sf) == sf.mult > 0

check_drain(sf) == sf.mult > 0 /\ sf.shift <= acc_digits

(* Mutant: the accumulator saturates. *)
Wrap_Saturating(x) ==
  IF x < -(2 ^ acc_digits) THEN -(2 ^ acc_digits)
  ELSE IF x >= 2 ^ acc_digits THEN 2 ^ acc_digits - 1 ELSE x

(* An unsigned sum as accType *)
Wrap(x) == ((x + 2 ^ acc_digits) % (2 * 2 ^ acc_digits)) - 2 ^ acc_digits

Clamp(x) ==
  IF x < -(2 ^ input_digits) THEN -(2 ^ input_digits)
  ELSE IF x >= 2 ^ input_digits THEN 2 ^ input_digits - 1 ELSE x

total_shift(sf) == acc_digits + sf.shift

(* The sum that scale shifts right *)
Shifted(value, sf) == value * sf.mult + 2 ^ (total_shift(sf) - 1)

(* Mutant: the rounding constant is left out. *)
Scaled_Truncated(value, sf) == Clamp((value * sf.mult) \div 2 ^ total_shift(sf))

Scaled(value, sf) == Clamp(Shifted(value, sf) \div 2 ^ total_shift(sf))
-----------------------------------------------------------------------------
Init ==
  /\ \/ phase = "quantize" /\ scale \in Scales /\ factor = [mult |-> 0, shift |-> 0]
     \/ phase = "accumulate" /\ scale = NoScale /\ factor \in Factors
  /\ acc = 0 /\ count = 0 /\ sum = 0 /\ out = 0

Quantize ==
  /\ phase = "quantize"
  /\ factor' = quantize_scale(scale)
  /\ ShiftFits(factor')
  /\ phase' = "accumulate"
  /\ UNCHANGED <<scale, acc, count, sum, out>>

(* shift_in adds a product to psum. *)
Accumulate(a, b) ==
  /\ phase = "accumulate" /\ count < MaxProducts
  /\ acc' = Wrap(acc + a * b)
  /\ sum' = sum + a * b
  /\ count' = count + 1
  /\ UNCHANGED <<phase, scale, factor, out>>

(* shift_out of the row, and the scaler *)
Drain ==
  /\ phase = "accumulate" /\ check_drain(factor)
  /\ out' = Scaled(acc, factor)
  /\ acc' = 0
  /\ phase' = "scaled"
  /\ UNCHANGED <<scale, factor, count, sum>>

Next == Quantize \/ (\E a, b \in Inputs : Accumulate(a, b)) \/ Drain

Spec == Init /\ [][Next]_vars
-----------------------------------------------------------------------------
(* The variables hold values of their types. *)
TypeOK ==
  /\ phase \in {"quantize", "accumulate", "scaled"}
  /\ scale \in Scales \cup {NoScale}
  /\ factor \in [mult : Signed(acc_digits), shift : 0 .. 2 ^ shift_bits - 1]
  /\ acc \in Signed(acc_digits) /\ sum \in Int /\ count \in 0 .. MaxProducts
  /\ out \in Signed(input_digits)

(* Sums may leave accType on the way: the accumulator is right whenever    *)
(* the sum so far is in it again, and otherwise wrong by whole words only. *)
AccumulatorWraps ==
  phase # "scaled" =>
    /\ sum \in Signed(acc_digits) => acc = sum
    /\ (sum - acc) % (2 * 2 ^ acc_digits) = 0

(* What scale shifts fits in 64 bits (twice accType), whatever was         *)
(* accumulated, for every factor check_drain lets pass.                    *)
ProductFits ==
  phase = "accumulate" /\ check_drain(factor) =>
    /\ acc * factor.mult \in Signed(2 * acc_digits + 1)
    /\ total_shift(factor) - 1 < 2 * acc_digits + 1
    /\ Shifted(acc, factor) \in Signed(2 * acc_digits + 1)

(* The element stored is sum * mult / 2^(digits + shift) rounded half up,  *)
(* or the end of inputType on its side: q is the nearest integer.          *)
RoundsHalfUp ==
  phase = "scaled" /\ sum \in Signed(acc_digits) =>
    LET den == 2 ^ total_shift(factor)
        num == sum * factor.mult
    IN  \/ (2 * out - 1) * den <= 2 * num /\ 2 * num < (2 * out + 1) * den
        \/ out = 2 ^ input_digits - 1 /\ 2 * num >= (2 * out + 1) * den
        \/ out = -(2 ^ input_digits) /\ 2 * num < (2 * out - 1) * den

(* The element stored is at most one away from the real product            *)
(* sum * scale, clamped to inputType: the two roundings do not add up to   *)
(* more than one unit.                                                     *)
NearRealScale ==
  phase = "scaled" /\ scale # NoScale /\ sum \in Signed(acc_digits) =>
    LET den == scale.den * 2 ^ scale.exp
        num == sum * scale.num
        lo  == -(2 ^ input_digits) * den
        hi  == (2 ^ input_digits - 1) * den
        clamped == IF num < lo THEN lo ELSE IF num > hi THEN hi ELSE num
    IN  out * den - clamped \in -den .. den

(* A factor that quantize_scale returns, its assertions passed, is one     *)
(* that check_drain accepts.                                               *)
QuantizedIsAccepted ==
  phase = "accumulate" /\ scale # NoScale => check_drain(factor)
=============================================================================

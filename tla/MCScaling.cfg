\* Words of 3 and 6 bits; scales from just under 1 to beyond the shifter, and
\* sums long enough to leave accType and come back.
SPECIFICATION Spec
CONSTANTS
  acc_digits = 5
  input_digits = 2
  shift_bits = 8
  Inputs <- MCInputs
  Scales <- MCScales
  Factors <- MCFactors
  NoScale = NoScale
  MaxProducts = 6
INVARIANTS AccumulatorWraps ProductFits RoundsHalfUp NearRealScale QuantizedIsAccepted
\* A scale may be refused, and a sum ends with its drain.
CHECK_DEADLOCK FALSE

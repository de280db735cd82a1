----------------------------- MODULE MCScaling -----------------------------
(* Scales and factors of Scaling for TLC. *)
EXTENDS Scaling

Significands == {[num |-> n, den |-> 128] : n \in {64, 65, 86, 107, 125, 126, 127}}

ScalesOf(exps) ==
  {[num |-> s.num, den |-> s.den, exp |-> e] : s \in Significands, e \in exps}

MCInputs == {-4, -3, 1, 3}

MCFactors == [mult : {-1, 0, 1, 16, 31}, shift : {0, 1, 5, 6, 7, 8}]

MCScales == ScalesOf({0, 1, 2, 4, 5, 6, 7, 12})
=============================================================================

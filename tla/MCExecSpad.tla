----------------------------- MODULE MCExecSpad -----------------------------
(* An instance of ExecSpad for TLC: the first gemm's tiles lie in one bank *)
(* and the second's are spread over both, so that a gemm's reads queue     *)
(* behind one another, behind its own drain, and behind the others.        *)
EXTENDS ExecSpad

MCTileAddr   == [A |-> <<0, 8>>, B |-> <<4, 10>>, C |-> <<1, 5>>]
MCTileStride == [A |-> <<2, 1>>, B |-> <<2, 3>>, C |-> <<2, 2>>]
=============================================================================

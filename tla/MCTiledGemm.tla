---------------------------- MODULE MCTiledGemm ----------------------------
(* Products of TiledGemm for TLC. *)
EXTENDS TiledGemm

MCSizes == {[M |-> m, K |-> k, N |-> n] : m, k, n \in 1 .. 5} \cup {[M |-> 7, K |-> 7, N |-> 8]}
=============================================================================

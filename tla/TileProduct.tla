----------------------------- MODULE TileProduct -----------------------------
(***************************************************************************)
(* What the issuer of gemm and drain instructions relies on (isa.h), with  *)
(* nothing of the array, the buffers and the timing that provide it: the   *)
(* gemms on a psum buffer accumulate until a drain, which writes every row *)
(* of the accumulated product, scaled by its own factor, exactly once and  *)
(* is complete when all of them are written.  ExecEngine implements this   *)
(* specification.                                                          *)
(*                                                                         *)
(* A product is the bag of the pairs <<row of A, row of B>> multiplied     *)
(* into one element; a row is named <<gemm, index in the tile>>.           *)
(***************************************************************************)
EXTENDS Naturals, Sequences, Bags

CONSTANTS
  DIM,      \* array dimension and rows of a tile
  Program,  \* gemms and drains, [op, psum_index, is_flush], in issue order
  NULL      \* a row not written

Ids    == 1 .. Len(Program)
Gemms  == {id \in Ids : Program[id].op = "gemm"}
Drains == {id \in Ids : Program[id].op = "drain"}
Lanes  == 0 .. DIM - 1

(* The gemms a drain finds in its buffer: those since the drain before it. *)
ChainOf(d) ==
  {g \in Gemms :
     /\ g < d /\ Program[g].psum_index = Program[d].psum_index
     /\ ~ Program[g].is_flush
     /\ \A e \in Drains : g < e /\ e < d =>
          Program[e].psum_index # Program[d].psum_index}

Product(d) == SetToBag({<<r, r>> : r \in ChainOf(d) \X Lanes})

ProductRow(d) == [acc |-> [j \in Lanes |-> Product(d)], scale_factor |-> d]

VARIABLES
  issued,     \* the last instruction issued, 0 at first
  completed,  \* the instructions reported complete
  C           \* C[drain][row], NULL until it is written

vars == <<issued, completed, C>>

Init ==
  /\ issued = 0
  /\ completed = {}
  /\ C = [d \in Drains |-> [row \in Lanes |-> NULL]]

Issue ==
  /\ issued < Len(Program)
  /\ issued' = issued + 1
  /\ UNCHANGED <<completed, C>>

WriteRow(d, row) ==
  /\ d <= issued
  /\ ChainOf(d) \subseteq completed
  /\ C[d][row] = NULL
  /\ C' = [C EXCEPT ![d][row] = ProductRow(d)]
  /\ UNCHANGED <<issued, completed>>

(* Instructions of a kind complete in the order they were issued. *)
Complete(id) ==
  /\ id <= issued
  /\ id \notin completed
  /\ \A e \in 1 .. id - 1 : Program[e].op = Program[id].op => e \in completed
  /\ id \in Drains => \A row \in Lanes : C[id][row] # NULL
  /\ completed' = completed \cup {id}
  /\ UNCHANGED <<issued, C>>

Next ==
  \/ Issue
  \/ \E d \in Drains, row \in Lanes : WriteRow(d, row)
  \/ \E id \in Ids : Complete(id)

SafeSpec == Init /\ [][Next]_vars

(* Every instruction that is issued is reported complete. *)
Spec ==
  /\ SafeSpec
  /\ \A id \in Ids : (id <= issued) ~> (id \in completed)
=============================================================================

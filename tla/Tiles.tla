------------------------------- MODULE Tiles -------------------------------
(***************************************************************************)
(* The tiles that mvin and mvout instructions move (MvinInstr and          *)
(* MvoutInstr of src/include/isa.h): their numbers and their rows.  A row  *)
(* is named by its instruction and its index in the tile, which stands for *)
(* its address and, in the source, for its contents.                       *)
(***************************************************************************)
EXTENDS Naturals

CONSTANTS
  N_INSTRS,  \* instructions of this kind, numbered in the order of their ids
  Rows,      \* Rows[id], dims.rows of the instruction's tile
  NULL       \* no row

Instrs == 1 .. N_INSTRS

(* check_mvin and check_mvout refuse an instruction without rows. *)
ASSUME InstrAssumption == N_INSTRS \in Nat /\ Rows \in [Instrs -> Nat \ {0}]

TileRows == UNION {{id} \X (0 .. Rows[id] - 1) : id \in Instrs}
ASSUME NullAssumption == NULL \notin TileRows
=============================================================================

---------------------------- MODULE MCScoreboard ----------------------------
(* Programs of Scoreboard for TLC, with one cell per tile.                 *)
EXTENDS Scoreboard

CONSTANTS N_BANKS, N_ROWS_PER_BANK, DIM

(* Tiles by their address; only those the programs below use are cells. *)
SpadCell(slot)  == <<"spad", slot>>
DramCell(addr)  == <<"dram", addr>>
PsumCell(index) == <<"psum", index>>

a0 == SpadCell(0)
b0 == SpadCell(1)
c0 == SpadCell(2)
dA == DramCell(0)
dB == DramCell(2)
dC == DramCell(4)
psum0 == PsumCell(0)
psum1 == PsumCell(1)

MCCells ==
  {array} \cup {SpadCell(slot) : slot \in 0 .. 2} \cup {PsumCell(index) : index \in 0 .. 1}
    \cup {DramCell(addr) : addr \in {0, 2, 4, 8, 10, 16, 18, 24, 26, 32, 34, 40, 42}}

(* One output tile in the manner of scheduler B: a K-loop whose second A   *)
(* tile overwrites the first (WAR), flush, drain, store and reload.        *)
OneTile ==
  << Mvin({a0}, {dA}), Mvin({b0}, {dB}), Gemm({a0}, {b0}, psum0),
     Mvin({a0}, {dB}), Gemm({a0}, {b0}, psum0), GemmFlush(psum0),
     Drain({c0}, psum0), Mvout({c0}, {dC}), Fence >>

(* Two tiles on the two psum buffers, the second into the C tile that is   *)
(* still being stored.                                                     *)
TwoTiles ==
  << Mvin({a0}, {dA}), Gemm({a0}, {b0}, psum0), GemmFlush(psum0),
     Drain({c0}, psum0), Mvout({c0}, {dC}), Gemm({a0}, {b0}, psum1),
     GemmFlush(psum1), Drain({c0}, psum1), Fence, Mvout({c0}, {dA}) >>

(* Loads and stores that chase each other through two tiles.               *)
LoadsAndStores ==
  << Mvin({a0}, {dA}), Mvin({b0}, {dA}), Mvout({a0}, {dC}), Mvin({b0}, {dC}),
     Mvin({a0}, {dB}), Fence, Mvout({a0, b0}, {dA}), Mvin({c0}, {dA}) >>

(* Every program of four of these on one tile and one psum buffer.         *)
Menu == { Mvin({a0}, {dA}), Mvout({a0}, {dA}), Gemm({a0}, {b0}, psum0),
          GemmFlush(psum0), Drain({a0}, psum0) }

(* Scheduler B: the programs of TiledGemm *)
Loop(s) == INSTANCE TiledGemm WITH
  Sizes <- {s}, Layouts <- {"RowMajor"}, size <- s, layout <- "RowMajor",
  step <- "schedule", C_hardware <- << >>,
  iteration <- 0, todo <- << >>, alloc <- << >>, psum_index <- 0,
  dram <- << >>, spad <- << >>, psum <- << >>, in_array <- << >>

(* A product of MT x KT by KT x NT whole tiles *)
Tiling(MT, KT, NT) == [M |-> MT * DIM, K |-> KT * DIM, N |-> NT * DIM]

OnScoreboard(i) ==
  CASE i.op = "mvin"  -> Mvin({SpadCell(i.spad)}, {DramCell(i.dram)})
    [] i.op = "mvout" -> Mvout({SpadCell(i.spad)}, {DramCell(i.dram)})
    [] i.op = "gemm"  -> Gemm({SpadCell(i.A_addr)}, {SpadCell(i.B_addr)}, PsumCell(i.psum))
    [] i.op = "flush" -> GemmFlush(PsumCell(i.psum))
    [] i.op = "drain" -> Drain({SpadCell(i.C_addr)}, PsumCell(i.psum))

ProgramOf(s) ==
  LET instrs == Loop(s)!Program
  IN  Append([k \in 1 .. Len(instrs) |-> OnScoreboard(instrs[k])], Fence)

Tilings == {Tiling(2, 1, 2), Tiling(1, 2, 2), Tiling(2, 2, 2)}

MCPrograms ==
  {OneTile, TwoTiles, LoadsAndStores}
    \cup {p \in [1 .. 4 -> Menu] : DrainsClosedChains(p)}
    \cup {ProgramOf(s) : s \in Tilings}
=============================================================================
